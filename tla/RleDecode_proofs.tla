--------------------------- MODULE RleDecode_proofs ---------------------------
(***************************************************************************)
(* Proofs about the RLE decoder loop of RleDecode, for every geometry,     *)
(* pixel size and stream.                                                  *)
(*                                                                         *)
(* TypeOK alone is not inductive: a handler writes pixels computed from    *)
(* the row above, and that they are pixels (not the NoPel of an unwritten  *)
(* cell) rests on two more facts.  IInv adds them:                         *)
(*   Prefix  the written cells are exactly those below the cursor, and     *)
(*   FlagOK  fFirstLine is cleared only once the cursor is a row in.       *)
(***************************************************************************)
EXTENDS RleDecode, TLAPS

Prefix == \A k \in Cells : dest[k] # NoPel <=> k < dp
FlagOK == ~fFirstLine => dp * PixelSize >= RowDelta

IInv == TypeOK /\ Prefix /\ FlagOK



-----------------------------------------------------------------------------
(* Facts about the stream and the run-length extraction.                   *)

LEMMA StreamType ==
  ASSUME NEW s \in Streams
  PROVE  /\ Len(s) \in Nat
         /\ \A i \in 1..Len(s) : s[i] \in 0..255
<1>1. PICK n \in 0..MaxSrc : s \in [1..n -> Bytes]
  BY DEF Streams
<1>2. s \in Seq(Bytes) /\ Len(s) = n
  BY <1>1
<1>3. \A i \in 1..n : s[i] \in Bytes
  BY <1>1
<1>4. n \in Nat /\ Bytes \subseteq 0..255
  BY StreamAssumption
<1>5. QED
  BY <1>2, <1>3, <1>4

(* A byte of the stream, inside or past its end, is a byte.                *)
LEMMA ByteType ==
  ASSUME TypeOK, NEW i \in Nat
  PROVE  Byte(i) \in 0..255
<1>1. Len(src) \in Nat /\ \A j \in 1..Len(src) : src[j] \in 0..255
  BY StreamType DEF TypeOK
<1>2. QED
  BY <1>1 DEF Byte

(* The geometry: a destination of DestPix pixels, RowPix to a row.         *)
LEMMA GeometryFacts ==
  /\ PixelSize \in 1..3
  /\ RowPix \in Nat
  /\ DestPix \in Nat
  /\ RowDelta = RowPix * PixelSize
  /\ NoPel \notin Pel
<1>1. PixelSize \in {1, 2, 3} /\ RowDelta \in Nat /\ Height \in Nat
      /\ RowDelta % PixelSize = 0
  BY PixelSizeAssumption, GeometryAssumption
<1>2. RowPix \in Nat /\ RowDelta = RowPix * PixelSize
  BY <1>1 DEF RowPix
<1>3. DestPix \in Nat
  BY <1>2, <1>1 DEF DestPix
<1>4. NoPel \notin Pel
  BY NoPelAssumption DEF Pel
<1>5. QED
  BY <1>1, <1>2, <1>3, <1>4

(* What ExtractRunLength returns: a length, and an advance of 1 to 3 bytes *)
(* that stays inside the stream, or 0 for a header cut short.              *)
RunLengths == {r \in [len : Nat, adv : 0..3] : r.adv > 0 => sp + r.adv <= Len(src)}

LEMMA RunLengthType ==
  ASSUME TypeOK, sp < Len(src), NEW c
  PROVE  ExtractRunLength(c) \in RunLengths
<1>1. Len(src) \in Nat /\ sp \in Nat
  BY StreamType DEF TypeOK
<1>2. /\ Byte(sp) \in 0..255
      /\ Byte(sp + 1) \in 0..255
      /\ Byte(sp + 2) \in 0..255
  BY <1>1, ByteType
<1>3. ASSUME NEW bits \in {16, 32}, NEW scale \in {1, 8}, NEW base \in {1, 16, 32}
      PROVE  ShortRun(Byte(sp), bits, scale, base) \in RunLengths
  <2>1. \A h, b \in 0..255 :
          (IF h % bits # 0 THEN [len |-> (h % bits) * scale, adv |-> 1]
           ELSE IF SrcHas(sp, 2) THEN [len |-> b + base, adv |-> 2]
           ELSE [len |-> 0, adv |-> 0]) \in RunLengths
    BY <1>1 DEF SrcHas, RunLengths
  <2>2. QED
    BY <1>2, <2>1, Zenon DEF ShortRun
<1>4. (IF SrcHas(sp, 3) THEN [len |-> Byte(sp + 1) + 256 * Byte(sp + 2), adv |-> 3]
       ELSE [len |-> 0, adv |-> 0]) \in RunLengths
  <2>1. \A b1, b2 \in 0..255 :
          (IF SrcHas(sp, 3) THEN [len |-> b1 + 256 * b2, adv |-> 3]
           ELSE [len |-> 0, adv |-> 0]) \in RunLengths
    BY <1>1 DEF SrcHas, RunLengths
  <2>2. QED
    BY <1>2, <2>1, Zenon
<1>5. QED
  BY <1>3, <1>4 DEF ExtractRunLength

(* Xor yields a pixel whatever it is given.                                *)
LEMMA XorType == \A a, b : Xor(a, b) \in Pel
  BY DEF Xor, Pel

(* Emit writes w pixels at the cursor and moves it past them: the buffer   *)
(* keeps its type and the written cells stay the prefix below the cursor.  *)
(* The pixels are given as a function f, so that the lemma applies to the  *)
(* value operator of every handler.                                        *)
EmitSet(w, f) ==
  /\ dest' = [k \in Cells |-> IF dp <= k /\ k < dp + w THEN f[k] ELSE dest[k]]
  /\ dp' = dp + w

LEMMA EmitStep ==
  ASSUME TypeOK, Prefix, NEW w \in Nat, dp + w <= DestPix,
         NEW f, \A k \in Cells : dp <= k /\ k < dp + w => f[k] \in Pel,
         EmitSet(w, f)
  PROVE  /\ dest' \in [Cells -> Pel \cup {NoPel}]
         /\ Prefix'
<1>1. dp \in Nat /\ DestPix \in Nat /\ NoPel \notin Pel
  BY GeometryFacts DEF TypeOK
<1>2. dest' \in [Cells -> Pel \cup {NoPel}]
  BY <1>1 DEF EmitSet, TypeOK, Cells
<1>3. Prefix'
  <2>1. SUFFICES ASSUME NEW k \in Cells
                 PROVE  dest'[k] # NoPel <=> k < dp'
    BY DEF Prefix
  <2>2. CASE dp <= k /\ k < dp + w
    <3>1. dest'[k] = f[k] /\ dp' = dp + w
      BY <2>2 DEF EmitSet
    <3>2. f[k] \in Pel
      BY <2>2
    <3>3. QED
      BY <1>1, <2>2, <3>1, <3>2 DEF Cells
  <2>3. CASE ~(dp <= k /\ k < dp + w)
    <3>1. dest'[k] = dest[k]
      BY <2>3 DEF EmitSet
    <3>2. dest[k] # NoPel <=> k < dp
      BY DEF Prefix
    <3>3. QED
      BY <1>1, <2>3, <3>1, <3>2 DEF EmitSet, Cells
  <2>4. QED
    BY <2>2, <2>3
<1>4. QED
  BY <1>2, <1>3

(* The first-scanline check never clears fFirstLine before a full row.     *)
LEMMA FlagStep ==
  ASSUME TypeOK, FlagOK, fFirstLine' = FirstLine, NEW w \in Nat, dp' = dp + w
  PROVE  FlagOK'
<1>1. dp \in Nat /\ PixelSize \in 1..3
  BY GeometryFacts DEF TypeOK
<1>2. \A a, b \in Nat, p \in 1..3 : a * p >= RowDelta => (a + b) * p >= RowDelta
  <2>1. SUFFICES ASSUME NEW a \in Nat, NEW b \in Nat, NEW p \in 1..3, a * p >= RowDelta
                 PROVE  (a + b) * p >= RowDelta
    OBVIOUS
  <2>2. (a + b) * p = a * p + b * p /\ b * p >= 0
    OBVIOUS
  <2>3. QED
    BY <2>1, <2>2, GeometryAssumption
<1>3. ASSUME ~fFirstLine' PROVE dp * PixelSize >= RowDelta
  <2>1. ~fFirstLine \/ ~(dp * PixelSize < RowDelta)
    BY <1>3, Zenon DEF FirstLine
  <2>2. \A x \in Int : ~(x < RowDelta) => x >= RowDelta
    BY GeometryAssumption
  <2>3. dp * PixelSize \in Int
    BY <1>1
  <2>4. QED
    BY <2>1, <2>2, <2>3, Zenon DEF FlagOK
<1>4. QED
  BY <1>1, <1>2, <1>3, Zenon DEF FlagOK

(* A step that writes nothing keeps the written prefix.                    *)
LEMMA NoWriteStep ==
  ASSUME Prefix, dest' = dest, dp' = dp
  PROVE  Prefix'
BY Zenon DEF Prefix

(* The frame of one loop pass: the stream is unchanged, the source cursor  *)
(* moves forward by d bytes inside it, the destination cursor by w pixels  *)
(* inside the buffer, fFirstLine is the result of the first-scanline check *)
(* and the buffer keeps its shape.                                          *)
LEMMA PassStep ==
  ASSUME IInv, src' = src,
         NEW s2 \in sp .. Len(src), sp' = s2,
         NEW w \in Nat, dp' = dp + w, dp + w <= DestPix,
         dest' \in [Cells -> Pel \cup {NoPel}], Prefix',
         fgPel' \in Pel, fInsertFgPel' \in BOOLEAN, fFirstLine' = FirstLine,
         status' \in {"running", "success", "failure"}
  PROVE  IInv'
<1>1. Len(src) \in Nat /\ sp \in Nat /\ dp \in Nat /\ DestPix \in Nat
  BY StreamType, GeometryFacts DEF IInv, TypeOK
<1>2. FlagOK'
  BY FlagStep DEF IInv
<1>3. fFirstLine' \in BOOLEAN
  BY Zenon DEF FirstLine
<1>4. sp' \in 0 .. Len(src') /\ dp' \in 0 .. DestPix
  BY <1>1
<1>5. src' \in Streams
  BY DEF IInv, TypeOK
<1>6. QED
  BY <1>2, <1>3, <1>4, <1>5, Zenon DEF IInv, TypeOK

(* A pass that writes nothing, and one that writes w pixels given by f.   *)
LEMMA StillStep ==
  ASSUME IInv, src' = src,
         NEW s2 \in sp .. Len(src), sp' = s2,
         dp' = dp, dest' = dest,
         fgPel' \in Pel, fInsertFgPel' \in BOOLEAN, fFirstLine' = FirstLine,
         status' \in {"running", "success", "failure"}
  PROVE  IInv'
<1>1. dp \in Nat /\ dp <= DestPix /\ dp' = dp + 0 /\ dp + 0 <= DestPix
  BY GeometryFacts DEF IInv, TypeOK
<1>2. Prefix' /\ dest' \in [Cells -> Pel \cup {NoPel}]
  BY NoWriteStep DEF IInv, TypeOK
<1>3. QED
  BY <1>1, <1>2, PassStep

LEMMA WriteStep ==
  ASSUME IInv, src' = src,
         NEW s2 \in sp .. Len(src), sp' = s2,
         NEW w \in Nat, dp + w <= DestPix,
         NEW f, \A k \in Cells : dp <= k /\ k < dp + w => f[k] \in Pel,
         EmitSet(w, f),
         fgPel' \in Pel, fInsertFgPel' \in BOOLEAN, fFirstLine' = FirstLine,
         status' \in {"running", "success", "failure"}
  PROVE  IInv'
<1>1. dp' = dp + w
  BY DEF EmitSet
<1>2. Prefix' /\ dest' \in [Cells -> Pel \cup {NoPel}]
  BY EmitStep DEF IInv
<1>3. QED
  BY <1>1, <1>2, PassStep

-----------------------------------------------------------------------------
(* The initial states.                                                     *)

LEMMA InitIInv == Init => IInv
<1>1. SUFFICES ASSUME Init PROVE IInv
  OBVIOUS
<1>2. Len(src) \in Nat /\ DestPix \in Nat /\ NoPel \notin Pel
  BY <1>1, StreamType, GeometryFacts DEF Init
<1>3. TypeOK
  <2>1. src \in Streams /\ sp \in 0 .. Len(src) /\ dp \in 0 .. DestPix
    BY <1>1, <1>2 DEF Init
  <2>2. dest \in [Cells -> Pel \cup {NoPel}]
    BY <1>1 DEF Init
  <2>3. fgPel \in Pel /\ fInsertFgPel \in BOOLEAN /\ fFirstLine \in BOOLEAN
    BY <1>1 DEF Init, Pel, WHITE_PIXEL
  <2>4. status \in {"running", "success", "failure"}
    BY <1>1 DEF Init
  <2>5. QED
    BY <2>1, <2>2, <2>3, <2>4 DEF TypeOK
<1>4. Prefix
  BY <1>1, <1>2 DEF Init, Prefix, Cells
<1>5. FlagOK
  BY <1>1 DEF Init, FlagOK
<1>6. QED
  BY <1>3, <1>4, <1>5 DEF IInv

-----------------------------------------------------------------------------
(* The start of a loop pass.                                               *)

(* The run header of the order at the source cursor.                       *)
RL == ExtractRunLength(ExtractCodeId(Byte(sp)))

LEMMA OrderFacts ==
  ASSUME IInv, NEW codes, Order(codes)
  PROVE  /\ status = "running" /\ src' = src /\ fFirstLine' = FirstLine
         /\ Len(src) \in Nat /\ sp \in Nat /\ sp < Len(src)
         /\ dp \in Nat /\ DestPix \in Nat /\ dp <= DestPix
         /\ PixelSize \in 1..3 /\ fgPel \in Pel
         /\ RL \in RunLengths
<1>1. status = "running" /\ src' = src /\ fFirstLine' = FirstLine /\ sp < Len(src)
  BY Zenon DEF Order
<1>2. Len(src) \in Nat /\ sp \in Nat /\ dp \in Nat /\ DestPix \in Nat /\ dp <= DestPix
      /\ PixelSize \in 1..3 /\ fgPel \in Pel
  BY StreamType, GeometryFacts DEF IInv, TypeOK
<1>3. RL \in RunLengths
  BY <1>1, RunLengthType DEF IInv, RL
<1>4. QED
  BY <1>1, <1>2, <1>3

(* A literal pixel read from the stream is a pixel.                        *)
LEMMA SrcPelType ==
  ASSUME TypeOK, NEW i \in Nat
  PROVE  SrcPel(i) \in Pel
<1>1. Byte(i) \in 0..255
  BY ByteType
<1>2. \A b \in 0..255 : b % 2 \in Pel
  BY DEF Pel
<1>3. QED
  BY <1>1, <1>2, Zenon DEF SrcPel

-----------------------------------------------------------------------------
(* One lemma per handler: each pass preserves IInv.                         *)

(* Colour run (bitmap.h:270-284).                                          *)
(* A read of n units at position a, which the source still holds, stays  *)
(* within the part of the source from s on.                               *)
LEMMA ReadWithin ==
  ASSUME NEW s \in Nat, NEW a \in Nat, NEW L \in Nat, NEW n \in Nat,
         s <= a, a <= L, L - a >= n
  PROVE  a + n \in s .. L
  OBVIOUS

LEMMA ColorRunStep ==
  ASSUME IInv, ColorRun
  PROVE  IInv'
<1>1. Order({REGULAR_COLOR_RUN, MEGA_MEGA_COLOR_RUN})
  BY DEF ColorRun
<1>2. /\ status = "running" /\ src' = src /\ fFirstLine' = FirstLine
      /\ Len(src) \in Nat /\ sp \in Nat /\ sp < Len(src)
      /\ dp \in Nat /\ DestPix \in Nat /\ dp <= DestPix
      /\ PixelSize \in 1..3 /\ fgPel \in Pel
      /\ RL \in RunLengths
  BY <1>1, OrderFacts
<1>3. fInsertFgPel' = FALSE /\ fgPel' = fgPel
  BY DEF ColorRun
<1>4. /\ RL.len \in Nat /\ RL.adv \in 0..3
      /\ RL.adv > 0 => sp + RL.adv <= Len(src)
  BY <1>2 DEF RunLengths
<1>5. fInsertFgPel' \in BOOLEAN /\ fgPel' \in Pel
  BY <1>2, <1>3
<1>6. TypeOK /\ Prefix
  BY DEF IInv
<1>7. /\ sp \in sp .. Len(src)
      /\ RL.adv > 0 => sp + RL.adv \in sp .. Len(src)
      /\ RL.adv > 0 /\ SrcHas(sp + RL.adv, PixelSize)
           => sp + RL.adv + PixelSize \in sp .. Len(src)
      /\ DestPix - dp >= RL.len => dp + RL.len <= DestPix
  <2>1. SrcHas(sp + RL.adv, PixelSize) => Len(src) - (sp + RL.adv) >= PixelSize
    BY DEF SrcHas
  <2>2. sp \in sp .. Len(src)
    BY <1>2
  <2>3. RL.adv > 0 => sp + RL.adv \in sp .. Len(src)
    BY <1>2, <1>4
  <2>4. RL.adv > 0 /\ SrcHas(sp + RL.adv, PixelSize)
           => sp + RL.adv + PixelSize \in sp .. Len(src)
    <3>1. sp + RL.adv \in Nat /\ PixelSize \in Nat /\ sp <= sp + RL.adv
      BY <1>2, <1>4
    <3>. QED  BY <1>2, <1>4, <2>1, <3>1, ReadWithin
  <2>5. DestPix - dp >= RL.len => dp + RL.len <= DestPix
    BY <1>2, <1>4
  <2>. QED  BY <2>2, <2>3, <2>4, <2>5
<1>20. CASE RL.adv = 0 /\ Abort /\ UNCHANGED <<sp, dp, dest>>
  BY <1>2, <1>5, <1>7, <1>20, StillStep DEF Abort
<1>8. CASE RL.adv > 0 /\ ~SrcHas(sp + RL.adv, PixelSize)
           /\ Abort /\ sp' = sp + RL.adv /\ UNCHANGED <<dp, dest>>
  BY <1>2, <1>5, <1>7, <1>8, StillStep DEF Abort
<1>9. CASE RL.adv > 0 /\ SrcHas(sp + RL.adv, PixelSize)
           /\ sp' = sp + RL.adv + PixelSize
           /\ DestPix - dp < RL.len /\ Abort /\ UNCHANGED <<dp, dest>>
  BY <1>2, <1>5, <1>7, <1>9, StillStep DEF Abort
<1>10. CASE RL.adv > 0 /\ SrcHas(sp + RL.adv, PixelSize)
           /\ sp' = sp + RL.adv + PixelSize
           /\ DestPix - dp >= RL.len /\ Emit(RL.len, [k \in Cells |-> SrcPel(sp + RL.adv)])
           /\ UNCHANGED status
  <2> DEFINE f == [k \in Cells |-> SrcPel(sp + RL.adv)]
  <2>1. sp + RL.adv + PixelSize \in sp .. Len(src) /\ dp + RL.len <= DestPix
    BY <1>7, <1>10
  <2>2. EmitSet(RL.len, f)
    BY <1>10 DEF Emit, EmitSet
  <2>3. \A k \in Cells : dp <= k /\ k < dp + RL.len => f[k] \in Pel
    BY <1>2, <1>4, <1>6, SrcPelType
  <2>4. status' \in {"running", "success", "failure"}
    BY <1>2, <1>10
  <2>5. QED
    BY <1>2, <1>4, <1>5, <1>10, <2>1, <2>2, <2>3, <2>4, WriteStep
<1>11. QED
  BY <1>20, <1>8, <1>9, <1>10 DEF ColorRun, RL

(* The white and black orders (bitmap.h:420-441).                          *)
LEMMA SpecialPelStep ==
  ASSUME IInv, SpecialPel
  PROVE  IInv'
<1>1. Order({SPECIAL_WHITE, SPECIAL_BLACK})
  BY DEF SpecialPel
<1>2. /\ status = "running" /\ src' = src /\ fFirstLine' = FirstLine
      /\ Len(src) \in Nat /\ sp \in Nat /\ sp < Len(src)
      /\ dp \in Nat /\ DestPix \in Nat /\ dp <= DestPix
      /\ PixelSize \in 1..3 /\ fgPel \in Pel
      /\ RL \in RunLengths
  BY <1>1, OrderFacts
<1>3. /\ fInsertFgPel' = FALSE /\ fgPel' = fgPel /\ sp' = sp + 1
      /\ fInsertFgPel' \in BOOLEAN /\ fgPel' \in Pel
  BY <1>2 DEF SpecialPel
<1>4. sp + 1 \in sp .. Len(src) /\ (DestPix - dp >= 1 => dp + 1 <= DestPix)
  BY <1>2
<1>5. CASE DestPix - dp < 1 /\ Abort /\ UNCHANGED <<dp, dest>>
  BY <1>2, <1>3, <1>4, <1>5, StillStep DEF Abort
<1>6. CASE DestPix - dp >= 1 /\ Emit(1, [k \in Cells |-> IF ExtractCodeId(Byte(sp)) = SPECIAL_WHITE
                                                   THEN WHITE_PIXEL ELSE BLACK_PIXEL])
           /\ UNCHANGED status
  <2> DEFINE f == [k \in Cells |-> IF ExtractCodeId(Byte(sp)) = SPECIAL_WHITE
                                   THEN WHITE_PIXEL ELSE BLACK_PIXEL]
  <2>1. EmitSet(1, f)
    BY <1>6 DEF Emit, EmitSet
  <2>2. \A k \in Cells : dp <= k /\ k < dp + 1 => f[k] \in Pel
    BY DEF Pel, WHITE_PIXEL, BLACK_PIXEL
  <2>3. status' \in {"running", "success", "failure"} /\ dp + 1 <= DestPix
    BY <1>2, <1>4, <1>6
  <2>4. QED
    BY <1>2, <1>3, <1>4, <2>1, <2>2, <2>3, WriteStep
<1>7. QED
  BY <1>5, <1>6 DEF SpecialPel

(* An unknown order code (bitmap.h:443-446).                               *)
LEMMA BadCodeStep ==
  ASSUME IInv, BadCode
  PROVE  IInv'
<1>1. Order((0..255) \ KnownCodes)
  BY DEF BadCode
<1>2. /\ status = "running" /\ src' = src /\ fFirstLine' = FirstLine
      /\ Len(src) \in Nat /\ sp \in Nat /\ sp < Len(src)
      /\ fgPel \in Pel
  BY <1>1, OrderFacts
<1>3. /\ fInsertFgPel' = FALSE /\ UNCHANGED <<sp, dp, dest, fgPel>>
      /\ status' = "failure"
  BY DEF BadCode, Abort
<1>4. sp \in sp .. Len(src)
  BY <1>2
<1>5. QED
  BY <1>2, <1>3, <1>4, StillStep

(* The end of the stream (bitmap.h:133, 450).                              *)
LEMMA FinishStep ==
  ASSUME IInv, Finish
  PROVE  IInv'
BY DEF Finish, IInv, TypeOK, Prefix, FlagOK


(* Dithered run (bitmap.h:247-267).                                        *)
LEMMA DitheredRunStep ==
  ASSUME IInv, DitheredRun
  PROVE  IInv'
<1>1. Order({LITE_DITHERED_RUN, MEGA_MEGA_DITHERED_RUN})
  BY DEF DitheredRun
<1>2. /\ status = "running" /\ src' = src /\ fFirstLine' = FirstLine
      /\ Len(src) \in Nat /\ sp \in Nat /\ sp < Len(src)
      /\ dp \in Nat /\ DestPix \in Nat /\ dp <= DestPix
      /\ PixelSize \in 1..3 /\ fgPel \in Pel
      /\ RL \in RunLengths
  BY <1>1, OrderFacts
<1>3. /\ fInsertFgPel' = FALSE /\ fgPel' = fgPel
      /\ fInsertFgPel' \in BOOLEAN /\ fgPel' \in Pel
  BY <1>2 DEF DitheredRun
<1>4. /\ RL.len \in Nat /\ RL.adv \in 0..3
      /\ RL.adv > 0 => sp + RL.adv <= Len(src)
  BY <1>2 DEF RunLengths
<1> DEFINE at == sp + RL.adv
<1>5. /\ sp \in sp .. Len(src)
      /\ RL.adv > 0 => at \in sp .. Len(src)
      /\ RL.adv > 0 /\ SrcHas(at, PixelSize) => at + PixelSize \in sp .. Len(src)
      /\ RL.adv > 0 /\ SrcHas(at, 2 * PixelSize) => at + 2 * PixelSize \in sp .. Len(src)
      /\ 2 * RL.len \in Nat
      /\ DestPix - dp >= 2 * RL.len => dp + 2 * RL.len <= DestPix
      /\ at \in Nat /\ at + PixelSize \in Nat
  <2>1. sp \in sp .. Len(src) /\ at \in Nat /\ at + PixelSize \in Nat
    BY <1>2, <1>4
  <2>2. RL.adv > 0 => at \in sp .. Len(src)
    BY <1>2, <1>4
  <2>3. RL.adv > 0 /\ SrcHas(at, PixelSize) => at + PixelSize \in sp .. Len(src)
    <3>0. SUFFICES ASSUME SrcHas(at, PixelSize) PROVE at + PixelSize \in sp .. Len(src)
      OBVIOUS
    <3>1. Len(src) - at >= PixelSize /\ at <= Len(src)
      BY <3>0 DEF SrcHas
    <3>2. at \in Nat /\ PixelSize \in Nat /\ sp <= at
      BY <1>2, <1>4
    <3>. QED  BY <1>2, <3>1, <3>2, ReadWithin
  <2>4. RL.adv > 0 /\ SrcHas(at, 2 * PixelSize) => at + 2 * PixelSize \in sp .. Len(src)
    <3>0. SUFFICES ASSUME SrcHas(at, 2 * PixelSize) PROVE at + 2 * PixelSize \in sp .. Len(src)
      OBVIOUS
    <3>1. Len(src) - at >= 2 * PixelSize /\ at <= Len(src)
      BY <3>0 DEF SrcHas
    <3>2. at \in Nat /\ 2 * PixelSize \in Nat /\ sp <= at
      BY <1>2, <1>4
    <3>. QED  BY <1>2, <3>1, <3>2, ReadWithin
  <2>5. 2 * RL.len \in Nat /\ (DestPix - dp >= 2 * RL.len => dp + 2 * RL.len <= DestPix)
    BY <1>2, <1>4
  <2>6. QED
    BY <2>1, <2>2, <2>3, <2>4, <2>5
<1>6. CASE RL.adv = 0 /\ Abort /\ UNCHANGED <<sp, dp, dest>>
  BY <1>2, <1>3, <1>5, <1>6, StillStep DEF Abort
<1>7. CASE RL.adv > 0 /\ ~SrcHas(at, PixelSize)
           /\ Abort /\ sp' = at /\ UNCHANGED <<dp, dest>>
  BY <1>2, <1>3, <1>5, <1>7, StillStep DEF Abort
<1>8. CASE RL.adv > 0 /\ SrcHas(at, PixelSize) /\ ~SrcHas(at + PixelSize, PixelSize)
           /\ Abort /\ sp' = at + PixelSize /\ UNCHANGED <<dp, dest>>
  BY <1>2, <1>3, <1>5, <1>8, StillStep DEF Abort
<1>9. CASE RL.adv > 0 /\ SrcHas(at, 2 * PixelSize) /\ sp' = at + 2 * PixelSize
           /\ DestPix - dp < 2 * RL.len /\ Abort /\ UNCHANGED <<dp, dest>>
  BY <1>2, <1>3, <1>5, <1>9, StillStep DEF Abort
<1>10. CASE RL.adv > 0 /\ SrcHas(at, 2 * PixelSize) /\ sp' = at + 2 * PixelSize
            /\ DestPix - dp >= 2 * RL.len
            /\ Emit(2 * RL.len, [k \in Cells |-> IF (k - dp) % 2 = 0 THEN SrcPel(at)
                                           ELSE SrcPel(at + PixelSize)])
            /\ UNCHANGED status
  <2> DEFINE f == [k \in Cells |-> IF (k - dp) % 2 = 0 THEN SrcPel(at)
                                   ELSE SrcPel(at + PixelSize)]
  <2>1. EmitSet(2 * RL.len, f)
    BY <1>10 DEF Emit, EmitSet
  <2>2. SrcPel(at) \in Pel /\ SrcPel(at + PixelSize) \in Pel
    BY <1>5, SrcPelType DEF IInv
  <2>3. \A k \in Cells : dp <= k /\ k < dp + 2 * RL.len => f[k] \in Pel
    BY <2>2
  <2>4. status' \in {"running", "success", "failure"} /\ dp + 2 * RL.len <= DestPix
    BY <1>2, <1>5, <1>10
  <2>5. QED
    BY <1>2, <1>3, <1>5, <1>10, <2>1, <2>3, <2>4, WriteStep
<1>11. QED
  BY <1>6, <1>7, <1>8, <1>9, <1>10 DEF DitheredRun, RL

(* Colour image (bitmap.h:358-373).                                        *)
LEMMA ColorImageStep ==
  ASSUME IInv, ColorImage
  PROVE  IInv'
<1>1. Order({REGULAR_COLOR_IMAGE, MEGA_MEGA_COLOR_IMAGE})
  BY DEF ColorImage
<1>2. /\ status = "running" /\ src' = src /\ fFirstLine' = FirstLine
      /\ Len(src) \in Nat /\ sp \in Nat /\ sp < Len(src)
      /\ dp \in Nat /\ DestPix \in Nat /\ dp <= DestPix
      /\ PixelSize \in 1..3 /\ fgPel \in Pel
      /\ RL \in RunLengths
  BY <1>1, OrderFacts
<1>3. /\ fInsertFgPel' = FALSE /\ fgPel' = fgPel
      /\ fInsertFgPel' \in BOOLEAN /\ fgPel' \in Pel
  BY <1>2 DEF ColorImage
<1>4. /\ RL.len \in Nat /\ RL.adv \in 0..3
      /\ RL.adv > 0 => sp + RL.adv <= Len(src)
  BY <1>2 DEF RunLengths
<1> DEFINE at == sp + RL.adv
<1>5. RL.len * PixelSize \in Nat
  BY <1>2, <1>4
<1>6. /\ sp \in sp .. Len(src)
      /\ RL.adv > 0 => at \in sp .. Len(src)
      /\ RL.adv > 0 /\ SrcHas(at, RL.len * PixelSize)
           => at + RL.len * PixelSize \in sp .. Len(src)
      /\ DestPix - dp >= RL.len => dp + RL.len <= DestPix
  <2>1. sp \in sp .. Len(src) /\ (RL.adv > 0 => at \in sp .. Len(src))
    BY <1>2, <1>4
  <2>2. RL.adv > 0 /\ SrcHas(at, RL.len * PixelSize)
           => at + RL.len * PixelSize \in sp .. Len(src)
    <3>1. \A a, n \in Nat : sp <= a /\ a <= Len(src) /\ Len(src) - a >= n
                              => a + n \in sp .. Len(src)
      BY <1>2
    <3>2. RL.adv > 0 => at \in Nat /\ sp <= at
      BY <1>2, <1>4
    <3>3. QED
      BY <1>5, <3>1, <3>2, Zenon DEF SrcHas
  <2>3. DestPix - dp >= RL.len => dp + RL.len <= DestPix
    BY <1>2, <1>4
  <2>4. QED
    BY <2>1, <2>2, <2>3
<1>7. CASE RL.adv = 0 /\ Abort /\ UNCHANGED <<sp, dp, dest>>
  BY <1>2, <1>3, <1>6, <1>7, StillStep DEF Abort
<1>8. CASE RL.adv > 0 /\ DestPix - dp < RL.len
           /\ Abort /\ sp' = at /\ UNCHANGED <<dp, dest>>
  BY <1>2, <1>3, <1>6, <1>8, StillStep DEF Abort
<1>9. CASE RL.adv > 0 /\ DestPix - dp >= RL.len /\ ~SrcHas(at, RL.len * PixelSize)
           /\ Abort /\ sp' = at /\ UNCHANGED <<dp, dest>>
  BY <1>2, <1>3, <1>6, <1>9, StillStep DEF Abort
<1>10. CASE RL.adv > 0 /\ DestPix - dp >= RL.len /\ SrcHas(at, RL.len * PixelSize)
            /\ sp' = at + RL.len * PixelSize
            /\ Emit(RL.len, [k \in Cells |-> SrcPel(at + (k - dp) * PixelSize)])
            /\ UNCHANGED status
  <2> DEFINE f == [k \in Cells |-> SrcPel(at + (k - dp) * PixelSize)]
  <2>1. EmitSet(RL.len, f)
    BY <1>10 DEF Emit, EmitSet
  <2>2. \A k \in Cells : dp <= k => at + (k - dp) * PixelSize \in Nat
    BY <1>2, <1>4 DEF Cells
  <2>3. \A k \in Cells : dp <= k /\ k < dp + RL.len => f[k] \in Pel
    BY <2>2, SrcPelType DEF IInv
  <2>4. status' \in {"running", "success", "failure"} /\ dp + RL.len <= DestPix
    BY <1>2, <1>6, <1>10
  <2>5. QED
    BY <1>2, <1>3, <1>4, <1>6, <1>10, <2>1, <2>3, <2>4, WriteStep
<1>11. QED
  BY <1>7, <1>8, <1>9, <1>10 DEF ColorImage, RL


(* The pixels of a run written off the first line are pixels, whatever     *)
(* the row above holds.                                                    *)
LEMMA XorRunPel ==
  ASSUME NEW a, NEW b
  PROVE  Xor(a, b) \in Pel
BY XorType

(* Foreground run and its set-colour forms (bitmap.h:213-244).             *)
LEMMA FgRunStep ==
  ASSUME IInv, FgRun
  PROVE  IInv'
<1>1. Order({REGULAR_FG_RUN, MEGA_MEGA_FG_RUN, LITE_SET_FG_FG_RUN, MEGA_MEGA_SET_FG_RUN})
  BY DEF FgRun
<1>2. /\ status = "running" /\ src' = src /\ fFirstLine' = FirstLine
      /\ Len(src) \in Nat /\ sp \in Nat /\ sp < Len(src)
      /\ dp \in Nat /\ DestPix \in Nat /\ dp <= DestPix
      /\ PixelSize \in 1..3 /\ fgPel \in Pel
      /\ RL \in RunLengths
  BY <1>1, OrderFacts
<1>3. fInsertFgPel' = FALSE /\ fInsertFgPel' \in BOOLEAN
  BY DEF FgRun
<1>4. /\ RL.len \in Nat /\ RL.adv \in 0..3
      /\ RL.adv > 0 => sp + RL.adv <= Len(src)
  BY <1>2 DEF RunLengths
<1> DEFINE setFg == ExtractCodeId(Byte(sp)) \in {LITE_SET_FG_FG_RUN, MEGA_MEGA_SET_FG_RUN}
           at == sp + RL.adv
           fg == IF setFg THEN SrcPel(at) ELSE fgPel
<1>5. /\ sp \in sp .. Len(src)
      /\ RL.adv > 0 => at \in sp .. Len(src)
      /\ RL.adv > 0 /\ (setFg => SrcHas(at, PixelSize))
           => at + (IF setFg THEN PixelSize ELSE 0) \in sp .. Len(src)
      /\ DestPix - dp >= RL.len => dp + RL.len <= DestPix
  <2>1. sp \in sp .. Len(src) /\ (RL.adv > 0 => at \in sp .. Len(src))
    BY <1>2, <1>4
  <2>2. RL.adv > 0 /\ (setFg => SrcHas(at, PixelSize))
           => at + (IF setFg THEN PixelSize ELSE 0) \in sp .. Len(src)
    BY <1>2, <1>4 DEF SrcHas
  <2>3. DestPix - dp >= RL.len => dp + RL.len <= DestPix
    BY <1>2, <1>4
  <2>4. QED
    BY <2>1, <2>2, <2>3
<1>6. fg \in Pel
  <2>1. at \in Nat
    BY <1>2, <1>4
  <2>2. QED
    BY <1>2, <2>1, SrcPelType DEF IInv
<1>7. CASE RL.adv = 0 /\ Abort /\ UNCHANGED <<sp, dp, dest, fgPel>>
  BY <1>2, <1>3, <1>5, <1>7, StillStep DEF Abort
<1>8. CASE RL.adv > 0 /\ setFg /\ ~SrcHas(at, PixelSize)
           /\ Abort /\ sp' = at /\ UNCHANGED <<dp, dest, fgPel>>
  BY <1>2, <1>3, <1>5, <1>8, StillStep DEF Abort
<1>9. CASE RL.adv > 0 /\ (setFg => SrcHas(at, PixelSize))
           /\ sp' = at + (IF setFg THEN PixelSize ELSE 0) /\ fgPel' = fg
           /\ DestPix - dp < RL.len /\ Abort /\ UNCHANGED <<dp, dest>>
  BY <1>2, <1>3, <1>5, <1>6, <1>9, StillStep DEF Abort
<1>10. CASE RL.adv > 0 /\ (setFg => SrcHas(at, PixelSize))
            /\ sp' = at + (IF setFg THEN PixelSize ELSE 0) /\ fgPel' = fg
            /\ DestPix - dp >= RL.len
            /\ Emit(RL.len, [k \in Cells |-> IF FirstLine THEN fg ELSE XorRun(k, fg, Nat)])
            /\ UNCHANGED status
  <2> DEFINE f == [k \in Cells |-> IF FirstLine THEN fg ELSE XorRun(k, fg, Nat)]
  <2>1. EmitSet(RL.len, f)
    BY <1>10 DEF Emit, EmitSet
  <2>2. \A k \in Cells : f[k] \in Pel
    BY <1>6, XorRunPel DEF XorRun
  <2>3. status' \in {"running", "success", "failure"} /\ dp + RL.len <= DestPix
    BY <1>2, <1>5, <1>10
  <2>4. QED
    BY <1>2, <1>3, <1>4, <1>5, <1>6, <1>10, <2>1, <2>2, <2>3, WriteStep
<1>11. QED
  BY <1>7, <1>8, <1>9, <1>10 DEF FgRun, RL

(* Background run (bitmap.h:156-204).                                      *)
LEMMA BgRunStep ==
  ASSUME IInv, BgRun
  PROVE  IInv'
<1>1. Order({REGULAR_BG_RUN, MEGA_MEGA_BG_RUN})
  BY DEF BgRun
<1>2. /\ status = "running" /\ src' = src /\ fFirstLine' = FirstLine
      /\ Len(src) \in Nat /\ sp \in Nat /\ sp < Len(src)
      /\ dp \in Nat /\ DestPix \in Nat /\ dp <= DestPix
      /\ PixelSize \in 1..3 /\ fgPel \in Pel
      /\ RL \in RunLengths
  BY <1>1, OrderFacts
<1>3. fgPel' = fgPel /\ fgPel' \in Pel /\ InsertFgPel \in BOOLEAN
  BY <1>2 DEF BgRun, InsertFgPel, IInv, TypeOK
<1>4. /\ RL.len \in Nat /\ RL.adv \in 0..3
      /\ RL.adv > 0 => sp + RL.adv <= Len(src)
  BY <1>2 DEF RunLengths
<1> DEFINE ins == IF InsertFgPel THEN 1 ELSE 0
           wraps == RL.len < ins
           cap == DestPix - dp
           V == [k \in Cells |-> IF FirstLine
                   THEN IF ins = 1 /\ k = dp THEN fgPel ELSE BLACK_PIXEL
                   ELSE XorRun(k, fgPel, {o \in {0} : ins = 1})]
           f == V
<1>5. /\ sp \in sp .. Len(src)
      /\ RL.adv > 0 => sp + RL.adv \in sp .. Len(src)
      /\ ins \in Nat
      /\ cap >= ins => dp + ins <= DestPix
      /\ cap >= RL.len => dp + RL.len <= DestPix
  BY <1>2, <1>4
<1>6. \A k \in Cells : f[k] \in Pel
  BY <1>2, XorRunPel DEF XorRun, Pel, BLACK_PIXEL
<1>7. CASE RL.adv = 0 /\ Abort /\ UNCHANGED <<sp, dp, dest>>
           /\ fInsertFgPel' = InsertFgPel
  BY <1>2, <1>3, <1>5, <1>7, StillStep DEF Abort
<1>8. CASE RL.adv > 0 /\ sp' = sp + RL.adv /\ cap < ins
           /\ Abort /\ UNCHANGED <<dp, dest>> /\ fInsertFgPel' = InsertFgPel
  BY <1>2, <1>3, <1>5, <1>8, StillStep DEF Abort
<1>9. CASE RL.adv > 0 /\ sp' = sp + RL.adv /\ cap >= ins /\ (wraps \/ cap < RL.len)
           /\ Abort /\ Emit(ins, V) /\ fInsertFgPel' = InsertFgPel
  <2>1. EmitSet(ins, f)
    BY <1>9 DEF Emit, EmitSet
  <2>2. status' \in {"running", "success", "failure"} /\ dp + ins <= DestPix
    BY <1>5, <1>9 DEF Abort
  <2>3. QED
    BY <1>2, <1>3, <1>5, <1>6, <1>9, <2>1, <2>2, WriteStep
<1>10. CASE RL.adv > 0 /\ sp' = sp + RL.adv /\ cap >= ins /\ ~wraps /\ cap >= RL.len
            /\ Emit(RL.len, V) /\ fInsertFgPel' = TRUE /\ UNCHANGED status
  <2>1. EmitSet(RL.len, f)
    BY <1>10 DEF Emit, EmitSet
  <2>2. status' \in {"running", "success", "failure"} /\ dp + RL.len <= DestPix
    BY <1>2, <1>5, <1>10
  <2>3. QED
    BY <1>2, <1>3, <1>4, <1>5, <1>6, <1>10, <2>1, <2>2, WriteStep
<1>11. QED
  BY <1>7, <1>8, <1>9, <1>10 DEF BgRun, RL

(* Special orders 1 and 2 (bitmap.h:376-417).                              *)
LEMMA SpecialFgBgStep ==
  ASSUME IInv, SpecialFgBg
  PROVE  IInv'
<1>1. Order({SPECIAL_FGBG_1, SPECIAL_FGBG_2})
  BY DEF SpecialFgBg
<1>2. /\ status = "running" /\ src' = src /\ fFirstLine' = FirstLine
      /\ Len(src) \in Nat /\ sp \in Nat /\ sp < Len(src)
      /\ dp \in Nat /\ DestPix \in Nat /\ dp <= DestPix
      /\ PixelSize \in 1..3 /\ fgPel \in Pel
  BY <1>1, OrderFacts
<1>3. /\ fInsertFgPel' = FALSE /\ fgPel' = fgPel /\ sp' = sp + 1
      /\ fInsertFgPel' \in BOOLEAN /\ fgPel' \in Pel
  BY <1>2 DEF SpecialFgBg
<1> DEFINE mask == IF ExtractCodeId(Byte(sp)) = SPECIAL_FGBG_1
                   THEN g_MaskSpecialFgBg1 ELSE g_MaskSpecialFgBg2
           V == [k \in Cells |-> IF FirstLine THEN IF ConstBit(mask, k - dp) THEN fgPel ELSE BLACK_PIXEL
                   ELSE XorRun(k, fgPel, {o \in Nat : ConstBit(mask, o)})]
           f == V
<1>4. sp + 1 \in sp .. Len(src) /\ (DestPix - dp >= 8 => dp + 8 <= DestPix)
  BY <1>2
<1>5. \A k \in Cells : f[k] \in Pel
  BY <1>2, XorRunPel DEF XorRun, Pel, BLACK_PIXEL
<1>6. CASE DestPix - dp < 8 /\ Abort /\ UNCHANGED <<dp, dest>>
  BY <1>2, <1>3, <1>4, <1>6, StillStep DEF Abort
<1>7. CASE DestPix - dp >= 8 /\ Emit(8, V) /\ UNCHANGED status
  <2>1. EmitSet(8, f)
    BY <1>7 DEF Emit, EmitSet
  <2>2. status' \in {"running", "success", "failure"} /\ dp + 8 <= DestPix
    BY <1>2, <1>4, <1>7
  <2>3. QED
    BY <1>2, <1>3, <1>4, <1>5, <2>1, <2>2, WriteStep
<1>8. QED
  BY <1>6, <1>7 DEF SpecialFgBg

(* The chunking of an FGBG image of n pixels into room free pixels: the    *)
(* whole chunks before the tail, and those of them that fit.               *)
LEMMA ChunkArith ==
  ASSUME NEW n \in Nat, NEW room \in Nat
  PROVE  LET chunks == IF n = 0 THEN 0 ELSE (n - 1) \div 8
             fit == IF chunks <= room \div 8 THEN chunks ELSE room \div 8
         IN  /\ chunks \in 0 .. n \div 8
             /\ fit \in 0 .. chunks
             /\ 8 * fit <= room
             /\ n > 0 => 8 * chunks <= n
<1>1. (IF n = 0 THEN 0 ELSE (n - 1) \div 8) \in 0 .. n \div 8
  OBVIOUS
<1>2. room \div 8 \in Nat /\ 8 * (room \div 8) <= room
  OBVIOUS
<1>3. n > 0 => 8 * ((n - 1) \div 8) <= n
  OBVIOUS
<1>4. QED
  BY <1>1, <1>2, <1>3

(* Foreground/background image and its set-colour forms (bitmap.h:287-355, *)
(* with WRITEFGBGIMAGE and WRITEFIRSTLINEFGBGIMAGE).                       *)
LEMMA FgBgImageStep ==
  ASSUME IInv, FgBgImage
  PROVE  IInv'
<1>1. Order({REGULAR_FGBG_IMAGE, MEGA_MEGA_FGBG_IMAGE, LITE_SET_FG_FGBG_IMAGE,
             MEGA_MEGA_SET_FGBG_IMAGE})
  BY DEF FgBgImage
<1>2. /\ status = "running" /\ src' = src /\ fFirstLine' = FirstLine
      /\ Len(src) \in Nat /\ sp \in Nat /\ sp < Len(src)
      /\ dp \in Nat /\ DestPix \in Nat /\ dp <= DestPix
      /\ PixelSize \in 1..3 /\ fgPel \in Pel
      /\ RL \in RunLengths
  BY <1>1, OrderFacts
<1>3. fInsertFgPel' = FALSE /\ fInsertFgPel' \in BOOLEAN
  BY DEF FgBgImage
<1>4. /\ RL.len \in Nat /\ RL.adv \in 0..3
      /\ RL.adv > 0 => sp + RL.adv <= Len(src)
  BY <1>2 DEF RunLengths
<1> DEFINE n == RL.len
           setFg == ExtractCodeId(Byte(sp)) \in {LITE_SET_FG_FGBG_IMAGE, MEGA_MEGA_SET_FGBG_IMAGE}
           at == sp + RL.adv
           m == at + (IF setFg THEN PixelSize ELSE 0)
           fg == IF setFg THEN SrcPel(at) ELSE fgPel
           chunks == IF n = 0 THEN 0 ELSE (n - 1) \div 8
           fit == IF chunks <= (DestPix - dp) \div 8 THEN chunks ELSE (DestPix - dp) \div 8
           V == [k \in Cells |-> IF FirstLine THEN IF MaskBit(m, k - dp) THEN fg ELSE BLACK_PIXEL
                   ELSE XorRun(k, fg, {o \in Nat : MaskBit(m, o)})]
           f == V
           Ok == RL.adv > 0 /\ (setFg => SrcHas(at, PixelSize))
<1>5. /\ chunks \in 0 .. n \div 8 /\ fit \in 0 .. chunks
      /\ 8 * fit <= DestPix - dp /\ (n > 0 => 8 * chunks <= n)
  <2>1. n \in Nat /\ DestPix - dp \in Nat
    BY <1>2, <1>4
  <2>. QED  BY <2>1, ChunkArith
<1>6. /\ sp \in sp .. Len(src)
      /\ RL.adv > 0 => at \in sp .. Len(src)
      /\ Ok => m \in sp .. Len(src)
  BY <1>2, <1>4 DEF SrcHas
<1>7. ASSUME Ok, SrcHas(m, n \div 8)
      PROVE  /\ fit < chunks => m + fit + 1 \in sp .. Len(src)
             /\ m + chunks \in sp .. Len(src)
             /\ SrcHas(m + chunks, 1) => m + chunks + 1 \in sp .. Len(src)
  <2>1. m \in sp .. Len(src)
    BY <1>6, <1>7
  <2>2. m + n \div 8 <= Len(src)
    BY <1>2, <1>4, <2>1, <1>7 DEF SrcHas
  <2>3. \A mm \in sp .. Len(src), q \in Nat :
          mm + q <= Len(src) =>
            \A c \in 0 .. q : \A t \in 0 .. c :
              /\ t < c => mm + t + 1 \in sp .. Len(src)
              /\ mm + c \in sp .. Len(src)
              /\ SrcHas(mm + c, 1) => mm + c + 1 \in sp .. Len(src)
    BY <1>2 DEF SrcHas
  <2>4. n \div 8 \in Nat
    BY <1>4
  <2>5. QED
    BY <1>5, <2>1, <2>2, <2>3, <2>4, Zenon
<1>8. /\ 8 * fit \in Nat /\ dp + 8 * fit <= DestPix
      /\ fit = chunks => dp + 8 * chunks <= DestPix
      /\ DestPix - dp >= n => dp + n <= DestPix
  <2>1. \A c \in 0 .. n \div 8 : \A t \in 0 .. c :
          8 * t <= DestPix - dp =>
            /\ 8 * t \in Nat /\ dp + 8 * t <= DestPix
            /\ t = c => dp + 8 * c <= DestPix
    BY <1>2, <1>4
  <2>2. DestPix - dp >= n => dp + n <= DestPix
    BY <1>2, <1>4
  <2>3. QED
    BY <1>5, <2>1, <2>2, Zenon
<1>9. fg \in Pel /\ \A k \in Cells : f[k] \in Pel
  <2>1. at \in Nat
    BY <1>2, <1>4
  <2>2. fg \in Pel
    BY <1>2, <2>1, SrcPelType DEF IInv
  <2>3. QED
    BY <2>2, XorRunPel DEF XorRun, Pel, BLACK_PIXEL
<1>10. CASE RL.adv = 0 /\ Abort /\ UNCHANGED <<sp, dp, dest, fgPel>>
  BY <1>2, <1>3, <1>6, <1>10, StillStep DEF Abort
<1>11. CASE RL.adv > 0 /\ setFg /\ ~SrcHas(at, PixelSize)
            /\ Abort /\ sp' = at /\ UNCHANGED <<dp, dest, fgPel>>
  BY <1>2, <1>3, <1>6, <1>11, StillStep DEF Abort
<1>12. CASE Ok /\ fgPel' = fg /\ ~SrcHas(m, n \div 8)
            /\ Abort /\ sp' = m /\ UNCHANGED <<dp, dest>>
  BY <1>2, <1>3, <1>6, <1>9, <1>12, StillStep DEF Abort
<1>13. CASE Ok /\ fgPel' = fg /\ SrcHas(m, n \div 8) /\ fit < chunks
            /\ Abort /\ sp' = m + fit + 1 /\ Emit(8 * fit, V)
  <2>1. EmitSet(8 * fit, f)
    BY <1>13 DEF Emit, EmitSet
  <2>2. status' \in {"running", "success", "failure"} /\ m + fit + 1 \in sp .. Len(src)
    BY <1>7, <1>13 DEF Abort
  <2>3. QED
    BY <1>2, <1>3, <1>8, <1>9, <1>13, <2>1, <2>2, WriteStep
<1>14. CASE Ok /\ fgPel' = fg /\ SrcHas(m, n \div 8) /\ fit = chunks /\ n = 0
            /\ sp' = m /\ UNCHANGED <<dp, dest, status>>
  BY <1>2, <1>3, <1>6, <1>9, <1>14, StillStep
<1>15. CASE Ok /\ fgPel' = fg /\ SrcHas(m, n \div 8) /\ fit = chunks /\ n > 0
            /\ ~SrcHas(m + chunks, 1)
            /\ Abort /\ sp' = m + chunks /\ Emit(8 * chunks, V)
  <2>1. EmitSet(8 * chunks, f)
    BY <1>15 DEF Emit, EmitSet
  <2>2. /\ status' \in {"running", "success", "failure"}
        /\ m + chunks \in sp .. Len(src)
        /\ 8 * chunks \in Nat /\ dp + 8 * chunks <= DestPix
    BY <1>5, <1>7, <1>8, <1>15 DEF Abort
  <2>3. QED
    BY <1>2, <1>3, <1>9, <1>15, <2>1, <2>2, WriteStep
<1>16. CASE Ok /\ fgPel' = fg /\ SrcHas(m, n \div 8) /\ fit = chunks /\ n > 0
            /\ SrcHas(m + chunks, 1) /\ DestPix - dp < n
            /\ Abort /\ sp' = m + chunks + 1 /\ Emit(8 * chunks, V)
  <2>1. EmitSet(8 * chunks, f)
    BY <1>16 DEF Emit, EmitSet
  <2>2. /\ status' \in {"running", "success", "failure"}
        /\ m + chunks + 1 \in sp .. Len(src)
        /\ 8 * chunks \in Nat /\ dp + 8 * chunks <= DestPix
    BY <1>5, <1>7, <1>8, <1>16 DEF Abort
  <2>3. QED
    BY <1>2, <1>3, <1>9, <1>16, <2>1, <2>2, WriteStep
<1>17. CASE Ok /\ fgPel' = fg /\ SrcHas(m, n \div 8) /\ fit = chunks /\ n > 0
            /\ SrcHas(m + chunks, 1) /\ DestPix - dp >= n
            /\ sp' = m + chunks + 1 /\ Emit(n, V) /\ UNCHANGED status
  <2>1. EmitSet(n, f)
    BY <1>17 DEF Emit, EmitSet
  <2>2. /\ status' \in {"running", "success", "failure"}
        /\ m + chunks + 1 \in sp .. Len(src)
        /\ dp + n <= DestPix
    BY <1>2, <1>7, <1>8, <1>17
  <2>3. QED
    BY <1>2, <1>3, <1>4, <1>9, <1>17, <2>1, <2>2, WriteStep
<1>18. QED
  BY <1>10, <1>11, <1>12, <1>13, <1>14, <1>15, <1>16, <1>17 DEF FgBgImage, RL

-----------------------------------------------------------------------------
(* IInv is inductive.                                                      *)

LEMMA NextIInv == IInv /\ [Next]_vars => IInv'
<1>1. SUFFICES ASSUME IInv, [Next]_vars PROVE IInv'
  OBVIOUS
<1>2. CASE BgRun
  BY <1>1, <1>2, BgRunStep
<1>3. CASE FgRun
  BY <1>1, <1>3, FgRunStep
<1>4. CASE DitheredRun
  BY <1>1, <1>4, DitheredRunStep
<1>5. CASE ColorRun
  BY <1>1, <1>5, ColorRunStep
<1>6. CASE FgBgImage
  BY <1>1, <1>6, FgBgImageStep
<1>7. CASE ColorImage
  BY <1>1, <1>7, ColorImageStep
<1>8. CASE SpecialFgBg
  BY <1>1, <1>8, SpecialFgBgStep
<1>9. CASE SpecialPel
  BY <1>1, <1>9, SpecialPelStep
<1>10. CASE BadCode
  BY <1>1, <1>10, BadCodeStep
<1>11. CASE Finish
  BY <1>1, <1>11, FinishStep
<1>12. CASE UNCHANGED vars
  BY <1>1, <1>12 DEF vars, IInv, TypeOK, Prefix, FlagOK
<1>13. QED
  BY <1>1, <1>2, <1>3, <1>4, <1>5, <1>6, <1>7, <1>8, <1>9, <1>10, <1>11, <1>12
     DEF Next

(* IInv holds in every reachable state of the decoder.                     *)
THEOREM IInvInvariant == Spec => []IInv
BY InitIInv, NextIInv, PTL DEF Spec

-----------------------------------------------------------------------------
(* The properties the runs check, for every geometry and stream.           *)

(* IInv leaves the row above the cursor written once the first scanline  *)
(* is left.                                                               *)
LEMMA IInvAboveWritten == IInv => AboveWritten
<1>1. SUFFICES ASSUME IInv, status = "running", ~FirstLine,
                      NEW k \in dp - RowPix .. dp - 1
               PROVE  k \in Cells /\ dest[k] # NoPel
  BY DEF AboveWritten
<1>2. dp \in Nat /\ DestPix \in Nat /\ dp <= DestPix /\ RowPix \in Nat
      /\ PixelSize \in 1..3 /\ RowDelta = RowPix * PixelSize
  BY <1>1, GeometryFacts DEF IInv, TypeOK
<1>3. dp * PixelSize >= RowDelta
  <2>1. ~fFirstLine \/ ~(dp * PixelSize < RowDelta)
    BY <1>1, Zenon DEF FirstLine
  <2>2. \A x \in Int : ~(x < RowDelta) => x >= RowDelta
    BY <1>2
  <2>3. dp * PixelSize \in Int
    BY <1>2
  <2>4. QED
    BY <1>1, <2>1, <2>2, <2>3, Zenon DEF IInv, FlagOK
<1>4. dp >= RowPix
  <2>1. CASE PixelSize = 1
    BY <1>2, <1>3, <2>1
  <2>2. CASE PixelSize = 2
    BY <1>2, <1>3, <2>2
  <2>3. CASE PixelSize = 3
    BY <1>2, <1>3, <2>3
  <2>4. QED
    BY <1>2, <2>1, <2>2, <2>3
<1>5. k \in Cells /\ k < dp
  BY <1>1, <1>2, <1>4 DEF Cells
<1>6. QED
  BY <1>1, <1>5 DEF IInv, Prefix

(* TypeOK: both cursors stay inside their buffers and every variable has   *)
(* its type in every reachable state (the ENSURE_CAPACITY and              *)
(* buffer_within_range checks of RLEDECOMPRESS guard every read and write).*)
THEOREM TypeCorrect == Spec => []TypeOK
<1>1. IInv => TypeOK
  BY DEF IInv
<1>2. QED
  BY <1>1, IInvInvariant, PTL

(* AboveWritten: whenever RLEDECOMPRESS runs an order off the first        *)
(* scanline, the row above pbDest lies inside the buffer and is written,   *)
(* so DESTREADPIXEL(pbDest - rowDelta) never reads outside or unwritten.   *)
THEOREM AboveWrittenInvariant == Spec => []AboveWritten
BY IInvAboveWritten, IInvInvariant, PTL

-----------------------------------------------------------------------------
(* No pixel is rewritten.                                                  *)

(* The shape of a pass of an order handler: it starts while the loop runs, *)
(* ends running or failed, and writes the destination only through Emit,  *)
(* at the cursor.                                                          *)
PassShape ==
  /\ status = "running"
  /\ status' \in {"running", "failure"}
  /\ UNCHANGED <<dest, dp>> \/ \E w, V : Emit(w, V)

LEMMA BgRunShape == BgRun => PassShape
  BY Zenon DEF BgRun, PassShape, Order, Abort

LEMMA FgRunShape == FgRun => PassShape
  BY Zenon DEF FgRun, PassShape, Order, Abort

LEMMA DitheredRunShape == DitheredRun => PassShape
  BY Zenon DEF DitheredRun, PassShape, Order, Abort

LEMMA ColorRunShape == ColorRun => PassShape
  BY Zenon DEF ColorRun, PassShape, Order, Abort

LEMMA FgBgImageShape == FgBgImage => PassShape
  BY Zenon DEF FgBgImage, PassShape, Order, Abort

LEMMA ColorImageShape == ColorImage => PassShape
  BY Zenon DEF ColorImage, PassShape, Order, Abort

LEMMA SpecialFgBgShape == SpecialFgBg => PassShape
  BY Zenon DEF SpecialFgBg, PassShape, Order, Abort

LEMMA SpecialPelShape == SpecialPel => PassShape
  BY Zenon DEF SpecialPel, PassShape, Order, Abort

-----------------------------------------------------------------------------
(* RleDecode implements ForwardWriter under FW.                            *)

(* A pass of an order handler is a Write of the block between the old and *)
(* the new cursor.  That the cursor does not move back follows from the  *)
(* prefix: the cell it would move back to is written, and Emit leaves it. *)
LEMMA PassRefines ==
  ASSUME IInv, IInv', PassShape
  PROVE  \E n \in 0 .. DestPix : FW!Write(n)
<1>1. /\ dp \in 0 .. DestPix /\ dp' \in 0 .. DestPix /\ DestPix \in Nat
      /\ dest' \in [Cells -> Pel \cup {NoPel}]
  BY GeometryFacts DEF IInv, TypeOK
<1>2. dp <= dp'
  <2>1. CASE UNCHANGED <<dest, dp>>
    BY <1>1, <2>1
  <2>2. CASE \E w, V : Emit(w, V)
    <3>1. PICK w, V : Emit(w, V)
      BY <2>2
    <3>2. SUFFICES ASSUME dp' < dp PROVE FALSE
      BY <1>1
    <3>3. dp' \in Cells /\ dp' < dp
      BY <1>1, <3>2 DEF Cells
    <3>4. dest[dp'] # NoPel
      BY <3>3 DEF IInv, Prefix
    <3>5. dest'[dp'] = dest[dp']
      BY <1>1, <3>1, <3>3 DEF Emit, Cells
    <3>6. dest'[dp'] # NoPel => dp' < dp'
      BY <3>3 DEF IInv, Prefix
    <3>. QED  BY <1>1, <3>4, <3>5, <3>6
  <2>. QED  BY <2>1, <2>2 DEF PassShape
<1>3. \A k \in Cells : dp <= k /\ k < dp' => dest'[k] \in Pel
  <2> SUFFICES ASSUME NEW k \in Cells, dp <= k, k < dp' PROVE dest'[k] \in Pel
    OBVIOUS
  <2>1. dest'[k] # NoPel
    BY DEF IInv, Prefix
  <2>. QED  BY <1>1, <2>1
<1>4. \A k \in Cells : ~(dp <= k /\ k < dp') => dest'[k] = dest[k]
  <2>1. CASE UNCHANGED <<dest, dp>>
    BY <2>1
  <2>2. CASE \E w, V : Emit(w, V)
    <3>1. PICK w, V : Emit(w, V)
      BY <2>2
    <3>2. dp' = dp + w
      BY <3>1 DEF Emit
    <3>. QED  BY <3>1, <3>2 DEF Emit
  <2>. QED  BY <2>1, <2>2 DEF PassShape
<1>5. PICK n \in 0 .. DestPix : dp' = dp + n
  <2>1. PICK d2 \in 0 .. DestPix : dp' = d2
    BY <1>1
  <2>2. d2 - dp \in 0 .. DestPix /\ d2 = dp + (d2 - dp)
    BY <1>1, <1>2, <2>1
  <2>. QED  BY <2>1, <2>2
<1>6. status = "running" /\ status' \in {"running", "failure"}
  BY DEF PassShape
<1>7. FW!Write(n)
  BY <1>1, <1>3, <1>4, <1>5, <1>6 DEF FW!Write, FW!Cells, Cells
<1>. QED  BY <1>7

(* Every step of the decoder is a step of ForwardWriter or leaves the     *)
(* buffer, the cursor and the result alone.                                *)
LEMMA StepRefinesFW ==
  ASSUME IInv, [Next]_vars
  PROVE  [FW!Next]_FW!vars
<1>1. IInv'
  BY NextIInv
<1>2. CASE BgRun \/ FgRun \/ DitheredRun \/ ColorRun \/ FgBgImage \/ ColorImage
           \/ SpecialFgBg \/ SpecialPel
  <2>1. PassShape
    BY <1>2, BgRunShape, FgRunShape, DitheredRunShape, ColorRunShape,
       FgBgImageShape, ColorImageShape, SpecialFgBgShape, SpecialPelShape
  <2>. QED  BY <1>1, <2>1, PassRefines DEF FW!Next
<1>3. CASE BadCode
  <2>1. PassShape
    BY <1>3, Zenon DEF BadCode, Order, Abort, PassShape
  <2>. QED  BY <1>1, <2>1, PassRefines DEF FW!Next
<1>4. CASE Finish
  BY <1>4 DEF Finish, FW!Next, FW!Stop
<1>5. CASE UNCHANGED vars
  BY <1>5 DEF vars, FW!vars
<1>. QED  BY <1>2, <1>3, <1>4, <1>5 DEF Next

(* ForwardRefined: RLEDECOMPRESS fills its destination front to back, a   *)
(* block per pass at pbDest and never past pbDestEnd, and returns once.    *)
THEOREM ForwardRefinement == Spec => ForwardRefined
<1>1. Init => FW!Init
  BY DEF Init, FW!Init, FW!Cells, Cells
<1>2. IInv /\ [Next]_vars => [FW!Next]_FW!vars
  BY StepRefinesFW
<1>. QED  BY <1>1, <1>2, IInvInvariant, PTL DEF Spec, ForwardRefined, FW!Spec

=============================================================================
