------------------------------ MODULE RleDecode ------------------------------
(***************************************************************************)
(* The interleaved RLE bitmap decoder RLEDECOMPRESS of                     *)
(* libfreerdp/codec/include/bitmap.h.  One step of the model is one pass   *)
(* of the decoder's `while (pbSrc < pbEnd)` loop: the first-scanline       *)
(* check, the order header, and the whole handler of that order, up to its *)
(* `break`, `continue` or `return FALSE`.                                  *)
(*                                                                         *)
(* Cursors: sp is pbSrc - pbSrcBuffer in bytes; dp is                      *)
(* (pbDest - pbDestBuffer) / PIXEL_SIZE in pixels.  The destination holds  *)
(* rowDelta * height bytes, i.e. DestPix pixels.                           *)
(*                                                                         *)
(* Pixel data is abstracted to its lowest bit.  The decoder only copies    *)
(* pixels and XORs them with fgPel, and both commute with taking a bit     *)
(* plane, so bit 0 of every pixel is computed exactly; it is bit 0 of the  *)
(* first (least significant) byte of a pixel read from the stream.         *)
(***************************************************************************)
EXTENDS Integers, Sequences, FiniteSets

CONSTANTS
  PixelSize,   \* PIXEL_SIZE: bytes per pixel of this build (8, 16 or 24 bpp)
  RowDelta,    \* rowDelta argument, bytes per destination row
  Width,       \* width argument, in pixels
  Height,      \* height argument, in rows
  Bytes,       \* byte values the compressed stream is made of
  MaxSrc,      \* bound on cbSrcBuffer
  NoPel        \* marks a destination pixel the decoder has not written

ASSUME PixelSizeAssumption == PixelSize \in {1, 2, 3}
ASSUME GeometryAssumption ==
  /\ RowDelta \in Nat /\ Width \in Nat /\ Height \in Nat
  /\ RowDelta % PixelSize = 0
ASSUME StreamAssumption == Bytes \subseteq 0..255 /\ MaxSrc \in Nat
ASSUME NoPelAssumption == NoPel \notin Int

VARIABLES
  src,           \* pbSrcBuffer[0 .. cbSrcBuffer-1]
  sp,            \* pbSrc - pbSrcBuffer
  dp,            \* (pbDest - pbDestBuffer) / PIXEL_SIZE
  dest,          \* the destination buffer, pixel by pixel
  fgPel,         \* fgPel
  fInsertFgPel,  \* fInsertFgPel
  fFirstLine,    \* fFirstLine
  status         \* "running" inside the loop, else the value returned

vars == <<src, sp, dp, dest, fgPel, fInsertFgPel, fFirstLine, status>>

-----------------------------------------------------------------------------
(* Pixels (bit 0 of), the buffer geometry, and the stream.                 *)

Pel == {0, 1}
WHITE_PIXEL == 1
BLACK_PIXEL == 0
Xor(a, b) == IF a = b THEN 0 ELSE 1

RowPix == RowDelta \div PixelSize
DestPix == RowPix * Height
Cells == 0 .. DestPix - 1

Streams == UNION {[1..n -> Bytes] : n \in 0..MaxSrc}

(* pbSrcBuffer[i]; past the end, where only a missing check would read,   *)
(* an arbitrary byte.                                                      *)
Byte(i) == IF i < Len(src) THEN src[i + 1] ELSE 0

(* SRCREADPIXEL at byte offset i: bit 0 of the pixel's first byte.         *)
SrcPel(i) == Byte(i) % 2

(* Fault injection: a range check that is one byte short.                 *)
SrcHasShort(i, n) == i <= Len(src) /\ Len(src) - i >= n - 1

(* buffer_within_range(pbSrcBuffer + i, n, pbEnd)                          *)
SrcHas(i, n) == i <= Len(src) /\ Len(src) - i >= n

-----------------------------------------------------------------------------
(* Order codes and run lengths (ExtractCodeId, ExtractRunLength).          *)

REGULAR_BG_RUN == 0
REGULAR_FG_RUN == 1
REGULAR_FGBG_IMAGE == 2
REGULAR_COLOR_RUN == 3
REGULAR_COLOR_IMAGE == 4
LITE_SET_FG_FG_RUN == 12
LITE_SET_FG_FGBG_IMAGE == 13
LITE_DITHERED_RUN == 14
MEGA_MEGA_BG_RUN == 240
MEGA_MEGA_FG_RUN == 241
MEGA_MEGA_FGBG_IMAGE == 242
MEGA_MEGA_COLOR_RUN == 243
MEGA_MEGA_COLOR_IMAGE == 244
MEGA_MEGA_SET_FG_RUN == 246
MEGA_MEGA_SET_FGBG_IMAGE == 247
MEGA_MEGA_DITHERED_RUN == 248
SPECIAL_FGBG_1 == 249
SPECIAL_FGBG_2 == 250
SPECIAL_WHITE == 253
SPECIAL_BLACK == 254

g_MaskSpecialFgBg1 == 3
g_MaskSpecialFgBg2 == 5

MegaCodes == {MEGA_MEGA_BG_RUN, MEGA_MEGA_FG_RUN, MEGA_MEGA_FGBG_IMAGE,
              MEGA_MEGA_COLOR_RUN, MEGA_MEGA_COLOR_IMAGE, MEGA_MEGA_SET_FG_RUN,
              MEGA_MEGA_SET_FGBG_IMAGE, MEGA_MEGA_DITHERED_RUN}

ExtractCodeId(h) ==
  IF h < 192 THEN h \div 32 ELSE IF h >= 240 THEN h ELSE h \div 16

(* The one- or two-byte forms: the low bits of the header, scaled, or when *)
(* they are zero the next byte plus a base.                                *)
ShortRun(h, bits, scale, base) ==
  IF h % bits # 0 THEN [len |-> (h % bits) * scale, adv |-> 1]
  ELSE IF SrcHas(sp, 2) THEN [len |-> Byte(sp + 1) + base, adv |-> 2]
  ELSE [len |-> 0, adv |-> 0]

(* ExtractRunLength(code, pbSrc, pbEnd, &advance); adv = 0 means the       *)
(* header is cut short.                                                    *)
ExtractRunLength(code) ==
  LET h == Byte(sp) IN
  CASE code \in MegaCodes ->
         IF SrcHas(sp, 3) THEN [len |-> Byte(sp + 1) + 256 * Byte(sp + 2), adv |-> 3]
         ELSE [len |-> 0, adv |-> 0]
    [] code = REGULAR_FGBG_IMAGE -> ShortRun(h, 32, 8, 1)
    [] code = LITE_SET_FG_FGBG_IMAGE -> ShortRun(h, 16, 8, 1)
    [] code \in {LITE_SET_FG_FG_RUN, LITE_DITHERED_RUN} -> ShortRun(h, 16, 1, 16)
    [] OTHER -> ShortRun(h, 32, 1, 32)

-----------------------------------------------------------------------------
(* The pixels a run writes.  A pixel written off the first line is derived *)
(* from the one RowPix before it, which may itself belong to the run: the  *)
(* chain k, k - RowPix, ... leaves the run at Root(k), after Hops(k) steps *)
(* back; the UNROLL loops XOR fgPel in at each step whose bit is set.      *)

Root(k) == dp - RowPix + ((k - dp) % RowPix)
Hops(k) == 0 .. (k - dp) \div RowPix
Parity(S) == Cardinality(S) % 2

(* Pixel k of a run whose pixel at offset o is XORed with fg iff o \in Set. *)
XorRun(k, fg, Set) ==
  Xor(dest[Root(k)],
      IF Parity({t \in Hops(k) : k - dp - t * RowPix \in Set}) = 1 THEN fg ELSE 0)

(* The low-bit-first bit o of the FGBG bitmask bytes starting at byte m.   *)
MaskBit(m, o) == (Byte(m + o \div 8) \div (2 ^ (o % 8))) % 2 = 1
ConstBit(mask, o) == (mask \div (2 ^ (o % 8))) % 2 = 1

(* Fault injection: the first scanline taken to end one pixel early.       *)
FirstLineShort == fFirstLine /\ dp * PixelSize < RowDelta - PixelSize

(* The loop's fFirstLine and fInsertFgPel after the first-scanline check.  *)
FirstLine == fFirstLine /\ dp * PixelSize < RowDelta
InsertFgPel == IF fFirstLine /\ ~FirstLine THEN FALSE ELSE fInsertFgPel

(* Fault injection: pbDest left on the last pixel written instead of past  *)
(* it.                                                                     *)
EmitShort(w, V) ==
  /\ dest' = [k \in Cells |-> IF dp <= k /\ k < dp + w THEN V[k] ELSE dest[k]]
  /\ dp' = IF w > 0 THEN dp + w - 1 ELSE dp

(* Write w pixels at the cursor, pixel k being V[k].                       *)
Emit(w, V) ==
  /\ dest' = [k \in Cells |-> IF dp <= k /\ k < dp + w THEN V[k] ELSE dest[k]]
  /\ dp' = dp + w

(* Fault injection: a failed check that falls through to the next pass     *)
(* instead of returning.                                                   *)
AbortContinue == status' = "running"

(* A check failed: return FALSE.                                           *)
Abort == status' = "failure"

(* Start of one loop pass for an order of the given codes.                 *)
Order(codes) ==
  /\ status = "running"
  /\ sp < Len(src)
  /\ ExtractCodeId(Byte(sp)) \in codes
  /\ fFirstLine' = FirstLine
  /\ UNCHANGED src

-----------------------------------------------------------------------------
(* Background run.  After a background run, the next one starts with a     *)
(* foreground pel.  runLength - 1 is UINT32 arithmetic: for a zero-length  *)
(* run it wraps to 0xFFFFFFFF, which no destination can hold.              *)
BgRun ==
  /\ Order({REGULAR_BG_RUN, MEGA_MEGA_BG_RUN})
  /\ UNCHANGED fgPel
  /\ LET rl == ExtractRunLength(ExtractCodeId(Byte(sp)))
         ins == IF InsertFgPel THEN 1 ELSE 0
         wraps == rl.len < ins
         cap == DestPix - dp
         V == [k \in Cells |-> IF FirstLine
                 THEN IF ins = 1 /\ k = dp THEN fgPel ELSE BLACK_PIXEL
                 ELSE XorRun(k, fgPel, {o \in {0} : ins = 1})]
     IN \/ /\ rl.adv = 0
           /\ Abort /\ UNCHANGED <<sp, dp, dest>>
           /\ fInsertFgPel' = InsertFgPel
        \/ /\ rl.adv > 0
           /\ sp' = sp + rl.adv
           /\ \/ /\ cap < ins
                 /\ Abort /\ UNCHANGED <<dp, dest>>
                 /\ fInsertFgPel' = InsertFgPel
              \/ /\ cap >= ins /\ (wraps \/ cap < rl.len)
                 /\ Abort /\ Emit(ins, V)
                 /\ fInsertFgPel' = InsertFgPel
              \/ /\ cap >= ins /\ ~wraps /\ cap >= rl.len
                 /\ Emit(rl.len, V)
                 /\ fInsertFgPel' = TRUE
                 /\ UNCHANGED status

(* Foreground run, and its set-colour forms that first read fgPel.         *)
FgRun ==
  /\ Order({REGULAR_FG_RUN, MEGA_MEGA_FG_RUN, LITE_SET_FG_FG_RUN, MEGA_MEGA_SET_FG_RUN})
  /\ fInsertFgPel' = FALSE
  /\ LET code == ExtractCodeId(Byte(sp))
         rl == ExtractRunLength(code)
         setFg == code \in {LITE_SET_FG_FG_RUN, MEGA_MEGA_SET_FG_RUN}
         at == sp + rl.adv
         fg == IF setFg THEN SrcPel(at) ELSE fgPel
         V == [k \in Cells |-> IF FirstLine THEN fg ELSE XorRun(k, fg, Nat)]
     IN \/ /\ rl.adv = 0
           /\ Abort /\ UNCHANGED <<sp, dp, dest, fgPel>>
        \/ /\ rl.adv > 0 /\ setFg /\ ~SrcHas(at, PixelSize)
           /\ Abort /\ sp' = at /\ UNCHANGED <<dp, dest, fgPel>>
        \/ /\ rl.adv > 0 /\ (setFg => SrcHas(at, PixelSize))
           /\ sp' = at + (IF setFg THEN PixelSize ELSE 0)
           /\ fgPel' = fg
           /\ \/ /\ DestPix - dp < rl.len
                 /\ Abort /\ UNCHANGED <<dp, dest>>
              \/ /\ DestPix - dp >= rl.len
                 /\ Emit(rl.len, V) /\ UNCHANGED status


(* Dithered run: two literal pixels, written runLength times as a pair.    *)
DitheredRun ==
  /\ Order({LITE_DITHERED_RUN, MEGA_MEGA_DITHERED_RUN})
  /\ fInsertFgPel' = FALSE
  /\ UNCHANGED fgPel
  /\ LET rl == ExtractRunLength(ExtractCodeId(Byte(sp)))
         at == sp + rl.adv
         V == [k \in Cells |-> IF (k - dp) % 2 = 0 THEN SrcPel(at) ELSE SrcPel(at + PixelSize)]
     IN \/ /\ rl.adv = 0
           /\ Abort /\ UNCHANGED <<sp, dp, dest>>
        \/ /\ rl.adv > 0 /\ ~SrcHas(at, PixelSize)
           /\ Abort /\ sp' = at /\ UNCHANGED <<dp, dest>>
        \/ /\ rl.adv > 0 /\ SrcHas(at, PixelSize) /\ ~SrcHas(at + PixelSize, PixelSize)
           /\ Abort /\ sp' = at + PixelSize /\ UNCHANGED <<dp, dest>>
        \/ /\ rl.adv > 0 /\ SrcHas(at, 2 * PixelSize)
           /\ sp' = at + 2 * PixelSize
           /\ \/ /\ DestPix - dp < 2 * rl.len
                 /\ Abort /\ UNCHANGED <<dp, dest>>
              \/ /\ DestPix - dp >= 2 * rl.len
                 /\ Emit(2 * rl.len, V) /\ UNCHANGED status

(* Colour run: one literal pixel, written runLength times.                 *)
ColorRun ==
  /\ Order({REGULAR_COLOR_RUN, MEGA_MEGA_COLOR_RUN})
  /\ fInsertFgPel' = FALSE
  /\ UNCHANGED fgPel
  /\ LET rl == ExtractRunLength(ExtractCodeId(Byte(sp)))
         at == sp + rl.adv
     IN \/ /\ rl.adv = 0
           /\ Abort /\ UNCHANGED <<sp, dp, dest>>
        \/ /\ rl.adv > 0 /\ ~SrcHas(at, PixelSize)
           /\ Abort /\ sp' = at /\ UNCHANGED <<dp, dest>>
        \/ /\ rl.adv > 0 /\ SrcHas(at, PixelSize)
           /\ sp' = at + PixelSize
           /\ \/ /\ DestPix - dp < rl.len
                 /\ Abort /\ UNCHANGED <<dp, dest>>
              \/ /\ DestPix - dp >= rl.len
                 /\ Emit(rl.len, [k \in Cells |-> SrcPel(at)]) /\ UNCHANGED status

(* Foreground/background image, and its set-colour forms.  The bitmask     *)
(* bytes follow the header (and fgPel); the run is written by              *)
(* WRITE[FIRSTLINE]FGBGIMAGE in chunks of 8 while more than 8 remain, each *)
(* chunk checking capacity on its own, then the tail of 1..8 pixels after  *)
(* its own bitmask byte is checked: a failure can leave whole chunks       *)
(* written.                                                                *)
FgBgImage ==
  /\ Order({REGULAR_FGBG_IMAGE, MEGA_MEGA_FGBG_IMAGE, LITE_SET_FG_FGBG_IMAGE,
            MEGA_MEGA_SET_FGBG_IMAGE})
  /\ fInsertFgPel' = FALSE
  /\ LET code == ExtractCodeId(Byte(sp))
         rl == ExtractRunLength(code)
         n == rl.len
         setFg == code \in {LITE_SET_FG_FGBG_IMAGE, MEGA_MEGA_SET_FGBG_IMAGE}
         at == sp + rl.adv
         m == at + (IF setFg THEN PixelSize ELSE 0)
         fg == IF setFg THEN SrcPel(at) ELSE fgPel
         chunks == IF n = 0 THEN 0 ELSE (n - 1) \div 8
         fit == IF chunks <= (DestPix - dp) \div 8 THEN chunks ELSE (DestPix - dp) \div 8
         V == [k \in Cells |-> IF FirstLine THEN IF MaskBit(m, k - dp) THEN fg ELSE BLACK_PIXEL
                 ELSE XorRun(k, fg, {o \in Nat : MaskBit(m, o)})]
     IN \/ /\ rl.adv = 0
           /\ Abort /\ UNCHANGED <<sp, dp, dest, fgPel>>
        \/ /\ rl.adv > 0 /\ setFg /\ ~SrcHas(at, PixelSize)
           /\ Abort /\ sp' = at /\ UNCHANGED <<dp, dest, fgPel>>
        \/ /\ rl.adv > 0 /\ (setFg => SrcHas(at, PixelSize))
           /\ fgPel' = fg
           /\ \/ /\ ~SrcHas(m, n \div 8)
                 /\ Abort /\ sp' = m /\ UNCHANGED <<dp, dest>>
              \/ /\ SrcHas(m, n \div 8) /\ fit < chunks
                 /\ Abort /\ sp' = m + fit + 1 /\ Emit(8 * fit, V)
              \/ /\ SrcHas(m, n \div 8) /\ fit = chunks /\ n = 0
                 /\ sp' = m /\ UNCHANGED <<dp, dest, status>>
              \/ /\ SrcHas(m, n \div 8) /\ fit = chunks /\ n > 0
                 /\ ~SrcHas(m + chunks, 1)
                 /\ Abort /\ sp' = m + chunks /\ Emit(8 * chunks, V)
              \/ /\ SrcHas(m, n \div 8) /\ fit = chunks /\ n > 0
                 /\ SrcHas(m + chunks, 1) /\ DestPix - dp < n
                 /\ Abort /\ sp' = m + chunks + 1 /\ Emit(8 * chunks, V)
              \/ /\ SrcHas(m, n \div 8) /\ fit = chunks /\ n > 0
                 /\ SrcHas(m + chunks, 1) /\ DestPix - dp >= n
                 /\ sp' = m + chunks + 1 /\ Emit(n, V) /\ UNCHANGED status

(* Colour image: runLength literal pixels copied from the stream.          *)
ColorImage ==
  /\ Order({REGULAR_COLOR_IMAGE, MEGA_MEGA_COLOR_IMAGE})
  /\ fInsertFgPel' = FALSE
  /\ UNCHANGED fgPel
  /\ LET rl == ExtractRunLength(ExtractCodeId(Byte(sp)))
         at == sp + rl.adv
     IN \/ /\ rl.adv = 0
           /\ Abort /\ UNCHANGED <<sp, dp, dest>>
        \/ /\ rl.adv > 0 /\ DestPix - dp < rl.len
           /\ Abort /\ sp' = at /\ UNCHANGED <<dp, dest>>
        \/ /\ rl.adv > 0 /\ DestPix - dp >= rl.len /\ ~SrcHas(at, rl.len * PixelSize)
           /\ Abort /\ sp' = at /\ UNCHANGED <<dp, dest>>
        \/ /\ rl.adv > 0 /\ DestPix - dp >= rl.len /\ SrcHas(at, rl.len * PixelSize)
           /\ sp' = at + rl.len * PixelSize
           /\ Emit(rl.len, [k \in Cells |-> SrcPel(at + (k - dp) * PixelSize)])
           /\ UNCHANGED status

(* Special orders 1 and 2: an 8-pixel FGBG image with a fixed bitmask.     *)
SpecialFgBg ==
  /\ Order({SPECIAL_FGBG_1, SPECIAL_FGBG_2})
  /\ fInsertFgPel' = FALSE
  /\ UNCHANGED fgPel
  /\ sp' = sp + 1
  /\ LET mask == IF ExtractCodeId(Byte(sp)) = SPECIAL_FGBG_1
                 THEN g_MaskSpecialFgBg1 ELSE g_MaskSpecialFgBg2
         V == [k \in Cells |-> IF FirstLine THEN IF ConstBit(mask, k - dp) THEN fgPel ELSE BLACK_PIXEL
                 ELSE XorRun(k, fgPel, {o \in Nat : ConstBit(mask, o)})]
     IN \/ /\ DestPix - dp < 8
           /\ Abort /\ UNCHANGED <<dp, dest>>
        \/ /\ DestPix - dp >= 8
           /\ Emit(8, V) /\ UNCHANGED status

(* White and black orders: one literal pixel.                              *)
SpecialPel ==
  /\ Order({SPECIAL_WHITE, SPECIAL_BLACK})
  /\ fInsertFgPel' = FALSE
  /\ UNCHANGED fgPel
  /\ sp' = sp + 1
  /\ LET p == IF ExtractCodeId(Byte(sp)) = SPECIAL_WHITE THEN WHITE_PIXEL ELSE BLACK_PIXEL
     IN \/ /\ DestPix - dp < 1
           /\ Abort /\ UNCHANGED <<dp, dest>>
        \/ /\ DestPix - dp >= 1
           /\ Emit(1, [k \in Cells |-> p]) /\ UNCHANGED status

KnownCodes ==
  {REGULAR_BG_RUN, MEGA_MEGA_BG_RUN, REGULAR_FG_RUN, MEGA_MEGA_FG_RUN,
   LITE_SET_FG_FG_RUN, MEGA_MEGA_SET_FG_RUN, LITE_DITHERED_RUN,
   MEGA_MEGA_DITHERED_RUN, REGULAR_COLOR_RUN, MEGA_MEGA_COLOR_RUN,
   REGULAR_FGBG_IMAGE, MEGA_MEGA_FGBG_IMAGE, LITE_SET_FG_FGBG_IMAGE,
   MEGA_MEGA_SET_FGBG_IMAGE, REGULAR_COLOR_IMAGE, MEGA_MEGA_COLOR_IMAGE,
   SPECIAL_FGBG_1, SPECIAL_FGBG_2, SPECIAL_WHITE, SPECIAL_BLACK}

(* Any other code: the switch's default returns FALSE.                     *)
BadCode ==
  /\ Order((0..255) \ KnownCodes)
  /\ fInsertFgPel' = FALSE
  /\ Abort
  /\ UNCHANGED <<sp, dp, dest, fgPel>>

(* pbSrc reached pbEnd: the loop ends and the decoder returns TRUE.        *)
Finish ==
  /\ status = "running"
  /\ sp >= Len(src)
  /\ status' = "success"
  /\ UNCHANGED <<src, sp, dp, dest, fgPel, fInsertFgPel, fFirstLine>>

-----------------------------------------------------------------------------
(* Entry: the argument checks, then the locals' initial values.            *)
Init ==
  /\ src \in Streams
  /\ sp = 0
  /\ dp = 0
  /\ dest = [k \in Cells |-> NoPel]
  /\ fgPel = WHITE_PIXEL
  /\ fInsertFgPel = FALSE
  /\ fFirstLine = TRUE
  /\ status = IF RowDelta = 0 \/ RowDelta < Width THEN "failure" ELSE "running"

Next ==
  \/ BgRun \/ FgRun \/ DitheredRun \/ ColorRun \/ FgBgImage \/ ColorImage
  \/ SpecialFgBg \/ SpecialPel \/ BadCode \/ Finish

(* The decoder is one sequential loop: while it runs, it takes its next    *)
(* step.                                                                   *)
Spec == Init /\ [][Next]_vars /\ WF_vars(Next)

-----------------------------------------------------------------------------
(* Both cursors stay inside their buffers (every ENSURE_CAPACITY and       *)
(* buffer_within_range before a write or a read does its job), and every   *)
(* variable holds a value of its C type.                                   *)
TypeOK ==
  /\ src \in Streams
  /\ sp \in 0 .. Len(src)
  /\ dp \in 0 .. DestPix
  /\ dest \in [Cells -> Pel \cup {NoPel}]
  /\ fgPel \in Pel
  /\ fInsertFgPel \in BOOLEAN
  /\ fFirstLine \in BOOLEAN
  /\ status \in {"running", "success", "failure"}

(* Whenever the loop is about to run an order off the first scanline       *)
(* (DESTREADPIXEL(temp, pbDest - rowDelta) in the background, foreground   *)
(* and FGBG handlers), the whole row above the cursor lies inside the      *)
(* buffer and has already been written: fFirstLine is cleared only once    *)
(* pbDest is a full row in, and no handler leaves a gap behind pbDest.     *)
AboveWritten ==
  status = "running" /\ ~FirstLine =>
    \A k \in dp - RowPix .. dp - 1 : k \in Cells /\ dest[k] # NoPel

(* The decoder seen from its caller, as the front-to-back writer of        *)
(* ForwardWriter: the buffer, pbDest's offset and the value returned.      *)
FW == INSTANCE ForwardWriter
        WITH Size <- DestPix, Pels <- Pel, Blank <- NoPel,
             out <- dest, cur <- dp, result <- status

(* RLEDECOMPRESS implements ForwardWriter: each pass of its loop writes    *)
(* pixels only in a block at pbDest, moves pbDest past that block and no   *)
(* further than pbDestEnd, and returns TRUE or FALSE at most once; an      *)
(* argument check that fails returns before anything is written.          *)
ForwardRefined == FW!Spec

(* The decode loop ends: every pass consumes at least one byte of the      *)
(* stream or returns FALSE, so RLEDECOMPRESS always returns.               *)
Terminates == <>(status # "running")

(* The spec's contract: a successful decode has written the whole          *)
(* destination, rowDelta * height bytes.  The loop returns TRUE as soon as *)
(* the stream is consumed, whatever it has written.                        *)
SuccessFillsDest == status = "success" => dp = DestPix

(* The spec: a run that does not fit fails "not [as] a truncated partial   *)
(* write".  The FGBG handlers check capacity per 8-pixel chunk and the     *)
(* background handler writes its inserted foreground pel before checking  *)
(* the rest of the run.                                                    *)
FailureWritesNothing == [][status' = "failure" => dest' = dest]_vars

=============================================================================
