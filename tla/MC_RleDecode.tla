---------------------------- MODULE MC_RleDecode ----------------------------
(* Instances of the decoder for TLC.  Streams are every sequence of up to  *)
(* MaxSrc bytes over a small byte set; a byte plays every role the decoder *)
(* gives it (header, run-length byte, literal pixel, bitmask), so each set *)
(* is chosen for the headers it contains.                                  *)
EXTENDS RleDecode

(* For a 2 x 2 image: a short header of every order class, the two-byte    *)
(* forms (low bits zero) and mega forms, which are cut short at the end of *)
(* the stream, an unknown code (0xF5), and bytes of both parities.         *)
MC_Bytes == {0, 1, 2, 32, 33, 65, 96, 97, 128, 129, 193, 209, 224, 225,
             240, 249, 253, 245}

(* For a 4 x 3 image: FGBG images of 8, 24 and b + 1 pixels (0x41, 0x43,   *)
(* 0x40), the mega FGBG image, the two special FGBG orders and a           *)
(* background run: runs of more than 8 pixels, chunks that do not fit, a   *)
(* missing tail bitmask, and XOR chains below the first row.               *)
MC_WideBytes == {0, 1, 8, 64, 65, 67, 242, 249, 250, 209}
=============================================================================
