---------------------------- MODULE MCRlpLibrary ----------------------------
(* Strings of every length up to three words and a bit, and one as long as *)
(* the part of a block header that decode_receipts_root reads; every call  *)
(* within the short ones, and that of decode_receipts_root.  Lists of up   *)
(* to two strings of up to two words and a bit, and of three strings whose *)
(* lengths are at the ends of words.                                       *)
EXTENDS RlpLibrary

MCLengths == (0..26) \union {190}
ReceiptsRoot == <<4 + 32 + 1 + 32 + 1 + 20 + 1 + 32 + 1 + 32 + 1, 32>>
MCCalls == ((0..26) \X (0..26)) \union {ReceiptsRoot}
MCLists == UNION {[1..n -> 0..17] : n \in 0..2} \union [1..3 -> {0, 1, 8, 9, 16}]
=============================================================================
