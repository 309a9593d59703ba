---------------------------- MODULE IntsSequence ----------------------------
(***************************************************************************)
(* Byte strings as the Cairo library keeps them (lib/types.cairo,          *)
(* lib/bitshift.cairo): words of eight bytes, big endian, the last one     *)
(* shorter and right aligned when the length is no multiple of eight       *)
(* (test/utils/helpers.py hex_string_to_words64).                          *)
(*                                                                         *)
(* A word is the function from the positions 0..7 to its bytes, the most   *)
(* significant first.  A byte is the number of its place in one long       *)
(* string, plus one; 0 is the zero byte of a shift.  A sum of words is     *)
(* taken byte by byte: where both have a byte the sum is a byte of neither,*)
(* which is all the properties have to tell.                               *)
(***************************************************************************)
EXTENDS Integers, Sequences

Byte(place) == place + 1

ZeroWord == [j \in 0..7 |-> 0]

(* bitshift_right and bitshift_left by 8 * n bits; both assert n <= 8. *)
BitshiftRight(word, n) == [j \in 0..7 |-> IF j >= n THEN word[j - n] ELSE 0]
BitshiftLeft(word, n)  == [j \in 0..7 |-> IF j + n <= 7 THEN word[j + n] ELSE 0]
MayShift(n) == n \in 0..8

AddWords(left, right) == [j \in 0..7 |-> left[j] + right[j]]

(* The remainder modulo 2^(8 * n). *)
LowBytes(word, n) == [j \in 0..7 |-> IF j >= 8 - n THEN word[j] ELSE 0]

NWords(bytes) == (bytes + 7) \div 8

(* The word of the given number, from 0, of the string of that many bytes  *)
(* that begins at the place origin.                                        *)
PackedWord(origin, bytes, number) ==
  LET inWord == IF 8 * number + 8 <= bytes THEN 8 ELSE bytes - 8 * number
  IN [j \in 0..7 |-> IF j >= 8 - inWord
                     THEN Byte(origin + 8 * number + (j - (8 - inWord))) ELSE 0]

(* struct IntsSequence *)
IntsSequence(element, words, bytes) ==
  [element |-> element, element_size_words |-> words, element_size_bytes |-> bytes]

(* The string of that many bytes that begins at origin, as a caller has to *)
(* supply it.                                                              *)
Packed(origin, bytes) ==
  IntsSequence([i \in 1..NWords(bytes) |-> PackedWord(origin, bytes, i - 1)], NWords(bytes), bytes)
=============================================================================
