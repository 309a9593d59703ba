--------------------------- MODULE ExtractFromRlp ---------------------------
(***************************************************************************)
(* lib/extract_from_rlp.cairo: extract_data cuts size bytes at start_pos   *)
(* out of a string of 64-bit words and packs them into words again, one    *)
(* call of extract_data_rec per full word and then the rest.               *)
(*                                                                         *)
(* What a call returns may be the argument of the next, as it is when an   *)
(* item of a list inside a list is wanted.  origin is where the current    *)
(* string begins in the first one.                                         *)
(***************************************************************************)
EXTENDS IntsSequence

CONSTANTS Lengths,   \* lengths in bytes of the strings to begin with
          Calls,     \* pairs of start_pos and size
          MaxCalls   \* how many calls follow each other

ASSUME LengthsAssumption == Lengths \subseteq Nat
ASSUME CallsAssumption == Calls \subseteq (Nat \X Nat)
ASSUME MaxCallsAssumption == MaxCalls \in Nat

VARIABLES rlp,        \* the argument: an IntsSequence
          origin,     \* where it begins in the first string
          start_pos, size,
          new_words,  \* the words found so far
          pc,         \* "idle", "extract_data_rec" or "remainder"
          calls

vars == <<rlp, origin, start_pos, size, new_words, pc, calls>>

(* rlp.element[i]; memory outside of it is not the program's. *)
Element(i) == rlp.element[i + 1]
Inside(i) == i \in 0..(rlp.element_size_words - 1)

start_word == start_pos \div 8
left_shift == start_pos % 8
full_words == size \div 8
remainder  == size % 8

(* end_pos and end_word: relative to the word, and never 0. *)
EndOfDivision == (start_pos + size) \div 8                        \* mutant
end_pos  == IF (start_pos + size) % 8 = 0 THEN 8 ELSE (start_pos + size) % 8
end_word == IF (start_pos + size) % 8 = 0 THEN (start_pos + size) \div 8 - 1
                                          ELSE (start_pos + size) \div 8

RemainderOfDivision == rlp.element_size_bytes % 8                  \* mutant
last_rlp_word_len == IF rlp.element_size_bytes % 8 = 0 THEN 8 ELSE rlp.element_size_bytes % 8

right_shift == 8 - left_shift
last_word_right_shift == last_rlp_word_len - left_shift

Size(n) == IF n < 0 THEN -n ELSE n

NeverLeft(word, n) == BitshiftRight(word, Size(n))                 \* mutant
(* Shifts right, or left when the amount is negative. *)
Shifted(word, n) == IF n < 0 THEN BitshiftLeft(word, -n) ELSE BitshiftRight(word, n)

IsLast(i) == i = rlp.element_size_words - 1

(* By how much the word that follows is shifted. *)
ShiftOf(i) == IF IsLast(i) THEN last_word_right_shift ELSE right_shift

current_index == start_word + Len(new_words)

RightPart(i) == IF IsLast(i - 1) THEN ZeroWord ELSE Shifted(Element(i), ShiftOf(i))

(* What one call of extract_data_rec reads, and by how much it shifts. *)
RecReads  == IF IsLast(current_index) THEN {current_index} ELSE {current_index, current_index + 1}
RecShifts == IF IsLast(current_index) THEN {left_shift}
             ELSE {left_shift, Size(ShiftOf(current_index + 1))}

(* The rest spreads over two words when it has no room left of the word's end. *)
left_shift_above_8_bytes == remainder + left_shift >= 9

ShiftToEnd == IF IsLast(end_word) THEN last_rlp_word_len - end_pos ELSE 8 - end_pos

LastReads  == IF left_shift_above_8_bytes THEN {end_word - 1, end_word} ELSE {end_word}
LastShifts == IF left_shift_above_8_bytes THEN {left_shift, Size(ShiftOf(end_word)), 8 - remainder}
              ELSE {ShiftToEnd}

FinalWord ==
  IF left_shift_above_8_bytes
  THEN LowBytes(BitshiftRight(AddWords(BitshiftLeft(Element(end_word - 1), left_shift),
                                       Shifted(Element(end_word), ShiftOf(end_word))),
                              8 - remainder), remainder)
  ELSE LowBytes(BitshiftRight(Element(end_word), ShiftToEnd), end_pos - left_shift)
-----------------------------------------------------------------------------
Init == /\ \E bytes \in Lengths : rlp = Packed(0, bytes)
        /\ origin = 0 /\ start_pos = 0 /\ size = 0
        /\ new_words = <<>> /\ pc = "idle" /\ calls = 0

(* A caller asks for bytes the string has. *)
ExtractData ==
  /\ pc = "idle" /\ calls < MaxCalls
  /\ \E call \in Calls :
       /\ call[1] + call[2] <= rlp.element_size_bytes
       /\ start_pos' = call[1] /\ size' = call[2]
  /\ new_words' = <<>> /\ pc' = "extract_data_rec" /\ calls' = calls + 1
  /\ UNCHANGED <<rlp, origin>>

(* extract_data_rec; an assertion of a shift that fails ends the program. *)
ExtractDataRec ==
  /\ pc = "extract_data_rec" /\ Len(new_words) # full_words
  /\ \A n \in RecShifts : MayShift(n)
  /\ new_words' = Append(new_words, AddWords(BitshiftLeft(Element(current_index), left_shift),
                                             RightPart(current_index + 1)))
  /\ UNCHANGED <<rlp, origin, start_pos, size, pc, calls>>

RecReturns ==
  /\ pc = "extract_data_rec" /\ Len(new_words) = full_words
  /\ pc' = "remainder"
  /\ UNCHANGED <<rlp, origin, start_pos, size, new_words, calls>>

(* The words returned; the next call takes them for its argument. *)
Return(words) ==
  /\ rlp' = IntsSequence(words, Len(words), size)
  /\ origin' = origin + start_pos
  /\ start_pos' = 0 /\ size' = 0 /\ new_words' = <<>> /\ pc' = "idle"
  /\ UNCHANGED calls

NoRemainder == pc = "remainder" /\ remainder = 0 /\ Return(new_words)

Remainder ==
  /\ pc = "remainder" /\ remainder # 0
  /\ \A n \in LastShifts : MayShift(n)
  /\ Return(Append(new_words, FinalWord))

Done == pc = "idle" /\ calls = MaxCalls /\ UNCHANGED vars

Next == ExtractData \/ ExtractDataRec \/ RecReturns \/ NoRemainder \/ Remainder \/ Done

Spec == Init /\ [][Next]_vars
-----------------------------------------------------------------------------
Words == [0..7 -> Nat]

(* The types, for the proofs; the first invariant below says more. *)
TypeOK ==
  /\ rlp \in [element : Seq(Words), element_size_words : Nat, element_size_bytes : Nat]
  /\ rlp.element_size_words = Len(rlp.element)
  /\ origin \in Nat /\ start_pos \in Nat /\ size \in Nat /\ calls \in Nat
  /\ new_words \in Seq(Words)
  /\ pc \in {"idle", "extract_data_rec", "remainder"}

(* What extract_data returns is the very string of bytes that was asked    *)
(* for, packed as its own argument has to be, after any number of calls:   *)
(* every word, the alignment of the last one and both lengths.             *)
ResultIsTheBytesAskedFor == rlp = Packed(origin, rlp.element_size_bytes)

(* No read leaves the words of the string: a word outside would be memory  *)
(* whose value a prover may choose.                                        *)
ReadsAreInside ==
  /\ pc = "extract_data_rec" /\ Len(new_words) # full_words => \A i \in RecReads : Inside(i)
  /\ pc = "remainder" /\ remainder # 0 => \A i \in LastReads : Inside(i)

(* No shift is by a negative number of bits, a huge one in the field, or   *)
(* by more than 64: the assertions in bitshift.cairo hold for every call   *)
(* within the string.                                                      *)
AssertionsHold ==
  /\ pc = "extract_data_rec" /\ Len(new_words) # full_words => \A n \in RecShifts : MayShift(n)
  /\ pc = "remainder" /\ remainder # 0 => \A n \in LastShifts : MayShift(n)
=============================================================================
