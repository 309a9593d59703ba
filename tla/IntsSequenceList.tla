-------------------------- MODULE IntsSequenceList --------------------------
(***************************************************************************)
(* lib/types.cairo: a program receives several strings as one array of     *)
(* words and the lengths of each, in words and in bytes, and               *)
(* reconstruct_ints_sequence_list cuts them apart, with one call of        *)
(* slice_arr per word.                                                     *)
(***************************************************************************)
EXTENDS IntsSequence, Powers, SequencesExt

CONSTANT Lists   \* sequences of the lengths in bytes of the strings

VARIABLES sizes,    \* elements_sizes_bytes, from which a caller takes all the rest
          acc,      \* the strings so far
          offset,   \* where in elements_concat the next one begins
          slice,    \* the words of it copied so far
          pc        \* "reconstruct_ints_sequence_list", "slice_arr" or "done"

vars == <<sizes, acc, offset, slice, pc>>

BytesBefore(i) == SumOfFirst(sizes, i - 1)

(* The strings follow each other in the one they are numbered in. *)
GivenString(i) == Packed(BytesBefore(i), sizes[i])

elements_sizes_words == [i \in 1..Len(sizes) |-> NWords(sizes[i])]
elements_concat == FlattenSeq([i \in 1..Len(sizes) |-> GivenString(i).element])

current_index == Len(acc)
SizeWords == elements_sizes_words[current_index + 1]

WholeWords == sizes[current_index + 1] \div 8                     \* mutant
SliceSize == SizeWords

NextWord == elements_concat[offset + Len(slice) + 1]
-----------------------------------------------------------------------------
Init == /\ sizes \in Lists
        /\ acc = <<>> /\ offset = 0 /\ slice = <<>> /\ pc = "reconstruct_ints_sequence_list"

ReconstructIntsSequenceList ==
  /\ pc = "reconstruct_ints_sequence_list"
  /\ pc' = IF current_index = Len(elements_sizes_words) THEN "done" ELSE "slice_arr"
  /\ UNCHANGED <<sizes, acc, offset, slice>>

SliceArr ==
  /\ pc = "slice_arr" /\ Len(slice) # SliceSize
  /\ slice' = Append(slice, NextWord)
  /\ UNCHANGED <<sizes, acc, offset, pc>>

OffsetBehind == offset + Len(slice)

SliceReturns ==
  /\ pc = "slice_arr" /\ Len(slice) = SliceSize
  /\ acc' = Append(acc, IntsSequence(slice, SizeWords, sizes[current_index + 1]))
  /\ offset' = OffsetBehind
  /\ slice' = <<>>
  /\ pc' = "reconstruct_ints_sequence_list"
  /\ UNCHANGED sizes

Done == pc = "done" /\ UNCHANGED vars

Next == ReconstructIntsSequenceList \/ SliceArr \/ SliceReturns \/ Done

Spec == Init /\ [][Next]_vars
-----------------------------------------------------------------------------
(* The strings come back as they were packed, empty ones and those whose   *)
(* last word is short included, and none is left when the array ends.      *)
StringsAreRebuilt ==
  /\ \A i \in 1..Len(acc) : acc[i] = GivenString(i)
  /\ pc = "done" => Len(acc) = Len(sizes) /\ offset = Len(elements_concat)
=============================================================================
