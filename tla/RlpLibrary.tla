----------------------------- MODULE RlpLibrary -----------------------------
(***************************************************************************)
(* The Cairo library put together: a program has its strings cut apart by  *)
(* reconstruct_ints_sequence_list (lib/types.cairo) and extracts data from *)
(* one of them with extract_data (lib/extract_from_rlp.cairo), or extracts *)
(* from a string it was given as one.                                      *)
(***************************************************************************)
EXTENDS ExtractFromRlp

CONSTANT Lists   \* sequences of the lengths in bytes of the strings

ASSUME ListsAssumption == Lists \subseteq Seq(Nat)

VARIABLES sizes, acc, offset, slice, list_pc   \* those of IntsSequenceList

L == INSTANCE IntsSequenceList WITH pc <- list_pc

list_vars == <<sizes, acc, offset, slice, list_pc>>

NoList == sizes = <<>> /\ acc = <<>> /\ offset = 0 /\ slice = <<>> /\ list_pc = "done"

(* With a list the string that is still to be taken from it is empty. *)
LibraryInit ==
  \/ Init /\ NoList
  \/ /\ L!Init
     /\ rlp = Packed(0, 0) /\ origin = 0 /\ start_pos = 0 /\ size = 0
     /\ new_words = <<>> /\ pc = "idle" /\ calls = 0

Rebuild == L!Next /\ UNCHANGED vars

(* A string of the finished list becomes the argument; the cut counts as a *)
(* call.                                                                   *)
TakeString ==
  /\ list_pc = "done" /\ pc = "idle" /\ calls < MaxCalls
  /\ \E i \in DOMAIN acc : rlp' = acc[i] /\ origin' = L!BytesBefore(i)
  /\ calls' = calls + 1
  /\ sizes' = <<>> /\ acc' = <<>> /\ offset' = 0 /\ slice' = <<>> /\ UNCHANGED list_pc
  /\ UNCHANGED <<start_pos, size, new_words, pc>>

Extract == list_pc = "done" /\ sizes = <<>> /\ Next /\ UNCHANGED list_vars

LibraryNext == Rebuild \/ TakeString \/ Extract

LibrarySpec == LibraryInit /\ [][LibraryNext]_<<vars, list_vars>>
-----------------------------------------------------------------------------
(* The strings come back as they were packed, empty ones and those whose   *)
(* last word is short included, and none is left when the array ends       *)
(* (lib/types.cairo:41-103).                                               *)
StringsAreRebuilt == L!StringsAreRebuilt
=============================================================================
