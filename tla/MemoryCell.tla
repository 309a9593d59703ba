----------------------------- MODULE MemoryCell -----------------------------
(***************************************************************************)
(* MemoryCell (air/components/memory/memory_cell.{h,inl}): the units of    *)
(* memory of a trace, each an address and a value, written in any order by *)
(* any number of tasks under a lock, and its Finalize, which fills the     *)
(* units nobody has written with the addresses that are missing.           *)
(***************************************************************************)
EXTENDS Integers

CONSTANTS WordSize,   \* 2^64
          Size        \* of the pool

Units == 0 .. (Size - 1)
Vacant == [address |-> -1, value |-> 0, public |-> FALSE]

VARIABLES units,        \* address_, value_ and is_initialized_, and public_input_indices_
          address_min, address_max,
          pc,           \* "open", "filling", "filled" or "failed"
          i, last_hole,
          orig_address_max,
          address_set

vars == <<units, address_min, address_max, pc, i, last_hole, orig_address_max, address_set>>

Init == /\ units = [u \in Units |-> Vacant]
        /\ address_min = WordSize - 1 /\ address_max = 0
        /\ pc = "open" /\ i = 0 /\ last_hole = 0 /\ orig_address_max = 0 /\ address_set = {}

Smaller(a, b) == IF a < b THEN a ELSE b
Larger(a, b)  == IF a < b THEN b ELSE a

MayWrite(u) == units[u] = Vacant

(* WriteTrace, of a unit that is not written yet. *)
Write(u, address, value, public) ==
  /\ units' = [units EXCEPT ![u] = [address |-> address, value |-> value, public |-> public]]
  /\ address_min' = Smaller(address, address_min)
  /\ address_max' = Larger(address, address_max)

(* What the columns of the trace hold: zeros in place of public memory. *)
Column(u) == IF units[u].public THEN <<0, 0>> ELSE <<units[u].address, units[u].value>>

Used == {u \in Units : units[u] # Vacant}

Finalize ==
  /\ pc = "open"
  /\ IF address_min <= address_max
     THEN /\ pc' = "filling"
          /\ i' = 0
          /\ last_hole' = address_min /\ orig_address_max' = address_max
          /\ address_set' = {units[u].address : u \in Used}
     ELSE pc' = "failed" /\ UNCHANGED <<i, last_hole, orig_address_max, address_set>>
  /\ UNCHANGED <<units, address_min, address_max>>

Skip == /\ pc = "filling" /\ i < Size /\ ~MayWrite(i)
        /\ i' = i + 1
        /\ UNCHANGED <<units, address_min, address_max, pc, last_hole, orig_address_max, address_set>>

Holes == {a \in last_hole .. orig_address_max : a \notin address_set}

(* The address behind the last one when there is no hole left. *)
NextHole == IF Holes = {} THEN orig_address_max + 1
            ELSE CHOOSE a \in Holes : \A b \in Holes : a <= b

StaysAtHole == NextHole                                           \* mutant
BehindHole == IF NextHole <= orig_address_max THEN NextHole + 1 ELSE NextHole

FillHole == /\ pc = "filling" /\ i < Size /\ MayWrite(i)
            /\ Write(i, NextHole, 0, FALSE)
            /\ last_hole' = BehindHole
            /\ i' = i + 1
            /\ UNCHANGED <<pc, orig_address_max, address_set>>

Filled == /\ pc = "filling" /\ i = Size
          /\ pc' = IF Holes = {} THEN "filled" ELSE "failed"
          /\ UNCHANGED <<units, address_min, address_max, i, last_hole, orig_address_max, address_set>>

FinalizeNext == Finalize \/ Skip \/ FillHole \/ Filled
=============================================================================
