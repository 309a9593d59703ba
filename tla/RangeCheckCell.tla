--------------------------- MODULE RangeCheckCell ---------------------------
(***************************************************************************)
(* RangeCheckCell::Finalize                                                *)
(* (air/components/perm_range_check/range_check_cell.inl): the cells of a  *)
(* pool that nobody has written are filled so that every value from rc_min *)
(* to rc_max is in it, or else an exception is thrown.                     *)
(*                                                                         *)
(* One step for every cell.  Numbers are words: the value before rc_min,   *)
(* where the search begins, may be the largest one.                        *)
(***************************************************************************)
EXTENDS Integers

CONSTANTS WordSize,   \* 2^64
          Size        \* of the pool

Words == 0 .. (WordSize - 1)
Cells == 0 .. (Size - 1)
Vacant == -1          \* of a cell whose is_initialized_ is false

VARIABLES values,
          rc_min, rc_max,
          pc,         \* "open", "filling", "filled" or "failed"
          i,          \* the cell the loop is at
          last_hole,  \* where the search for the next hole begins
          value_set   \* values of cells that others have written

cell_vars == <<values, rc_min, rc_max, pc, i, last_hole, value_set>>

Written == /\ values \in [Cells -> Words \union {Vacant}]
           /\ rc_min \in Words /\ rc_max \in Words
           /\ pc = "open" /\ i = 0 /\ last_hole = 0 /\ value_set = {}

Plus1(n)  == IF n = WordSize - 1 THEN 0 ELSE n + 1
Same(n)   == n                                                    \* mutant
Minus1(n) == IF n = 0 THEN WordSize - 1 ELSE n - 1

Used == {c \in Cells : values[c] # Vacant}

MayFinalize == /\ rc_min < rc_max /\ rc_max < WordSize - 1
               /\ \A c \in Used : rc_min <= values[c] /\ values[c] <= rc_max

Finalize ==
  /\ pc = "open"
  /\ IF MayFinalize THEN /\ pc' = "filling"
                         /\ i' = 0
                         /\ last_hole' = Minus1(rc_min)
                         /\ value_set' = {values[c] : c \in Used}
                    ELSE pc' = "failed" /\ UNCHANGED <<i, last_hole, value_set>>
  /\ UNCHANGED <<values, rc_min, rc_max>>

Skip == /\ pc = "filling" /\ i < Size /\ values[i] # Vacant
        /\ i' = i + 1
        /\ UNCHANGED <<values, rc_min, rc_max, pc, last_hole, value_set>>

HolesUpTo(last) == {v \in Plus1(last_hole) .. last : v \notin value_set}

(* When no hole is left rc_max is written again and again. *)
NextHole == IF HolesUpTo(rc_max) = {} THEN rc_max
            ELSE CHOOSE v \in HolesUpTo(rc_max) : \A w \in HolesUpTo(rc_max) : v <= w

FillHole == /\ pc = "filling" /\ i < Size /\ values[i] = Vacant
            /\ values' = [values EXCEPT ![i] = NextHole]
            /\ last_hole' = NextHole
            /\ i' = i + 1
            /\ UNCHANGED <<rc_min, rc_max, pc, value_set>>

(* Holes that remain mean that the trace is too short. *)
Filled == /\ pc = "filling" /\ i = Size
          /\ pc' = IF HolesUpTo(rc_max) = {} THEN "filled" ELSE "failed"
          /\ UNCHANGED <<values, rc_min, rc_max, i, last_hole, value_set>>

FinalizeNext == Finalize \/ Skip \/ FillHole \/ Filled

FinalizeSpec == Written /\ [][FinalizeNext]_cell_vars
-----------------------------------------------------------------------------
(* A pool that was filled has every value from rc_min to rc_max and no     *)
(* other.                                                                  *)
IsWhole == pc = "filled" => {values[c] : c \in Cells} = rc_min .. rc_max
=============================================================================
