-------------------------- MODULE DilutedCheckCell --------------------------
(***************************************************************************)
(* DilutedCheckCell::Finalize                                              *)
(* (air/components/diluted_check/diluted_check_cell.{h,inl}): the cells of *)
(* a pool that nobody has written are filled so that every number of       *)
(* n_bits is in it in its diluted form, with spacing between the bits.     *)
(***************************************************************************)
EXTENDS Integers, FiniteSetsExt

CONSTANTS Size,       \* of the pool
          spacing, n_bits

Cells == 0 .. (Size - 1)
Vacant == -1

VARIABLES values,
          pc,         \* "open", "filling", "filled" or "failed"
          i,
          current_value,
          value_set   \* numbers whose diluted form is in the pool

Bit(x, k) == (x \div 2^k) % 2
Dilute(x)   == MapThenSumSet(LAMBDA k : Bit(x, k) * 2^(spacing * k), 0 .. (n_bits - 1))
Undilute(x) == MapThenSumSet(LAMBDA k : Bit(x, spacing * k) * 2^k, 0 .. (n_bits - 1))

total_size == 2^n_bits

Used == {c \in Cells : values[c] # Vacant}

Finalize ==
  /\ pc = "open"
  /\ IF \A c \in Used : Dilute(Undilute(values[c])) = values[c]
     THEN /\ pc' = "filling"
          /\ i' = 0 /\ current_value' = 0
          /\ value_set' = {Undilute(values[c]) : c \in Used}
     ELSE pc' = "failed" /\ UNCHANGED <<i, current_value, value_set>>
  /\ UNCHANGED values

Skip == /\ pc = "filling" /\ i < Size /\ values[i] # Vacant
        /\ i' = i + 1
        /\ UNCHANGED <<values, pc, current_value, value_set>>

MissingUpTo(last) == {v \in current_value .. last : v \notin value_set}

(* The last number is written again and again when none is missing. *)
NextMissing == LET missing == MissingUpTo(total_size - 2)
               IN IF missing = {} THEN total_size - 1 ELSE Min(missing)

FillMissing == /\ pc = "filling" /\ i < Size /\ values[i] = Vacant
               /\ values' = [values EXCEPT ![i] = Dilute(NextMissing)]
               /\ current_value' = NextMissing
               /\ value_set' = value_set \union {NextMissing}
               /\ i' = i + 1
               /\ UNCHANGED pc

Filled == /\ pc = "filling" /\ i = Size
          /\ pc' = IF MissingUpTo(total_size - 1) = {} THEN "filled" ELSE "failed"
          /\ UNCHANGED <<values, i, current_value, value_set>>

Next == Finalize \/ Skip \/ FillMissing \/ Filled
=============================================================================
