----------------------------- MODULE TraceProofs -----------------------------
(***************************************************************************)
(* What becomes of a trace on its way into the proof.                      *)
(*                                                                         *)
(* A range check pool that RangeCheckCell::Finalize has filled holds every *)
(* value from rc_min to rc_max and no other, for any size of the pool and  *)
(* of words and whatever was written to it before.                         *)
(*                                                                         *)
(* The evaluations of a trace that the prover commits to, gives to the     *)
(* composition polynomial and decommits are the right ones, and no call    *)
(* for them is refused, for any number of traces, columns, cosets and      *)
(* breaks, with and without a cache.                                       *)
(***************************************************************************)
EXTENDS RangeCheckCell, CommittedTraces, Foundations

Range16 == rc_min .. rc_max

Holds(v) == \E c \in Cells : values[c] = v

PoolTypeInv == /\ values \in [Cells -> Words \union {Vacant}]
               /\ rc_min \in Words /\ rc_max \in Words
               /\ pc \in {"open", "filling", "filled", "failed"}
               /\ i \in 0 .. Size /\ last_hole \in Words

(* What Finalize has asserted at its start stays true. *)
RangeInv == /\ rc_min < rc_max /\ rc_max < WordSize - 1
            /\ \A c \in Cells : values[c] \in Range16 \union {Vacant}
            /\ value_set \subseteq Range16

(* Values that were there at the start still are. *)
SetInv == \A v \in value_set : Holds(v)

(* The cells behind the loop are written, and the search has left no hole  *)
(* before the place where it goes on.                                      *)
LoopInv == /\ \A c \in Cells : c < i => values[c] # Vacant
           /\ rc_min <= Plus1(last_hole) /\ Plus1(last_hole) <= rc_max + 1
           /\ \A v \in Range16 : v < Plus1(last_hole) => Holds(v)

FilledInv == /\ \A c \in Cells : values[c] \in Range16
             /\ \A v \in Range16 : Holds(v)

PoolInv == /\ PoolTypeInv
           /\ pc = "filling" => RangeInv /\ SetInv /\ LoopInv
           /\ pc = "filled" => FilledInv
-----------------------------------------------------------------------------
(* The next hole is in the range, and everything between the place where   *)
(* the search began and it is in the pool.                                 *)
LEMMA NextHoleIs ==
  ASSUME WordSize \in Nat \ {0}, PoolTypeInv, RangeInv, LoopInv
  PROVE  /\ NextHole \in Range16
         /\ \A v \in Range16 : Plus1(last_hole) <= v /\ v < NextHole => v \in value_set
         /\ Plus1(last_hole) <= rc_max => Plus1(last_hole) <= NextHole
         /\ HolesUpTo(rc_max) = {} =>
              \A v \in Range16 : Plus1(last_hole) <= v => v \in value_set
<1> DEFINE from == Plus1(last_hole)
           H == HolesUpTo(rc_max)
<1>1. rc_min \in Nat /\ rc_max \in Nat /\ last_hole \in Nat
  BY DEF PoolTypeInv, Words
<1>2. from \in Nat /\ rc_min <= from /\ from <= rc_max + 1
  BY <1>1 DEF Plus1, LoopInv
<1>3. H = {v \in from .. rc_max : v \notin value_set}
  BY DEF HolesUpTo
<1> HIDE DEF H, from
<1>4. CASE H = {}
  <2>1. NextHole = rc_max
    BY <1>4 DEF NextHole, H
  <2>2. rc_max \in Range16
    BY <1>1 DEF Range16, RangeInv
  <2>3. ASSUME NEW v \in Range16, from <= v PROVE v \in value_set
    <3>1. v \in from .. rc_max
      BY <1>1, <1>2, <2>3 DEF Range16
    <3>. QED BY <3>1, <1>3, <1>4
  <2>. QED BY <2>1, <2>2, <2>3, <1>1 DEF from
<1>5. CASE H # {}
  <2>1. H \in SUBSET Nat
    BY <1>1, <1>2, <1>3
  <2>2. \E x \in H : \A y \in H : x <= y
    BY <2>1, <1>5, LeastOf
  <2>3. NextHole = CHOOSE x \in H : \A y \in H : x <= y
    BY <1>5 DEF NextHole, H
  <2>4. NextHole \in H /\ \A y \in H : NextHole <= y
    BY <2>2, <2>3
  <2>5. NextHole \in Range16 /\ from <= NextHole
    BY <2>4, <1>1, <1>2, <1>3 DEF Range16
  <2>6. ASSUME NEW v \in Range16, from <= v, v < NextHole PROVE v \in value_set
    <3>1. v \in from .. rc_max /\ v \in Nat /\ NextHole \in Nat
      BY <1>1, <1>2, <2>5, <2>6 DEF Range16
    <3>2. v \notin H
      BY <3>1, <2>4, <2>6
    <3>. QED BY <3>1, <3>2, <1>3
  <2>. QED BY <2>5, <2>6, <1>5 DEF from, H
<1>. QED BY <1>4, <1>5

LEMMA PoolIsOpened == ASSUME WordSize \in Nat \ {0}, Size \in Nat PROVE Written => PoolInv
BY DEF Written, PoolInv, PoolTypeInv, Words
-----------------------------------------------------------------------------
LEMMA FinalizeStep ==
  ASSUME WordSize \in Nat \ {0}, Size \in Nat, PoolInv, Finalize
  PROVE  PoolInv'
<1>1. PoolTypeInv /\ rc_min \in Nat /\ rc_max \in Nat
  BY DEF PoolInv, PoolTypeInv, Words
<1>2. PoolTypeInv'
  BY <1>1 DEF PoolTypeInv, Finalize, Minus1, Words
<1>3. CASE ~MayFinalize
  BY <1>2, <1>3 DEF PoolInv, Finalize
<1>4. CASE MayFinalize
  <2>1. /\ values' = values /\ rc_min' = rc_min /\ rc_max' = rc_max
        /\ pc' = "filling" /\ i' = 0 /\ last_hole' = Minus1(rc_min)
        /\ value_set' = {values[c] : c \in Used}
    BY <1>4 DEF Finalize
  <2>2. rc_min < rc_max /\ rc_max < WordSize - 1
    BY <1>4 DEF MayFinalize
  <2>3. Plus1(last_hole') = rc_min
    BY <2>1, <2>2, <1>1 DEF Plus1, Minus1
  <2>4. ASSUME NEW c \in Cells PROVE values[c] \in Range16 \union {Vacant}
    <3>1. values[c] \in Nat \/ values[c] = Vacant
      BY <1>1 DEF PoolTypeInv, Words
    <3>2. values[c] # Vacant => rc_min <= values[c] /\ values[c] <= rc_max
      BY <1>4 DEF MayFinalize, Used
    <3>. QED BY <3>1, <3>2, <1>1 DEF Range16
  <2>5. ASSUME NEW v \in value_set' PROVE v \in Range16 /\ Holds(v)
    <3>1. PICK c \in Used : values[c] = v
      BY <2>1
    <3>. QED BY <3>1, <2>4 DEF Used, Holds
  <2>6. RangeInv'
    BY <2>1, <2>2, <2>4, <2>5 DEF RangeInv, Range16
  <2>7. SetInv'
    BY <2>1, <2>5 DEF SetInv, Holds
  <2>8. LoopInv'
    <3>1. ASSUME NEW c \in Cells PROVE ~ (c < i')
      BY <2>1 DEF Cells
    <3>2. ASSUME NEW v \in Range16 PROVE ~ (v < Plus1(last_hole'))
      BY <2>3, <1>1 DEF Range16
    <3>. QED BY <3>1, <3>2, <2>1, <2>2, <2>3, <1>1 DEF LoopInv, Range16, Plus1
  <2>. QED BY <1>2, <2>1, <2>6, <2>7, <2>8 DEF PoolInv
<1>. QED BY <1>3, <1>4

LEMMA SkipStep ==
  ASSUME WordSize \in Nat \ {0}, Size \in Nat, PoolInv, Skip
  PROVE  PoolInv'
<1>1. /\ PoolTypeInv /\ RangeInv /\ SetInv /\ LoopInv
      /\ i \in Nat /\ i < Size /\ values[i] # Vacant /\ pc' = "filling"
      /\ i' = i + 1
      /\ UNCHANGED <<values, rc_min, rc_max, last_hole, value_set>>
  BY DEF PoolInv, Skip, PoolTypeInv
<1>2. PoolTypeInv' /\ RangeInv' /\ SetInv'
  BY <1>1 DEF PoolTypeInv, RangeInv, SetInv, Holds, Range16, Skip
<1>3. \A c \in Cells : c < i + 1 => values[c] # Vacant
  <2>1. ASSUME NEW c \in Cells, c < i + 1 PROVE c < i \/ c = i
    BY <1>1, <2>1 DEF Cells
  <2>. QED BY <1>1, <2>1 DEF LoopInv
<1>4. LoopInv'
  BY <1>1, <1>3 DEF LoopInv, Holds, Range16, Plus1
<1>. QED BY <1>1, <1>2, <1>4 DEF PoolInv

(* The hole that is filled becomes the last one, and what lies between is  *)
(* in the pool already.                                                    *)
LEMMA FillHoleStep ==
  ASSUME WordSize \in Nat \ {0}, Size \in Nat, PoolInv, FillHole
  PROVE  PoolInv'
<1>1. /\ PoolTypeInv /\ RangeInv /\ SetInv /\ LoopInv
      /\ i \in Nat /\ i \in Cells /\ values[i] = Vacant /\ pc' = "filling"
      /\ rc_min \in Nat /\ rc_max \in Nat /\ last_hole \in Nat
      /\ values' = [values EXCEPT ![i] = NextHole]
      /\ last_hole' = NextHole /\ i' = i + 1
      /\ UNCHANGED <<rc_min, rc_max, value_set>>
  BY DEF PoolInv, FillHole, PoolTypeInv, Cells, Words
<1>2. /\ NextHole \in Range16
      /\ \A v \in Range16 : Plus1(last_hole) <= v /\ v < NextHole => v \in value_set
      /\ Plus1(last_hole) <= rc_max => Plus1(last_hole) <= NextHole
      /\ HolesUpTo(rc_max) = {} =>
              \A v \in Range16 : Plus1(last_hole) <= v => v \in value_set
  BY <1>1, NextHoleIs
<1>3. NextHole \in Nat /\ rc_min <= NextHole /\ NextHole <= rc_max /\ rc_max < WordSize - 1
  BY <1>1, <1>2 DEF Range16, RangeInv
<1>4. Plus1(last_hole') = NextHole + 1
  BY <1>1, <1>3 DEF Plus1
<1>5. values'[i] = NextHole /\ \A c \in Cells : c # i => values'[c] = values[c]
  BY <1>1 DEF PoolTypeInv
<1>6. ASSUME NEW v, v # Vacant, Holds(v) PROVE Holds(v)'
  BY <1>1, <1>5, <1>6 DEF Holds
<1>7. PoolTypeInv'
  <2>1. NextHole \in Words
    BY <1>1, <1>3 DEF Words
  <2>. QED BY <1>1, <2>1 DEF PoolTypeInv, Cells
<1>8. RangeInv'
  <2>1. ASSUME NEW c \in Cells PROVE values'[c] \in Range16 \union {Vacant}
    BY <1>1, <1>2, <1>5 DEF RangeInv
  <2>. QED BY <1>1, <2>1 DEF RangeInv, Range16
<1>9. SetInv'
  <2>1. ASSUME NEW v \in value_set PROVE v # Vacant
    BY <1>1 DEF RangeInv, Range16, Vacant
  <2>. QED BY <1>1, <1>6, <2>1 DEF SetInv
<1>10. ASSUME NEW v \in Range16, v < NextHole + 1 PROVE Holds(v)'
  <2>1. v \in Nat /\ v # Vacant
    BY <1>1 DEF Range16, Vacant
  <2>2. CASE v = NextHole
    BY <1>1, <1>5, <2>2 DEF Holds
  <2>3. CASE v < Plus1(last_hole)
    BY <1>1, <1>6, <2>1, <2>3 DEF LoopInv
  <2>4. CASE Plus1(last_hole) <= v /\ v < NextHole
    <3>1. v \in value_set
      BY <1>2, <2>4
    <3>. QED BY <1>1, <1>6, <2>1, <3>1 DEF SetInv
  <2>5. Plus1(last_hole) \in Nat
    BY <1>1 DEF Plus1
  <2>. QED BY <2>1, <2>2, <2>3, <2>4, <2>5, <1>3, <1>10
<1>11. ASSUME NEW c \in Cells, c < i + 1 PROVE values'[c] # Vacant
  <2>1. CASE c = i
    BY <1>3, <1>5, <2>1 DEF Vacant
  <2>2. CASE c # i
    <3>1. c < i
      BY <1>1, <1>11, <2>2 DEF Cells
    <3>. QED BY <1>1, <1>5, <2>2, <3>1 DEF LoopInv
  <2>. QED BY <2>1, <2>2
<1>12. LoopInv'
  <2>1. Range16' = Range16 /\ Plus1(last_hole)' = NextHole + 1
    BY <1>1, <1>4 DEF Range16, Plus1
  <2>2. rc_min' <= Plus1(last_hole)' /\ Plus1(last_hole)' <= rc_max' + 1
    BY <1>1, <1>3, <2>1
  <2>. QED BY <1>1, <1>10, <1>11, <2>1, <2>2 DEF LoopInv
<1>. QED BY <1>1, <1>7, <1>8, <1>9, <1>12 DEF PoolInv

LEMMA FilledStep ==
  ASSUME WordSize \in Nat \ {0}, Size \in Nat, PoolInv, Filled
  PROVE  PoolInv'
<1>1. /\ PoolTypeInv /\ RangeInv /\ SetInv /\ LoopInv /\ i = Size
      /\ pc' = IF HolesUpTo(rc_max) = {} THEN "filled" ELSE "failed"
      /\ UNCHANGED <<values, rc_min, rc_max, i, last_hole, value_set>>
  BY DEF PoolInv, Filled
<1>2. PoolTypeInv'
  BY <1>1 DEF PoolTypeInv
<1>3. CASE HolesUpTo(rc_max) # {}
  BY <1>1, <1>2, <1>3 DEF PoolInv
<1>4. CASE HolesUpTo(rc_max) = {}
  <2>1. ASSUME NEW c \in Cells PROVE values[c] \in Range16
    <3>1. c < i
      BY <1>1 DEF Cells
    <3>. QED BY <1>1, <3>1 DEF LoopInv, RangeInv
  <2>2. ASSUME NEW v \in Range16 PROVE Holds(v)
    <3>1. CASE v < Plus1(last_hole)
      BY <1>1, <3>1 DEF LoopInv
    <3>2. CASE Plus1(last_hole) <= v
      BY <1>1, <1>4, <3>2, NextHoleIs DEF SetInv
    <3>3. v \in Int /\ Plus1(last_hole) \in Int
      BY <1>1 DEF Range16, PoolTypeInv, Words, Plus1
    <3>. QED BY <3>1, <3>2, <3>3
  <2>3. FilledInv'
    BY <1>1, <2>1, <2>2 DEF FilledInv, Holds, Range16
  <2>. QED BY <1>1, <1>2, <1>4, <2>3 DEF PoolInv
<1>. QED BY <1>3, <1>4

LEMMA PoolInvStays ==
  ASSUME WordSize \in Nat \ {0}, Size \in Nat, PoolInv, [FinalizeNext]_cell_vars
  PROVE  PoolInv'
<1>1. CASE Finalize BY <1>1, FinalizeStep
<1>2. CASE Skip BY <1>2, SkipStep
<1>3. CASE FillHole BY <1>3, FillHoleStep
<1>4. CASE Filled BY <1>4, FilledStep
<1>5. CASE UNCHANGED cell_vars
  BY <1>5 DEF cell_vars, PoolInv, PoolTypeInv, RangeInv, SetInv, LoopInv, FilledInv, Holds,
     Range16, Plus1
<1>. QED BY <1>1, <1>2, <1>3, <1>4, <1>5 DEF FinalizeNext

LEMMA PoolInvIsWhole == ASSUME PoolInv PROVE IsWhole
<1>1. CASE pc = "filled"
  <2>1. \A c \in Cells : values[c] \in Range16
    BY <1>1 DEF PoolInv, FilledInv
  <2>2. \A v \in Range16 : \E c \in Cells : values[c] = v
    BY <1>1 DEF PoolInv, FilledInv, Holds
  <2>. QED BY <2>1, <2>2 DEF IsWhole, Range16
<1>. QED BY <1>1 DEF IsWhole

(* Whatever cells others have written, a pool that Finalize fills without  *)
(* an exception has every value from rc_min to rc_max and no other, which  *)
(* is what sorting it and the range check constraints take for granted     *)
(* (range_check_cell.inl:43-76).                                           *)
THEOREM FilledPoolIsWhole ==
  ASSUME WordSize \in Nat \ {0}, Size \in Nat
  PROVE  FinalizeSpec => []IsWhole
<1>1. Written => PoolInv
  BY PoolIsOpened
<1>2. PoolInv /\ [FinalizeNext]_cell_vars => PoolInv'
  BY PoolInvStays
<1>3. PoolInv => IsWhole
  BY PoolInvIsWhole
<1>. QED BY <1>1, <1>2, <1>3, PTL DEF FinalizeSpec
-----------------------------------------------------------------------------
(* What a proof keeps of the evaluations of its traces.  First the calls   *)
(* of a CachedLdeManager, one by one.                                      *)

Entries == [columns : Nat, offset : Int,
            order : {"none", "uninitialised", "natural", "reversed"}]
Managers == [full : BOOLEAN, fft : BOOLEAN, done_adding : BOOLEAN, columns : Nat,
             has_lde : BOOLEAN, cache : [Cosets -> Entries], previous : Nat, twiddles : Int]

Value(columns, coset) == Evaluation(columns, CosetOffset(coset))

(* What is cached are the evaluations on the first n cosets. *)
Cached(m, columns, n) ==
  \A coset \in Cosets : m.cache[coset] = IF m.full /\ coset < n THEN Value(columns, coset) ELSE Nothing

(* A manager while columns are added to it. *)
Adding(m, full, fft, columns) ==
  /\ m \in Managers /\ m.full = full /\ m.fft = fft /\ m.columns = columns
  /\ ~m.done_adding /\ m.has_lde /\ m.previous = CosetOffset(0)
  /\ Cached(m, columns, 0)

(* One that has all of them, whose twiddle factors are where it thinks.    *)
Ready(m, full, fft, columns, n, has_lde) ==
  /\ m \in Managers /\ m.full = full /\ m.fft = fft /\ m.columns = columns
  /\ m.done_adding /\ m.has_lde = has_lde /\ m.twiddles = m.previous
  /\ Cached(m, columns, n)

LEMMA CosetsAre == NCosets \in Nat \ {0} /\ Cosets = 0 .. NCosets - 1 /\ 0 \in Cosets
BY LogNCosetsAssumption, Pow2Is DEF NCosets, Cosets

LEMMA OffsetsAre == \A coset \in Cosets : CosetOffset(coset) \in Nat
<1>1. ASSUME NEW coset \in Cosets PROVE BitReverse[LogNCosets][coset] \in 0 .. (Pow2[LogNCosets] - 1)
  <2>1. coset \in 0 .. (Pow2[LogNCosets] - 1)
    BY DEF Cosets, NCosets
  <2> QED BY <2>1, LogNCosetsAssumption, BitReverseRange
<1>2. Pow2[LogNCosets] \in Nat
  BY LogNCosetsAssumption, Pow2Is
<1> QED BY <1>1, <1>2 DEF CosetOffset

LEMMA EntriesAre ==
  /\ Nothing \in Entries
  /\ \A columns \in Nat : Memory(columns) \in Entries /\ Memory(columns).columns = columns
  /\ \A columns \in Nat : \A coset \in Cosets :
       Value(columns, coset) \in Entries /\ Value(columns, coset).columns = columns
  /\ \A entry \in Entries : entry.columns # 0 => entry # Nothing
<1>1. /\ Nothing \in Entries
      /\ \A columns \in Nat : Memory(columns) \in Entries /\ Memory(columns).columns = columns
  BY DEF Nothing, Memory, Entries
<1>2. ASSUME NEW columns \in Nat, NEW coset \in Cosets
      PROVE  Value(columns, coset) \in Entries /\ Value(columns, coset).columns = columns
  <2>1. PICK offset \in Nat : offset = CosetOffset(coset)
    BY OffsetsAre
  <2> QED BY <2>1 DEF Value, Evaluation, Entries
<1>3. \A entry \in Entries : entry.columns # 0 => entry # Nothing
  <2>1. Nothing.columns = 0
    BY DEF Nothing
  <2> QED BY <2>1
<1> QED BY <1>1, <1>2, <1>3

LEMMA ReversedEntries ==
  ASSUME NEW entry \in Entries
  PROVE  BitReversed(entry) \in Entries /\ BitReversed(entry).columns = entry.columns
BY DEF BitReversed, Entries

(* The twiddle factors are moved from one offset to another. *)
LEMMA Shifted ==
  ASSUME NEW m \in Managers, NEW offset \in Nat
  PROVE  LET r == ShiftTwiddleFactors(m, offset)
         IN /\ r \in Managers /\ r.full = m.full /\ r.fft = m.fft /\ r.done_adding = m.done_adding
            /\ r.columns = m.columns /\ r.has_lde = m.has_lde /\ r.cache = m.cache
            /\ r.previous = offset /\ r.twiddles = m.twiddles + offset - m.previous
<1>1. PICK t : t = m.twiddles + offset - m.previous
  OBVIOUS
<1>2. t \in Int
  BY <1>1 DEF Managers
<1>3. PICK r : r = [m EXCEPT !.twiddles = t, !.previous = offset]
  OBVIOUS
<1>4. r \in Managers
  BY <1>2, <1>3 DEF Managers
<1>5. /\ r.full = m.full /\ r.fft = m.fft /\ r.done_adding = m.done_adding
      /\ r.columns = m.columns /\ r.has_lde = m.has_lde /\ r.cache = m.cache
  BY <1>2, <1>3 DEF Managers
<1>6. r.previous = offset /\ r.twiddles = t
  BY <1>2, <1>3 DEF Managers
<1>7. r = ShiftTwiddleFactors(m, offset)
  BY <1>1, <1>3 DEF ShiftTwiddleFactors
<1> QED
  BY <1>1, <1>4, <1>5, <1>6, <1>7

LEMMA Stored ==
  ASSUME NEW m \in Managers, NEW coset \in Cosets, NEW entry \in Entries
  PROVE  LET r == InCache(m, coset, entry)
         IN /\ r \in Managers /\ r.full = m.full /\ r.fft = m.fft /\ r.done_adding = m.done_adding
            /\ r.columns = m.columns /\ r.has_lde = m.has_lde
            /\ r.previous = m.previous /\ r.twiddles = m.twiddles
            /\ r.cache[coset] = IF m.full THEN entry ELSE m.cache[coset]
            /\ \A other \in Cosets \ {coset} : r.cache[other] = m.cache[other]
BY DEF InCache, Managers

(* One more column, and the end of them. *)
LEMMA Added ==
  ASSUME NEW m, NEW full, NEW fft, NEW columns \in Nat, Adding(m, full, fft, columns)
  PROVE  AddEvaluation(m).ok /\ Adding(AddEvaluation(m).m, full, fft, columns + 1)
<1>0. PICK k \in Nat : k = columns + 1
  OBVIOUS
<1>1. PICK r : r = [m EXCEPT !.columns = k]
  OBVIOUS
<1>2. AddEvaluation(m).ok /\ AddEvaluation(m).m = r
  <2>1. [m EXCEPT !.columns = @ + 1] = r
    BY <1>0, <1>1 DEF Adding, Managers
  <2> QED BY <2>1 DEF AddEvaluation, Returns, Adding
<1>3. /\ r \in Managers /\ r.full = m.full /\ r.fft = m.fft /\ r.done_adding = m.done_adding
      /\ r.columns = k /\ r.has_lde = m.has_lde /\ r.cache = m.cache /\ r.previous = m.previous
  BY <1>1 DEF Adding, Managers
<1>4. Cached(r, k, 0)
  BY <1>3, CosetsAre DEF Adding, Cached
<1> QED
  BY <1>0, <1>2, <1>3, <1>4 DEF Adding

LEMMA AddedAll ==
  ASSUME NEW m, NEW full, NEW fft, NEW columns \in Nat, Adding(m, full, fft, columns)
  PROVE  FinalizeAdding(m).ok /\ Ready(FinalizeAdding(m).m, full, fft, columns, 0, TRUE)
<1>0. CosetOffset(0) \in Nat
  BY CosetsAre, OffsetsAre
<1>1a. PICK offset \in Nat : offset = CosetOffset(0)
  BY <1>0
<1>1b. PICK done \in BOOLEAN : done = TRUE
  OBVIOUS
<1>1. PICK r : r = [m EXCEPT !.done_adding = done, !.twiddles = offset]
  OBVIOUS
<1>2. FinalizeAdding(m).ok /\ FinalizeAdding(m).m = r
  BY <1>1, <1>1a, <1>1b DEF FinalizeAdding, Returns, Adding
<1>3. r \in Managers
  <2>1. PICK q : q = [m EXCEPT !.done_adding = done]
    OBVIOUS
  <2>2. q \in Managers
    BY <2>1 DEF Adding, Managers
  <2>3. offset \in Int /\ r = [q EXCEPT !.twiddles = offset]
    BY <1>1, <2>1 DEF Adding, Managers
  <2> QED BY <2>2, <2>3 DEF Managers
<1>4. /\ r.full = m.full /\ r.fft = m.fft /\ r.columns = m.columns /\ r.has_lde = m.has_lde
      /\ r.cache = m.cache /\ r.previous = m.previous
  BY <1>1 DEF Adding, Managers
<1>5. r.done_adding /\ r.twiddles = offset
  BY <1>1, <1>1b DEF Adding, Managers
<1>6. Cached(r, columns, 0)
  BY <1>4 DEF Adding, Cached
<1> QED
  BY <1>1a, <1>2, <1>3, <1>4, <1>5, <1>6 DEF Adding, Ready

(* The interpolation is released where all that is needed is stored. *)
LEMMA Released ==
  ASSUME NEW m, NEW full \in BOOLEAN, NEW fft, NEW columns, NEW n,
         Ready(m, full, fft, columns, n, TRUE)
  PROVE  FinalizeEvaluations(m).ok
         /\ Ready(FinalizeEvaluations(m).m, full, fft, columns, n, ~full)
<1>1. PICK r : r = [m EXCEPT !.has_lde = @ /\ ~m.full]
  OBVIOUS
<1>2. FinalizeEvaluations(m).ok /\ FinalizeEvaluations(m).m = r
  BY <1>1 DEF FinalizeEvaluations, Returns, Ready
<1>3. r \in Managers
  BY <1>1 DEF Ready, Managers
<1>4. /\ r.full = m.full /\ r.fft = m.fft /\ r.columns = m.columns
         /\ r.done_adding = m.done_adding
      /\ r.cache = m.cache /\ r.previous = m.previous /\ r.twiddles = m.twiddles
  BY <1>1 DEF Ready, Managers
<1>5. r.has_lde = ~full
  BY <1>1 DEF Ready, Managers
<1>6. Cached(r, columns, n)
  BY <1>4 DEF Ready, Cached
<1> QED
  BY <1>2, <1>3, <1>4, <1>5, <1>6 DEF Ready

(* EvalOnCoset gives the evaluation on the very coset, from the cache or   *)
(* anew, and leaves the manager ready for the next call.                   *)
LEMMA Evaluated ==
  ASSUME NEW m, NEW full \in BOOLEAN, NEW fft, NEW columns \in Nat \ {0}, NEW n \in 0..NCosets,
         NEW has_lde \in BOOLEAN, Ready(m, full, fft, columns, n, has_lde),
         NEW coset \in Cosets, NEW storage \in Entries,
         full => coset <= n, ~full => storage.columns = columns,
         has_lde \/ (full /\ coset < n)
  PROVE  LET r == EvalOnCoset(m, coset, storage)
         IN /\ r.ok /\ r.value = Value(columns, coset)
            /\ Ready(r.m, full, fft, columns, IF coset = n THEN n + 1 ELSE n, has_lde)
            /\ r.storage \in Entries /\ (~full => r.storage.columns = columns)
<1>1. NCosets \in Nat /\ coset \in Nat /\ n \in Nat /\ coset < NCosets
  BY CosetsAre
<1>2. PICK value \in Entries : value = Value(columns, coset) /\ value.columns = columns
                               /\ value # Nothing
  BY EntriesAre
<1>3. /\ m \in Managers /\ m.full = full /\ m.fft = fft /\ m.columns = columns
      /\ m.done_adding /\ m.has_lde = has_lde /\ m.twiddles = m.previous
      /\ m.cache[coset] = IF full /\ coset < n THEN value ELSE Nothing
  BY <1>2 DEF Ready, Cached
<1>4. CASE full /\ coset < n
  <2>1. EvalOnCoset(m, coset, storage) = Returns(m, storage, value)
    BY <1>2, <1>3, <1>4 DEF EvalOnCoset, Hit
  <2>2. coset # n
    BY <1>1, <1>4
  <2>3. PICK r : r = Returns(m, storage, value)
    OBVIOUS
  <2>4. r.ok /\ r.value = value /\ r.m = m /\ r.storage = storage
    BY <2>3 DEF Returns
  <2> QED BY <1>2, <1>4, <2>1, <2>2, <2>3, <2>4
<1>5. CASE ~(full /\ coset < n)
  <2>1. PICK offset \in Nat : offset = CosetOffset(coset)
    BY OffsetsAre
  <2>2. PICK s : s = ShiftTwiddleFactors(m, offset)
    OBVIOUS
  <2>3. /\ s \in Managers /\ s.full = full /\ s.fft = fft /\ s.done_adding /\ s.columns = columns
        /\ s.has_lde = TRUE /\ has_lde = TRUE /\ s.cache = m.cache /\ s.previous = offset
        /\ s.twiddles = m.twiddles + offset - m.previous
    <3>1. /\ s \in Managers /\ s.full = m.full /\ s.fft = m.fft /\ s.done_adding = m.done_adding
          /\ s.columns = m.columns /\ s.has_lde = m.has_lde /\ s.cache = m.cache
          /\ s.previous = offset /\ s.twiddles = m.twiddles + offset - m.previous
      BY <1>3, <2>2, Shifted
    <3>2. has_lde = TRUE
      BY ONLY <1>5, has_lde \in BOOLEAN, has_lde \/ (full /\ coset < n)
    <3> QED BY ONLY <1>3, <3>1, <3>2
  <2>4. s.twiddles = offset
    <3>1. m.previous \in Nat
      BY <1>3 DEF Managers
    <3> QED BY <1>3, <2>3, <3>1
  <2>5. PICK target : target = IF m.full THEN InitializeEntry(m) ELSE storage
    OBVIOUS
  <2>6. target \in Entries /\ target.columns = columns /\ target # Nothing
    BY <1>3, <2>5, EntriesAre DEF InitializeEntry
  <2>7. PICK stored : stored = InCache(s, coset, value)
    OBVIOUS
  <2>8. /\ stored \in Managers /\ stored.full = full /\ stored.fft = fft /\ stored.done_adding
        /\ stored.columns = columns /\ stored.has_lde = TRUE
        /\ stored.previous = offset /\ stored.twiddles = offset
        /\ stored.cache[coset] = IF full THEN value ELSE s.cache[coset]
        /\ \A other \in Cosets \ {coset} : stored.cache[other] = s.cache[other]
    <3>1. /\ stored \in Managers /\ stored.full = s.full /\ stored.fft = s.fft
          /\ stored.done_adding = s.done_adding
          /\ stored.columns = s.columns /\ stored.has_lde = s.has_lde
          /\ stored.previous = s.previous /\ stored.twiddles = s.twiddles
          /\ stored.cache[coset] = IF s.full THEN value ELSE s.cache[coset]
          /\ \A other \in Cosets \ {coset} : stored.cache[other] = s.cache[other]
      <4>1. s \in Managers /\ coset \in Cosets /\ value \in Entries
        BY <2>3
      <4> QED BY ONLY <2>7, <4>1, Stored
    <3> QED BY ONLY <2>3, <2>4, <3>1
  <2>9. ~Hit(m, coset)
    BY <1>3, <1>5 DEF Hit
  <2>10. EvalOnCoset(m, coset, storage) = Compute(s, coset, target, storage)
    BY <1>3, <2>1, <2>2, <2>5, <2>9 DEF EvalOnCoset
  <2>11. Compute(s, coset, target, storage) = Returns(stored, IF full THEN storage ELSE value, value)
    BY <1>2, <2>1, <2>3, <2>4, <2>6, <2>7 DEF Compute, Value
  <2>12. PICK k : k = IF coset = n THEN n + 1 ELSE n
    OBVIOUS
  <2>13. Cached(stored, columns, k)
    <3>1. ASSUME NEW c \in Cosets
          PROVE  stored.cache[c] = IF full /\ c < k THEN Value(columns, c) ELSE Nothing
      <4>1. c \in Nat /\ m.cache[c] = IF full /\ c < n THEN Value(columns, c) ELSE Nothing
        BY <1>3, CosetsAre DEF Ready, Cached
      <4>2. CASE c = coset
        BY <1>1, <1>2, <1>3, <1>5, <2>3, <2>8, <2>12, <4>1, <4>2
      <4>3. CASE c # coset
        <5>1. stored.cache[c] = m.cache[c]
          BY <2>3, <2>8, <4>3
        <5>2. full => (c < k <=> c < n)
          BY <1>1, <1>5, <2>12, <4>1, <4>3
        <5> QED BY <4>1, <5>1, <5>2
      <4> QED BY <4>2, <4>3
    <3> QED BY <2>8, <3>1 DEF Cached
  <2>14. Ready(stored, full, fft, columns, k, has_lde)
    BY <2>3, <2>8, <2>13 DEF Ready
  <2> QED BY <1>2, <2>10, <2>11, <2>12, <2>14 DEF Returns
<1> QED
  BY <1>4, <1>5

-----------------------------------------------------------------------------
(* Queries are answered from the cache, by evaluations of whole cosets, or *)
(* point by point.                                                         *)

Answers == [offset : Int, order : {"none", "uninitialised", "natural", "reversed"}, point : Nat]

LEMMA AnswersAre ==
  /\ \A entry \in Entries : \A point \in Nat : Answer(entry, point) \in Answers
  /\ \A columns \in Nat : \A query \in Cosets \X Nat :
       Answer(Value(columns, query[1]), query[2]) = RightAnswer(query)
<1>1. ASSUME NEW entry \in Entries, NEW point \in Nat PROVE Answer(entry, point) \in Answers
  BY DEF Answer, Answers, Entries
<1>2. ASSUME NEW columns \in Nat, NEW query \in Cosets \X Nat
      PROVE  Answer(Value(columns, query[1]), query[2]) = RightAnswer(query)
  <2>1. PICK offset : offset = CosetOffset(query[1])
    OBVIOUS
  <2> QED BY <2>1 DEF Answer, Value, RightAnswer, Evaluation
<1> QED BY <1>1, <1>2

LEMMA NotCached ==
  ASSUME NEW m, NEW fft, NEW columns, NEW n, NEW has_lde,
         Ready(m, FALSE, fft, columns, n, has_lde), NEW k
  PROVE  Ready(m, FALSE, fft, columns, k, has_lde)
BY DEF Ready, Cached

(* What the loop over the cosets keeps. *)
InLoop(r, fft, columns, queries) ==
  /\ r \in [m : Managers, storage : Entries, value : [DOMAIN queries -> Answers], ok : BOOLEAN]
  /\ r.ok /\ Ready(r.m, FALSE, fft, columns, NCosets, TRUE) /\ r.storage.columns = columns

OneMoreCoset(s, r, fft, columns, queries, coset) ==
  /\ InLoop(s, fft, columns, queries)
  /\ \A k \in DOMAIN queries : s.value[k] = IF queries[k][1] = coset THEN RightAnswer(queries[k])
                                            ELSE r.value[k]

LEMMA OneCoset ==
  ASSUME NEW columns \in Nat \ {0}, NEW fft, NEW D, NEW queries, queries \in [D -> Cosets \X Nat],
         NEW r, InLoop(r, fft, columns, queries), NEW coset \in Cosets
  PROVE  OneMoreCoset(WithCoset(r, queries, coset), r, fft, columns, queries, coset)
<1>1. /\ r.ok /\ Ready(r.m, FALSE, fft, columns, NCosets, TRUE) /\ r.storage.columns = columns
      /\ r.storage \in Entries /\ r.value \in [D -> Answers]
  BY DEF InLoop
<1>2. PICK asked : asked = QueriesOfCoset(queries, coset)
  OBVIOUS
<1>3. \A k \in D : k \in asked <=> queries[k][1] = coset
  BY <1>2 DEF QueriesOfCoset
<1>4. CASE asked = {}
  BY <1>2, <1>3, <1>4 DEF WithCoset, OneMoreCoset
<1>5. CASE asked # {}
  <2>1. PICK call : call = EvalOnCoset(r.m, coset, r.storage)
    OBVIOUS
  <2>2. /\ call.ok /\ call.value = Value(columns, coset)
        /\ Ready(call.m, FALSE, fft, columns, NCosets, TRUE)
        /\ call.storage \in Entries /\ call.storage.columns = columns
    <3>1. NCosets \in 0..NCosets /\ coset # NCosets
      BY CosetsAre
    <3>2. PICK full, has_lde \in BOOLEAN : full = FALSE /\ has_lde = TRUE
      OBVIOUS
    <3>3. Ready(r.m, full, fft, columns, NCosets, has_lde)
      BY <1>1, <3>2
    <3>3a. full \in BOOLEAN /\ has_lde \in BOOLEAN /\ (full => coset <= NCosets)
           /\ (~full => r.storage.columns = columns) /\ (has_lde \/ (full /\ coset < NCosets))
      BY <1>1, <3>2
    <3>4. /\ call.ok /\ call.value = Value(columns, coset)
          /\ Ready(call.m, full, fft, columns,
                   IF coset = NCosets THEN NCosets + 1 ELSE NCosets, has_lde)
          /\ call.storage \in Entries /\ (~full => call.storage.columns = columns)
      BY ONLY <1>1, <2>1, <3>1, <3>3, <3>3a, columns \in Nat \ {0}, coset \in Cosets, Evaluated
    <3> QED BY <3>1, <3>2, <3>4
  <2>3. PICK value :
          value = [k \in DOMAIN queries |-> IF k \in asked THEN Answer(call.value, queries[k][2])
                                                            ELSE r.value[k]]
    OBVIOUS
  <2>4. ASSUME NEW k \in D
        PROVE  /\ value[k] \in Answers
               /\ value[k] = IF queries[k][1] = coset THEN RightAnswer(queries[k]) ELSE r.value[k]
    <3>0. PICK query \in Cosets \X Nat : query = queries[k]
      OBVIOUS
    <3>1. CASE k \in asked
      <4>1. value[k] = Answer(Value(columns, query[1]), query[2]) /\ query[1] = coset
        BY <1>3, <2>2, <2>3, <3>0, <3>1
      <4>2. Value(columns, query[1]) \in Entries /\ query[2] \in Nat
        BY EntriesAre
      <4> QED BY <3>0, <4>1, <4>2, AnswersAre
    <3>2. CASE k \notin asked
      BY <1>1, <1>3, <2>3, <3>2
    <3> QED BY <3>1, <3>2
  <2>5. value \in [D -> Answers]
    BY <2>3, <2>4
  <2>6. PICK s : s = Returns(call.m, call.storage, value)
    OBVIOUS
  <2>7. WithCoset(r, queries, coset) = s
    BY <1>1, <1>2, <1>5, <2>1, <2>2, <2>3, <2>6 DEF WithCoset
  <2>8. InLoop(s, fft, columns, queries) /\ s.value = value
    BY <2>2, <2>5, <2>6 DEF InLoop, Returns, Ready
  <2> QED BY <2>4, <2>7, <2>8 DEF OneMoreCoset
<1> QED
  BY <1>4, <1>5

(* The loop begins with nothing answered. *)
AtStart(m, queries) ==
  Returns(m, InitializeEntry(m), [k \in DOMAIN queries |-> Answer(Nothing, queries[k][2])])

LEMMA LoopBegins ==
  ASSUME NEW columns \in Nat \ {0}, NEW fft, NEW D, NEW queries, queries \in [D -> Cosets \X Nat],
         NEW m, Ready(m, FALSE, fft, columns, NCosets, TRUE)
  PROVE  InLoop(AtStart(m, queries), fft, columns, queries)
<1>1. PICK value : value = [k \in DOMAIN queries |-> Answer(Nothing, queries[k][2])]
  OBVIOUS
<1>2. value \in [D -> Answers]
  <2>1. ASSUME NEW k \in D PROVE Answer(Nothing, queries[k][2]) \in Answers
    BY EntriesAre, AnswersAre
  <2> QED BY <1>1, <2>1
<1>3. PICK entry \in Entries : entry = InitializeEntry(m) /\ entry.columns = columns
  BY EntriesAre DEF InitializeEntry, Ready
<1>4. AtStart(m, queries) = Returns(m, entry, value)
  BY <1>1, <1>3 DEF AtStart
<1>5. PICK r : r = Returns(m, entry, value)
  OBVIOUS
<1>6. /\ r \in [m : Managers, storage : Entries, value : [DOMAIN queries -> Answers], ok : BOOLEAN]
      /\ r.ok /\ r.m = m /\ r.storage = entry
  BY <1>2, <1>5 DEF Returns, Ready
<1> QED
  BY <1>3, <1>4, <1>5, <1>6 DEF InLoop

(* The function that Recomputed chooses. *)
LoopOver(f, m, queries) ==
  /\ Recomputed(m, queries) = f[NCosets]
  /\ f[0] = AtStart(m, queries)
  /\ \A n \in 0..(NCosets - 1) : f[n + 1] = WithCoset(f[n], queries, n)

LEMMA RecomputedSolves ==
  ASSUME NEW columns \in Nat \ {0}, NEW fft, NEW D, NEW queries, queries \in [D -> Cosets \X Nat],
         NEW m, Ready(m, FALSE, fft, columns, NCosets, TRUE)
  PROVE  \E f : LoopOver(f, m, queries)
<1>0. PICK N \in Nat \ {0} : N = NCosets /\ Cosets = 0..(N - 1)
  BY CosetsAre
<1>1. PICK S :
        S = {r \in [m : Managers, storage : Entries, value : [DOMAIN queries -> Answers],
                    ok : BOOLEAN] : InLoop(r, fft, columns, queries)}
  OBVIOUS
<1>2. \A r : r \in S <=> InLoop(r, fft, columns, queries)
  BY <1>1 DEF InLoop
<1>3. ASSUME NEW r \in S, NEW n \in 0..(N - 1) PROVE WithCoset(r, queries, n) \in S
  <2>1. InLoop(r, fft, columns, queries) /\ n \in Cosets
    BY <1>0, <1>2
  <2>2. OneMoreCoset(WithCoset(r, queries, n), r, fft, columns, queries, n)
    BY <2>1, OneCoset
  <2> QED BY <1>2, <2>2 DEF OneMoreCoset
<1>4. PICK base \in S : base = AtStart(m, queries)
  BY <1>2, LoopBegins
<1>5. PICK step : step = [x \in Nat \X S |-> IF x[1] < N THEN WithCoset(x[2], queries, x[1]) ELSE x[2]]
  OBVIOUS
<1>6. step \in [Nat \X S -> S]
  <2>1. ASSUME NEW x \in Nat \X S
        PROVE  (IF x[1] < N THEN WithCoset(x[2], queries, x[1]) ELSE x[2]) \in S
    <3>1. x[1] \in Nat /\ x[2] \in S
      OBVIOUS
    <3>2. CASE x[1] < N
      <4>1. x[1] \in 0..(N - 1)
        BY <3>1, <3>2
      <4> QED BY <1>3, <3>1, <3>2, <4>1
    <3> QED BY <3>1, <3>2
  <2> QED BY <1>5, <2>1
<1>7. PICK g : Recurs(g, S, base, step)
  BY <1>6, RecursionHasSolution
<1>8. g \in [Nat -> S] /\ g[0] = base /\ \A n \in Nat : g[n + 1] = step[<<n, g[n]>>]
  BY <1>7 DEF Recurs
<1>9. ASSUME NEW n \in 0..(N - 1) PROVE g[n + 1] = WithCoset(g[n], queries, n)
  <2>1. n \in Nat /\ n < N /\ g[n] \in S
    BY <1>8
  <2>2. step[<<n, g[n]>>] = WithCoset(g[n], queries, n)
    BY <1>5, <2>1
  <2> QED BY <1>8, <2>1, <2>2
<1>10. PICK h : h = [n \in 0..N |-> g[n]]
  OBVIOUS
<1>11. ASSUME NEW n \in 0..N
       PROVE  h[n] = IF n = 0 THEN AtStart(m, queries) ELSE WithCoset(h[n - 1], queries, n - 1)
  <2>1. CASE n = 0
    BY <2>1, <1>4, <1>8, <1>10
  <2>2. CASE n # 0
    <3>1. n - 1 \in 0..(N - 1) /\ n - 1 \in 0..N /\ (n - 1) + 1 = n
      BY <2>2
    <3>2. g[(n - 1) + 1] = WithCoset(g[n - 1], queries, n - 1)
      BY <1>9, <3>1
    <3>3. h[n] = g[n] /\ h[n - 1] = g[n - 1]
      BY <1>10, <3>1
    <3> QED BY <2>2, <3>1, <3>2, <3>3
  <2> QED BY <2>1, <2>2
<1>12. h = [n \in 0..N |-> IF n = 0 THEN AtStart(m, queries)
                                    ELSE WithCoset(h[n - 1], queries, n - 1)]
  <2>1. PICK e : e = [n \in 0..N |-> IF n = 0 THEN AtStart(m, queries)
                                              ELSE WithCoset(h[n - 1], queries, n - 1)]
    OBVIOUS
  <2>2. \A n \in 0..N : e[n] = h[n]
    BY <2>1, <1>11
  <2>3. h = [n \in 0..N |-> h[n]] /\ e = [n \in 0..N |-> e[n]]
    BY <1>10, <2>1
  <2> QED BY <2>1, <2>2, <2>3
<1> DEFINE f == CHOOSE f : f = [n \in 0..NCosets |->
                             IF n = 0 THEN Returns(m, InitializeEntry(m),
                                                   [k \in DOMAIN queries |-> Answer(Nothing, queries[k][2])])
                             ELSE WithCoset(f[n - 1], queries, n - 1)]
<1>13. f = [n \in 0..N |-> IF n = 0 THEN AtStart(m, queries)
                                    ELSE WithCoset(f[n - 1], queries, n - 1)]
  BY <1>0, <1>12 DEF AtStart
<1>14. Recomputed(m, queries) = f[NCosets]
  BY DEF Recomputed
<1> HIDE DEF f
<1>15. f[0] = AtStart(m, queries)
  BY <1>13
<1>16. ASSUME NEW n \in 0..(N - 1) PROVE f[n + 1] = WithCoset(f[n], queries, n)
  <2>1. n + 1 \in 0..N /\ n + 1 # 0 /\ (n + 1) - 1 = n
    OBVIOUS
  <2>2. f[n + 1] = WithCoset(f[(n + 1) - 1], queries, (n + 1) - 1)
    BY <1>13, <2>1
  <2> QED BY <2>1, <2>2
<1> QED
  BY <1>0, <1>14, <1>15, <1>16 DEF LoopOver

RightlyAnswered(r, full, fft, columns, has_lde, queries) ==
  /\ r.ok /\ Ready(r.m, full, fft, columns, NCosets, has_lde)
  /\ \A k \in DOMAIN queries : r.value[k] = RightAnswer(queries[k])

LEMMA RecomputedIs ==
  ASSUME NEW columns \in Nat \ {0}, NEW fft, NEW D, NEW queries, queries \in [D -> Cosets \X Nat],
         NEW m, Ready(m, FALSE, fft, columns, NCosets, TRUE)
  PROVE  RightlyAnswered(Recomputed(m, queries), FALSE, fft, columns, TRUE, queries)
<1>0. PICK N \in Nat \ {0} : N = NCosets /\ Cosets = 0..(N - 1)
  BY CosetsAre
<1>1. PICK f : /\ Recomputed(m, queries) = f[NCosets]
               /\ f[0] = AtStart(m, queries)
               /\ \A n \in 0..(NCosets - 1) : f[n + 1] = WithCoset(f[n], queries, n)
  <2>1. PICK f : LoopOver(f, m, queries)
    BY RecomputedSolves
  <2> QED BY <2>1 DEF LoopOver
<1> DEFINE Good(n) == /\ InLoop(f[n], fft, columns, queries)
                      /\ \A k \in D : queries[k][1] < n => f[n].value[k] = RightAnswer(queries[k])
           Reached == {n \in 0..N : Good(n)}
<1>2. 0 \in Reached
  <2>1. \A k \in D : ~(queries[k][1] < 0)
    BY <1>0
  <2>2. InLoop(f[0], fft, columns, queries)
    BY <1>1, LoopBegins
  <2> QED BY <2>1, <2>2
<1>3. ASSUME NEW n \in 0..(N - 1), n \in Reached PROVE n + 1 \in Reached
  <2>1. n \in Cosets /\ n \in Nat /\ n + 1 \in 0..N /\ f[n + 1] = WithCoset(f[n], queries, n)
    BY <1>0, <1>1
  <2>2. /\ InLoop(f[n], fft, columns, queries)
        /\ \A k \in D : queries[k][1] < n => f[n].value[k] = RightAnswer(queries[k])
    BY <1>3
  <2>3. PICK s : s = f[n + 1]
    OBVIOUS
  <2>4. /\ InLoop(s, fft, columns, queries)
        /\ \A k \in D : s.value[k] = IF queries[k][1] = n THEN RightAnswer(queries[k])
                                     ELSE f[n].value[k]
    <3>1. OneMoreCoset(WithCoset(f[n], queries, n), f[n], fft, columns, queries, n)
      BY <2>1, <2>2, OneCoset
    <3> QED BY <2>1, <2>3, <3>1 DEF OneMoreCoset
  <2>5. ASSUME NEW k \in D, queries[k][1] < n + 1 PROVE s.value[k] = RightAnswer(queries[k])
    <3>1. queries[k][1] \in Nat
      BY <1>0
    <3>2. queries[k][1] = n \/ queries[k][1] < n
      BY <2>1, <2>5, <3>1
    <3> QED BY <2>2, <2>4, <3>2
  <2> QED BY <2>1, <2>3, <2>4, <2>5
<1>4. \A n \in 0..N : n \in Reached
  <2> HIDE DEF Reached
  <2> QED BY <1>2, <1>3, SegmentInduction
<1>5. N \in 0..N /\ \A k \in D : queries[k][1] < N
  BY <1>0
<1>6. PICK r : r = f[N]
  OBVIOUS
<1>7. InLoop(r, fft, columns, queries) /\ \A k \in D : r.value[k] = RightAnswer(queries[k])
  BY <1>4, <1>5, <1>6
<1> QED
  BY <1>0, <1>1, <1>6, <1>7 DEF InLoop, RightlyAnswered

(* Queries are answered with what is there, whatever is stored. *)
LEMMA PointsEvaluated ==
  ASSUME NEW columns \in Nat \ {0}, NEW full \in BOOLEAN, NEW fft, NEW D,
         NEW queries \in [D -> Cosets \X Nat],
         NEW m, Ready(m, full, fft, columns, NCosets, ~full)
  PROVE  RightlyAnswered(EvalAtPoints(m, queries), full, fft, columns, ~full, queries)
<1>1. m.full = full /\ m.fft = fft /\ m.done_adding /\ m.has_lde = ~full
  BY DEF Ready
<1>2. CASE full
  <2>1. \A coset \in Cosets : m.cache[coset] = Value(columns, coset) /\ m.cache[coset] # Nothing
    BY <1>1, <1>2, EntriesAre, CosetsAre DEF Ready, Cached
  <2>2. PICK value : value = [k \in DOMAIN queries |-> Answer(m.cache[queries[k][1]], queries[k][2])]
    OBVIOUS
  <2>3. ASSUME NEW k \in D PROVE value[k] = RightAnswer(queries[k])
    <3>1. PICK query \in Cosets \X Nat : query = queries[k]
      OBVIOUS
    <3>2. value[k] = Answer(Value(columns, query[1]), query[2])
      BY <2>1, <2>2, <3>1
    <3> QED BY <3>1, <3>2, AnswersAre
  <2>4. \A k \in DOMAIN queries : Hit(m, queries[k][1])
    BY <2>1 DEF Hit
  <2>5. EvalAtPoints(m, queries) = Returns(m, Nothing, value)
    BY <1>1, <1>2, <2>2, <2>4 DEF EvalAtPoints, LookedUp
  <2>6. PICK r : r = Returns(m, Nothing, value)
    OBVIOUS
  <2>7. r.ok /\ r.m = m /\ r.value = value
    BY <2>6 DEF Returns
  <2> QED BY <1>2, <2>3, <2>5, <2>6, <2>7 DEF RightlyAnswered
<1>3. CASE ~full /\ m.fft
  <2>1. Ready(m, FALSE, fft, columns, NCosets, TRUE) /\ full = FALSE /\ ~full = TRUE
    BY <1>3
  <2>2. EvalAtPoints(m, queries) = Recomputed(m, queries)
    BY <1>1, <1>3 DEF EvalAtPoints
  <2>3. RightlyAnswered(Recomputed(m, queries), FALSE, fft, columns, TRUE, queries)
    BY <2>1, RecomputedIs
  <2> QED BY <2>1, <2>2, <2>3 DEF RightlyAnswered
<1>4. CASE ~full /\ ~m.fft
  <2>1. PICK value : value = [k \in DOMAIN queries |-> RightAnswer(queries[k])]
    OBVIOUS
  <2>2. EvalAtPoints(m, queries) = Returns(m, Nothing, value)
    BY <1>1, <1>4, <2>1 DEF EvalAtPoints, PointByPoint
  <2>3. PICK r : r = Returns(m, Nothing, value)
    OBVIOUS
  <2>4. r.ok /\ r.m = m /\ r.value = value
    BY <2>3 DEF Returns
  <2> QED BY <1>4, <2>1, <2>2, <2>3, <2>4 DEF RightlyAnswered
<1> QED
  BY <1>2, <1>3, <1>4

-----------------------------------------------------------------------------
(* The calls of a proof, and where in its program they are.                *)

(* The list s is in the list l, behind its first o elements. *)
Within(l, o, s) ==
  /\ IsList(l) /\ IsList(s) /\ o \in Nat /\ o + Len(s) <= Len(l)
  /\ \A k \in 1..Len(s) : l[o + k] = s[k]

LEMMA WithinJoined ==
  ASSUME NEW s, NEW u, IsList(s), IsList(u)
  PROVE  IsList(s \o u) /\ Len(s \o u) = Len(s) + Len(u) /\ Within(s \o u, 0, s)
         /\ Within(s \o u, Len(s), u)
<1>1. Len(s) \in Nat /\ Len(u) \in Nat
  BY ListProperties
<1>2. /\ IsList(s \o u) /\ Len(s \o u) = Len(s) + Len(u)
      /\ \A k \in 1..Len(s) : (s \o u)[k] = s[k]
      /\ \A k \in 1..Len(u) : (s \o u)[Len(s) + k] = u[k]
  BY Joined
<1>3. PICK l : l = s \o u
  OBVIOUS
<1>4. Within(l, 0, s)
  BY <1>1, <1>2, <1>3 DEF Within
<1>5. Within(l, Len(s), u)
  BY <1>1, <1>2, <1>3 DEF Within
<1> QED
  BY <1>2, <1>3, <1>4, <1>5

LEMMA WithinItself ==
  ASSUME NEW s, IsList(s)
  PROVE  Within(s, 0, s)
BY ListProperties DEF Within

LEMMA WithinWithin ==
  ASSUME NEW l, NEW o, NEW s, NEW p, NEW u, Within(l, o, s), Within(s, p, u)
  PROVE  Within(l, o + p, u)
<1>1. Len(l) \in Nat /\ Len(s) \in Nat /\ Len(u) \in Nat /\ o \in Nat /\ p \in Nat
  BY ListProperties DEF Within
<1>2. o + Len(s) <= Len(l) /\ p + Len(u) <= Len(s)
  BY DEF Within
<1>3. ASSUME NEW k \in 1..Len(u) PROVE l[(o + p) + k] = u[k]
  <2>1. p + k \in 1..Len(s) /\ (o + p) + k = o + (p + k)
    BY <1>1, <1>2
  <2>2. l[o + (p + k)] = s[p + k] /\ s[p + k] = u[k]
    BY <2>1 DEF Within
  <2> QED BY <2>1, <2>2
<1> QED
  BY <1>1, <1>2, <1>3 DEF Within

(* What is in a list still is when another one follows. *)
LEMMA WithinAndMore ==
  ASSUME NEW s, NEW u, NEW o, NEW x, Within(s, o, x), IsList(u)
  PROVE  Within(s \o u, o, x)
<1>1. IsList(s) /\ o \in Nat
  BY DEF Within
<1>2. Within(s \o u, 0 + o, x)
  BY <1>1, WithinJoined, WithinWithin
<1> QED
  BY <1>1, <1>2

Call(op, t, coset) == [op |-> op, t |-> t, coset |-> coset]

LEMMA OpsAre ==
  ASSUME NEW op, NEW t, NEW n \in Nat
  PROVE  /\ IsList(Ops(op, t, n)) /\ Len(Ops(op, t, n)) = n
         /\ \A k \in 1..n : Ops(op, t, n)[k] = Call(op, t, k - 1)
<1>1. PICK s : s = Ops(op, t, n)
  OBVIOUS
<1>2. s = [k \in 1..n |-> s[k]] /\ \A k \in 1..n : s[k] = Call(op, t, k - 1)
  BY <1>1 DEF Ops, Call
<1>3. IsList(s) /\ Len(s) = n
  BY <1>2, IndexedIsList
<1> QED
  BY <1>1, <1>2, <1>3

LEMMA ForAllAre ==
  ASSUME NEW op, NEW n \in Nat
  PROVE  /\ IsList(ForAll(op, n)) /\ Len(ForAll(op, n)) = n
         /\ \A t \in 1..n : ForAll(op, n)[t] = Call(op, t, 0)
<1>1. PICK s : s = ForAll(op, n)
  OBVIOUS
<1>2. s = [k \in 1..n |-> s[k]] /\ \A k \in 1..n : s[k] = Call(op, k, 0)
  BY <1>1 DEF ForAll, Call
<1>3. IsList(s) /\ Len(s) = n
  BY <1>2, IndexedIsList
<1> QED
  BY <1>1, <1>2, <1>3

(* The calls of Commit, one after the other, from place o of a program. *)
CommitsAt(l, o, t, columns) ==
  /\ o + columns + 2 + NCosets <= Len(l)
  /\ \A k \in 1..columns : l[o + k] = Call("add", t, k - 1)
  /\ l[o + columns + 1] = Call("finish", t, 0)
  /\ l[o + columns + 2] = Call("allocate", t, 0)
  /\ \A coset \in Cosets : l[o + columns + 3 + coset] = Call("commit", t, coset)

LEMMA CommitOpsAre ==
  ASSUME NEW t, NEW columns \in Nat, NCosets \in Nat
  PROVE  /\ IsList(CommitOps(t, columns)) /\ Len(CommitOps(t, columns)) = columns + 2 + NCosets
         /\ CommitsAt(CommitOps(t, columns), 0, t, columns)
<1>1. PICK a : a = Ops("add", t, columns)
  OBVIOUS
<1>2. PICK b : b = Ops("finish", t, 1)
  OBVIOUS
<1>3. PICK c : c = Ops("allocate", t, 1)
  OBVIOUS
<1>4. PICK d : d = Ops("commit", t, NCosets)
  OBVIOUS
<1>5. /\ IsList(a) /\ Len(a) = columns /\ \A k \in 1..columns : a[k] = Call("add", t, k - 1)
  BY <1>1, OpsAre
<1>6. /\ IsList(b) /\ Len(b) = 1 /\ b[1] = Call("finish", t, 0)
  <2>1. IsList(b) /\ Len(b) = 1 /\ \A k \in 1..1 : b[k] = Call("finish", t, k - 1)
    BY <1>2, OpsAre
  <2>2. 1 \in 1..1 /\ 1 - 1 = 0
    OBVIOUS
  <2> QED BY <2>1, <2>2
<1>7. /\ IsList(c) /\ Len(c) = 1 /\ c[1] = Call("allocate", t, 0)
  <2>1. IsList(c) /\ Len(c) = 1 /\ \A k \in 1..1 : c[k] = Call("allocate", t, k - 1)
    BY <1>3, OpsAre
  <2>2. 1 \in 1..1 /\ 1 - 1 = 0
    OBVIOUS
  <2> QED BY <2>1, <2>2
<1>8. /\ IsList(d) /\ Len(d) = NCosets /\ \A k \in 1..NCosets : d[k] = Call("commit", t, k - 1)
  BY <1>4, OpsAre
<1>9. PICK ab : ab = a \o b
  OBVIOUS
<1>10. /\ IsList(ab) /\ Len(ab) = columns + 1 /\ Within(ab, 0, a) /\ Within(ab, columns, b)
  BY <1>5, <1>6, <1>9, WithinJoined
<1>11. PICK abc : abc = ab \o c
  OBVIOUS
<1>12. /\ IsList(abc) /\ Len(abc) = columns + 2 /\ Within(abc, 0, a) /\ Within(abc, columns, b)
       /\ Within(abc, columns + 1, c)
  <2>1. IsList(abc) /\ Len(abc) = Len(ab) + Len(c) /\ Within(abc, Len(ab), c)
    BY <1>7, <1>10, <1>11, WithinJoined
  <2>2. Within(abc, 0, a) /\ Within(abc, columns, b)
    BY <1>7, <1>10, <1>11, WithinAndMore
  <2> QED BY <1>7, <1>10, <2>1, <2>2
<1>13. PICK l : l = abc \o d
  OBVIOUS
<1>14. /\ IsList(l) /\ Len(l) = columns + 2 + NCosets /\ Within(l, 0, a) /\ Within(l, columns, b)
       /\ Within(l, columns + 1, c) /\ Within(l, columns + 2, d)
  <2>1. IsList(l) /\ Len(l) = Len(abc) + Len(d) /\ Within(l, Len(abc), d)
    BY <1>8, <1>12, <1>13, WithinJoined
  <2>2. Within(l, 0, a) /\ Within(l, columns, b) /\ Within(l, columns + 1, c)
    BY <1>8, <1>12, <1>13, WithinAndMore
  <2> QED BY <1>8, <1>12, <2>1, <2>2
<1>15. \A k \in 1..columns : l[0 + k] = Call("add", t, k - 1)
  BY <1>5, <1>14 DEF Within
<1>16. l[0 + columns + 1] = Call("finish", t, 0)
  BY <1>6, <1>14 DEF Within
<1>17. l[0 + columns + 2] = Call("allocate", t, 0)
  <2>1. 1 \in 1..Len(c) /\ (columns + 1) + 1 = 0 + columns + 2
    BY <1>7
  <2> QED BY <1>7, <1>14, <2>1 DEF Within
<1>18. ASSUME NEW coset \in Cosets PROVE l[0 + columns + 3 + coset] = Call("commit", t, coset)
  <2>1. coset + 1 \in 1..Len(d) /\ (columns + 2) + (coset + 1) = 0 + columns + 3 + coset
        /\ (coset + 1) - 1 = coset
    BY <1>8 DEF Cosets
  <2> QED BY <1>8, <1>14, <2>1 DEF Within
<1>19. l = CommitOps(t, columns)
  BY <1>1, <1>2, <1>3, <1>4, <1>9, <1>11, <1>13 DEF CommitOps
<1> QED
  BY <1>14, <1>15, <1>16, <1>17, <1>18, <1>19 DEF CommitsAt

(* The calls of EvalComposition. *)
ComposesAt(l, o, n, segments) ==
  /\ o + n <= Len(l)
  /\ \A t \in 1..n : l[o + t] = Call("allocate", t, 0)
  /\ \A coset \in 0..(segments - 1) :
       /\ \A t \in 1..n : l[o + n + coset * (n + 1) + t] = Call("evaluate", t, coset)
       /\ l[o + n + coset * (n + 1) + n + 1] = Call("compose", n, coset)
       /\ o + n + coset * (n + 1) + n + 1 <= Len(l)

LEMMA CosetOpsAre ==
  ASSUME NEW n \in Nat, NEW coset
  PROVE  /\ IsList(CosetOps(n, coset)) /\ Len(CosetOps(n, coset)) = n + 1
         /\ \A t \in 1..n : CosetOps(n, coset)[t] = Call("evaluate", t, coset)
         /\ CosetOps(n, coset)[n + 1] = Call("compose", n, coset)
<1>1. PICK a : a = [t \in 1..n |-> [op |-> "evaluate", t |-> t, coset |-> coset]]
  OBVIOUS
<1>2. PICK b : b = <<[op |-> "compose", t |-> n, coset |-> coset]>>
  OBVIOUS
<1>3. a = [t \in 1..n |-> a[t]] /\ \A t \in 1..n : a[t] = Call("evaluate", t, coset)
  BY <1>1 DEF Call
<1>4. IsList(a) /\ Len(a) = n
  BY <1>3, IndexedIsList
<1>5. PICK e : e = Call("compose", n, coset)
  OBVIOUS
<1>6. b = <<e>>
  BY <1>2, <1>5 DEF Call
<1>7. IsList(b) /\ Len(b) = 1 /\ b[1] = e
  BY <1>6, OneElement
<1>8. PICK l : l = a \o b
  OBVIOUS
<1>9. IsList(l) /\ Len(l) = n + 1 /\ Within(l, 0, a) /\ Within(l, n, b)
  BY <1>4, <1>7, <1>8, WithinJoined
<1>10. \A t \in 1..n : l[t] = Call("evaluate", t, coset)
  BY <1>3, <1>4, <1>9 DEF Within
<1>11. l[n + 1] = e
  BY <1>7, <1>9 DEF Within
<1>12. l = CosetOps(n, coset)
  BY <1>1, <1>2, <1>8 DEF CosetOps
<1> QED
  BY <1>5, <1>9, <1>10, <1>11, <1>12

LEMMA CompositionOpsAre ==
  ASSUME NEW n \in Nat, NEW segments \in Nat \ {0}
  PROVE  /\ IsList(CompositionOps(n, segments))
         /\ Len(CompositionOps(n, segments)) = n + segments * (n + 1)
         /\ ComposesAt(CompositionOps(n, segments), 0, n, segments)
<1>1. PICK a : a = ForAll("allocate", n)
  OBVIOUS
<1>2. IsList(a) /\ Len(a) = n /\ \A t \in 1..n : a[t] = Call("allocate", t, 0)
  BY <1>1, ForAllAre
<1>3. PICK lists : lists = [k \in 1..segments |-> CosetOps(n, k - 1)]
  OBVIOUS
<1>4. IsList(lists) /\ Len(lists) = segments
      /\ \A k \in 1..segments : lists[k] = CosetOps(n, k - 1)
  <2>1. lists = [k \in 1..segments |-> lists[k]]
        /\ \A k \in 1..segments : lists[k] = CosetOps(n, k - 1)
    BY <1>3
  <2> QED BY <2>1, IndexedIsList
<1>5. \A k \in 1..segments : IsList(lists[k]) /\ Len(lists[k]) = n + 1
  BY <1>4, CosetOpsAre
<1>6. PICK before : before = [k \in 0..segments |-> k * (n + 1)]
  OBVIOUS
<1>7. before[0] = 0 /\ before[segments] = segments * (n + 1)
  BY <1>6
<1>8. ASSUME NEW k \in 1..segments PROVE before[k] = before[k - 1] + (n + 1)
  <2>1. k \in 0..segments /\ k - 1 \in 0..segments
    OBVIOUS
  <2>2. before[k] = k * (n + 1) /\ before[k - 1] = (k - 1) * (n + 1)
    BY <1>6, <2>1
  <2>3. PICK j \in Nat : j = k - 1
    OBVIOUS
  <2>4. (j + 1) * (n + 1) = j * (n + 1) + (n + 1)
    BY <2>3
  <2>5. k = j + 1
    BY <2>3
  <2> QED BY <2>2, <2>3, <2>4, <2>5
<1>9. Ends(lists, before)
  BY <1>4, <1>5, <1>7, <1>8 DEF Ends
<1>10. PICK b : b = FlattenSeq(lists)
  OBVIOUS
<1>11. /\ IsList(b) /\ Len(b) = segments * (n + 1)
       /\ \A k \in 1..segments : \A j \in 1..(n + 1) : b[before[k - 1] + j] = CosetOps(n, k - 1)[j]
  <2>1. Flattened(lists, before)
    BY <1>9, FlattenedIs
  <2>2. /\ IsList(b) /\ Len(b) = before[Len(lists)]
        /\ \A k \in 1..Len(lists) : \A j \in 1..Len(lists[k]) : b[before[k - 1] + j] = lists[k][j]
    BY <1>10, <2>1 DEF Flattened
  <2>3. Len(b) = segments * (n + 1)
    BY <1>4, <1>7, <2>2
  <2>4. ASSUME NEW k \in 1..segments, NEW j \in 1..(n + 1)
        PROVE  b[before[k - 1] + j] = CosetOps(n, k - 1)[j]
    <3>1. k \in 1..Len(lists) /\ j \in 1..Len(lists[k]) /\ lists[k] = CosetOps(n, k - 1)
      BY <1>4, <1>5
    <3> QED BY <2>2, <3>1
  <2> QED BY <2>2, <2>3, <2>4
<1>12. ASSUME NEW coset \in 0..(segments - 1)
       PROVE  /\ \A t \in 1..n : b[coset * (n + 1) + t] = Call("evaluate", t, coset)
              /\ b[coset * (n + 1) + n + 1] = Call("compose", n, coset)
  <2>1. coset + 1 \in 1..segments /\ (coset + 1) - 1 = coset /\ coset \in 0..segments
        /\ coset \in Nat
    OBVIOUS
  <2>2. before[coset] = coset * (n + 1)
    BY <1>6, <2>1
  <2>3. \A j \in 1..(n + 1) : b[before[coset] + j] = CosetOps(n, coset)[j]
    BY <1>11, <2>1
  <2>4. /\ \A t \in 1..n : CosetOps(n, coset)[t] = Call("evaluate", t, coset)
        /\ CosetOps(n, coset)[n + 1] = Call("compose", n, coset)
    BY CosetOpsAre
  <2>5. PICK p \in Nat : p = coset * (n + 1)
    BY <2>1
  <2>6. \A t \in 1..n : t \in 1..(n + 1)
    OBVIOUS
  <2>7. n + 1 \in 1..(n + 1) /\ p + n + 1 = p + (n + 1)
    BY <2>5
  <2> QED BY <2>2, <2>3, <2>4, <2>5, <2>6, <2>7
<1>13. PICK l : l = a \o b
  OBVIOUS
<1>14. /\ IsList(l) /\ Len(l) = n + segments * (n + 1) /\ Within(l, 0, a) /\ Within(l, n, b)
  BY <1>2, <1>11, <1>13, WithinJoined
<1>15. \A t \in 1..n : l[0 + t] = Call("allocate", t, 0)
  BY <1>2, <1>14 DEF Within
<1>16. ASSUME NEW coset \in 0..(segments - 1)
       PROVE  /\ \A t \in 1..n : l[0 + n + coset * (n + 1) + t] = Call("evaluate", t, coset)
              /\ l[0 + n + coset * (n + 1) + n + 1] = Call("compose", n, coset)
              /\ 0 + n + coset * (n + 1) + n + 1 <= Len(l)
  <2>1. PICK p \in Nat : p = coset * (n + 1)
    OBVIOUS
  <2>2. p + (n + 1) <= segments * (n + 1)
    <3>1. PICK m \in Nat : m = segments - 1 - coset
      OBVIOUS
    <3>2. segments * (n + 1) = p + (n + 1) + m * (n + 1)
      <4>1. segments = coset + 1 + m /\ coset \in Nat
        BY <3>1
      <4>2. (coset + 1 + m) * (n + 1) = coset * (n + 1) + (n + 1) + m * (n + 1)
        BY <4>1
      <4> QED BY <2>1, <4>1, <4>2
    <3>3. m * (n + 1) \in Nat
      OBVIOUS
    <3> QED BY <2>1, <3>2, <3>3
  <2>3. \A j \in 1..Len(b) : l[n + j] = b[j]
    BY <1>14 DEF Within
  <2>4. \A j \in 1..(n + 1) : p + j \in 1..Len(b)
    BY <1>11, <2>1, <2>2
  <2>5. \A j \in 1..(n + 1) : l[n + (p + j)] = b[p + j]
    BY <2>3, <2>4
  <2>6. ASSUME NEW t \in 1..n PROVE l[0 + n + p + t] = Call("evaluate", t, coset)
    <3>1. t \in 1..(n + 1) /\ n + (p + t) = 0 + n + p + t
      BY <2>1
    <3> QED BY <1>12, <2>1, <2>5, <3>1
  <2>7. l[0 + n + p + n + 1] = Call("compose", n, coset)
    <3>1. n + 1 \in 1..(n + 1) /\ n + (p + (n + 1)) = 0 + n + p + n + 1 /\ p + (n + 1) = p + n + 1
      BY <2>1
    <3> QED BY <1>12, <2>1, <2>5, <3>1
  <2>8. 0 + n + p + n + 1 <= Len(l)
    <3>1. Len(l) = n + Len(b) /\ p + (n + 1) <= Len(b) /\ Len(b) \in Nat
      BY <1>2, <1>11, <1>14, <2>2, ListProperties
    <3> QED BY <2>1, <3>1
  <2> QED BY <2>1, <2>6, <2>7, <2>8
<1>16a. 0 + n <= Len(l)
  BY <1>14
<1>17. l = CompositionOps(n, segments)
  BY <1>1, <1>3, <1>10, <1>13 DEF CompositionOps
<1> QED
  BY <1>14, <1>15, <1>16, <1>16a, <1>17 DEF ComposesAt

LEMMA CommitsWithin ==
  ASSUME NEW t, NEW columns \in Nat, NEW l, NEW o, Within(l, o, CommitOps(t, columns))
  PROVE  CommitsAt(l, o, t, columns)
<1>1. PICK s : s = CommitOps(t, columns)
  OBVIOUS
<1>2. PICK N \in Nat : N = NCosets /\ Cosets = 0..(N - 1)
  BY CosetsAre
<1>3. Len(s) = columns + 2 + N /\ CommitsAt(s, 0, t, columns)
  BY <1>1, <1>2, CommitOpsAre
<1>4. o \in Nat /\ \A k \in 1..(columns + 2 + N) : l[o + k] = s[k]
  BY <1>1, <1>3 DEF Within
<1>5. ASSUME NEW k \in 1..columns PROVE l[o + k] = Call("add", t, k - 1)
  <2>1. k \in 1..(columns + 2 + N) /\ 0 + k = k
    BY <1>2
  <2> QED BY <1>3, <1>4, <2>1 DEF CommitsAt
<1>6. l[o + columns + 1] = Call("finish", t, 0)
  <2>1. columns + 1 \in 1..(columns + 2 + N) /\ o + (columns + 1) = o + columns + 1
        /\ 0 + columns + 1 = columns + 1
    BY <1>2, <1>4
  <2> QED BY <1>3, <1>4, <2>1 DEF CommitsAt
<1>7. l[o + columns + 2] = Call("allocate", t, 0)
  <2>1. columns + 2 \in 1..(columns + 2 + N) /\ o + (columns + 2) = o + columns + 2
        /\ 0 + columns + 2 = columns + 2
    BY <1>2, <1>4
  <2> QED BY <1>3, <1>4, <2>1 DEF CommitsAt
<1>8. ASSUME NEW coset \in Cosets PROVE l[o + columns + 3 + coset] = Call("commit", t, coset)
  <2>1. /\ columns + 3 + coset \in 1..(columns + 2 + N)
        /\ o + (columns + 3 + coset) = o + columns + 3 + coset
           /\ 0 + columns + 3 + coset = columns + 3 + coset
    BY <1>2, <1>4
  <2> QED BY <1>3, <1>4, <2>1 DEF CommitsAt
<1>9. o + columns + 2 + NCosets <= Len(l)
  <2>1. o + Len(s) <= Len(l) /\ Len(l) \in Nat
    BY <1>1, ListProperties DEF Within
  <2> QED BY <1>2, <1>3, <1>4, <2>1
<1> QED
  BY <1>5, <1>6, <1>7, <1>8, <1>9 DEF CommitsAt

LEMMA ComposesWithin ==
  ASSUME NEW n \in Nat, NEW segments \in Nat \ {0}, NEW l, NEW o,
         Within(l, o, CompositionOps(n, segments))
  PROVE  ComposesAt(l, o, n, segments)
<1>1. PICK s : s = CompositionOps(n, segments)
  OBVIOUS
<1>2. Len(s) = n + segments * (n + 1) /\ ComposesAt(s, 0, n, segments)
  BY <1>1, CompositionOpsAre
<1>3. o \in Nat /\ \A k \in 1..Len(s) : l[o + k] = s[k]
  BY <1>1 DEF Within
<1>3a. o + Len(s) <= Len(l) /\ Len(l) \in Nat /\ Len(s) \in Nat
  BY <1>1, ListProperties DEF Within
<1>4. ASSUME NEW t \in 1..n PROVE l[o + t] = Call("allocate", t, 0)
  <2>1. segments * (n + 1) \in Nat
    OBVIOUS
  <2>2. t \in 1..Len(s) /\ 0 + t = t
    BY <1>2, <2>1
  <2> QED BY <1>2, <1>3, <2>2 DEF ComposesAt
<1>5. ASSUME NEW coset \in 0..(segments - 1)
      PROVE  /\ \A t \in 1..n : l[o + n + coset * (n + 1) + t] = Call("evaluate", t, coset)
             /\ l[o + n + coset * (n + 1) + n + 1] = Call("compose", n, coset)
             /\ o + n + coset * (n + 1) + n + 1 <= Len(l)
  <2>1. PICK p \in Nat : p = coset * (n + 1)
    OBVIOUS
  <2>2. n + p + n + 1 <= Len(s)
    <3>1. PICK m \in Nat : m = segments - 1 - coset
      OBVIOUS
    <3>2. segments * (n + 1) = p + (n + 1) + m * (n + 1)
      <4>1. segments = coset + 1 + m /\ coset \in Nat
        BY <3>1
      <4>2. (coset + 1 + m) * (n + 1) = coset * (n + 1) + (n + 1) + m * (n + 1)
        BY <4>1
      <4> QED BY <2>1, <4>1, <4>2
    <3>3. m * (n + 1) \in Nat
      OBVIOUS
    <3> QED BY <1>2, <2>1, <3>2, <3>3
  <2>3. /\ \A t \in 1..n : s[0 + n + p + t] = Call("evaluate", t, coset)
        /\ s[0 + n + p + n + 1] = Call("compose", n, coset)
    BY <1>2, <2>1 DEF ComposesAt
  <2>4. ASSUME NEW t \in 1..n PROVE l[o + n + p + t] = Call("evaluate", t, coset)
    <3>1. Len(s) \in Nat /\ n + p + t \in Nat
      BY <1>2, <2>1
    <3>2. n + p + t \in 1..Len(s)
      BY <2>1, <2>2, <3>1
    <3>3. o + (n + p + t) = o + n + p + t /\ 0 + n + p + t = n + p + t
      BY <1>3, <2>1
    <3> QED BY <1>3, <2>3, <3>2, <3>3
  <2>5. l[o + n + p + n + 1] = Call("compose", n, coset)
    <3>1. Len(s) \in Nat
      BY <1>2
    <3>2. n + p + n + 1 \in 1..Len(s)
      BY <2>1, <2>2, <3>1
    <3>3. o + (n + p + n + 1) = o + n + p + n + 1 /\ 0 + n + p + n + 1 = n + p + n + 1
      BY <1>3, <2>1
    <3> QED BY <1>3, <2>3, <3>2, <3>3
  <2>6. o + n + p + n + 1 <= Len(l)
    BY <1>3, <1>3a, <2>1, <2>2
  <2> QED BY <2>1, <2>4, <2>5, <2>6
<1>6. o + n <= Len(l)
  <2>1. 0 + n <= Len(s)
    BY <1>2 DEF ComposesAt
  <2> QED BY <1>3, <1>3a, <2>1
<1> QED
  BY <1>4, <1>5, <1>6 DEF ComposesAt

LEMMA AllWithin ==
  ASSUME NEW op, NEW n \in Nat, NEW l, NEW o, Within(l, o, ForAll(op, n))
  PROVE  \A t \in 1..n : l[o + t] = Call(op, t, 0)
BY ForAllAre DEF Within

-----------------------------------------------------------------------------
(* Where the parts of the program begin. *)
Columns(widths, degree, t) == IF t = Len(widths) + 1 THEN degree ELSE widths[t]
CommitLengths(widths) == [t \in DOMAIN widths |-> widths[t] + 2 + NCosets]
FirstComposition(widths) == SumOfFirst(CommitLengths(widths), Len(widths))
LastCommit(widths, degree) == FirstComposition(widths) + Len(widths) + degree * (Len(widths) + 1)
CommitPlace(widths, degree, t) ==
  IF t = Len(widths) + 1 THEN LastCommit(widths, degree) ELSE SumOfFirst(CommitLengths(widths), t - 1)
MaskPlace(widths, degree) == LastCommit(widths, degree) + degree + 2 + NCosets
FinalPlace(widths, degree) == MaskPlace(widths, degree) + Len(widths) + 1
SecondComposition(widths, degree) == FinalPlace(widths, degree) + Len(widths) + 1
DecommitPlace(widths, degree) == SecondComposition(widths, degree) + 2 * Len(widths) + 3

IsShape(widths, degree) ==
  widths \in Seq(Nat \ {0}) /\ widths # <<>> /\ degree \in Nat \ {0}

PlacesFollow(widths, degree) ==
  /\ CommitPlace(widths, degree, 1) = 0
  /\ \A t \in 1..(Len(widths) + 1) : CommitPlace(widths, degree, t) \in Nat
  /\ \A t \in 1..(Len(widths) - 1) :
       CommitPlace(widths, degree, t + 1) = CommitPlace(widths, degree, t) + widths[t] + 2 + NCosets
  /\ FirstComposition(widths)
       = CommitPlace(widths, degree, Len(widths)) + widths[Len(widths)] + 2 + NCosets

LEMMA PlacesAre ==
  ASSUME NEW widths, NEW degree, IsShape(widths, degree)
  PROVE  PlacesFollow(widths, degree)
<1>0. PICK n \in Nat \ {0} : n = Len(widths)
  BY DEF IsShape
<1>1. PICK N \in Nat : N = NCosets
  BY CosetsAre
<1>2. \A t \in 1..n : widths[t] \in Nat /\ t \in DOMAIN widths
  BY <1>0 DEF IsShape
<1>3. PICK s : s = CommitLengths(widths)
  OBVIOUS
<1>4. \A t \in 1..n : s[t] = widths[t] + 2 + N /\ s[t] \in Nat
  BY <1>1, <1>2, <1>3 DEF CommitLengths
<1>5. /\ SumOfFirst(s, 0) = 0
      /\ \A k \in 0..n : SumOfFirst(s, k) \in Nat
      /\ \A k \in 0..(n - 1) : SumOfFirst(s, k + 1) = SumOfFirst(s, k) + s[k + 1]
  BY <1>4, SumOfFirstIs
<1>6. ASSUME NEW t \in 1..n
      PROVE  /\ CommitPlace(widths, degree, t) = SumOfFirst(s, t - 1)
             /\ SumOfFirst(s, t - 1) \in Nat
             /\ SumOfFirst(s, t) = SumOfFirst(s, t - 1) + widths[t] + 2 + N
  <2>1. t # n + 1 /\ t - 1 \in 0..(n - 1) /\ t - 1 \in 0..n /\ (t - 1) + 1 = t
    OBVIOUS
  <2>2. SumOfFirst(s, (t - 1) + 1) = SumOfFirst(s, t - 1) + s[(t - 1) + 1]
        /\ SumOfFirst(s, t - 1) \in Nat
    BY <1>5, <2>1
  <2>3. s[t] = widths[t] + 2 + N /\ widths[t] \in Nat
    BY <1>2, <1>4
  <2>4. CommitPlace(widths, degree, t) = SumOfFirst(s, t - 1)
    BY <1>0, <1>3, <2>1 DEF CommitPlace
  <2> QED BY <2>1, <2>2, <2>3, <2>4
<1>7. FirstComposition(widths) = SumOfFirst(s, n) /\ SumOfFirst(s, n) \in Nat
  BY <1>0, <1>3, <1>5 DEF FirstComposition
<1>8. LastCommit(widths, degree) \in Nat
  <2>1. degree * (n + 1) \in Nat
    BY DEF IsShape
  <2> QED BY <1>0, <1>7, <2>1 DEF LastCommit
<1>9. CommitPlace(widths, degree, n + 1) = LastCommit(widths, degree)
  BY <1>0 DEF CommitPlace
<1>10. CommitPlace(widths, degree, 1) = 0
  <2>1. 1 \in 1..n /\ 1 - 1 = 0
    OBVIOUS
  <2> QED BY <1>5, <1>6, <2>1
<1>11. \A t \in 1..(n + 1) : CommitPlace(widths, degree, t) \in Nat
  <2>1. \A t \in 1..(n + 1) : t \in 1..n \/ t = n + 1
    OBVIOUS
  <2> QED BY <1>6, <1>8, <1>9, <2>1
<1>12. ASSUME NEW t \in 1..(n - 1)
       PROVE  CommitPlace(widths, degree, t + 1) = CommitPlace(widths, degree, t) + widths[t] + 2 + N
  <2>1. t \in 1..n /\ t + 1 \in 1..n /\ (t + 1) - 1 = t
    OBVIOUS
  <2> QED BY <1>6, <2>1
<1>13. FirstComposition(widths) = CommitPlace(widths, degree, n) + widths[n] + 2 + N
  <2>1. n \in 1..n
    OBVIOUS
  <2> QED BY <1>6, <1>7, <2>1
<1> QED
  BY <1>0, <1>1, <1>10, <1>11, <1>12, <1>13 DEF PlacesFollow

(* What is called where. *)
IsProgram(l, widths, degree) ==
  /\ IsList(l) /\ Len(l) = DecommitPlace(widths, degree) + Len(widths) + 1
  /\ \A t \in 1..(Len(widths) + 1) :
       /\ CommitsAt(l, CommitPlace(widths, degree, t), t, Columns(widths, degree, t))
       /\ l[MaskPlace(widths, degree) + t] = Call("mask", t, 0)
       /\ l[FinalPlace(widths, degree) + t] = Call("finalize", t, 0)
       /\ l[DecommitPlace(widths, degree) + t] = Call("decommit", t, 0)
  /\ ComposesAt(l, FirstComposition(widths), Len(widths), degree)
  /\ ComposesAt(l, SecondComposition(widths, degree), Len(widths) + 1, 1)

LEMMA FirstCommits ==
  ASSUME NEW widths, NEW degree, IsShape(widths, degree)
  PROVE  LET l == FlattenSeq([t \in DOMAIN widths |-> CommitOps(t, widths[t])])
         IN  /\ IsList(l) /\ Len(l) = FirstComposition(widths)
             /\ \A t \in 1..Len(widths) :
                  Within(l, CommitPlace(widths, degree, t), CommitOps(t, widths[t]))
<1>0. PICK n \in Nat \ {0} : n = Len(widths) /\ DOMAIN widths = 1..n
  BY DEF IsShape
<1>1. PICK N \in Nat : N = NCosets
  BY CosetsAre
<1>2. \A t \in 1..n : widths[t] \in Nat
  BY <1>0 DEF IsShape
<1>3. PICK lists : lists = [t \in DOMAIN widths |-> CommitOps(t, widths[t])]
  OBVIOUS
<1>4. IsList(lists) /\ Len(lists) = n /\ \A t \in 1..n : lists[t] = CommitOps(t, widths[t])
  <2>1. lists = [t \in 1..n |-> lists[t]] /\ \A t \in 1..n : lists[t] = CommitOps(t, widths[t])
    BY <1>0, <1>3
  <2> QED BY <2>1, IndexedIsList
<1>5. \A t \in 1..n : IsList(lists[t]) /\ Len(lists[t]) = widths[t] + 2 + N
  BY <1>1, <1>2, <1>4, CommitOpsAre
<1>6. PICK s : s = CommitLengths(widths)
  OBVIOUS
<1>7. \A t \in 1..n : s[t] = widths[t] + 2 + N /\ s[t] \in Nat
  BY <1>0, <1>1, <1>2, <1>6 DEF CommitLengths
<1>8. PICK before : before = [k \in 0..n |-> SumOfFirst(s, k)]
  OBVIOUS
<1>9. /\ SumOfFirst(s, 0) = 0 /\ \A k \in 0..n : SumOfFirst(s, k) \in Nat
      /\ \A k \in 0..(n - 1) : SumOfFirst(s, k + 1) = SumOfFirst(s, k) + s[k + 1]
  BY <1>7, SumOfFirstIs
<1>10. before[0] = 0 /\ before[n] = FirstComposition(widths)
  BY <1>0, <1>6, <1>8, <1>9 DEF FirstComposition
<1>11. ASSUME NEW t \in 1..n
       PROVE  before[t] = before[t - 1] + Len(lists[t])
              /\ before[t - 1] = CommitPlace(widths, degree, t)
  <2>1. t \in 0..n /\ t - 1 \in 0..n /\ t - 1 \in 0..(n - 1) /\ (t - 1) + 1 = t /\ t # n + 1
    OBVIOUS
  <2>2. SumOfFirst(s, (t - 1) + 1) = SumOfFirst(s, t - 1) + s[(t - 1) + 1]
    BY <1>9, <2>1
  <2>3. before[t] = SumOfFirst(s, t) /\ before[t - 1] = SumOfFirst(s, t - 1)
    BY <1>8, <2>1
  <2>4. CommitPlace(widths, degree, t) = SumOfFirst(s, t - 1)
    BY <1>0, <1>6, <2>1 DEF CommitPlace
  <2> QED BY <1>5, <1>7, <2>1, <2>2, <2>3, <2>4
<1>12. Ends(lists, before)
  BY <1>4, <1>5, <1>10, <1>11 DEF Ends
<1>13. PICK l : l = FlattenSeq(lists)
  OBVIOUS
<1>14. Flattened(lists, before)
  BY <1>12, FlattenedIs
<1>15. /\ IsList(l) /\ Len(l) = before[n]
          /\ \A k \in 0..n : before[k] \in Nat /\ before[k] <= Len(l)
       /\ \A t \in 1..n : \A j \in 1..Len(lists[t]) : l[before[t - 1] + j] = lists[t][j]
  BY <1>4, <1>13, <1>14 DEF Flattened
<1>16. ASSUME NEW t \in 1..n PROVE Within(l, CommitPlace(widths, degree, t), CommitOps(t, widths[t]))
  <2>1. t \in 0..n /\ t - 1 \in 0..n
    OBVIOUS
  <2>2. before[t - 1] \in Nat /\ before[t] <= Len(l) /\ IsList(lists[t])
    BY <1>5, <1>15, <2>1
  <2>3. \A j \in 1..Len(lists[t]) : l[before[t - 1] + j] = lists[t][j]
    BY <1>15
  <2>4. before[t - 1] + Len(lists[t]) <= Len(l)
    BY <1>11, <2>2
  <2>5. Within(l, before[t - 1], lists[t])
    BY <1>15, <2>2, <2>3, <2>4 DEF Within
  <2> QED BY <1>4, <1>11, <2>5
<1> QED
  BY <1>0, <1>3, <1>10, <1>13, <1>15, <1>16

LEMMA ProgramIs ==
  ASSUME NEW widths, NEW degree, IsShape(widths, degree)
  PROVE  IsProgram(ProveStark(widths, degree), widths, degree)
<1>0. PICK n \in Nat \ {0} : n = Len(widths)
  BY DEF IsShape
<1>0a. PICK N \in Nat : N = NCosets
  BY CosetsAre
<1>0b. degree \in Nat \ {0} /\ \A t \in 1..n : widths[t] \in Nat
  BY <1>0 DEF IsShape
<1>0c. PICK first \in Nat : first = FirstComposition(widths)
  <2>1. PlacesFollow(widths, degree)
    BY PlacesAre
  <2>2. FirstComposition(widths) \in Nat
    BY <1>0, <1>0a, <1>0b, <2>1 DEF PlacesFollow
  <2> QED BY <2>2
<1>0d. PICK p \in Nat : p = degree * (n + 1)
  BY <1>0b
<1>0e. PICK last \in Nat : last = LastCommit(widths, degree) /\ last = first + n + p
  BY <1>0, <1>0c, <1>0d DEF LastCommit
<1>1. PICK a : a = FlattenSeq([t \in DOMAIN widths |-> CommitOps(t, widths[t])])
  OBVIOUS
<1>2. PICK b : b = CompositionOps(n, degree)
  OBVIOUS
<1>3. PICK c : c = CommitOps(n + 1, degree)
  OBVIOUS
<1>4. PICK d : d = ForAll("mask", n + 1)
  OBVIOUS
<1>5. PICK e : e = ForAll("finalize", n + 1)
  OBVIOUS
<1>6. PICK f : f = CompositionOps(n + 1, 1)
  OBVIOUS
<1>7. PICK g : g = ForAll("decommit", n + 1)
  OBVIOUS
<1>8. /\ IsList(a) /\ Len(a) = first
      /\ \A t \in 1..n : Within(a, CommitPlace(widths, degree, t), CommitOps(t, widths[t]))
  BY <1>0, <1>0c, <1>1, FirstCommits
<1>9. IsList(b) /\ Len(b) = n + degree * (n + 1)
  BY <1>0b, <1>2, CompositionOpsAre
<1>10. IsList(c) /\ Len(c) = degree + 2 + N
  BY <1>0a, <1>0b, <1>3, CommitOpsAre
<1>11. IsList(d) /\ Len(d) = n + 1
  BY <1>4, ForAllAre
<1>12. IsList(e) /\ Len(e) = n + 1
  BY <1>5, ForAllAre
<1>13. IsList(f) /\ Len(f) = (n + 1) + 1 * ((n + 1) + 1)
  BY <1>6, CompositionOpsAre
<1>14. IsList(g) /\ Len(g) = n + 1
  BY <1>7, ForAllAre
<1>15. PICK l2 : l2 = a \o b
  OBVIOUS
<1>16. PICK l3 : l3 = l2 \o c
  OBVIOUS
<1>17. PICK l4 : l4 = l3 \o d
  OBVIOUS
<1>18. PICK l5 : l5 = l4 \o e
  OBVIOUS
<1>19. PICK l6 : l6 = l5 \o f
  OBVIOUS
<1>20. PICK l : l = l6 \o g
  OBVIOUS
<1>21. IsList(l2) /\ Len(l2) = Len(a) + Len(b) /\ Within(l2, 0, a) /\ Within(l2, Len(a), b)
  BY <1>8, <1>9, <1>15, WithinJoined
<1>22. IsList(l3) /\ Len(l3) = Len(l2) + Len(c) /\ Within(l3, 0, l2) /\ Within(l3, Len(l2), c)
  BY <1>10, <1>16, <1>21, WithinJoined
<1>23. IsList(l4) /\ Len(l4) = Len(l3) + Len(d) /\ Within(l4, 0, l3) /\ Within(l4, Len(l3), d)
  BY <1>11, <1>17, <1>22, WithinJoined
<1>24. IsList(l5) /\ Len(l5) = Len(l4) + Len(e) /\ Within(l5, 0, l4) /\ Within(l5, Len(l4), e)
  BY <1>12, <1>18, <1>23, WithinJoined
<1>25. IsList(l6) /\ Len(l6) = Len(l5) + Len(f) /\ Within(l6, 0, l5) /\ Within(l6, Len(l5), f)
  BY <1>13, <1>19, <1>24, WithinJoined
<1>26. IsList(l) /\ Len(l) = Len(l6) + Len(g) /\ Within(l, 0, l6) /\ Within(l, Len(l6), g)
  BY <1>14, <1>20, <1>25, WithinJoined
<1>27. \A o, x : Within(l6, o, x) => Within(l, o, x)
  BY <1>14, <1>20, WithinAndMore
<1>28. \A o, x : Within(l5, o, x) => Within(l, o, x)
  BY <1>13, <1>19, <1>27, WithinAndMore
<1>29. \A o, x : Within(l4, o, x) => Within(l, o, x)
  BY <1>12, <1>18, <1>28, WithinAndMore
<1>30. \A o, x : Within(l3, o, x) => Within(l, o, x)
  BY <1>11, <1>17, <1>29, WithinAndMore
<1>31. \A o, x : Within(l2, o, x) => Within(l, o, x)
  BY <1>10, <1>16, <1>30, WithinAndMore
<1>32. \A o, x : Within(a, o, x) => Within(l, o, x)
  BY <1>9, <1>15, <1>31, WithinAndMore
<1>33. /\ Len(l2) = last /\ Len(l3) = MaskPlace(widths, degree)
       /\ Len(l4) = FinalPlace(widths, degree) /\ Len(l5) = SecondComposition(widths, degree)
       /\ Len(l6) = DecommitPlace(widths, degree)
       /\ Len(l) = DecommitPlace(widths, degree) + n + 1
  <2>2. Len(l2) = last
    BY <1>0d, <1>0e, <1>8, <1>9, <1>21
  <2>3. Len(l3) = last + degree + 2 + N
    BY <1>0b, <1>10, <1>22, <2>2
  <2>4. Len(l4) = last + degree + 2 + N + n + 1
    BY <1>0b, <1>11, <1>23, <2>3
  <2>5. Len(l5) = last + degree + 2 + N + n + 1 + n + 1
    BY <1>0b, <1>12, <1>24, <2>4
  <2>6. Len(l6) = last + degree + 2 + N + n + 1 + n + 1 + 2 * n + 3
    BY <1>0b, <1>13, <1>25, <2>5
  <2>7. Len(l) = last + degree + 2 + N + n + 1 + n + 1 + 2 * n + 3 + n + 1
    BY <1>0b, <1>14, <1>26, <2>6
  <2> QED BY <1>0, <1>0a, <1>0e, <2>2, <2>3, <2>4, <2>5, <2>6, <2>7
             DEF MaskPlace, FinalPlace, SecondComposition, DecommitPlace
<1>34. ASSUME NEW t \in 1..(n + 1)
       PROVE  CommitsAt(l, CommitPlace(widths, degree, t), t, Columns(widths, degree, t))
  <2>1. CASE t = n + 1
    <3>1. Within(l, last, CommitOps(n + 1, degree))
      BY <1>3, <1>22, <1>30, <1>33
    <3>2. CommitsAt(l, last, n + 1, degree)
      BY <1>0b, <3>1, CommitsWithin
    <3>3. CommitPlace(widths, degree, t) = last /\ Columns(widths, degree, t) = degree
      BY <1>0, <1>0e, <2>1 DEF CommitPlace, Columns
    <3> QED BY <2>1, <3>2, <3>3
  <2>2. CASE t # n + 1
    <3>1. t \in 1..n
      BY <2>2
    <3>2. Within(l, CommitPlace(widths, degree, t), CommitOps(t, widths[t]))
      BY <1>8, <1>32, <3>1
    <3>3. CommitsAt(l, CommitPlace(widths, degree, t), t, widths[t])
      BY <1>0b, <3>1, <3>2, CommitsWithin
    <3>4. Columns(widths, degree, t) = widths[t]
      BY <1>0, <2>2 DEF Columns
    <3> QED BY <3>3, <3>4
  <2> QED BY <2>1, <2>2
<1>35. ComposesAt(l, first, n, degree)
  <2>1. Within(l, first, CompositionOps(n, degree))
    BY <1>2, <1>8, <1>21, <1>31
  <2> QED BY <1>0b, <2>1, ComposesWithin
<1>36. ComposesAt(l, SecondComposition(widths, degree), n + 1, 1)
  <2>1. Within(l, SecondComposition(widths, degree), CompositionOps(n + 1, 1))
    BY <1>6, <1>25, <1>27, <1>33
  <2> QED BY <2>1, ComposesWithin
<1>37. \A t \in 1..(n + 1) : l[MaskPlace(widths, degree) + t] = Call("mask", t, 0)
  <2>1. Within(l, MaskPlace(widths, degree), ForAll("mask", n + 1))
    BY <1>4, <1>23, <1>29, <1>33
  <2> QED BY <2>1, AllWithin
<1>38. \A t \in 1..(n + 1) : l[FinalPlace(widths, degree) + t] = Call("finalize", t, 0)
  <2>1. Within(l, FinalPlace(widths, degree), ForAll("finalize", n + 1))
    BY <1>5, <1>24, <1>28, <1>33
  <2> QED BY <2>1, AllWithin
<1>39. \A t \in 1..(n + 1) : l[DecommitPlace(widths, degree) + t] = Call("decommit", t, 0)
  <2>1. Within(l, DecommitPlace(widths, degree), ForAll("decommit", n + 1))
    BY <1>7, <1>26, <1>33
  <2> QED BY <2>1, AllWithin
<1>40. l = ProveStark(widths, degree)
  BY <1>0, <1>1, <1>2, <1>3, <1>4, <1>5, <1>6, <1>7, <1>15, <1>16, <1>17, <1>18, <1>19,
     <1>20 DEF ProveStark
<1> QED
  BY <1>0, <1>0c, <1>26, <1>33, <1>34, <1>35, <1>36, <1>37, <1>38, <1>39, <1>40 DEF IsProgram
-----------------------------------------------------------------------------
(* The inductive invariant: at every place of the program, what the        *)
(* managers, the storages and the tables hold there.                       *)

Program == ProveStark(shape.widths, shape.degree)
Rest(k) == SubSeq(Program, k, Len(Program))
Place(k) == k \in 1..(Len(Program) + 1) /\ todo = Rest(k)

CommitFrom(t) == CommitPlace(shape.widths, shape.degree, t)

(* The two compositions: of the original traces and of all of them. *)
Compositions == {1, 2}
TracesOf(r) == IF r = 1 THEN Broken - 1 ELSE Broken
SegmentsOf(r) == IF r = 1 THEN shape.degree ELSE 1
ComposeFrom(r) == IF r = 1 THEN FirstComposition(shape.widths)
                  ELSE SecondComposition(shape.widths, shape.degree)

MaskFrom == MaskPlace(shape.widths, shape.degree)
FinalFrom == FinalPlace(shape.widths, shape.degree)
DecommitFrom == DecommitPlace(shape.widths, shape.degree)

CommittedTo(segments, columns, n) ==
  /\ IsList(segments) /\ Len(segments) = n
  /\ \A k \in 1..n : segments[k] = Value(columns, k - 1)

IsAdding(t, columns) == Adding(managers[t], shape.full, shape.fft, columns) /\ committed[t] = <<>>
IsReady(t, n) == /\ Ready(managers[t], shape.full, shape.fft, Width(t), n, TRUE)
                 /\ CommittedTo(committed[t], Width(t), n)
IsSettled(t, has_lde) == /\ Ready(managers[t], shape.full, shape.fft, Width(t), NCosets, has_lde)
                         /\ CommittedTo(committed[t], Width(t), NCosets)
HasStorage(t) == ~shape.full => storages[t].columns = Width(t)

(* While trace t is committed to. *)
Others(t) == /\ \A u \in 1..(t - 1) : IsSettled(u, TRUE)
             /\ \A u \in (t + 1)..Broken : IsAdding(u, 0)
             /\ evals = <<>> /\ answered.rows = <<>>

InAdd(t, k) == Place(CommitFrom(t) + k) /\ Others(t) /\ IsAdding(t, k - 1)
InFirstAllocate(t) == Place(CommitFrom(t) + Width(t) + 2) /\ Others(t) /\ IsReady(t, 0)
InCommit(t, coset) == /\ Place(CommitFrom(t) + Width(t) + 3 + coset) /\ Others(t)
                      /\ IsReady(t, coset) /\ HasStorage(t)

(* During a composition. *)
Composing(r) == /\ \A u \in 1..TracesOf(r) : IsSettled(u, r = 1 \/ ~shape.full)
                /\ r = 1 => IsAdding(Broken, 0)
                /\ answered.rows = <<>>

EvalsAre(n, coset) == /\ IsList(evals) /\ Len(evals) = n
                      /\ \A u \in 1..n : evals[u] = BitReversed(Value(Width(u), coset))

InAllocate(r, t) == /\ Place(ComposeFrom(r) + t) /\ Composing(r) /\ evals = <<>>
                    /\ \A u \in 1..(t - 1) : HasStorage(u)
InEvaluate(r, coset, t) == /\ Place(ComposeFrom(r) + TracesOf(r) + coset * (TracesOf(r) + 1) + t)
                           /\ Composing(r) /\ EvalsAre(t - 1, coset)
                           /\ \A u \in 1..TracesOf(r) : HasStorage(u)

InMask(t) == /\ Place(MaskFrom + t)
             /\ \A u \in Traces : IsSettled(u, TRUE)
             /\ evals = <<>> /\ answered.rows = <<>>
InFinal(t) == /\ Place(FinalFrom + t)
              /\ \A u \in Traces : IsSettled(u, IF u < t THEN ~shape.full ELSE TRUE)
              /\ evals = <<>> /\ answered.rows = <<>>

AnswerIsRight ==
  \/ answered.rows = <<>>
  \/ /\ answered.t \in Traces /\ answered.rows \in RowsToFetch
     /\ \A k \in DOMAIN answered.rows :
          answered.value[k] = RightAnswer(CosetAndPoint(answered.rows[k]))

InDecommit(t) == /\ Place(DecommitFrom + t)
                 /\ \A u \in Traces : IsSettled(u, ~shape.full)
                 /\ AnswerIsRight

AtSomePlace ==
  \/ \E t \in Traces : \E k \in 1..(Width(t) + 1) : InAdd(t, k)
  \/ \E t \in Traces : InFirstAllocate(t)
  \/ \E t \in Traces : \E coset \in Cosets : InCommit(t, coset)
  \/ \E r \in Compositions : \E t \in 1..TracesOf(r) : InAllocate(r, t)
  \/ \E r \in Compositions : \E coset \in 0..(SegmentsOf(r) - 1) : \E t \in 1..(TracesOf(r) + 1) :
       InEvaluate(r, coset, t)
  \/ \E t \in Traces : InMask(t)
  \/ \E t \in Traces : InFinal(t)
  \/ \E t \in 1..(Broken + 1) : InDecommit(t)

TracesInv ==
  /\ shape \in Shapes /\ shape.degree <= NCosets /\ ~failed
  /\ managers = [t \in Traces |-> managers[t]] /\ storages \in [Traces -> Entries]
  /\ committed = [t \in Traces |-> committed[t]]
  /\ CommittedIsTheTrace /\ CompositionSeesTheCoset

IInv == TracesInv /\ AtSomePlace

-----------------------------------------------------------------------------
LEMMA RestIs ==
  ASSUME NEW l, IsList(l), NEW k \in 1..(Len(l) + 1)
  PROVE  /\ k <= Len(l) => /\ SubSeq(l, k, Len(l)) # <<>>
                           /\ Head(SubSeq(l, k, Len(l))) = l[k]
                           /\ Tail(SubSeq(l, k, Len(l))) = SubSeq(l, k + 1, Len(l))
         /\ k = Len(l) + 1 => SubSeq(l, k, Len(l)) = <<>>
         /\ SubSeq(l, 1, Len(l)) = l
<1>1. PICK n \in Nat : n = Len(l)
  BY ListProperties
<1>2. PICK S : S = {l[j] : j \in DOMAIN l}
  OBVIOUS
<1>3. l \in Seq(S)
  BY <1>2 DEF IsList
<1>4. SubSeq(l, 1, n) = l
  BY <1>1, <1>3
<1>5. CASE k <= n
  <2>1. PICK u : u = SubSeq(l, k, n)
    OBVIOUS
  <2>2. u \in Seq(S) /\ Len(u) = n - k + 1 /\ \A j \in 1..(n - k + 1) : u[j] = l[k + j - 1]
    BY <1>1, <1>3, <1>5, <2>1, SubSeqProperties
  <2>3. u # <<>> /\ Head(u) = l[k]
    BY <1>1, <1>5, <2>2
  <2>4. PICK v : v = SubSeq(l, k + 1, n)
    OBVIOUS
  <2>5. v \in Seq(S) /\ Len(v) = n - k /\ \A j \in 1..(n - k) : v[j] = l[k + 1 + j - 1]
    BY <1>1, <1>3, <1>5, <2>4, SubSeqProperties
  <2>6. Tail(u) \in Seq(S) /\ Len(Tail(u)) = n - k /\ \A j \in 1..(n - k) : Tail(u)[j] = u[j + 1]
    BY <1>1, <1>5, <2>2, <2>3, HeadTailProperties
  <2>7. ASSUME NEW j \in 1..(n - k) PROVE Tail(u)[j] = v[j]
    <3>1. j + 1 \in 1..(n - k + 1) /\ k + (j + 1) - 1 = k + 1 + j - 1
      BY <1>1, <1>5
    <3> QED BY <2>2, <2>5, <2>6, <3>1
  <2>8. Tail(u) = v
    BY <2>5, <2>6, <2>7, ListIs, ListsAreEqual
  <2>9. k # n + 1
    BY <1>1, <1>5
  <2> QED BY <1>1, <1>4, <2>1, <2>3, <2>4, <2>8, <2>9
<1>6. CASE k = n + 1
  <2>1. PICK u : u = SubSeq(l, k, n)
    OBVIOUS
  <2>2. u = <<>>
    BY <1>1, <1>3, <1>6, <2>1
  <2> QED BY <1>1, <1>4, <1>6, <2>1, <2>2
<1> QED
  BY <1>1, <1>5, <1>6

LEMMA ShapeIs ==
  ASSUME TracesInv
  PROVE  /\ IsShape(shape.widths, shape.degree) /\ {shape.full, shape.fft} \subseteq BOOLEAN
         /\ Broken \in Nat /\ Broken > 1 /\ Len(shape.widths) = Broken - 1
         /\ \A t \in Traces : /\ Width(t) \in Nat \ {0}
                              /\ Width(t) = Columns(shape.widths, shape.degree, t)
         /\ shape.degree \in 1..NCosets
<1>1. /\ IsShape(shape.widths, shape.degree) /\ {shape.full, shape.fft} \subseteq BOOLEAN
      /\ shape.degree \in Nat \ {0}
  BY ShapesAssumption DEF TracesInv, IsShape
<1>2. PICK n \in Nat \ {0} : n = Len(shape.widths)
                             /\ \A t \in 1..n : shape.widths[t] \in Nat \ {0}
  BY <1>1 DEF IsShape
<1>3. Broken = n + 1
  BY <1>2 DEF Broken
<1>4. ASSUME NEW t \in Traces
      PROVE  Width(t) \in Nat \ {0} /\ Width(t) = Columns(shape.widths, shape.degree, t)
  <2>1. t \in 1..n \/ t = n + 1
    BY <1>3 DEF Traces
  <2> QED BY <1>1, <1>2, <1>3, <2>1 DEF Width, Columns
<1>5. shape.degree \in 1..NCosets
  BY <1>1, CosetsAre DEF TracesInv
<1> QED
  BY <1>1, <1>2, <1>3, <1>4, <1>5

LEMMA TheProgram ==
  ASSUME TracesInv
  PROVE  IsProgram(Program, shape.widths, shape.degree)
         /\ PlacesFollow(shape.widths, shape.degree)
BY ShapeIs, ProgramIs, PlacesAre DEF Program

(* At place k the call that is there is made, and then place k + 1 is next. *)
Made(op) ==
  /\ op = "add" => Add
  /\ op = "finish" => FinishAdding
  /\ op = "allocate" => Allocate
  /\ op = "commit" => CommitCoset
  /\ op = "evaluate" => EvaluateCoset
  /\ op = "compose" => Compose
  /\ op = "mask" => EvalMaskAtPoint
  /\ op = "finalize" => FinalizeEval
  /\ op = "decommit" => DecommitQueries

LEMMA TheCall ==
  ASSUME TracesInv, NEW k, Place(k), k <= Len(Program), NEW op, NEW t, NEW coset,
         Program[k] = Call(op, t, coset), Next
  PROVE  /\ T = t /\ Op.coset = coset /\ shape' = shape /\ Place(k + 1)' /\ Made(op)
<1>1. IsList(Program) /\ Len(Program) \in Nat
  BY TheProgram, ListProperties DEF IsProgram
<1>2. /\ todo # <<>> /\ Head(todo) = Call(op, t, coset)
      /\ Tail(todo) = SubSeq(Program, k + 1, Len(Program))
  BY <1>1, RestIs DEF Place, Rest
<1>3. Op.op = op /\ T = t /\ Op.coset = coset
  BY <1>2 DEF Op, T, Call
<1>4. ~Done
  BY <1>2 DEF Done, TracesInv
<1>5. todo' = Tail(todo) /\ shape' = shape
  BY <1>4 DEF Next, IsNext, Add, FinishAdding, Allocate, CommitCoset, EvaluateCoset, Compose,
              EvalMaskAtPoint, FinalizeEval, DecommitQueries
<1>6. Program' = Program
  BY <1>5 DEF Program
<1>7. Place(k + 1)'
  <2>1. k + 1 \in 1..(Len(Program) + 1)
    BY <1>1 DEF Place
  <2> QED BY <1>2, <1>5, <1>6, <2>1 DEF Place, Rest
<1>8. Made(op)
  BY <1>3, <1>4 DEF Made, Next, IsNext, Add, FinishAdding, Allocate, CommitCoset, EvaluateCoset,
              Compose, EvalMaskAtPoint, FinalizeEval, DecommitQueries
<1> QED
  BY <1>3, <1>5, <1>7, <1>8

(* What depends on the shape alone stays the same. *)
LEMMA SameShape ==
  ASSUME shape' = shape
  PROVE  /\ Broken' = Broken /\ Traces' = Traces
         /\ \A t : Width(t)' = Width(t) /\ CommitFrom(t)' = CommitFrom(t)
         /\ \A r : /\ TracesOf(r)' = TracesOf(r) /\ SegmentsOf(r)' = SegmentsOf(r)
                   /\ ComposeFrom(r)' = ComposeFrom(r)
         /\ MaskFrom' = MaskFrom /\ FinalFrom' = FinalFrom /\ DecommitFrom' = DecommitFrom
BY DEF Broken, Traces, Width, CommitFrom, TracesOf, SegmentsOf, ComposeFrom, MaskFrom, FinalFrom,
       DecommitFrom

LEMMA SameTrace ==
  ASSUME shape' = shape, NEW t, managers'[t] = managers[t], committed'[t] = committed[t]
  PROVE  /\ \A has_lde : IsSettled(t, has_lde)' <=> IsSettled(t, has_lde)
         /\ \A columns : IsAdding(t, columns)' <=> IsAdding(t, columns)
         /\ \A n : IsReady(t, n)' <=> IsReady(t, n)
BY SameShape DEF IsSettled, IsAdding, IsReady

LEMMA SameStorage ==
  ASSUME shape' = shape, NEW t, storages'[t] = storages[t]
  PROVE  HasStorage(t)' <=> HasStorage(t)
BY SameShape DEF HasStorage

LEMMA Updated ==
  ASSUME NEW S, NEW f, f = [x \in S |-> f[x]], NEW t \in S, NEW e, NEW g, g = [f EXCEPT ![t] = e]
  PROVE  /\ g = [x \in S |-> g[x]] /\ g[t] = e
         /\ \A u \in S : u # t => g[u] = f[u]
OBVIOUS

(* A step that changes what belongs to trace t and nothing else. *)
LEMMA OthersStay ==
  ASSUME shape' = shape, TracesInv, NEW t \in Traces, Others(t),
         \A u \in Traces : u # t => managers'[u] = managers[u] /\ committed'[u] = committed[u],
         evals' = evals, answered' = answered
  PROVE  Others(t)'
<1>1. Broken \in Nat /\ Traces = 1..Broken /\ t \in Nat
  BY ShapeIs DEF Traces
<1>2. ASSUME NEW u \in 1..(t - 1) PROVE IsSettled(u, TRUE)'
  <2>1. u \in Traces /\ u # t
    BY <1>1
  <2>2. IsSettled(u, TRUE)
    BY DEF Others
  <2> QED BY <2>1, <2>2, SameTrace
<1>3. ASSUME NEW u \in (t + 1)..Broken PROVE IsAdding(u, 0)'
  <2>1. u \in Traces /\ u # t
    BY <1>1
  <2>2. IsAdding(u, 0)
    BY DEF Others
  <2> QED BY <2>1, <2>2, SameTrace
<1>4. evals' = <<>> /\ answered'.rows = <<>>
  BY DEF Others
<1> QED
  BY <1>2, <1>3, <1>4, SameShape DEF Others

(* A step of a manager whose call is not refused. *)
LEMMA CallUsed ==
  ASSUME TracesInv, NEW t \in Traces, T = t, NEW return, Uses(return), return.ok
  PROVE  /\ managers' = [u \in Traces |-> managers'[u]] /\ managers'[t] = return.m
         /\ \A u \in Traces : u # t => managers'[u] = managers[u]
         /\ ~failed'
<1>1. managers' = [managers EXCEPT ![t] = return.m] /\ failed' = FALSE
  BY DEF Uses
<1>2. managers = [u \in Traces |-> managers[u]]
  BY DEF TracesInv
<1>3. PICK f, g, e : f = managers /\ g = managers' /\ e = return.m
  OBVIOUS
<1>4. /\ g = [x \in Traces |-> g[x]] /\ g[t] = e
      /\ \A u \in Traces : u # t => g[u] = f[u]
  BY <1>1, <1>2, <1>3, Updated
<1> QED
  BY <1>1, <1>3, <1>4

LEMMA SameInv ==
  ASSUME TracesInv, shape' = shape, managers' = [t \in Traces |-> managers'[t]], ~failed',
         storages' \in [Traces -> Entries], committed' = committed, composed' = composed
  PROVE  TracesInv'
<1>1. CommittedIsTheTrace'
  BY SameShape DEF TracesInv, CommittedIsTheTrace
<1>2. CompositionSeesTheCoset'
  BY SameShape DEF TracesInv, CompositionSeesTheCoset
<1> QED
  BY <1>1, <1>2, SameShape DEF TracesInv

(* The program in the words of the invariant, and how its parts follow one *)
(* another.                                                                *)
CallsAre ==
  /\ \A t \in Traces : CommitFrom(t) \in Nat /\ CommitsAt(Program, CommitFrom(t), t, Width(t))
  /\ \A r \in Compositions :
       ComposeFrom(r) \in Nat /\ ComposesAt(Program, ComposeFrom(r), TracesOf(r), SegmentsOf(r))
  /\ \A t \in Traces : /\ Program[MaskFrom + t] = Call("mask", t, 0) /\ MaskFrom + t <= Len(Program)
                       /\ Program[FinalFrom + t] = Call("finalize", t, 0)
                          /\ FinalFrom + t <= Len(Program)
                       /\ Program[DecommitFrom + t] = Call("decommit", t, 0)
                       /\ DecommitFrom + t <= Len(Program)

PartsFollow ==
  /\ CommitFrom(1) = 0
  /\ \A t \in 1..(Broken - 2) : CommitFrom(t) + Width(t) + 2 + NCosets = CommitFrom(t + 1)
  /\ CommitFrom(Broken - 1) + Width(Broken - 1) + 2 + NCosets = ComposeFrom(1)
  /\ ComposeFrom(1) + TracesOf(1) + shape.degree * (TracesOf(1) + 1) = CommitFrom(Broken)
  /\ CommitFrom(Broken) + Width(Broken) + 2 + NCosets = MaskFrom
  /\ MaskFrom + Broken = FinalFrom /\ FinalFrom + Broken = ComposeFrom(2)
  /\ ComposeFrom(2) + Broken + (Broken + 1) = DecommitFrom
  /\ {MaskFrom, FinalFrom, DecommitFrom} \subseteq Nat

LEMMA CallsOfProgram ==
  ASSUME TracesInv
  PROVE  CallsAre /\ PartsFollow
<1>1. PICK widths, degree : widths = shape.widths /\ degree = shape.degree
  OBVIOUS
<1>2. PICK n \in Nat \ {0} : n = Len(widths) /\ Broken = n + 1
  BY <1>1, ShapeIs DEF Broken, IsShape
<1>3. PICK N \in Nat : N = NCosets
  BY CosetsAre
<1>4. /\ degree \in Nat \ {0} /\ Traces = 1..(n + 1)
      /\ \A t \in Traces : Width(t) = Columns(widths, degree, t) /\ Width(t) \in Nat
      /\ \A t \in 1..n : Width(t) = widths[t] /\ Width(n + 1) = degree
  BY <1>1, <1>2, ShapeIs DEF Traces, Width, Broken, IsShape
<1>5. PICK l : l = Program
  OBVIOUS
<1>6. IsProgram(l, widths, degree) /\ PlacesFollow(widths, degree)
  BY <1>1, <1>5, TheProgram
<1>7. \A t \in 1..(n + 1) : CommitPlace(widths, degree, t) \in Nat
  BY <1>2, <1>6 DEF PlacesFollow
<1>8. PICK first \in Nat : first = FirstComposition(widths)
  <2>1. FirstComposition(widths) = CommitPlace(widths, degree, n) + widths[n] + 2 + N
    BY <1>2, <1>3, <1>6 DEF PlacesFollow
  <2> QED BY <1>4, <1>7, <2>1
<1>9. PICK last \in Nat : last = LastCommit(widths, degree)
                          /\ last = CommitPlace(widths, degree, n + 1)
  BY <1>2, <1>7 DEF CommitPlace
<1>10a. PICK mask \in Nat : mask = MaskPlace(widths, degree) /\ mask = last + degree + 2 + N
  BY <1>3, <1>4, <1>9 DEF MaskPlace
<1>10b. PICK final \in Nat : final = FinalPlace(widths, degree) /\ final = mask + n + 1
  BY <1>2, <1>10a DEF FinalPlace
<1>10c. PICK second \in Nat : second = SecondComposition(widths, degree) /\ second = final + n + 1
  BY <1>2, <1>10b DEF SecondComposition
<1>10d. PICK decommit \in Nat : decommit = DecommitPlace(widths, degree)
                                /\ decommit = second + 2 * n + 3
  BY <1>2, <1>10c DEF DecommitPlace
<1>11. Len(l) = decommit + n + 1
  BY <1>2, <1>6, <1>10a, <1>10b, <1>10c, <1>10d DEF IsProgram
<1>12. /\ MaskFrom = mask /\ FinalFrom = final /\ DecommitFrom = decommit
       /\ ComposeFrom(1) = first /\ ComposeFrom(2) = second
       /\ TracesOf(1) = n /\ TracesOf(2) = n + 1 /\ SegmentsOf(1) = degree /\ SegmentsOf(2) = 1
  BY <1>1, <1>2, <1>8, <1>10a, <1>10b, <1>10c, <1>10d DEF MaskFrom, FinalFrom, DecommitFrom,
     ComposeFrom, TracesOf, SegmentsOf
<1>13. \A t : CommitFrom(t) = CommitPlace(widths, degree, t)
  BY <1>1 DEF CommitFrom
<1>14. CallsAre
  <2>1. \A t \in Traces : CommitFrom(t) \in Nat /\ CommitsAt(l, CommitFrom(t), t, Width(t))
    BY <1>2, <1>4, <1>6, <1>7, <1>13 DEF IsProgram
  <2>2. ComposesAt(l, first, n, degree) /\ ComposesAt(l, second, n + 1, 1)
    BY <1>2, <1>6, <1>8, <1>10a, <1>10b, <1>10c, <1>10d DEF IsProgram
  <2>3. \A r \in Compositions :
          ComposeFrom(r) \in Nat /\ ComposesAt(l, ComposeFrom(r), TracesOf(r), SegmentsOf(r))
    BY <1>12, <2>2 DEF Compositions
  <2>4. \A t \in 1..(n + 1) : /\ l[mask + t] = Call("mask", t, 0)
                              /\ l[final + t] = Call("finalize", t, 0)
                              /\ l[decommit + t] = Call("decommit", t, 0)
    BY <1>2, <1>6, <1>10a, <1>10b, <1>10c, <1>10d DEF IsProgram
  <2>5. \A t \in 1..(n + 1) : mask + t <= Len(l) /\ final + t <= Len(l) /\ decommit + t <= Len(l)
    BY <1>10b, <1>10c, <1>10d, <1>11
  <2>6. \A t \in Traces : CommitFrom(t) \in Nat /\ CommitsAt(Program, CommitFrom(t), t, Width(t))
    BY ONLY <1>5, <2>1
  <2>7. \A r \in Compositions :
          ComposeFrom(r) \in Nat /\ ComposesAt(Program, ComposeFrom(r), TracesOf(r), SegmentsOf(r))
    BY ONLY <1>5, <2>3
  <2>8. \A t \in Traces : /\ Program[MaskFrom + t] = Call("mask", t, 0)
                          /\ Program[FinalFrom + t] = Call("finalize", t, 0)
                          /\ Program[DecommitFrom + t] = Call("decommit", t, 0)
    <3>1. Traces = 1..(n + 1) /\ MaskFrom = mask /\ FinalFrom = final /\ DecommitFrom = decommit
      BY <1>4, <1>12
    <3> QED BY ONLY <1>5, <2>4, <3>1
  <2>9. \A t \in Traces : /\ MaskFrom + t <= Len(Program) /\ FinalFrom + t <= Len(Program)
                          /\ DecommitFrom + t <= Len(Program)
    <3>1. Traces = 1..(n + 1) /\ MaskFrom = mask /\ FinalFrom = final /\ DecommitFrom = decommit
      BY <1>4, <1>12
    <3> QED BY ONLY <1>5, <2>5, <3>1
  <2> QED BY ONLY <2>6, <2>7, <2>8, <2>9 DEF CallsAre
<1>15. PartsFollow
  <2>1. CommitFrom(1) = 0
    BY <1>6, <1>13 DEF PlacesFollow
  <2>2. \A t \in 1..(n - 1) : CommitFrom(t) + Width(t) + 2 + NCosets = CommitFrom(t + 1)
    <3>1. \A t \in 1..(n - 1) : t \in 1..n /\ t + 1 \in 1..n
      BY <1>2
    <3> QED BY <1>2, <1>4, <1>6, <1>13, <3>1 DEF PlacesFollow
  <2>3. CommitFrom(n) + Width(n) + 2 + NCosets = ComposeFrom(1)
    BY <1>2, <1>4, <1>6, <1>8, <1>12, <1>13 DEF PlacesFollow
  <2>4. ComposeFrom(1) + TracesOf(1) + shape.degree * (TracesOf(1) + 1) = CommitFrom(n + 1)
    <3>1. last = FirstComposition(widths) + Len(widths) + degree * (Len(widths) + 1)
      BY <1>9 DEF LastCommit
    <3> QED BY <1>1, <1>2, <1>8, <1>9, <1>12, <1>13, <3>1
  <2>5. CommitFrom(n + 1) + Width(n + 1) + 2 + NCosets = mask
    BY <1>3, <1>4, <1>9, <1>10a, <1>13
  <2>6. /\ mask + (n + 1) = final /\ final + (n + 1) = second
        /\ second + (n + 1) + (n + 2) = decommit
    BY <1>10a, <1>10b, <1>10c, <1>10d
  <2> QED BY <1>2, <1>12, <2>1, <2>2, <2>3, <2>4, <2>5, <2>6 DEF PartsFollow
<1> QED
  BY <1>14, <1>15

-----------------------------------------------------------------------------
(* The steps, call by call. *)

LEMMA AddStep ==
  ASSUME TracesInv, NEW t \in Traces, NEW n \in 1..Width(t), InAdd(t, n), Next
  PROVE  IInv'
<1>0. PICK columns \in Nat \ {0} : columns = Width(t)
  BY ShapeIs
<1>1. PICK o \in Nat : o = CommitFrom(t) /\ CommitsAt(Program, o, t, columns)
  BY <1>0, CallsOfProgram DEF CallsAre
<1>2. PICK k \in Nat : k = o + n
  BY <1>0
<1>3. Place(k) /\ Others(t) /\ IsAdding(t, n - 1)
  BY <1>1, <1>2 DEF InAdd
<1>4. Program[k] = Call("add", t, n - 1) /\ k <= Len(Program)
  <2>1. Len(Program) \in Nat /\ NCosets \in Nat
    BY TheProgram, ListProperties, CosetsAre DEF IsProgram
  <2>2. n \in 1..columns /\ o + columns + 2 + NCosets <= Len(Program)
    BY <1>0, <1>1 DEF CommitsAt
  <2>3. Program[o + n] = Call("add", t, n - 1)
    BY <1>1, <2>2 DEF CommitsAt
  <2> QED BY <1>0, <1>2, <2>1, <2>2, <2>3
<1>5. T = t /\ shape' = shape /\ Place(k + 1)' /\ Made("add")
  BY <1>3, <1>4, TheCall
<1>6. PICK return : return = AddEvaluation(managers[t])
  OBVIOUS
<1>7. return.ok /\ Adding(return.m, shape.full, shape.fft, n)
  <2>1. n - 1 \in Nat /\ (n - 1) + 1 = n
    BY <1>0
  <2>2. Adding(managers[t], shape.full, shape.fft, n - 1)
    BY <1>3 DEF IsAdding
  <2>3. /\ AddEvaluation(managers[t]).ok
        /\ Adding(AddEvaluation(managers[t]).m, shape.full, shape.fft, (n - 1) + 1)
    BY <2>1, <2>2, Added
  <2> QED BY <1>6, <2>1, <2>3
<1>8. Uses(return) /\ UNCHANGED <<storages, evals, committed, composed, answered>>
  BY <1>5, <1>6 DEF Made, Add
<1>9. /\ managers' = [u \in Traces |-> managers'[u]] /\ managers'[t] = return.m
      /\ \A u \in Traces : u # t => managers'[u] = managers[u]
      /\ ~failed'
  BY <1>5, <1>7, <1>8, CallUsed
<1>10. TracesInv'
  BY <1>5, <1>8, <1>9, SameInv DEF TracesInv
<1>11. Others(t)'
  BY <1>3, <1>5, <1>8, <1>9, OthersStay
<1>12. IsAdding(t, n)'
  BY <1>3, <1>5, <1>7, <1>8, <1>9 DEF IsAdding
<1>13. InAdd(t, n + 1)'
  <2>1. k + 1 = CommitFrom(t)' + (n + 1) /\ (n + 1) - 1 = n
    BY <1>0, <1>1, <1>2, <1>5, SameShape
  <2> QED BY <1>5, <1>11, <1>12, <2>1 DEF InAdd, Place, Rest
<1>14. t \in Traces' /\ n + 1 \in 1..(Width(t)' + 1)
  BY <1>0, <1>5, SameShape
<1> QED
  BY <1>10, <1>13, <1>14 DEF IInv, AtSomePlace

LEMMA FinishStep ==
  ASSUME TracesInv, NEW t \in Traces, InAdd(t, Width(t) + 1), Next
  PROVE  IInv'
<1>0. PICK columns \in Nat \ {0} : columns = Width(t)
  BY ShapeIs
<1>1. PICK o \in Nat : o = CommitFrom(t) /\ CommitsAt(Program, o, t, columns)
  BY <1>0, CallsOfProgram DEF CallsAre
<1>2. PICK k \in Nat : k = o + columns + 1
  BY <1>0
<1>3. Place(k) /\ Others(t) /\ IsAdding(t, columns)
  <2>1. CommitFrom(t) + (Width(t) + 1) = k /\ (Width(t) + 1) - 1 = columns
    BY <1>0, <1>1, <1>2
  <2> QED BY <2>1 DEF InAdd
<1>4. Program[k] = Call("finish", t, 0) /\ k <= Len(Program)
  <2>1. Len(Program) \in Nat /\ NCosets \in Nat
    BY TheProgram, ListProperties, CosetsAre DEF IsProgram
  <2>2. Program[o + columns + 1] = Call("finish", t, 0)
        /\ o + columns + 2 + NCosets <= Len(Program)
    BY <1>1 DEF CommitsAt
  <2> QED BY <1>0, <1>2, <2>1, <2>2
<1>5. T = t /\ shape' = shape /\ Place(k + 1)' /\ Made("finish")
  BY <1>3, <1>4, TheCall
<1>6. PICK return : return = FinalizeAdding(managers[t])
  OBVIOUS
<1>7. return.ok /\ Ready(return.m, shape.full, shape.fft, columns, 0, TRUE)
  BY <1>3, <1>6, AddedAll DEF IsAdding
<1>8. Uses(return) /\ UNCHANGED <<storages, evals, committed, composed, answered>>
  BY <1>5, <1>6 DEF Made, FinishAdding
<1>9. /\ managers' = [u \in Traces |-> managers'[u]] /\ managers'[t] = return.m
      /\ \A u \in Traces : u # t => managers'[u] = managers[u]
      /\ ~failed'
  BY <1>5, <1>7, <1>8, CallUsed
<1>10. TracesInv'
  BY <1>5, <1>8, <1>9, SameInv DEF TracesInv
<1>11. Others(t)'
  BY <1>3, <1>5, <1>8, <1>9, OthersStay
<1>12. IsReady(t, 0)'
  <2>1. committed'[t] = <<>>
    BY <1>3, <1>8 DEF IsAdding
  <2>2. CommittedTo(<<>>, columns, 0)
    BY EmptyList DEF CommittedTo
  <2> QED BY <1>0, <1>5, <1>7, <1>9, <2>1, <2>2, SameShape DEF IsReady
<1>13. InFirstAllocate(t)'
  <2>1. k + 1 = CommitFrom(t)' + Width(t)' + 2
    BY <1>0, <1>1, <1>2, <1>5, SameShape
  <2> QED BY <1>5, <1>11, <1>12, <2>1 DEF InFirstAllocate, Place, Rest
<1>14. t \in Traces'
  BY <1>5, SameShape
<1> QED
  BY <1>10, <1>13, <1>14 DEF IInv, AtSomePlace

(* The storage that a trace is allocated is for its columns. *)
LEMMA Allocated ==
  ASSUME TracesInv, NEW t \in Traces, T = t, shape' = shape, Allocate, NEW columns \in Nat,
         managers[t].columns = columns, managers[t].full = shape.full, columns = Width(t)
  PROVE  /\ storages' \in [Traces -> Entries] /\ HasStorage(t)'
         /\ \A u \in Traces : u # t => storages'[u] = storages[u]
         /\ UNCHANGED <<managers, evals, committed, composed, answered, failed>>
<1>1. PICK e : e = AllocateStorage(managers[t])
  OBVIOUS
<1>2. e \in Entries /\ (~shape.full => e.columns = columns)
  BY <1>1, EntriesAre DEF AllocateStorage, InitializeEntry
<1>3. /\ storages' = [storages EXCEPT ![t] = e]
      /\ UNCHANGED <<managers, evals, committed, composed, answered, failed>>
  BY <1>1 DEF Allocate
<1>4. storages \in [Traces -> Entries]
  BY DEF TracesInv
<1>5. storages' \in [Traces -> Entries] /\ storages'[t] = e
  BY <1>2, <1>3, <1>4
<1>6. \A u \in Traces : u # t => storages'[u] = storages[u]
  BY <1>3, <1>4
<1>7. HasStorage(t)'
  BY <1>2, <1>5, SameShape DEF HasStorage
<1> QED
  BY <1>3, <1>5, <1>6, <1>7

LEMMA FirstAllocateStep ==
  ASSUME TracesInv, NEW t \in Traces, InFirstAllocate(t), Next
  PROVE  IInv'
<1>0. PICK columns \in Nat \ {0} : columns = Width(t)
  BY ShapeIs
<1>1. PICK o \in Nat : o = CommitFrom(t) /\ CommitsAt(Program, o, t, columns)
  BY <1>0, CallsOfProgram DEF CallsAre
<1>2. PICK k \in Nat : k = o + columns + 2
  BY <1>0
<1>3. Place(k) /\ Others(t) /\ IsReady(t, 0)
  BY <1>0, <1>1, <1>2 DEF InFirstAllocate
<1>4. Program[k] = Call("allocate", t, 0) /\ k <= Len(Program)
  <2>1. Len(Program) \in Nat /\ NCosets \in Nat
    BY TheProgram, ListProperties, CosetsAre DEF IsProgram
  <2>2. Program[o + columns + 2] = Call("allocate", t, 0)
        /\ o + columns + 2 + NCosets <= Len(Program)
    BY <1>1 DEF CommitsAt
  <2> QED BY <1>0, <1>2, <2>1, <2>2
<1>5. T = t /\ shape' = shape /\ Place(k + 1)' /\ Made("allocate")
  BY <1>3, <1>4, TheCall
<1>6. managers[t].columns = columns /\ managers[t].full = shape.full
  BY <1>0, <1>3 DEF IsReady, Ready
<1>7. /\ storages' \in [Traces -> Entries] /\ HasStorage(t)'
      /\ UNCHANGED <<managers, evals, committed, composed, answered, failed>>
  BY <1>0, <1>5, <1>6, Allocated DEF Made
<1>8. TracesInv'
  BY <1>5, <1>7, SameInv DEF TracesInv
<1>9. Others(t)'
  BY <1>3, <1>5, <1>7, OthersStay
<1>10. IsReady(t, 0)'
  BY <1>3, <1>5, <1>7, SameTrace
<1>11. InCommit(t, 0)'
  <2>1. k + 1 = CommitFrom(t)' + Width(t)' + 3 + 0
    BY <1>0, <1>1, <1>2, <1>5, SameShape
  <2> QED BY <1>5, <1>7, <1>9, <1>10, <2>1 DEF InCommit, Place, Rest
<1>12. t \in Traces' /\ 0 \in Cosets
  BY <1>5, SameShape, CosetsAre
<1> QED
  BY <1>8, <1>11, <1>12 DEF IInv, AtSomePlace

LEMMA AppendIs ==
  ASSUME NEW list, IsList(list), NEW e
  PROVE  /\ IsList(Append(list, e)) /\ Len(Append(list, e)) = Len(list) + 1
         /\ \A k \in 1..Len(list) : Append(list, e)[k] = list[k]
         /\ Append(list, e)[Len(list) + 1] = e
<1>1. PICK S : S = {list[k] : k \in DOMAIN list} \union {e}
  OBVIOUS
<1>2. list \in Seq(S) /\ e \in S
  BY <1>1, SeqMonotonic DEF IsList
<1>3. /\ Append(list, e) \in Seq(S) /\ Len(Append(list, e)) = Len(list) + 1
      /\ \A k \in 1..Len(list) : Append(list, e)[k] = list[k]
      /\ Append(list, e)[Len(list) + 1] = e
  BY <1>2, AppendProperties
<1> QED
  BY <1>3, ListIs

LEMMA OneMoreSegment ==
  ASSUME NEW segments, NEW columns, NEW coset \in Nat, CommittedTo(segments, columns, coset),
         NEW value, value = Value(columns, coset)
  PROVE  CommittedTo(Append(segments, value), columns, coset + 1)
<1>1. IsList(segments) /\ Len(segments) = coset
      /\ \A k \in 1..coset : segments[k] = Value(columns, k - 1)
  BY DEF CommittedTo
<1>2. PICK more : more = Append(segments, value)
  OBVIOUS
<1>3. /\ IsList(more) /\ Len(more) = coset + 1
      /\ \A k \in 1..coset : more[k] = segments[k]
      /\ more[coset + 1] = value
  BY <1>1, <1>2, AppendIs
<1>4. ASSUME NEW k \in 1..(coset + 1) PROVE more[k] = Value(columns, k - 1)
  <2>1. CASE k = coset + 1
    <3>1. k - 1 = coset
      BY <2>1
    <3> QED BY <1>3, <2>1, <3>1
  <2>2. CASE k # coset + 1
    <3>1. k \in 1..coset
      BY <2>2
    <3> QED BY <1>1, <1>3, <3>1
  <2> QED BY <2>1, <2>2
<1> QED
  BY <1>2, <1>3, <1>4 DEF CommittedTo

(* After the last segment of a trace comes the next trace, the first       *)
(* composition or the mask.                                                *)
LEMMA TraceDone ==
  ASSUME TracesInv, shape' = shape, TracesInv', NEW t \in Traces, NEW k,
         k = CommitFrom(t) + Width(t) + 2 + NCosets, Place(k + 1)', Others(t)', IsSettled(t, TRUE)'
  PROVE  IInv'
<1>1. PICK n \in Nat : n = Broken /\ n > 1 /\ Traces = 1..n /\ t \in Nat
  BY ShapeIs DEF Traces
<1>2. evals' = <<>> /\ answered'.rows = <<>>
  BY DEF Others
<1>3. ASSUME NEW u \in 1..t PROVE IsSettled(u, TRUE)'
  <2>1. CASE u = t
    BY <2>1
  <2>2. CASE u # t
    <3>1. u \in 1..(t - 1)
      BY <1>1, <2>2
    <3> QED BY <3>1 DEF Others
  <2> QED BY <2>1, <2>2
<1>4. ASSUME NEW u \in (t + 1)..n PROVE IsAdding(u, 0)'
  BY <1>1, SameShape DEF Others
<1>5. CASE t < n - 1
  <2>1. PICK s : s = t + 1 /\ s \in Traces /\ s - 1 = t /\ t \in 1..(n - 2) /\ s \in Nat
    BY <1>1, <1>5
  <2>2. CommitFrom(t) + Width(t) + 2 + NCosets = CommitFrom(s)
    BY <1>1, <2>1, CallsOfProgram DEF PartsFollow
  <2>3. CommitFrom(s)' + 1 = k + 1
    BY <2>2, SameShape
  <2>4. \A u \in (s + 1)..n : u \in (t + 1)..n
    BY <1>1, <2>1
  <2>5. Others(s)'
    BY <1>1, <1>2, <1>3, <1>4, <2>1, <2>4, SameShape DEF Others
  <2>6. IsAdding(s, 1 - 1)'
    <3>1. s \in (t + 1)..n /\ 1 - 1 = 0
      BY <1>1, <2>1
    <3> QED BY <1>4, <3>1
  <2>7. InAdd(s, 1)'
    BY <2>3, <2>5, <2>6 DEF InAdd, Place, Rest
  <2>8. s \in Traces' /\ 1 \in 1..(Width(s)' + 1)
    <3>1. Width(s) \in Nat
      BY <2>1, ShapeIs
    <3> QED BY <2>1, <3>1, SameShape
  <2> QED BY <2>7, <2>8 DEF IInv, AtSomePlace
<1>6. CASE t = n - 1
  <2>1. ComposeFrom(1)' + 1 = k + 1
    <3>1. CommitFrom(t) + Width(t) + 2 + NCosets = ComposeFrom(1)
      BY <1>1, <1>6, CallsOfProgram DEF PartsFollow
    <3> QED BY <3>1, SameShape
  <2>2. TracesOf(1)' = t /\ Broken' = n /\ n \in (t + 1)..n
    BY <1>1, <1>6, SameShape DEF TracesOf
  <2>3. Composing(1)'
    BY <1>2, <1>3, <1>4, <2>2 DEF Composing
  <2>4. InAllocate(1, 1)'
    <3>1. \A u \in 1..(1 - 1) : FALSE
      OBVIOUS
    <3> QED BY <1>2, <2>1, <2>3, <3>1 DEF InAllocate, Place, Rest
  <2>5. 1 \in Compositions /\ 1 \in 1..(TracesOf(1)')
    BY <1>1, <1>6, <2>2 DEF Compositions
  <2> QED BY <2>4, <2>5 DEF IInv, AtSomePlace
<1>7. CASE t = n
  <2>1. MaskFrom' + 1 = k + 1
    <3>1. CommitFrom(t) + Width(t) + 2 + NCosets = MaskFrom
      BY <1>1, <1>7, CallsOfProgram DEF PartsFollow
    <3> QED BY <3>1, SameShape
  <2>2. \A u \in Traces' : IsSettled(u, TRUE)'
    BY <1>1, <1>3, <1>7, SameShape
  <2>3. InMask(1)'
    BY <1>2, <2>1, <2>2 DEF InMask, Place, Rest
  <2>4. 1 \in Traces'
    BY <1>1, SameShape
  <2> QED BY <2>3, <2>4 DEF IInv, AtSomePlace
<1> QED
  BY <1>1, <1>5, <1>6, <1>7

(* A trace is evaluated for its table, and again for a composition. *)
RightlyEvaluated(r, full, fft, columns, n, has_lde, coset) ==
  /\ r.ok /\ r.value = Value(columns, coset)
  /\ Ready(r.m, full, fft, columns, n, has_lde)
  /\ r.storage \in Entries /\ (~full => r.storage.columns = columns)

LEMMA EvaluatedFirst ==
  ASSUME NEW m, NEW full \in BOOLEAN, NEW fft, NEW columns \in Nat \ {0}, NEW coset \in Cosets,
         Ready(m, full, fft, columns, coset, TRUE),
         NEW storage \in Entries, ~full => storage.columns = columns
  PROVE  RightlyEvaluated(EvalOnCoset(m, coset, storage), full, fft, columns, coset + 1, TRUE, coset)
<1>1. coset \in 0..NCosets /\ (full => coset <= coset) /\ TRUE \in BOOLEAN
  BY CosetsAre
<1>2. PICK n : n = coset
  OBVIOUS
<1>3. PICK has_lde \in BOOLEAN : has_lde = TRUE
  OBVIOUS
<1>4. n \in 0..NCosets /\ (full => coset <= n) /\ Ready(m, full, fft, columns, n, has_lde)
      /\ (has_lde \/ (full /\ coset < n))
  BY <1>1, <1>2, <1>3
<1>5. PICK r : r = EvalOnCoset(m, coset, storage)
  OBVIOUS
<1>6. /\ r.ok /\ r.value = Value(columns, coset)
      /\ Ready(r.m, full, fft, columns, IF coset = n THEN n + 1 ELSE n, has_lde)
      /\ r.storage \in Entries /\ (~full => r.storage.columns = columns)
  <2>1. has_lde \in BOOLEAN
    BY <1>3
  <2> QED BY ONLY <1>4, <1>5, <2>1, full \in BOOLEAN, columns \in Nat \ {0}, coset \in Cosets,
                  storage \in Entries, ~full => storage.columns = columns, Evaluated
<1> QED
  BY <1>2, <1>3, <1>5, <1>6 DEF RightlyEvaluated

LEMMA EvaluatedAgain ==
  ASSUME NEW m, NEW full \in BOOLEAN, NEW fft, NEW columns \in Nat \ {0}, NEW coset \in Cosets,
         NEW has_lde \in BOOLEAN, Ready(m, full, fft, columns, NCosets, has_lde), has_lde \/ full,
         NEW storage \in Entries, ~full => storage.columns = columns
  PROVE  RightlyEvaluated(EvalOnCoset(m, coset, storage), full, fft, columns, NCosets, has_lde, coset)
<1>1. PICK n : n = NCosets
  OBVIOUS
<1>2. /\ n \in 0..NCosets /\ (full => coset <= n) /\ Ready(m, full, fft, columns, n, has_lde)
      /\ (has_lde \/ (full /\ coset < n)) /\ coset # n
  BY <1>1, CosetsAre
<1>3. PICK r : r = EvalOnCoset(m, coset, storage)
  OBVIOUS
<1>4. /\ r.ok /\ r.value = Value(columns, coset)
      /\ Ready(r.m, full, fft, columns, IF coset = n THEN n + 1 ELSE n, has_lde)
      /\ r.storage \in Entries /\ (~full => r.storage.columns = columns)
  BY ONLY <1>2, <1>3, has_lde \in BOOLEAN, full \in BOOLEAN, columns \in Nat \ {0},
          coset \in Cosets,
          storage \in Entries, ~full => storage.columns = columns, Evaluated
<1> QED
  BY <1>1, <1>2, <1>3, <1>4 DEF RightlyEvaluated

LEMMA CommitStep ==
  ASSUME TracesInv, NEW t \in Traces, NEW coset \in Cosets, InCommit(t, coset), Next
  PROVE  IInv'
<1>0. PICK columns \in Nat \ {0} : columns = Width(t)
  BY ShapeIs
<1>0a. PICK N \in Nat \ {0} : N = NCosets /\ Cosets = 0..(N - 1) /\ coset \in Nat /\ coset < N
  BY CosetsAre
<1>1. PICK o \in Nat : o = CommitFrom(t) /\ CommitsAt(Program, o, t, columns)
  BY <1>0, CallsOfProgram DEF CallsAre
<1>2. PICK k \in Nat : k = o + columns + 3 + coset
  BY <1>0, <1>0a
<1>3. Place(k) /\ Others(t) /\ IsReady(t, coset) /\ HasStorage(t)
  BY <1>0, <1>1, <1>2 DEF InCommit
<1>4. Program[k] = Call("commit", t, coset) /\ k <= Len(Program)
  <2>1. Len(Program) \in Nat
    BY TheProgram, ListProperties DEF IsProgram
  <2>2. Program[o + columns + 3 + coset] = Call("commit", t, coset)
        /\ o + columns + 2 + NCosets <= Len(Program)
    BY <1>1 DEF CommitsAt
  <2> QED BY <1>0, <1>0a, <1>2, <2>1, <2>2
<1>5. T = t /\ Op.coset = coset /\ shape' = shape /\ Place(k + 1)' /\ Made("commit")
  BY <1>3, <1>4, TheCall
<1>6. PICK return : return = EvalOnCoset(managers[t], coset, storages[t])
  OBVIOUS
<1>7. /\ return.ok /\ return.value = Value(columns, coset)
      /\ Ready(return.m, shape.full, shape.fft, columns, coset + 1, TRUE)
      /\ return.storage \in Entries /\ (~shape.full => return.storage.columns = columns)
  <2>1. Ready(managers[t], shape.full, shape.fft, columns, coset, TRUE)
    BY <1>0, <1>3 DEF IsReady
  <2>2. shape.full \in BOOLEAN
    BY ShapeIs
  <2>3. storages[t] \in Entries
    BY DEF TracesInv
  <2>4. ~shape.full => storages[t].columns = columns
    BY <1>0, <1>3 DEF HasStorage
  <2>5. RightlyEvaluated(return, shape.full, shape.fft, columns, coset + 1, TRUE, coset)
    BY <1>6, <2>1, <2>2, <2>3, <2>4, EvaluatedFirst
  <2> QED BY <2>5 DEF RightlyEvaluated
<1>8. /\ Uses(return)
      /\ storages' = [storages EXCEPT ![t] = return.storage]
      /\ committed' = [committed EXCEPT ![t] = Append(@, return.value)]
      /\ UNCHANGED <<evals, composed, answered>>
  BY <1>5, <1>6 DEF Made, CommitCoset
<1>9. /\ managers' = [u \in Traces |-> managers'[u]] /\ managers'[t] = return.m
      /\ \A u \in Traces : u # t => managers'[u] = managers[u]
      /\ ~failed'
  BY <1>5, <1>7, <1>8, CallUsed
<1>10. /\ committed' = [u \in Traces |-> committed'[u]]
          /\ committed'[t] = Append(committed[t], return.value)
       /\ \A u \in Traces : u # t => committed'[u] = committed[u]
  <2>1. committed = [u \in Traces |-> committed[u]]
    BY DEF TracesInv
  <2>2. PICK f, g, e : f = committed /\ g = committed' /\ e = Append(committed[t], return.value)
    OBVIOUS
  <2>3. g = [f EXCEPT ![t] = e]
    BY <1>8, <2>1, <2>2
  <2>4. /\ g = [x \in Traces |-> g[x]] /\ g[t] = e
        /\ \A u \in Traces : u # t => g[u] = f[u]
    BY <2>1, <2>2, <2>3, Updated
  <2> QED BY <2>2, <2>4
<1>11. /\ storages' \in [Traces -> Entries] /\ storages'[t] = return.storage
  BY <1>7, <1>8 DEF TracesInv
<1>12. CommittedTo(committed'[t], columns, coset + 1)
  <2>1. CommittedTo(committed[t], columns, coset)
    BY <1>0, <1>3 DEF IsReady
  <2> QED BY <1>0a, <1>7, <1>10, <2>1, OneMoreSegment
<1>13. TracesInv'
  <2>1. CompositionSeesTheCoset'
    BY <1>5, <1>8, SameShape DEF TracesInv, CompositionSeesTheCoset
  <2>2. CommittedIsTheTrace'
    <3>1. ASSUME NEW u \in Traces, NEW j \in DOMAIN committed'[u]
          PROVE  committed'[u][j] = Value(Width(u), j - 1)
      <4>1. CASE u = t
        <5>1. j \in 1..(coset + 1)
          BY <1>12, <4>1, ListProperties DEF CommittedTo
        <5> QED BY <1>0, <1>12, <4>1, <5>1 DEF CommittedTo
      <4>2. CASE u # t
        BY <1>10, <4>2 DEF TracesInv, CommittedIsTheTrace, Value
      <4> QED BY <4>1, <4>2
    <3> QED BY <1>5, <3>1, SameShape DEF CommittedIsTheTrace, Value
  <2> QED BY <1>5, <1>9, <1>10, <1>11, <2>1, <2>2, SameShape DEF TracesInv
<1>14. Others(t)'
  BY <1>3, <1>5, <1>8, <1>9, <1>10, OthersStay
<1>15. IsReady(t, coset + 1)' /\ HasStorage(t)'
  BY <1>0, <1>5, <1>7, <1>9, <1>11, <1>12, SameShape DEF IsReady, HasStorage
<1>16. CASE coset + 1 < N
  <2>1. k + 1 = CommitFrom(t)' + Width(t)' + 3 + (coset + 1)
    <3>1. coset \in Nat /\ o \in Nat /\ columns \in Nat /\ k = o + columns + 3 + coset
      BY <1>0a, <1>2
    <3>2. k + 1 = o + columns + 3 + (coset + 1)
      BY ONLY <3>1
    <3>3. CommitFrom(t)' = o /\ Width(t)' = columns
      BY <1>0, <1>0a, <1>1, <1>5, SameShape
    <3> QED BY ONLY <3>2, <3>3
  <2>2. InCommit(t, coset + 1)'
    BY <1>5, <1>14, <1>15, <2>1 DEF InCommit, Place, Rest
  <2>3. t \in Traces' /\ coset + 1 \in Cosets
    BY <1>0a, <1>5, <1>16, SameShape
  <2> QED BY <1>13, <2>2, <2>3 DEF IInv, AtSomePlace
<1>17. CASE coset + 1 = N
  <2>1. k = CommitFrom(t) + Width(t) + 2 + NCosets
    <3>1. coset \in Nat /\ N \in Nat /\ o \in Nat /\ columns \in Nat
      BY <1>0a
    <3>2. k = o + columns + 3 + coset
      BY <1>2
    <3>3. k = o + columns + 2 + N
      BY ONLY <1>17, <3>1, <3>2
    <3> QED BY <1>0, <1>0a, <1>1, <3>3
  <2>2. IsSettled(t, TRUE)'
    BY <1>0a, <1>15, <1>17 DEF IsReady, IsSettled
  <2> QED BY <1>5, <1>13, <1>14, <2>1, <2>2, TraceDone
<1> QED
  BY <1>0a, <1>16, <1>17

(* The compositions. *)
LEMMA CompositionIs ==
  ASSUME TracesInv, NEW r \in Compositions
  PROVE  /\ TracesOf(r) \in Nat \ {0} /\ SegmentsOf(r) \in 1..NCosets /\ ComposeFrom(r) \in Nat
         /\ \A t \in 1..TracesOf(r) : t \in Traces
         /\ ComposesAt(Program, ComposeFrom(r), TracesOf(r), SegmentsOf(r))
<1>1. PICK n \in Nat : n = Broken /\ n > 1 /\ Traces = 1..n
  BY ShapeIs DEF Traces
<1>2. TracesOf(r) \in Nat \ {0} /\ \A t \in 1..TracesOf(r) : t \in Traces
  BY <1>1 DEF TracesOf
<1>3. SegmentsOf(r) \in 1..NCosets
  BY ShapeIs, CosetsAre DEF SegmentsOf
<1> QED
  BY <1>2, <1>3, CallsOfProgram DEF CallsAre

LEMMA ComposingStays ==
  ASSUME shape' = shape, TracesInv, NEW r \in Compositions, Composing(r), NEW t \in 1..TracesOf(r),
         IsSettled(t, r = 1 \/ ~shape.full)', committed' = committed, answered' = answered,
         \A u \in Traces : u # t => managers'[u] = managers[u]
  PROVE  Composing(r)'
<1>1. ASSUME NEW u \in 1..TracesOf(r) PROVE IsSettled(u, r = 1 \/ ~shape.full)'
  <2>1. CASE u = t
    BY <2>1
  <2>2. CASE u # t
    <3>1. IsSettled(u, r = 1 \/ ~shape.full)
      BY DEF Composing
    <3>2. PICK has_lde : has_lde = (r = 1 \/ ~shape.full)
      OBVIOUS
    <3>3. managers'[u] = managers[u] /\ committed'[u] = committed[u]
      BY <2>2, CompositionIs
    <3>4. IsSettled(u, has_lde)'
      BY <3>1, <3>2, <3>3, SameTrace
    <3>5. has_lde = (r = 1 \/ ~shape'.full)
      BY <3>2
    <3> QED BY <3>4, <3>5
  <2> QED BY <2>1, <2>2
<1>2. ASSUME r = 1 PROVE IsAdding(Broken, 0)'
  <2>1. PICK n : n = Broken
    OBVIOUS
  <2>2. IsAdding(n, 0)
    BY <1>2, <2>1 DEF Composing
  <2>3. n \in Traces /\ n # t
    BY <1>2, <2>1, ShapeIs DEF TracesOf, Traces
  <2>4. IsAdding(n, 0)'
    BY <2>2, <2>3, SameTrace
  <2>5. Broken' = n
    BY <2>1, SameShape
  <2> QED BY <2>4, <2>5
<1>3. answered'.rows = <<>>
  BY DEF Composing
<1> QED
  BY <1>1, <1>2, <1>3, SameShape DEF Composing

LEMMA AllocateStep ==
  ASSUME TracesInv, NEW r \in Compositions, NEW t \in 1..TracesOf(r), InAllocate(r, t), Next
  PROVE  IInv'
<1>0. PICK n \in Nat \ {0} : n = TracesOf(r) /\ t \in 1..n /\ t \in Traces
  BY CompositionIs
<1>0a. PICK columns \in Nat \ {0} : columns = Width(t)
  BY <1>0, ShapeIs
<1>1. PICK o \in Nat : o = ComposeFrom(r) /\ ComposesAt(Program, o, n, SegmentsOf(r))
  BY <1>0, CompositionIs
<1>2. PICK k \in Nat : k = o + t
  BY <1>0
<1>3. Place(k) /\ Composing(r) /\ evals = <<>> /\ \A u \in 1..(t - 1) : HasStorage(u)
  BY <1>1, <1>2 DEF InAllocate
<1>4. Program[k] = Call("allocate", t, 0) /\ k <= Len(Program)
  <2>1. Len(Program) \in Nat
    BY TheProgram, ListProperties DEF IsProgram
  <2>2. Program[o + t] = Call("allocate", t, 0) /\ o + n <= Len(Program)
    BY <1>0, <1>1 DEF ComposesAt
  <2> QED BY <1>0, <1>2, <2>1, <2>2
<1>5. T = t /\ shape' = shape /\ Place(k + 1)' /\ Made("allocate")
  BY <1>3, <1>4, TheCall
<1>5a. IsSettled(t, r = 1 \/ ~shape.full)
  BY <1>0, <1>3 DEF Composing
<1>6. managers[t].columns = columns /\ managers[t].full = shape.full
  BY <1>0a, <1>5a DEF IsSettled, Ready
<1>7. /\ storages' \in [Traces -> Entries] /\ HasStorage(t)'
      /\ \A u \in Traces : u # t => storages'[u] = storages[u]
      /\ UNCHANGED <<managers, evals, committed, composed, answered, failed>>
  BY <1>0, <1>0a, <1>5, <1>6, Allocated DEF Made
<1>8. TracesInv'
  BY <1>5, <1>7, SameInv DEF TracesInv
<1>9. Composing(r)'
  <2>1. IsSettled(t, r = 1 \/ ~shape.full)'
    BY <1>5, <1>5a, <1>7, SameTrace
  <2> QED BY <1>0, <1>3, <1>5, <1>7, <2>1, ComposingStays
<1>10. ASSUME NEW u \in 1..t PROVE HasStorage(u)'
  <2>1. CASE u = t
    BY <1>7, <2>1
  <2>2. CASE u # t
    <3>1. u \in 1..(t - 1) /\ u \in Traces
      BY <1>0, <2>2, CompositionIs
    <3> QED BY <1>3, <1>5, <1>7, <2>2, <3>1, SameStorage
  <2> QED BY <2>1, <2>2
<1>11. ComposeFrom(r)' = o /\ TracesOf(r)' = n /\ SegmentsOf(r)' = SegmentsOf(r)
  BY <1>0, <1>1, <1>5, SameShape
<1>12. CASE t < n
  <2>1. PICK s \in Nat : s = t + 1 /\ s - 1 = t /\ s \in 1..n /\ o + s = k + 1
    BY <1>0, <1>2, <1>12
  <2>2. InAllocate(r, s)'
    BY <1>3, <1>5, <1>7, <1>9, <1>10, <1>11, <2>1 DEF InAllocate, Place, Rest
  <2> QED BY <1>8, <1>11, <2>1, <2>2 DEF IInv, AtSomePlace
<1>13. CASE t = n
  <2>1. o + n + 0 * (n + 1) + 1 = k + 1
    BY <1>2, <1>13
  <2>2. EvalsAre(1 - 1, 0)'
    BY <1>3, <1>7, EmptyList DEF EvalsAre
  <2>3. InEvaluate(r, 0, 1)'
    BY <1>5, <1>9, <1>10, <1>11, <1>13, <2>1, <2>2 DEF InEvaluate, Place, Rest
  <2>4. 0 \in 0..(SegmentsOf(r)' - 1) /\ 1 \in 1..(n + 1)
    BY <1>11, CompositionIs, CosetsAre
  <2> QED BY <1>8, <1>11, <2>3, <2>4 DEF IInv, AtSomePlace
<1> QED
  BY <1>0, <1>12, <1>13

(* What composition is to see grows by one trace. *)
LEMMA OneMoreEvaluation ==
  ASSUME shape' = shape, NEW t \in Nat \ {0}, NEW coset, EvalsAre(t - 1, coset),
         NEW value, value = BitReversed(Value(Width(t), coset)), evals' = Append(evals, value)
  PROVE  EvalsAre(t, coset)'
<1>1. PICK n \in Nat : n = t - 1 /\ n + 1 = t
  OBVIOUS
<1>2. IsList(evals) /\ Len(evals) = n
      /\ \A u \in 1..n : evals[u] = BitReversed(Value(Width(u), coset))
  BY <1>1 DEF EvalsAre
<1>3. PICK more : more = evals'
  OBVIOUS
<1>4. /\ IsList(more) /\ Len(more) = t
      /\ \A k \in 1..n : more[k] = evals[k]
      /\ more[t] = value
  BY <1>1, <1>2, <1>3, AppendIs
<1>5. ASSUME NEW u \in 1..t PROVE more[u] = BitReversed(Value(Width(u), coset))
  <2>1. CASE u = t
    BY <1>4, <2>1
  <2>2. CASE u # t
    <3>1. u \in 1..n
      BY <1>1, <2>2
    <3> QED BY <1>2, <1>4, <3>1
  <2> QED BY <2>1, <2>2
<1> QED
  BY <1>3, <1>4, <1>5, SameShape DEF EvalsAre, Value

LEMMA EvaluateStep ==
  ASSUME TracesInv, NEW r \in Compositions, NEW coset \in 0..(SegmentsOf(r) - 1),
         NEW t \in 1..TracesOf(r), InEvaluate(r, coset, t), Next
  PROVE  IInv'
<1>0. PICK n \in Nat \ {0} : n = TracesOf(r) /\ t \in 1..n /\ t \in Traces
  BY CompositionIs
<1>0a. PICK columns \in Nat \ {0} : columns = Width(t)
  BY <1>0, ShapeIs
<1>0b. coset \in Nat /\ coset \in Cosets
  BY CompositionIs, CosetsAre
<1>1. PICK o \in Nat : o = ComposeFrom(r) /\ ComposesAt(Program, o, n, SegmentsOf(r))
  BY <1>0, CompositionIs
<1>2. PICK past \in Nat : past = o + n + coset * (n + 1)
  <2>1. coset * (n + 1) \in Nat
    BY <1>0b
  <2> QED BY <2>1
<1>2a. PICK k \in Nat : k = past + t
  BY <1>0
<1>3. /\ Place(k) /\ Composing(r) /\ EvalsAre(t - 1, coset)
      /\ \A u \in 1..n : HasStorage(u)
  BY <1>0, <1>1, <1>2, <1>2a DEF InEvaluate
<1>4. Program[k] = Call("evaluate", t, coset) /\ k <= Len(Program)
  <2>1. PICK l \in Nat : l = Len(Program)
    BY TheProgram, ListProperties DEF IsProgram
  <2>2. Program[past + t] = Call("evaluate", t, coset) /\ past + n + 1 <= l
    BY <1>0, <1>1, <1>2, <2>1 DEF ComposesAt
  <2> QED BY <1>0, <1>2a, <2>1, <2>2
<1>5. T = t /\ Op.coset = coset /\ shape' = shape /\ Place(k + 1)' /\ Made("evaluate")
  BY <1>3, <1>4, TheCall
<1>6. PICK return : return = EvalOnCoset(managers[t], coset, storages[t])
  OBVIOUS
<1>6a. PICK has_lde \in BOOLEAN : has_lde = (r = 1 \/ ~shape.full)
  OBVIOUS
<1>7. /\ return.ok /\ return.value = Value(columns, coset)
      /\ Ready(return.m, shape.full, shape.fft, columns, NCosets, has_lde)
      /\ return.storage \in Entries /\ (~shape.full => return.storage.columns = columns)
  <2>1. Ready(managers[t], shape.full, shape.fft, columns, NCosets, has_lde)
    BY <1>0, <1>0a, <1>3, <1>6a DEF Composing, IsSettled
  <2>2. shape.full \in BOOLEAN
    BY ShapeIs
  <2>3. storages[t] \in Entries
    BY <1>0 DEF TracesInv
  <2>4. ~shape.full => storages[t].columns = columns
    BY <1>0, <1>0a, <1>3 DEF HasStorage
  <2>5. has_lde \/ shape.full
    BY <1>6a
  <2>6. RightlyEvaluated(return, shape.full, shape.fft, columns, NCosets, has_lde, coset)
    BY <1>0b, <1>6, <2>1, <2>2, <2>3, <2>4, <2>5, EvaluatedAgain
  <2> QED BY <2>6 DEF RightlyEvaluated
<1>8. /\ Uses([return EXCEPT !.m = CacheAfterReversal(@, coset)])
      /\ storages' = [storages EXCEPT ![t] = BitReversed(return.storage)]
      /\ evals' = Append(evals, BitReversed(return.value))
      /\ UNCHANGED <<committed, composed, answered>>
  BY <1>5, <1>6 DEF Made, EvaluateCoset
<1>8a. PICK left : left = [return EXCEPT !.m = CacheAfterReversal(@, coset)]
  OBVIOUS
<1>8b. return = [m |-> return.m, storage |-> return.storage, value |-> return.value, ok |-> return.ok]
  BY <1>6 DEF EvalOnCoset, Compute, Returns, Fails
<1>8c. left.ok /\ left.m = return.m
  BY <1>7, <1>8a, <1>8b DEF CacheAfterReversal
<1>9. /\ managers' = [u \in Traces |-> managers'[u]] /\ managers'[t] = left.m
      /\ \A u \in Traces : u # t => managers'[u] = managers[u]
      /\ ~failed'
  BY <1>0, <1>5, <1>8, <1>8a, <1>8c, CallUsed
<1>10. /\ storages' \in [Traces -> Entries] /\ (~shape.full => storages'[t].columns = columns)
       /\ \A u \in Traces : u # t => storages'[u] = storages[u]
  <2>1. PICK e : e = BitReversed(return.storage)
    OBVIOUS
  <2>2. e \in Entries /\ (~shape.full => e.columns = columns)
    BY <1>7, <2>1, ReversedEntries
  <2> QED BY <1>0, <1>8, <2>1, <2>2 DEF TracesInv
<1>11. ASSUME NEW u \in 1..n PROVE HasStorage(u)'
  <2>1. CASE u = t
    BY <1>0a, <1>5, <1>10, <2>1, SameShape DEF HasStorage
  <2>2. CASE u # t
    <3>1. u \in Traces
      BY <1>0, CompositionIs
    <3> QED BY <1>3, <1>5, <1>10, <2>2, <3>1, SameStorage
  <2> QED BY <2>1, <2>2
<1>12. TracesInv'
  BY <1>5, <1>8, <1>9, <1>10, SameInv DEF TracesInv
<1>13. Composing(r)'
  <2>1. CommittedTo(committed[t], columns, NCosets)
    BY <1>0, <1>0a, <1>3 DEF Composing, IsSettled
  <2>2. IsSettled(t, has_lde)'
    BY <1>0a, <1>5, <1>7, <1>8, <1>8c, <1>9, <2>1, SameShape DEF IsSettled
  <2>3. IsSettled(t, r = 1 \/ ~shape.full)'
    BY <1>5, <1>6a, <2>2
  <2> QED BY <1>0, <1>3, <1>5, <1>8, <1>9, <2>3, ComposingStays
<1>14. EvalsAre(t, coset)'
  BY <1>0, <1>0a, <1>3, <1>5, <1>7, <1>8, OneMoreEvaluation
<1>15. ComposeFrom(r)' = o /\ TracesOf(r)' = n /\ SegmentsOf(r)' = SegmentsOf(r)
  BY <1>0, <1>1, <1>5, SameShape
<1>16. PICK s \in Nat : s = t + 1 /\ s - 1 = t /\ s \in 1..(n + 1) /\ past + s = k + 1
  BY <1>0, <1>2a
<1>17. InEvaluate(r, coset, s)'
  BY <1>2, <1>5, <1>11, <1>13, <1>14, <1>15, <1>16 DEF InEvaluate, Place, Rest
<1> QED
  BY <1>12, <1>15, <1>16, <1>17 DEF IInv, AtSomePlace

(* A composition is evaluated, on what it should be. *)
LEMMA SeenRight ==
  ASSUME TracesInv, shape' = shape, NEW n \in Nat, NEW coset \in Nat, EvalsAre(n, coset),
         composed' = composed \union {[offset |-> OffsetTold(coset), coset |-> coset,
                                       evals |-> evals, traces |-> n]}
  PROVE  CompositionSeesTheCoset'
<1>1. PICK offset : offset = OffsetTold(coset) /\ offset = CosetOffset(coset)
  BY DEF OffsetTold, CosetOffset
<1>2. IsList(evals) /\ Len(evals) = n
      /\ \A u \in 1..n : evals[u] = BitReversed(Evaluation(Width(u), offset))
  BY <1>1 DEF EvalsAre, Value
<1>3. evals = [u \in 1..n |-> evals[u]]
  BY <1>2, ListProperties
<1>4. evals = [u \in 1..n |-> BitReversed(Evaluation(Width(u), offset))]
  <2>1. PICK f : f = [u \in 1..n |-> BitReversed(Evaluation(Width(u), offset))]
    OBVIOUS
  <2>2. f = [u \in 1..n |-> f[u]]
        /\ \A u \in 1..n : f[u] = BitReversed(Evaluation(Width(u), offset))
    BY <2>1
  <2>3. \A u \in 1..n : f[u] = evals[u]
    BY <1>2, <2>2
  <2> QED BY <1>3, <2>1, <2>2, <2>3
<1>5. ASSUME NEW c \in composed' 
      PROVE  c.evals = [t \in 1..c.traces |-> BitReversed(Evaluation(Width(t), c.offset))]
  <2>1. CASE c \in composed
    BY <2>1 DEF TracesInv, CompositionSeesTheCoset
  <2>2. CASE c = [offset |-> offset, coset |-> coset, evals |-> evals, traces |-> n]
    <3>1. c.evals = evals /\ c.traces = n /\ c.offset = offset
      BY <2>2
    <3> QED BY <1>4, <3>1
  <2> QED BY <1>1, <2>1, <2>2
<1> QED
  BY <1>5, SameShape DEF CompositionSeesTheCoset

LEMMA ComposeStep ==
  ASSUME TracesInv, NEW r \in Compositions, NEW coset \in 0..(SegmentsOf(r) - 1),
         InEvaluate(r, coset, TracesOf(r) + 1), Next
  PROVE  IInv'
<1>0. PICK n \in Nat \ {0} : n = TracesOf(r) /\ \A u \in 1..n : u \in Traces
  BY CompositionIs
<1>0a. PICK segments \in Nat : segments = SegmentsOf(r) /\ coset \in Nat /\ coset < segments
  BY CompositionIs, CosetsAre
<1>1. PICK o \in Nat : o = ComposeFrom(r) /\ ComposesAt(Program, o, n, segments)
  BY <1>0, <1>0a, CompositionIs
<1>2. PICK past \in Nat : past = o + n + coset * (n + 1)
  <2>1. coset * (n + 1) \in Nat
    BY <1>0a
  <2> QED BY <2>1
<1>2a. PICK k \in Nat : k = past + n + 1
  OBVIOUS
<1>3. /\ Place(k) /\ Composing(r) /\ EvalsAre(n, coset)
      /\ \A u \in 1..n : HasStorage(u)
  <2>1. past + (n + 1) = k /\ (n + 1) - 1 = n
    BY <1>2a
  <2> QED BY <1>0, <1>1, <1>2, <2>1 DEF InEvaluate
<1>4. Program[k] = Call("compose", n, coset) /\ k <= Len(Program)
  <2>1. PICK l \in Nat : l = Len(Program)
    BY TheProgram, ListProperties DEF IsProgram
  <2>2. Program[past + n + 1] = Call("compose", n, coset) /\ past + n + 1 <= l
    BY <1>0, <1>0a, <1>1, <1>2, <2>1 DEF ComposesAt
  <2> QED BY <1>0, <1>2a, <2>1, <2>2
<1>5. T = n /\ Op.coset = coset /\ shape' = shape /\ Place(k + 1)' /\ Made("compose")
  BY <1>3, <1>4, TheCall
<1>6. /\ composed' = composed \union {[offset |-> OffsetTold(coset), coset |-> coset,
                                       evals |-> evals, traces |-> n]}
      /\ evals' = <<>>
      /\ UNCHANGED <<managers, storages, committed, answered, failed>>
  BY <1>5 DEF Made, Compose
<1>7. TracesInv'
  <2>1. CompositionSeesTheCoset'
    BY <1>0a, <1>3, <1>5, <1>6, SeenRight
  <2>2. CommittedIsTheTrace'
    BY <1>5, <1>6, SameShape DEF TracesInv, CommittedIsTheTrace
  <2> QED BY <1>5, <1>6, <2>1, <2>2, SameShape DEF TracesInv
<1>8. Composing(r)'
  <2>1. PICK t \in 1..n : t = n
    OBVIOUS
  <2>2. IsSettled(t, r = 1 \/ ~shape.full)
    BY <1>0, <1>3 DEF Composing
  <2>3. IsSettled(t, r = 1 \/ ~shape.full)'
    BY <1>5, <1>6, <2>2, SameTrace
  <2> QED BY <1>0, <1>3, <1>5, <1>6, <2>1, <2>3, ComposingStays
<1>9. \A u \in 1..n : HasStorage(u)'
  BY <1>3, <1>5, <1>6, SameStorage
<1>10. ComposeFrom(r)' = o /\ TracesOf(r)' = n /\ SegmentsOf(r)' = segments
  BY <1>0, <1>0a, <1>1, <1>5, SameShape
<1>11. PICK next \in Nat : next = coset + 1 /\ k = o + n + next * (n + 1)
  <2>1. (coset + 1) * (n + 1) = coset * (n + 1) + n + 1 /\ coset * (n + 1) \in Nat
    BY <1>0a
  <2> QED BY <1>0a, <1>2, <1>2a, <2>1
<1>12. CASE next < segments
  <2>1. EvalsAre(1 - 1, next)'
    BY <1>6, EmptyList DEF EvalsAre
  <2>2. InEvaluate(r, next, 1)'
    BY <1>5, <1>8, <1>9, <1>10, <1>11, <2>1 DEF InEvaluate, Place, Rest
  <2>3. next \in 0..(segments - 1) /\ 1 \in 1..(n + 1)
    BY <1>12
  <2> QED BY <1>7, <1>10, <2>2, <2>3 DEF IInv, AtSomePlace
<1>13. CASE next = segments /\ r = 1
  <2>1. PICK b \in Nat : b = Broken /\ Traces = 1..b /\ b = n + 1 /\ Broken' = b
                         /\ Traces' = Traces
    BY <1>0, <1>5, <1>13, ShapeIs, SameShape DEF Traces, TracesOf
  <2>2. CommitFrom(b)' = k
    <3>1. segments = shape.degree
      BY <1>0a, <1>13 DEF SegmentsOf
    <3>2. o + n + segments * (n + 1) = CommitFrom(b)
      BY <1>0, <1>1, <1>13, <2>1, <3>1, CallsOfProgram DEF PartsFollow
    <3> QED BY <1>5, <1>11, <1>13, <3>2, SameShape
  <2>3. IsAdding(b, 1 - 1)'
    BY <1>8, <1>13, <2>1 DEF Composing
  <2>4. Others(b)'
    <3>1. ASSUME NEW u \in 1..(b - 1) PROVE IsSettled(u, TRUE)'
      <4>1. u \in 1..n
        BY <2>1
      <4>2. IsSettled(u, r = 1 \/ ~shape.full)'
        BY <1>8, <1>10, <4>1 DEF Composing
      <4>3. (r = 1 \/ ~shape'.full) = TRUE
        BY <1>13
      <4> QED BY <4>2, <4>3
    <3>2. \A u \in (b + 1)..b : FALSE
      BY <2>1
    <3> QED BY <1>6, <1>8, <2>1, <3>1, <3>2 DEF Others, Composing
  <2>5. InAdd(b, 1)'
    BY <1>5, <2>2, <2>3, <2>4 DEF InAdd, Place, Rest
  <2>6. b \in Traces' /\ 1 \in 1..(Width(b)' + 1)
    <3>1. b \in Traces
      BY <2>1
    <3>2. Width(b) \in Nat
      BY <3>1, ShapeIs
    <3> QED BY <1>5, <2>1, <3>1, <3>2, SameShape
  <2> QED BY <1>7, <2>5, <2>6 DEF IInv, AtSomePlace
<1>14. CASE next = segments /\ r = 2
  <2>1. PICK b \in Nat : b = Broken /\ Traces = 1..b /\ b = n /\ Broken' = b /\ Traces' = Traces
    BY <1>0, <1>5, <1>14, ShapeIs, SameShape DEF Traces, TracesOf
  <2>2. DecommitFrom' + 1 = k + 1
    <3>1. segments = 1
      BY <1>0a, <1>14 DEF SegmentsOf
    <3>2. o + n + (n + 1) = DecommitFrom
      BY <1>0, <1>1, <1>14, <2>1, CallsOfProgram DEF PartsFollow
    <3> QED BY <1>5, <1>11, <1>14, <3>1, <3>2, SameShape
  <2>3. \A u \in Traces' : IsSettled(u, ~shape.full)'
    <3>1. ASSUME NEW u \in 1..n PROVE IsSettled(u, ~shape.full)'
      <4>1. IsSettled(u, r = 1 \/ ~shape.full)'
        BY <1>8, <1>10 DEF Composing
      <4>2. (r = 1 \/ ~shape'.full) = ~shape'.full
        BY <1>14
      <4> QED BY <4>1, <4>2
    <3> QED BY <2>1, <3>1
  <2>4. AnswerIsRight'
    BY <1>8 DEF Composing, AnswerIsRight
  <2>5. InDecommit(1)'
    BY <1>5, <2>2, <2>3, <2>4 DEF InDecommit, Place, Rest
  <2>6. 1 \in 1..(Broken' + 1)
    BY <2>1
  <2> QED BY <1>7, <2>5, <2>6 DEF IInv, AtSomePlace
<1> QED
  <2>1. next < segments \/ next = segments
    BY <1>0a, <1>11
  <2>2. r = 1 \/ r = 2
    BY DEF Compositions
  <2> QED BY <1>12, <1>13, <1>14, <2>1, <2>2

(* The mask is evaluated, and the interpolations are released. *)
LEMMA EachTrace ==
  ASSUME TracesInv
  PROVE  /\ Broken \in Nat /\ Broken > 1 /\ Traces = 1..Broken
         /\ {MaskFrom, FinalFrom, DecommitFrom, ComposeFrom(2)} \subseteq Nat
         /\ MaskFrom + Broken = FinalFrom /\ FinalFrom + Broken = ComposeFrom(2)
         /\ \A t \in Traces : /\ Program[MaskFrom + t] = Call("mask", t, 0)
                              /\ Program[FinalFrom + t] = Call("finalize", t, 0)
                              /\ Program[DecommitFrom + t] = Call("decommit", t, 0)
                              /\ {MaskFrom + t, FinalFrom + t, DecommitFrom + t}
                                   \subseteq 1..Len(Program)
         /\ DecommitFrom + Broken = Len(Program)
<1>1. Broken \in Nat /\ Broken > 1 /\ Traces = 1..Broken
  BY ShapeIs DEF Traces
<1>2. Len(Program) \in Nat
  BY TheProgram, ListProperties DEF IsProgram
<1>3. DecommitFrom + Broken = Len(Program)
  <2>1. PICK n \in Nat : n = Len(shape.widths)
    BY ShapeIs
  <2>2. PICK d \in Nat : d = DecommitFrom /\ d = DecommitPlace(shape.widths, shape.degree)
    BY CallsOfProgram DEF PartsFollow, DecommitFrom
  <2>3. Len(Program) = d + n + 1
    BY <2>1, <2>2, TheProgram DEF IsProgram
  <2>4. Broken = n + 1
    BY <2>1 DEF Broken
  <2> QED BY <2>2, <2>3, <2>4
<1>4. /\ {MaskFrom, FinalFrom, DecommitFrom} \subseteq Nat /\ CallsAre /\ ComposeFrom(2) \in Nat
      /\ MaskFrom + Broken = FinalFrom /\ FinalFrom + Broken = ComposeFrom(2)
  BY CallsOfProgram DEF PartsFollow, CallsAre, Compositions
<1>5. ASSUME NEW t \in Traces
      PROVE  {MaskFrom + t, FinalFrom + t, DecommitFrom + t} \subseteq 1..Len(Program)
  <2>1. /\ MaskFrom + t <= Len(Program) /\ FinalFrom + t <= Len(Program)
        /\ DecommitFrom + t <= Len(Program)
    BY <1>4 DEF CallsAre
  <2> QED BY <1>1, <1>2, <1>4, <2>1
<1> QED
  BY <1>1, <1>3, <1>4, <1>5 DEF CallsAre

LEMMA MaskStep ==
  ASSUME TracesInv, NEW t \in Traces, InMask(t), Next
  PROVE  IInv'
<1>0a. PICK n \in Nat : n = Broken /\ n > 1 /\ Traces = 1..n
  BY EachTrace
<1>0. n = Broken /\ n > 1 /\ Traces = 1..n /\ t \in Nat
  BY <1>0a
<1>1. PICK k \in Nat : k = MaskFrom + t
  BY <1>0, EachTrace
<1>2. Place(k) /\ (\A u \in Traces : IsSettled(u, TRUE)) /\ evals = <<>> /\ answered.rows = <<>>
  BY <1>1 DEF InMask
<1>3. Program[k] = Call("mask", t, 0) /\ k <= Len(Program)
  <2>1. Len(Program) \in Nat
    BY TheProgram, ListProperties DEF IsProgram
  <2>2. Program[MaskFrom + t] = Call("mask", t, 0) /\ MaskFrom + t \in 1..Len(Program)
    BY EachTrace
  <2> QED BY <1>1, <2>1, <2>2
<1>4. T = t /\ shape' = shape /\ Place(k + 1)' /\ Made("mask")
  BY <1>2, <1>3, TheCall
<1>5. PICK return : return = EvalAtPointsNotCached(managers[t])
  OBVIOUS
<1>6. return.ok /\ return.m = managers[t]
  <2>1. managers[t].has_lde
    BY <1>2 DEF IsSettled, Ready
  <2> QED BY <1>5, <2>1 DEF EvalAtPointsNotCached, Returns
<1>7. Uses(return) /\ UNCHANGED <<storages, evals, committed, composed, answered>>
  BY <1>4, <1>5 DEF Made, EvalMaskAtPoint
<1>8. /\ managers' = [u \in Traces |-> managers'[u]] /\ managers'[t] = return.m
      /\ \A u \in Traces : u # t => managers'[u] = managers[u]
      /\ ~failed'
  BY <1>4, <1>6, <1>7, CallUsed
<1>9. TracesInv'
  BY <1>4, <1>7, <1>8, SameInv DEF TracesInv
<1>10. ASSUME NEW u \in Traces PROVE IsSettled(u, TRUE)'
  <2>1. managers'[u] = managers[u]
    BY <1>6, <1>8
  <2> QED BY <1>2, <1>4, <1>7, <2>1, SameTrace
<1>11. Broken' = n /\ Traces' = Traces /\ MaskFrom' = MaskFrom /\ FinalFrom' = FinalFrom
  BY <1>0, <1>4, SameShape
<1>12. CASE t < n
  <2>1. PICK s \in Traces : s = t + 1 /\ MaskFrom + s = k + 1
    BY <1>0, <1>1, <1>12, EachTrace
  <2>2. InMask(s)'
    BY <1>2, <1>4, <1>7, <1>10, <1>11, <2>1 DEF InMask, Place, Rest
  <2> QED BY <1>9, <1>11, <2>2 DEF IInv, AtSomePlace
<1>13. CASE t = n
  <2>1. FinalFrom + 1 = k + 1
    BY <1>0, <1>1, <1>13, EachTrace
  <2>2. ASSUME NEW u \in Traces PROVE IsSettled(u, IF u < 1 THEN ~shape.full ELSE TRUE)'
    <3>1. ~(u < 1)
      BY <1>0
    <3> QED BY <1>10, <3>1
  <2>3. InFinal(1)'
    BY <1>2, <1>4, <1>7, <1>11, <2>1, <2>2 DEF InFinal, Place, Rest
  <2>4. 1 \in Traces'
    BY <1>0, <1>11
  <2> QED BY <1>9, <2>3, <2>4 DEF IInv, AtSomePlace
<1> QED
  BY <1>0, <1>12, <1>13

LEMMA FinalStep ==
  ASSUME TracesInv, NEW t \in Traces, InFinal(t), Next
  PROVE  IInv'
<1>0a. PICK n \in Nat : n = Broken /\ n > 1 /\ Traces = 1..n
  BY EachTrace
<1>0. n = Broken /\ n > 1 /\ Traces = 1..n /\ t \in Nat
  BY <1>0a
<1>1. PICK k \in Nat : k = FinalFrom + t
  BY <1>0, EachTrace
<1>2. /\ Place(k) /\ evals = <<>> /\ answered.rows = <<>>
      /\ \A u \in Traces : IsSettled(u, IF u < t THEN ~shape.full ELSE TRUE)
  BY <1>1 DEF InFinal
<1>3. Program[k] = Call("finalize", t, 0) /\ k <= Len(Program)
  <2>1. Len(Program) \in Nat
    BY TheProgram, ListProperties DEF IsProgram
  <2>2. Program[FinalFrom + t] = Call("finalize", t, 0) /\ FinalFrom + t \in 1..Len(Program)
    BY EachTrace
  <2> QED BY <1>1, <2>1, <2>2
<1>4. T = t /\ shape' = shape /\ Place(k + 1)' /\ Made("finalize")
  BY <1>2, <1>3, TheCall
<1>5. PICK return : return = FinalizeEvaluations(managers[t])
  OBVIOUS
<1>5a. PICK full \in BOOLEAN : full = shape.full
  BY ShapeIs
<1>6. return.ok /\ Ready(return.m, full, shape.fft, Width(t), NCosets, ~full)
  <2>1. ~(t < t)
    BY <1>0
  <2>2. IsSettled(t, TRUE)
    BY <1>2, <2>1
  <2>3. Ready(managers[t], full, shape.fft, Width(t), NCosets, TRUE)
    BY <1>5a, <2>2 DEF IsSettled
  <2> QED BY <1>5, <2>3, Released
<1>7. Uses(return) /\ UNCHANGED <<storages, evals, committed, composed, answered>>
  BY <1>4, <1>5 DEF Made, FinalizeEval
<1>8. /\ managers' = [u \in Traces |-> managers'[u]] /\ managers'[t] = return.m
      /\ \A u \in Traces : u # t => managers'[u] = managers[u]
      /\ ~failed'
  BY <1>4, <1>6, <1>7, CallUsed
<1>9. TracesInv'
  BY <1>4, <1>7, <1>8, SameInv DEF TracesInv
<1>10. ASSUME NEW u \in Traces PROVE IsSettled(u, IF u < t + 1 THEN ~shape.full ELSE TRUE)'
  <2>1. CASE u = t
    <3>1. CommittedTo(committed[t], Width(t), NCosets)
      BY <1>2 DEF IsSettled
    <3>2. IsSettled(t, ~full)'
      BY <1>4, <1>5a, <1>6, <1>7, <1>8, <3>1, SameShape DEF IsSettled
    <3>3. (IF u < t + 1 THEN ~shape'.full ELSE TRUE) = ~full
      <4>1. u < t + 1
        BY <1>0, <2>1
      <4> QED BY <1>4, <1>5a, <4>1
    <3> QED BY <2>1, <3>2, <3>3
  <2>2. CASE u # t
    <3>1. PICK has_lde : has_lde = (IF u < t THEN ~full ELSE TRUE)
      OBVIOUS
    <3>2. IsSettled(u, has_lde)
      BY <1>2, <1>5a, <3>1
    <3>3. managers'[u] = managers[u] /\ committed'[u] = committed[u]
      BY <1>7, <1>8, <2>2
    <3>4. IsSettled(u, has_lde)'
      BY <1>4, <3>2, <3>3, SameTrace
    <3>5. (IF u < t + 1 THEN ~shape'.full ELSE TRUE) = has_lde
      <4>1. u < t <=> u < t + 1
        BY <1>0, <2>2
      <4> QED BY <1>4, <1>5a, <3>1, <4>1
    <3> QED BY <3>4, <3>5
  <2> QED BY <2>1, <2>2
<1>11. Broken' = n /\ Traces' = Traces /\ FinalFrom' = FinalFrom
       /\ ComposeFrom(2)' = ComposeFrom(2)
  BY <1>0, <1>4, SameShape
<1>12. CASE t < n
  <2>1. PICK s \in Traces : s = t + 1 /\ FinalFrom + s = k + 1
    BY <1>0, <1>1, <1>12, EachTrace
  <2>2. InFinal(s)'
    BY <1>2, <1>4, <1>7, <1>10, <1>11, <2>1 DEF InFinal, Place, Rest
  <2> QED BY <1>9, <1>11, <2>2 DEF IInv, AtSomePlace
<1>13. CASE t = n
  <2>1. ComposeFrom(2) + 1 = k + 1
    BY <1>0, <1>1, <1>13, EachTrace
  <2>2. TracesOf(2)' = n
    BY <1>11 DEF TracesOf
  <2>3. ASSUME NEW u \in 1..n PROVE IsSettled(u, 2 = 1 \/ ~shape.full)'
    <3>1. u < t + 1 /\ u \in Traces
      BY <1>0, <1>13
    <3>2. (2 = 1 \/ ~shape'.full) = (IF u < t + 1 THEN ~shape'.full ELSE TRUE)
      BY <3>1
    <3> QED BY <1>10, <3>1, <3>2
  <2>4. Composing(2)'
    BY <1>2, <1>7, <2>2, <2>3 DEF Composing
  <2>5. InAllocate(2, 1)'
    <3>1. \A u \in 1..(1 - 1) : FALSE
      OBVIOUS
    <3> QED BY <1>2, <1>4, <1>7, <1>11, <2>1, <2>4, <3>1 DEF InAllocate, Place, Rest
  <2>6. 2 \in Compositions /\ 1 \in 1..TracesOf(2)'
    BY <1>0, <2>2 DEF Compositions
  <2> QED BY <1>9, <2>5, <2>6 DEF IInv, AtSomePlace
<1> QED
  BY <1>0, <1>12, <1>13

(* Rows of a table are points of cosets. *)
LEMMA RowsArePoints ==
  ASSUME NEW rows \in RowsToFetch
  PROVE  /\ [k \in DOMAIN rows |-> CosetAndPoint(rows[k])] \in [DOMAIN rows -> Cosets \X Nat]
         /\ \A k \in DOMAIN rows : /\ CosetAndPoint(rows[k]) \in Cosets \X Nat
                                  /\ CosetAndPoint(rows[k])[1] = rows[k] \div TraceLength
                                  /\ CosetAndPoint(rows[k])[2] = rows[k] % TraceLength
<1>1. PICK N \in Nat \ {0} : N = NCosets /\ Cosets = 0..(N - 1)
  BY CosetsAre
<1>2. PICK l \in Nat \ {0} : l = TraceLength
  BY RowsAssumption
<1>3. ASSUME NEW k \in DOMAIN rows
      PROVE  rows[k] \div l \in Cosets /\ rows[k] % l \in Nat
  <2>1. PICK row \in Nat : row = rows[k] /\ row < N * l
    <3>1. rows \in Seq(0 .. N * l - 1)
      BY <1>1, <1>2, RowsAssumption
    <3>2. rows[k] \in 0 .. N * l - 1
      BY <3>1
    <3>3. N * l \in Nat
      OBVIOUS
    <3> QED BY <3>2, <3>3
  <2>2. PICK a \in Nat : a = row \div l
    OBVIOUS
  <2>3. PICK b \in Nat : b = row % l
    OBVIOUS
  <2>4. row = l * a + b
    BY <2>2, <2>3
  <2>5. a < N
    <3>1. SUFFICES ASSUME a >= N PROVE FALSE
      OBVIOUS
    <3>2. PICK c \in Nat : a = N + c
      BY <3>1
    <3>3. l * a = N * l + l * c /\ l * c \in Nat /\ N * l \in Nat
      BY <3>2
    <3> QED BY <2>1, <2>4, <3>3
  <2> QED BY <1>1, <2>1, <2>2, <2>3, <2>5
<1>4. ASSUME NEW k \in DOMAIN rows
      PROVE  /\ CosetAndPoint(rows[k]) \in Cosets \X Nat
             /\ CosetAndPoint(rows[k])[1] = rows[k] \div TraceLength
             /\ CosetAndPoint(rows[k])[2] = rows[k] % TraceLength
  BY <1>2, <1>3 DEF CosetAndPoint
<1> QED
  BY <1>4

LEMMA DecommitStep ==
  ASSUME TracesInv, NEW t \in Traces, InDecommit(t), Next
  PROVE  IInv'
<1>0a. PICK n \in Nat : n = Broken /\ n > 1 /\ Traces = 1..n
  BY EachTrace
<1>0. n = Broken /\ n > 1 /\ Traces = 1..n /\ t \in Nat
  BY <1>0a
<1>1. PICK k \in Nat : k = DecommitFrom + t
  BY <1>0, EachTrace
<1>2. Place(k) /\ \A u \in Traces : IsSettled(u, ~shape.full)
  BY <1>1 DEF InDecommit
<1>3. Program[k] = Call("decommit", t, 0) /\ k <= Len(Program)
  <2>1. Len(Program) \in Nat
    BY TheProgram, ListProperties DEF IsProgram
  <2>2. Program[DecommitFrom + t] = Call("decommit", t, 0) /\ DecommitFrom + t \in 1..Len(Program)
    BY EachTrace
  <2> QED BY <1>1, <2>1, <2>2
<1>4. T = t /\ shape' = shape /\ Place(k + 1)' /\ Made("decommit")
  BY <1>2, <1>3, TheCall
<1>5. PICK rows \in RowsToFetch :
        LET return == EvalAtPoints(managers[t], [j \in DOMAIN rows |-> CosetAndPoint(rows[j])])
        IN /\ Uses(return) /\ answered' = [t |-> t, rows |-> rows, value |-> return.value]
           /\ UNCHANGED <<storages, evals, committed, composed>>
  BY <1>4 DEF Made, DecommitQueries
<1>5a. PICK queries : queries = [j \in DOMAIN rows |-> CosetAndPoint(rows[j])]
  OBVIOUS
<1>5b. PICK return : return = EvalAtPoints(managers[t], queries)
  OBVIOUS
<1>5c. PICK full \in BOOLEAN : full = shape.full
  BY ShapeIs
<1>6. RightlyAnswered(return, full, shape.fft, Width(t), ~full, queries)
  <2>1. Ready(managers[t], full, shape.fft, Width(t), NCosets, ~full)
    BY <1>2, <1>5c DEF IsSettled
  <2>2. queries \in [DOMAIN rows -> Cosets \X Nat]
    BY <1>5a, RowsArePoints
  <2>3. Width(t) \in Nat \ {0}
    BY ShapeIs
  <2> QED BY <1>5b, <2>1, <2>2, <2>3, PointsEvaluated
<1>7. /\ Uses(return) /\ answered' = [t |-> t, rows |-> rows, value |-> return.value]
      /\ UNCHANGED <<storages, evals, committed, composed>>
  BY <1>5, <1>5a, <1>5b
<1>7a. return.ok /\ Ready(return.m, full, shape.fft, Width(t), NCosets, ~full)
  BY <1>6 DEF RightlyAnswered
<1>8. /\ managers' = [u \in Traces |-> managers'[u]] /\ managers'[t] = return.m
      /\ \A u \in Traces : u # t => managers'[u] = managers[u]
      /\ ~failed'
  BY <1>4, <1>7, <1>7a, CallUsed
<1>9. TracesInv'
  BY <1>4, <1>7, <1>8, SameInv DEF TracesInv
<1>10. ASSUME NEW u \in Traces PROVE IsSettled(u, ~shape.full)'
  <2>1. CASE u = t
    <3>1. CommittedTo(committed[t], Width(t), NCosets)
      BY <1>2 DEF IsSettled
    <3> QED BY <1>4, <1>5c, <1>7, <1>7a, <1>8, <2>1, <3>1, SameShape DEF IsSettled
  <2>2. CASE u # t
    <3>1. IsSettled(u, ~full)
      BY <1>2, <1>5c
    <3>2. managers'[u] = managers[u] /\ committed'[u] = committed[u]
      BY <1>7, <1>8, <2>2
    <3>3. IsSettled(u, ~full)'
      BY <1>4, <3>1, <3>2, SameTrace
    <3> QED BY <1>4, <1>5c, <3>3
  <2> QED BY <2>1, <2>2
<1>11. Broken' = n /\ Traces' = Traces /\ DecommitFrom' = DecommitFrom
  BY <1>0, <1>4, SameShape
<1>12. AnswerIsRight'
  <2>1. answered'.t = t /\ answered'.rows = rows /\ answered'.value = return.value
    BY <1>7
  <2>2. ASSUME NEW j \in DOMAIN rows PROVE return.value[j] = RightAnswer(CosetAndPoint(rows[j]))
    <3>1. j \in DOMAIN queries /\ queries[j] = CosetAndPoint(rows[j])
      BY <1>5a
    <3> QED BY <1>6, <3>1 DEF RightlyAnswered
  <2> QED BY <1>11, <2>1, <2>2 DEF AnswerIsRight
<1>13. PICK s \in 1..(n + 1) : s = t + 1 /\ DecommitFrom + s = k + 1
  <2>1. DecommitFrom \in Nat
    BY EachTrace
  <2> QED BY <1>0, <1>1, <2>1
<1>14. InDecommit(s)'
  BY <1>4, <1>10, <1>11, <1>12, <1>13 DEF InDecommit, Place, Rest
<1> QED
  BY <1>9, <1>11, <1>13, <1>14 DEF IInv, AtSomePlace

LEMMA SameState ==
  ASSUME IInv, UNCHANGED vars
  PROVE  IInv'
<1>1. /\ shape' = shape /\ managers' = managers /\ storages' = storages /\ evals' = evals
      /\ committed' = committed /\ composed' = composed /\ answered' = answered
      /\ todo' = todo /\ failed' = failed
  BY DEF vars
<1>2. TracesInv'
  <2>1. TracesInv
    BY DEF IInv
  <2> QED BY <1>1, <2>1, SameInv DEF TracesInv
<1>3. AtSomePlace'
  <2>1. AtSomePlace
    BY DEF IInv
  <2>2. /\ \A k : Place(k)' <=> Place(k)
        /\ \A t : HasStorage(t)' <=> HasStorage(t)
        /\ \A n, coset : EvalsAre(n, coset)' <=> EvalsAre(n, coset)
        /\ AnswerIsRight' <=> AnswerIsRight
    BY <1>1, SameShape DEF Place, Rest, Program, HasStorage, EvalsAre, AnswerIsRight
  <2>3. \A t : /\ \A has_lde : IsSettled(t, has_lde)' <=> IsSettled(t, has_lde)
               /\ \A columns : IsAdding(t, columns)' <=> IsAdding(t, columns)
               /\ \A n : IsReady(t, n)' <=> IsReady(t, n)
    BY <1>1, SameTrace
  <2>4. \A t : Others(t)' <=> Others(t)
    BY <1>1, <2>3, SameShape DEF Others
  <2>5. \A r : Composing(r)' <=> Composing(r)
    BY <1>1, <2>3, SameShape DEF Composing
  <2>6. CASE \E t \in Traces : \E k \in 1..(Width(t) + 1) : InAdd(t, k)
    BY <1>1, <2>2, <2>3, <2>4, <2>6, SameShape DEF AtSomePlace, InAdd
  <2>7. CASE \E t \in Traces : InFirstAllocate(t)
    BY <1>1, <2>2, <2>3, <2>4, <2>7, SameShape DEF AtSomePlace, InFirstAllocate
  <2>8. CASE \E t \in Traces : \E coset \in Cosets : InCommit(t, coset)
    BY <1>1, <2>2, <2>3, <2>4, <2>8, SameShape DEF AtSomePlace, InCommit
  <2>9. CASE \E r \in Compositions : \E t \in 1..TracesOf(r) : InAllocate(r, t)
    BY <1>1, <2>2, <2>5, <2>9, SameShape DEF AtSomePlace, InAllocate
  <2>10. CASE \E r \in Compositions : \E coset \in 0..(SegmentsOf(r) - 1) :
                \E t \in 1..(TracesOf(r) + 1) : InEvaluate(r, coset, t)
    BY <1>1, <2>2, <2>5, <2>10, SameShape DEF AtSomePlace, InEvaluate
  <2>11. CASE \E t \in Traces : InMask(t)
    BY <1>1, <2>2, <2>3, <2>11, SameShape DEF AtSomePlace, InMask
  <2>12. CASE \E t \in Traces : InFinal(t)
    BY <1>1, <2>2, <2>3, <2>12, SameShape DEF AtSomePlace, InFinal
  <2>13. CASE \E t \in 1..(Broken + 1) : InDecommit(t)
    BY <1>1, <2>2, <2>3, <2>13, SameShape DEF AtSomePlace, InDecommit
  <2> QED
    BY <2>1, <2>6, <2>7, <2>8, <2>9, <2>10, <2>11, <2>12, <2>13 DEF AtSomePlace
<1> QED
  BY <1>2, <1>3 DEF IInv

(* After the last decommitment nothing is left to do. *)
LEMMA EndStep ==
  ASSUME TracesInv, InDecommit(Broken + 1), Next
  PROVE  UNCHANGED vars
<1>1. PICK l \in Nat : l = Len(Program) /\ DecommitFrom + (Broken + 1) = l + 1
  BY EachTrace
<1>2. Place(l + 1)
  BY <1>1 DEF InDecommit
<1>3. todo = <<>>
  BY <1>1, <1>2, RestIs, TheProgram DEF Place, Rest, IsProgram
<1> QED
  BY <1>3 DEF Next, IsNext, Done, Add, FinishAdding, Allocate, CommitCoset, EvaluateCoset,
              Compose, EvalMaskAtPoint, FinalizeEval, DecommitQueries

(* At the beginning the columns of the first trace are to be added. *)
LEMMA InitIInv == Init => IInv
<1> SUFFICES ASSUME Init PROVE IInv
  OBVIOUS
<1>1. /\ shape \in Shapes /\ shape.degree <= NCosets /\ ~failed
      /\ managers = [t \in Traces |-> NewManager(shape.full, shape.fft)]
      /\ storages = [t \in Traces |-> Nothing] /\ evals = <<>>
      /\ committed = [t \in Traces |-> <<>>] /\ composed = {} /\ answered.rows = <<>>
      /\ todo = Program
  BY DEF Init, Program
<1>2. TracesInv
  <2>1. storages \in [Traces -> Entries]
    BY <1>1, EntriesAre
  <2>2. CommittedIsTheTrace /\ CompositionSeesTheCoset
    BY <1>1 DEF CommittedIsTheTrace, CompositionSeesTheCoset
  <2> QED BY <1>1, <2>1, <2>2 DEF TracesInv
<1>3. PICK n \in Nat : n = Broken /\ n > 1 /\ Traces = 1..n
  BY <1>2, EachTrace
<1>4. ASSUME NEW t \in Traces PROVE IsAdding(t, 0)
  <2>1. PICK m : m = NewManager(shape.full, shape.fft)
    OBVIOUS
  <2>2. shape.full \in BOOLEAN /\ shape.fft \in BOOLEAN
    BY <1>2, ShapeIs
  <2>3. PICK p \in Nat : p = CosetOffset(0)
    BY OffsetsAre, CosetsAre
  <2>4. PICK c : c = [coset \in Cosets |-> Nothing]
    OBVIOUS
  <2>5. c \in [Cosets -> Entries] /\ \A coset \in Cosets : c[coset] = Nothing
    BY <2>4, EntriesAre
  <2>6. m = [full |-> shape.full, fft |-> shape.fft, done_adding |-> FALSE, columns |-> 0,
             has_lde |-> TRUE, cache |-> c, previous |-> p, twiddles |-> 0]
    BY <2>1, <2>3, <2>4 DEF NewManager
  <2>7. m \in Managers
    BY <2>2, <2>3, <2>5, <2>6 DEF Managers
  <2>8. Cached(m, 0, 0)
    <3>1. m.cache = c
      BY <2>6
    <3>2. \A coset \in Cosets : ~(coset < 0)
      BY CosetsAre
    <3> QED BY <2>5, <3>1, <3>2 DEF Cached
  <2>9. Adding(m, shape.full, shape.fft, 0)
    BY <2>3, <2>6, <2>7, <2>8 DEF Adding
  <2> QED BY <1>1, <2>1, <2>9 DEF IsAdding
<1>5. Place(CommitFrom(1) + 1)
  <2>1. IsList(Program) /\ CommitFrom(1) = 0
    BY <1>2, TheProgram, CallsOfProgram DEF IsProgram, PartsFollow
  <2>2. PICK l \in Nat : l = Len(Program)
    BY <2>1, ListProperties
  <2>3. 1 \in 1..(l + 1)
    BY <2>2
  <2>4. SubSeq(Program, 1, Len(Program)) = Program
    BY <2>1, <2>2, <2>3, RestIs
  <2> QED BY <1>1, <2>1, <2>2, <2>3, <2>4 DEF Place, Rest
<1>6. Others(1)
  <2>1. \A u \in 1..(1 - 1) : FALSE
    OBVIOUS
  <2>2. \A u \in (1 + 1)..Broken : u \in Traces
    BY <1>3
  <2> QED BY <1>1, <1>4, <2>1, <2>2 DEF Others
<1>7. InAdd(1, 1)
  <2>1. IsAdding(1, 1 - 1)
    BY <1>3, <1>4
  <2> QED BY <1>5, <1>6, <2>1 DEF InAdd
<1>8. 1 \in Traces /\ 1 \in 1..(Width(1) + 1)
  <2>1. 1 \in Traces
    BY <1>3
  <2>2. Width(1) \in Nat
    BY <1>2, <2>1, ShapeIs
  <2> QED BY <2>1, <2>2
<1> QED
  BY <1>2, <1>7, <1>8 DEF IInv, AtSomePlace

LEMMA NextIInv ==
  ASSUME IInv, [Next]_vars
  PROVE  IInv'
<1>1. TracesInv /\ AtSomePlace
  BY DEF IInv
<1>2. CASE UNCHANGED vars
  BY <1>2, SameState
<1>3. CASE Next
  <2>1. ASSUME NEW t \in Traces, NEW k \in 1..(Width(t) + 1), InAdd(t, k) PROVE IInv'
    <3>1. k \in 1..Width(t) \/ k = Width(t) + 1
      BY <1>1, ShapeIs
    <3>2. CASE k \in 1..Width(t)
      BY <1>1, <1>3, <2>1, <3>2, AddStep
    <3>3. CASE k = Width(t) + 1
      BY <1>1, <1>3, <2>1, <3>3, FinishStep
    <3> QED BY <3>1, <3>2, <3>3
  <2>2. ASSUME NEW t \in Traces, InFirstAllocate(t) PROVE IInv'
    BY <1>1, <1>3, <2>2, FirstAllocateStep
  <2>3. ASSUME NEW t \in Traces, NEW coset \in Cosets, InCommit(t, coset) PROVE IInv'
    BY <1>1, <1>3, <2>3, CommitStep
  <2>4. ASSUME NEW r \in Compositions, NEW t \in 1..TracesOf(r), InAllocate(r, t) PROVE IInv'
    BY <1>1, <1>3, <2>4, AllocateStep
  <2>5. ASSUME NEW r \in Compositions, NEW coset \in 0..(SegmentsOf(r) - 1),
               NEW t \in 1..(TracesOf(r) + 1), InEvaluate(r, coset, t)
        PROVE  IInv'
    <3>1. t \in 1..TracesOf(r) \/ t = TracesOf(r) + 1
      BY <1>1, CompositionIs
    <3>2. CASE t \in 1..TracesOf(r)
      BY <1>1, <1>3, <2>5, <3>2, EvaluateStep
    <3>3. CASE t = TracesOf(r) + 1
      BY <1>1, <1>3, <2>5, <3>3, ComposeStep
    <3> QED BY <3>1, <3>2, <3>3
  <2>6. ASSUME NEW t \in Traces, InMask(t) PROVE IInv'
    BY <1>1, <1>3, <2>6, MaskStep
  <2>7. ASSUME NEW t \in Traces, InFinal(t) PROVE IInv'
    BY <1>1, <1>3, <2>7, FinalStep
  <2>8. ASSUME NEW t \in 1..(Broken + 1), InDecommit(t) PROVE IInv'
    <3>1. t \in Traces \/ t = Broken + 1
      BY <1>1, EachTrace
    <3>2. CASE t \in Traces
      BY <1>1, <1>3, <2>8, <3>2, DecommitStep
    <3>3. CASE t = Broken + 1
      BY <1>1, <1>3, <2>8, <3>3, EndStep, SameState
    <3> QED BY <3>1, <3>2, <3>3
  <2> QED
    BY <1>1, <2>1, <2>2, <2>3, <2>4, <2>5, <2>6, <2>7, <2>8 DEF AtSomePlace
<1> QED
  BY <1>2, <1>3

(* A right answer is what the table was given at that row. *)
LEMMA AnsweredAsCommitted ==
  ASSUME IInv
  PROVE  DecommittedIsCommitted
<1>1. TracesInv /\ AtSomePlace
  BY DEF IInv
<1>2. CASE answered.rows = <<>>
  BY <1>2 DEF DecommittedIsCommitted
<1>3. CASE answered.rows # <<>>
  <2>1. PICK t \in 1..(Broken + 1) : InDecommit(t)
    BY <1>1, <1>3 DEF AtSomePlace, InAdd, InFirstAllocate, InCommit, InAllocate, InEvaluate,
       InMask,
                      InFinal, Others, Composing
  <2>2. AnswerIsRight /\ \A u \in Traces : IsSettled(u, ~shape.full)
    BY <2>1 DEF InDecommit
  <2>3. PICK u \in Traces : u = answered.t
    BY <1>3, <2>2 DEF AnswerIsRight
  <2>4. PICK rows \in RowsToFetch : rows = answered.rows
    BY <1>3, <2>2 DEF AnswerIsRight
  <2>5. CommittedTo(committed[u], Width(u), NCosets)
    BY <2>2 DEF IsSettled
  <2>6. ASSUME NEW k \in DOMAIN rows
        PROVE  answered.value[k]
                 = Answer(committed[u][rows[k] \div TraceLength + 1], rows[k] % TraceLength)
    <3>1. PICK query \in Cosets \X Nat : query = CosetAndPoint(rows[k])
      BY RowsArePoints
    <3>2. answered.value[k] = RightAnswer(query)
      BY <1>3, <2>2, <2>4, <3>1 DEF AnswerIsRight
    <3>3. PICK coset \in Cosets : coset = query[1] /\ coset = rows[k] \div TraceLength
      BY <3>1, RowsArePoints
    <3>4. query[2] = rows[k] % TraceLength
      BY <3>1, RowsArePoints
    <3>5. coset + 1 \in 1..NCosets /\ (coset + 1) - 1 = coset
      BY CosetsAre
    <3>6. committed[u][coset + 1] = Value(Width(u), coset)
      BY <2>5, <3>5 DEF CommittedTo
    <3>7. Answer(Value(Width(u), coset), query[2]) = RightAnswer(query)
      <4>1. Width(u) \in Nat
        BY <1>1, ShapeIs
      <4> QED BY <3>1, <3>3, <4>1, AnswersAre
    <3> QED BY <3>2, <3>3, <3>4, <3>6, <3>7
  <2> QED BY <2>3, <2>4, <2>6 DEF DecommittedIsCommitted
<1> QED
  BY <1>2, <1>3

LEMMA IInvHolds == Spec => []IInv
<1>1. Init => IInv
  BY InitIInv
<1>2. IInv /\ [Next]_vars => IInv'
  BY NextIInv
<1> QED
  BY <1>1, <1>2, PTL DEF Spec

(* No call of a proof is refused, however many traces, columns, cosets and *)
(* breaks it has, and whether or not evaluations are stored.               *)
THEOREM NoCallIsRefused == Spec => []NoAssertionFails
<1>1. IInv => NoAssertionFails
  BY DEF IInv, TracesInv, NoAssertionFails
<1> QED
  BY <1>1, IInvHolds, PTL

(* Every table is given the evaluations of its trace on the cosets, in the *)
(* order in which the verifier expects them.                               *)
THEOREM TablesHoldTheTrace == Spec => []CommittedIsTheTrace
<1>1. IInv => CommittedIsTheTrace
  BY DEF IInv, TracesInv
<1> QED
  BY <1>1, IInvHolds, PTL

(* The composition polynomial is evaluated on what belongs to the offset   *)
(* it is told, for all traces of its oracle.                               *)
THEOREM CompositionIsTold == Spec => []CompositionSeesTheCoset
<1>1. IInv => CompositionSeesTheCoset
  BY DEF IInv, TracesInv
<1> QED
  BY <1>1, IInvHolds, PTL

(* Rows are decommitted as they were committed, whether they are looked up *)
(* in the cache, computed anew for whole cosets, or point by point.        *)
THEOREM RowsAreWhatWasCommitted == Spec => []DecommittedIsCommitted
<1>1. IInv => DecommittedIsCommitted
  BY AnsweredAsCommitted
<1> QED
  BY <1>1, IInvHolds, PTL
==============================================================================
