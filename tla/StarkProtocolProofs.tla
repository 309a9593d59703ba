------------------------ MODULE StarkProtocolProofs ------------------------
(***************************************************************************)
(* For any parameters, any queries and any place at which the proof is     *)
(* cut: all randomness depends on all of the proof before it, the queries  *)
(* cost the work, the verifier stays in lockstep with the prover, a proof  *)
(* that is accepted is whole, nothing throws that the code does not        *)
(* expect, and an intact proof is accepted.                                *)
(***************************************************************************)
EXTENDS StarkProtocol, Foundations

-----------------------------------------------------------------------------
(***************************************************************************)
(* The queries of a FRI layer, for every list of queries and every size of *)
(* coset.                                                                  *)
(***************************************************************************)

(* The column of an index is a column of the table. *)
LEMMA ColInRow ==
  ASSUME NEW index \in Nat, NEW size \in Nat \ {0}
  PROVE  Col(index, size) \in 0..(size - 1)
BY DEF Col

(* Indices stay natural numbers when they are shifted. *)
LEMMA ShiftedIndex ==
  ASSUME NEW q \in Nat, NEW below \in Nat \ {0}
  PROVE  q \div below \in Nat
OBVIOUS

(* Every integrity query lies in one of the cosets. *)
LEMMA IntegrityInCosets ==
  ASSUME NEW queries \in Seq(Nat), NEW below \in Nat \ {0}, NEW size \in Nat \ {0}
  PROVE  IntegrityQueries(queries, below, size) \subseteq CosetCells(queries, below, size)
<1> SUFFICES ASSUME NEW q \in Values(queries)
             PROVE  RowCol(q \div below, size) \in CosetCells(queries, below, size)
  BY DEF IntegrityQueries
<1>1. q \in Nat
  BY DEF Values
<1>2. q \div below \in Nat
  BY <1>1, ShiftedIndex
<1>3. Col(q \div below, size) \in 0..(size - 1)
  BY <1>2, ColInRow
<1> QED
  BY <1>3 DEF CosetCells, RowCol

(* The rows of a layer's decommitment are the cosets of the queries. *)
LEMMA RowsAreCosets ==
  ASSUME NEW queries \in Seq(Nat), NEW below \in Nat \ {0}, NEW size \in Nat \ {0}
  PROVE  AllQueryRows(DataQueries(queries, below, size), IntegrityQueries(queries, below, size))
           = {Row(q \div below, size) : q \in Values(queries)}
<1> DEFINE Data == DataQueries(queries, below, size)
           Integrity == IntegrityQueries(queries, below, size)
           Cosets == CosetCells(queries, below, size)
<1>1. Data \union Integrity = Cosets
  BY IntegrityInCosets DEF DataQueries
<1>2. AllQueryRows(Data, Integrity) = {cell[1] : cell \in Cosets}
  BY <1>1 DEF AllQueryRows
<1>3. ASSUME NEW cell \in Cosets
      PROVE  cell[1] \in {Row(q \div below, size) : q \in Values(queries)}
  BY DEF CosetCells
<1>4. ASSUME NEW q \in Values(queries)
      PROVE  Row(q \div below, size) \in {cell[1] : cell \in Cosets}
  <2>1. 0 \in 0..(size - 1)
    OBVIOUS
  <2>2. <<Row(q \div below, size), 0>> \in Cosets
    BY <2>1 DEF CosetCells
  <2> QED
    BY <2>2
<1> QED
  BY <1>2, <1>3, <1>4

(* A table of a FRI layer transmits the data queries and nothing else      *)
(* (table_impl_details.cc:44-58 for fri_details.cc:87-114), so that the    *)
(* prover's rows and the verifier's map are made of the same cells.        *)
THEOREM TransmittedAreDataQueries ==
  ASSUME NEW queries \in Seq(Nat), NEW below \in Nat \ {0}, NEW size \in Nat \ {0}
  PROVE  LET data == DataQueries(queries, below, size)
             integrity == IntegrityQueries(queries, below, size)
         IN  ElementsToBeTransmitted(size, AllQueryRows(data, integrity), integrity) = data
<1> DEFINE Rows == {Row(q \div below, size) : q \in Values(queries)}
           Integrity == IntegrityQueries(queries, below, size)
           All == {<<row, col>> : row \in Rows, col \in 0..(size - 1)}
<1>1. All = CosetCells(queries, below, size)
  BY DEF CosetCells
<1>2. AllQueryRows(DataQueries(queries, below, size), Integrity) = Rows
  BY RowsAreCosets
<1>3. ElementsToBeTransmitted(size, Rows, Integrity) = All \ Integrity
  BY DEF ElementsToBeTransmitted
<1>4. DataQueries(queries, below, size) = CosetCells(queries, below, size) \ Integrity
  BY DEF DataQueries
<1> HIDE DEF All, Rows
<1>5. ElementsToBeTransmitted(size, Rows, Integrity) = DataQueries(queries, below, size)
  BY <1>1, <1>3, <1>4
<1> QED
  BY <1>2, <1>5

(* What the verifier reads and what it computes are disjoint, which both   *)
(* tables assert (table_prover_impl.cc:122, table_verifier_impl.cc:41),    *)
(* together they are every cell of the coset of every query, so no lookup  *)
(* of VerifyInnerLayers misses (fri_verifier.cc:157-162), and they are     *)
(* whole rows, as VerifyDecommitment needs (table_verifier_impl.cc:64).    *)
THEOREM CosetsAreComplete ==
  ASSUME NEW queries \in Seq(Nat), NEW below \in Nat \ {0}, NEW size \in Nat \ {0}
  PROVE  LET data == DataQueries(queries, below, size)
             integrity == IntegrityQueries(queries, below, size)
             cells == data \union integrity
         IN  /\ data \intersect integrity = {}
             /\ \A j \in DOMAIN queries : \A k \in 0..(size - 1) :
                   <<Row(queries[j] \div below, size), k>> \in cells
             /\ cells = AllQueryRows(data, integrity) \X (0..(size - 1))
<1> DEFINE data == DataQueries(queries, below, size)
           integrity == IntegrityQueries(queries, below, size)
           cells == data \union integrity
<1>1. cells = CosetCells(queries, below, size)
  BY IntegrityInCosets DEF DataQueries
<1>2. data \intersect integrity = {}
  BY DEF DataQueries
<1>3. \A j \in DOMAIN queries : \A k \in 0..(size - 1) :
         <<Row(queries[j] \div below, size), k>> \in cells
  BY <1>1 DEF CosetCells, Values
<1>4. cells = AllQueryRows(data, integrity) \X (0..(size - 1))
  <2>1. AllQueryRows(data, integrity) = {Row(q \div below, size) : q \in Values(queries)}
    BY RowsAreCosets
  <2>2. CosetCells(queries, below, size)
          = {<<row, col>> : row \in {Row(q \div below, size) : q \in Values(queries)},
                            col \in 0..(size - 1)}
    BY DEF CosetCells
  <2>3. CosetCells(queries, below, size)
          = {Row(q \div below, size) : q \in Values(queries)} \X (0..(size - 1))
    <3>1. PICK rows : rows = {Row(q \div below, size) : q \in Values(queries)}
      OBVIOUS
    <3>2. PICK columns : columns = 0..(size - 1)
      OBVIOUS
    <3>3. PICK all : all = CosetCells(queries, below, size)
      OBVIOUS
    <3>4. all = {<<row, col>> : row \in rows, col \in columns}
      BY <2>2, <3>1, <3>2, <3>3
    <3>5. all = rows \X columns
      BY ONLY <3>4
    <3> QED BY ONLY <3>1, <3>2, <3>3, <3>5, Zenon
  <2> QED
    BY <1>1, <2>1, <2>3
<1> QED
  BY <1>2, <1>3, <1>4

(* The queries of the first layer are a sequence of whole cosets, one for  *)
(* each query (fri_details.cc:116-127), as VerifyFirstLayer cuts them      *)
(* again (fri_verifier.cc:112-117).                                        *)
THEOREM FirstQueriesAreCosets ==
  ASSUME NEW queries \in Seq(Nat), NEW size \in Nat \ {0},
         NEW j \in DOMAIN queries, NEW k \in 0..(size - 1)
  PROVE  LET at == (j - 1) * size + 1 + k
         IN  /\ at \in DOMAIN FirstLayerQueries(queries, size)
             /\ FirstLayerQueries(queries, size)[at] = queries[j] * size + k
<1> DEFINE at == (j - 1) * size + 1 + k
<1>1. j \in Nat /\ 1 <= j /\ j <= Len(queries) /\ Len(queries) \in Nat
  OBVIOUS
<1>2. k \in Nat /\ k < size /\ size \in Nat /\ size > 0
  OBVIOUS
<1>3. at \in Nat /\ 1 <= at
  <2>1. (j - 1) * size \in Nat
    BY <1>1, <1>2
  <2> QED
    BY <2>1, <1>2
<1>4. at <= Len(queries) * size
  <2>1. at <= (j - 1) * size + size
    BY <1>1, <1>2
  <2>2. (j - 1) * size + size = j * size
    BY <1>1, <1>2
  <2>3. j * size <= Len(queries) * size
    BY <1>1, <1>2
  <2>4. j * size \in Nat /\ Len(queries) * size \in Nat
    BY <1>1, <1>2
  <2> QED
    BY <2>1, <2>2, <2>3, <2>4, <1>3
<1>5. (at - 1) \div size = j - 1 /\ (at - 1) % size = k
  <2>1. at - 1 = (j - 1) * size + k
    BY <1>1, <1>2
  <2>2. j - 1 \in Nat
    BY <1>1
  <2>3. \A a, b, s \in Nat : (s > 0 /\ b < s) => (a * s + b) \div s = a /\ (a * s + b) % s = b
    OBVIOUS
  <2>4. j - 1 \in Nat /\ k \in Nat /\ size \in Nat /\ size > 0 /\ k < size
    BY <2>2, <1>2
  <2>5. ((j - 1) * size + k) \div size = j - 1 /\ ((j - 1) * size + k) % size = k
    BY <2>3, <2>4
  <2> QED
    BY <2>1, <2>5
<1> QED
  BY <1>1, <1>2, <1>3, <1>4, <1>5 DEF FirstLayerQueries

-----------------------------------------------------------------------------
(***************************************************************************)
(* The channels of Transcript, in any state: whatever is drawn depends on  *)
(* everything that went by before, and a verifier that is where the prover *)
(* was stays there, or fails, for as long as both do the same.             *)
(***************************************************************************)

-----------------------------------------------------------------------------
(* Channels, and what the operations leave of them. *)

Fields == {"seed", "draws", "inQuery", "units", "notes", "failed"}

IsChannel(c) ==
  /\ c = [f \in Fields |-> c[f]]
  /\ IsList(c.seed) /\ IsList(c.units) /\ IsList(c.notes)
  /\ c.draws \in Nat /\ c.inQuery \in BOOLEAN /\ c.failed \in BOOLEAN

LEMMA NewIsChannel == IsChannel(NewChannel)
BY EmptyList DEF IsChannel, NewChannel, Fields

SentNotes(labels, units) == [i \in DOMAIN units |-> Note("P->V", labels[i], units[i])]

DrawnNotes(c, labels) == [i \in DOMAIN labels |-> Note("V->P", labels[i], Random(c, i - 1))]

LEMMA SentNotesAre ==
  ASSUME NEW labels, NEW units, IsList(units)
  PROVE  /\ IsList(SentNotes(labels, units)) /\ Len(SentNotes(labels, units)) = Len(units)
         /\ \A i \in 1..Len(units) :
              SentNotes(labels, units)[i] = Note("P->V", labels[i], units[i])
<1> DEFINE f == SentNotes(labels, units)
<1>1. Len(units) \in Nat /\ DOMAIN units = 1..Len(units)
  BY ListProperties
<1>2. /\ f = [i \in 1..Len(units) |-> f[i]]
      /\ \A i \in 1..Len(units) : f[i] = Note("P->V", labels[i], units[i])
  BY <1>1 DEF SentNotes
<1> HIDE DEF f
<1>3. IsList(f) /\ Len(f) = Len(units)
  BY <1>1, <1>2, IndexedIsList
<1> QED
  BY <1>2, <1>3 DEF f

LEMMA DrawnNotesAre ==
  ASSUME NEW c, NEW labels, IsList(labels)
  PROVE  /\ IsList(DrawnNotes(c, labels)) /\ Len(DrawnNotes(c, labels)) = Len(labels)
         /\ \A i \in 1..Len(labels) :
              DrawnNotes(c, labels)[i] = Note("V->P", labels[i], Random(c, i - 1))
<1> DEFINE f == DrawnNotes(c, labels)
<1>1. Len(labels) \in Nat /\ DOMAIN labels = 1..Len(labels)
  BY ListProperties
<1>2. /\ f = [i \in 1..Len(labels) |-> f[i]]
      /\ \A i \in 1..Len(labels) : f[i] = Note("V->P", labels[i], Random(c, i - 1))
  BY <1>1 DEF DrawnNotes
<1> HIDE DEF f
<1>3. IsList(f) /\ Len(f) = Len(labels)
  BY <1>1, <1>2, IndexedIsList
<1> QED
  BY <1>2, <1>3 DEF f

LEMMA MovedIs ==
  ASSUME NEW c, NEW labels, NEW units, IsChannel(c), IsList(units)
  PROVE  LET d == Moved(c, labels, units)
         IN  /\ IsChannel(d)
             /\ d.units = c.units \o units
             /\ d.seed = c.seed \o Mixed(c, units)
             /\ d.notes = c.notes \o SentNotes(labels, units)
             /\ d.inQuery = c.inQuery /\ d.failed = c.failed
<1> DEFINE d == Moved(c, labels, units)
<1>1. c = [f \in Fields |-> c[f]] /\ IsList(c.seed) /\ IsList(c.units) /\ IsList(c.notes)
      /\ c.draws \in Nat /\ c.inQuery \in BOOLEAN /\ c.failed \in BOOLEAN
  BY DEF IsChannel
<1>2. /\ d = [f \in Fields |-> d[f]]
      /\ d.units = c.units \o units
      /\ d.seed = c.seed \o Mixed(c, units)
      /\ d.draws = IF Mixed(c, units) = <<>> THEN c.draws ELSE 0
      /\ d.notes = c.notes \o SentNotes(labels, units)
      /\ d.inQuery = c.inQuery /\ d.failed = c.failed
  BY <1>1 DEF Moved, SentNotes, Fields
<1> HIDE DEF d
<1>3. IsList(Mixed(c, units))
  BY EmptyList DEF Mixed
<1>4. IsList(d.seed) /\ IsList(d.units) /\ IsList(d.notes)
  <2>1. IsList(SentNotes(labels, units))
    BY SentNotesAre
  <2>2. IsList(c.seed \o Mixed(c, units)) /\ IsList(c.units \o units)
    BY <1>1, <1>3, Joined
  <2>3. IsList(c.notes \o SentNotes(labels, units))
    BY <1>1, <2>1, Joined
  <2> QED
    BY <1>2, <2>2, <2>3
<1>5. IsChannel(d)
  BY <1>1, <1>2, <1>4 DEF IsChannel
<1> QED
  BY <1>2, <1>5 DEF d

LEMMA FailedIs ==
  ASSUME NEW c, IsChannel(c)
  PROVE  LET d == Failed(c)
         IN  /\ IsChannel(d) /\ d.failed
             /\ d.units = c.units /\ d.seed = c.seed /\ d.notes = c.notes
             /\ d.inQuery = c.inQuery
<1> DEFINE d == Failed(c)
<1>1. c = [f \in Fields |-> c[f]] /\ IsList(c.seed) /\ IsList(c.units) /\ IsList(c.notes)
      /\ c.draws \in Nat /\ c.inQuery \in BOOLEAN /\ c.failed \in BOOLEAN
  BY DEF IsChannel
<1>2. /\ d = [f \in Fields |-> d[f]]
      /\ d.failed /\ d.units = c.units /\ d.seed = c.seed /\ d.notes = c.notes
      /\ d.inQuery = c.inQuery /\ d.draws = c.draws /\ d.failed \in BOOLEAN
  BY <1>1 DEF Failed, Fields
<1> HIDE DEF d
<1>5. IsChannel(d)
  BY <1>1, <1>2 DEF IsChannel
<1> QED
  BY <1>2, <1>5 DEF d

(* A draw from a channel that may be drawn from. *)
Drawn(c, labels) ==
  [c EXCEPT !.draws = @ + Len(labels), !.notes = @ \o DrawnNotes(c, labels)]

LEMMA DrawnIs ==
  ASSUME NEW c, NEW labels, IsChannel(c), IsList(labels)
  PROVE  LET d == Drawn(c, labels)
         IN  /\ IsChannel(d)
             /\ d.units = c.units /\ d.seed = c.seed
             /\ d.notes = c.notes \o DrawnNotes(c, labels)
             /\ d.inQuery = c.inQuery /\ d.failed = c.failed
<1> DEFINE d == Drawn(c, labels)
<1>1. c = [f \in Fields |-> c[f]] /\ IsList(c.seed) /\ IsList(c.units) /\ IsList(c.notes)
      /\ c.draws \in Nat /\ c.inQuery \in BOOLEAN /\ c.failed \in BOOLEAN
  BY DEF IsChannel
<1>2. /\ d = [f \in Fields |-> d[f]]
      /\ d.units = c.units /\ d.seed = c.seed
      /\ d.notes = c.notes \o DrawnNotes(c, labels)
      /\ d.draws = c.draws + Len(labels)
      /\ d.inQuery = c.inQuery /\ d.failed = c.failed
  BY <1>1 DEF Drawn, Fields
<1> HIDE DEF d
<1>4. d.draws \in Nat /\ IsList(d.notes)
  <2>1. Len(labels) \in Nat /\ IsList(DrawnNotes(c, labels))
    BY ListProperties, DrawnNotesAre
  <2>2. IsList(c.notes \o DrawnNotes(c, labels))
    BY <1>1, <2>1, Joined
  <2>3. IsList(d.notes)
    BY <1>2, <2>2
  <2>4. d.draws \in Nat
    BY <1>1, <1>2, <2>1
  <2> QED
    BY <2>3, <2>4
<1>5. IsChannel(d)
  BY <1>1, <1>2, <1>4 DEF IsChannel
<1> QED
  BY <1>2, <1>5 DEF d

LEMMA DrawsIs ==
  ASSUME NEW c, NEW labels
  PROVE  Draws(c, labels) = IF c.failed THEN c
                            ELSE IF c.inQuery /\ labels # <<>> THEN Failed(c)
                            ELSE Drawn(c, labels)
BY DEF Draws, Unless, Drawn, DrawnNotes

LEMMA NextUnitsAre ==
  ASSUME NEW c, NEW n \in Nat, NEW data
  PROVE  /\ IsList(NextUnits(c, n, data)) /\ Len(NextUnits(c, n, data)) = n
         /\ \A i \in 1..n : NextUnits(c, n, data)[i] =
              IF Len(c.units) + i <= Len(data) THEN data[Len(c.units) + i] ELSE <<"junk">>
<1> DEFINE f == NextUnits(c, n, data)
<1>1. /\ f = [i \in 1..n |-> f[i]]
      /\ \A i \in 1..n : f[i] = IF Len(c.units) + i <= Len(data) THEN data[Len(c.units) + i]
                                                                ELSE <<"junk">>
  BY DEF NextUnits
<1> HIDE DEF f
<1>2. IsList(f) /\ Len(f) = n
  BY <1>1, IndexedIsList
<1> QED
  BY <1>1, <1>2 DEF f

LEMMA BeginsIs ==
  ASSUME NEW c, IsChannel(c)
  PROVE  LET d == BeginsQueryPhase(c)
         IN  /\ IsChannel(d) /\ d.inQuery
             /\ d.units = c.units /\ d.seed = c.seed /\ d.notes = c.notes
             /\ d.failed = c.failed
<1> DEFINE d == BeginsQueryPhase(c)
<1>1. c = [f \in Fields |-> c[f]] /\ IsList(c.seed) /\ IsList(c.units) /\ IsList(c.notes)
      /\ c.draws \in Nat /\ c.inQuery \in BOOLEAN /\ c.failed \in BOOLEAN
  BY DEF IsChannel
<1>2. /\ d = [f \in Fields |-> d[f]]
      /\ d.inQuery /\ d.units = c.units /\ d.seed = c.seed /\ d.notes = c.notes
      /\ d.failed = c.failed /\ d.draws = c.draws /\ d.inQuery \in BOOLEAN
  BY <1>1 DEF BeginsQueryPhase, Fields
<1> HIDE DEF d
<1>5. IsChannel(d)
  BY <1>1, <1>2 DEF IsChannel
<1> QED
  BY <1>2, <1>5 DEF d


-----------------------------------------------------------------------------
(* Counting the units among the first annotations. *)

UnitsUpTo(notes, k) == {j \in 1..k : notes[j].dir = "P->V"}

Count(notes, k) == Cardinality(UnitsUpTo(notes, k))

LEMMA CountIs ==
  ASSUME NEW notes, NEW k \in Nat
  PROVE  IsFiniteSet(UnitsUpTo(notes, k)) /\ Count(notes, k) \in 0..k
<1>1. IsFiniteSet(1..k) /\ Cardinality(1..k) = k
  BY FS_Interval
<1>2. UnitsUpTo(notes, k) \in SUBSET (1..k)
  BY DEF UnitsUpTo
<1>3. IsFiniteSet(UnitsUpTo(notes, k)) /\ Count(notes, k) <= k
  BY <1>1, <1>2, FS_Subset DEF Count
<1> QED
  BY <1>3, FS_CardinalityType DEF Count

LEMMA CountGrows ==
  ASSUME NEW notes, NEW k \in Nat, NEW m \in Nat, k <= m
  PROVE  Count(notes, k) <= Count(notes, m)
<1>1. UnitsUpTo(notes, k) \in SUBSET UnitsUpTo(notes, m)
  BY DEF UnitsUpTo
<1> QED
  BY <1>1, CountIs, FS_Subset DEF Count

LEMMA CountOfUnit ==
  ASSUME NEW notes, NEW k \in Nat \ {0}, notes[k].dir = "P->V"
  PROVE  Count(notes, k) >= 1
<1>1. k \in UnitsUpTo(notes, k)
  BY DEF UnitsUpTo
<1> QED
  BY <1>1, CountIs, FS_EmptySet DEF Count

LEMMA CountSame ==
  ASSUME NEW notes, NEW others, NEW k \in Nat, \A i \in 1..k : notes[i] = others[i]
  PROVE  Count(notes, k) = Count(others, k)
<1>1. UnitsUpTo(notes, k) = UnitsUpTo(others, k)
  BY DEF UnitsUpTo
<1> QED
  BY <1>1 DEF Count

(* All of the next annotations are of units. *)
LEMMA CountOfUnits ==
  ASSUME NEW notes, NEW k \in Nat, NEW n \in Nat,
         \A i \in 1..n : notes[k + i].dir = "P->V"
  PROVE  Count(notes, k + n) = Count(notes, k) + n
<1> DEFINE new == (k + 1)..(k + n)
<1>1. UnitsUpTo(notes, k + n) = UnitsUpTo(notes, k) \union new
  <2>1. ASSUME NEW j \in new PROVE j \in 1..(k + n) /\ notes[j].dir = "P->V"
    <3>1. j - k \in 1..n /\ j = k + (j - k) /\ j \in 1..(k + n)
      OBVIOUS
    <3> QED BY <3>1
  <2>2. ASSUME NEW j \in 1..(k + n) PROVE j \in 1..k \/ j \in new
    OBVIOUS
  <2> QED
    BY <2>1, <2>2 DEF UnitsUpTo
<1>2. UnitsUpTo(notes, k) \intersect new = {}
  BY DEF UnitsUpTo
<1>3. IsFiniteSet(new) /\ Cardinality(new) = n
  <2>1. k + 1 \in Int /\ k + n \in Int
    OBVIOUS
  <2>2. IsFiniteSet(new) /\ Cardinality(new) = IF k + 1 > k + n THEN 0 ELSE (k + n) - (k + 1) + 1
    BY <2>1, FS_Interval
  <2> QED BY <2>2
<1> HIDE DEF new
<1>4. Cardinality(UnitsUpTo(notes, k) \union new)
        = Count(notes, k) + n - Cardinality(UnitsUpTo(notes, k) \intersect new)
  BY <1>3, CountIs, FS_Union DEF Count
<1>5. Cardinality(UnitsUpTo(notes, k) \intersect new) = 0
  BY <1>2, FS_EmptySet
<1> QED
  BY <1>1, <1>4, <1>5, CountIs DEF Count

(* None of them is. *)
LEMMA CountOfDraws ==
  ASSUME NEW notes, NEW k \in Nat, NEW n \in Nat,
         \A i \in 1..n : notes[k + i].dir # "P->V"
  PROVE  Count(notes, k + n) = Count(notes, k)
<1>1. ASSUME NEW j \in UnitsUpTo(notes, k + n) PROVE j \in UnitsUpTo(notes, k)
  <2>1. j \in 1..(k + n) /\ notes[j].dir = "P->V"
    BY DEF UnitsUpTo
  <2>2. CASE j > k
    <3>1. j - k \in 1..n /\ j = k + (j - k)
      BY <2>1, <2>2
    <3> QED BY <2>1, <3>1
  <2> QED BY <2>1, <2>2 DEF UnitsUpTo
<1>2. UnitsUpTo(notes, k + n) = UnitsUpTo(notes, k)
  BY <1>1 DEF UnitsUpTo
<1> QED
  BY <1>2 DEF Count

-----------------------------------------------------------------------------
(* What is drawn depends on everything before it. *)

(* The annotations of units are of the units, one by one; those of random  *)
(* values have a seed of all units before.                                 *)
BoundNote(units, notes, k) ==
  /\ notes[k].dir = "P->V" => notes[k].value = units[Count(notes, k)]
  /\ notes[k].dir = "V->P" => notes[k].value[1] = SubSeq(units, 1, Count(notes, k))

BoundNotes(units, notes) == \A k \in 1..Len(notes) : BoundNote(units, notes, k)

Binds(c) ==
  /\ IsChannel(c)
  /\ Len(c.units) = Count(c.notes, Len(c.notes))
  /\ BoundNotes(c.units, c.notes)
  /\ c.inQuery \/ c.seed = c.units

LEMMA NewBinds == Binds(NewChannel)
<1>1. UnitsUpTo(<<>>, 0) = {}
  BY DEF UnitsUpTo
<1>2. Count(<<>>, 0) = 0
  BY <1>1, FS_EmptySet DEF Count
<1>3. NewChannel.units = <<>> /\ NewChannel.seed = <<>> /\ NewChannel.notes = <<>>
  BY DEF NewChannel
<1> QED
  BY <1>2, <1>3, NewIsChannel DEF Binds, BoundNotes

(* The bound annotations stay bound when more units and annotations follow. *)
LEMMA BoundBefore ==
  ASSUME NEW units, NEW moreUnits, NEW notes, NEW more,
         IsList(units), IsList(moreUnits), IsList(notes), IsList(more),
         Len(units) = Count(notes, Len(notes)), BoundNotes(units, notes),
         NEW k \in 1..Len(notes)
  PROVE  BoundNote(units \o moreUnits, notes \o more, k)
<1>n. PICK n : n = notes \o more
  OBVIOUS
<1>u. PICK u : u = units \o moreUnits
  OBVIOUS
<1>1. Len(notes) \in Nat /\ Len(units) \in Nat /\ k \in Nat \ {0}
  BY ListProperties
<1>2. \A i \in 1..Len(notes) : n[i] = notes[i]
  BY <1>n, Joined
<1>3. \A i \in 1..Len(units) : u[i] = units[i]
  BY <1>u, Joined
<1>4. Count(n, k) = Count(notes, k)
  <2>1. \A i \in 1..k : n[i] = notes[i]
    BY <1>1, <1>2
  <2> QED BY <1>1, <2>1, CountSame
<1>5. Count(notes, k) \in 0..Len(units)
  <2>1. Count(notes, k) <= Count(notes, Len(notes))
    BY <1>1, CountGrows
  <2>2. Count(notes, k) \in Nat
    BY <1>1, CountIs
  <2> QED BY <1>1, <2>1, <2>2
<1>6. SubSeq(u, 1, Count(n, k)) = SubSeq(units, 1, Count(notes, k))
  BY <1>u, <1>4, <1>5, SameBeginning
<1>7. ASSUME notes[k].dir = "P->V" PROVE u[Count(n, k)] = units[Count(notes, k)]
  <2>1. Count(notes, k) >= 1
    BY <1>1, <1>7, CountOfUnit
  <2>2. Count(notes, k) \in 1..Len(units)
    BY <2>1, <1>1, <1>5
  <2> QED BY <1>3, <1>4, <2>2
<1>8. n[k] = notes[k]
  BY <1>2
<1>9. /\ notes[k].dir = "P->V" => notes[k].value = units[Count(notes, k)]
      /\ notes[k].dir = "V->P" => notes[k].value[1] = SubSeq(units, 1, Count(notes, k))
  BY DEF BoundNotes, BoundNote
<1> QED
  BY <1>n, <1>u, <1>6, <1>7, <1>8, <1>9 DEF BoundNote

(* The annotations of units, and of values drawn after these units. *)
AreUnits(more, units) ==
  /\ Len(more) = Len(units)
  /\ \A i \in 1..Len(more) : more[i].dir = "P->V" /\ more[i].value = units[i]

AreDraws(more, units) ==
  \A i \in 1..Len(more) : more[i].dir = "V->P" /\ more[i].value[1] = units

LEMMA BoundUnits ==
  ASSUME NEW units, NEW moreUnits, NEW notes, NEW more,
         IsList(units), IsList(moreUnits), IsList(notes), IsList(more),
         Len(units) = Count(notes, Len(notes)), BoundNotes(units, notes),
         AreUnits(more, moreUnits)
  PROVE  /\ Len(units \o moreUnits) = Count(notes \o more, Len(notes \o more))
         /\ BoundNotes(units \o moreUnits, notes \o more)
<1>n. PICK n : n = notes \o more
  OBVIOUS
<1>u. PICK u : u = units \o moreUnits
  OBVIOUS
<1>1. Len(notes) \in Nat /\ Len(units) \in Nat /\ Len(more) \in Nat
  BY ListProperties
<1>2. /\ Len(n) = Len(notes) + Len(more)
      /\ \A i \in 1..Len(notes) : n[i] = notes[i]
      /\ \A i \in 1..Len(more) : n[Len(notes) + i] = more[i]
  BY <1>n, Joined
<1>3. /\ Len(u) = Len(units) + Len(more)
      /\ \A i \in 1..Len(more) : u[Len(units) + i] = moreUnits[i]
  <2>1. Len(more) = Len(moreUnits)
    BY DEF AreUnits
  <2> QED BY <2>1, <1>u, Joined
<1>4. Count(n, Len(notes)) = Len(units)
  BY <1>1, <1>2, CountSame
<1>5. ASSUME NEW i \in 0..Len(more) PROVE Count(n, Len(notes) + i) = Len(units) + i
  <2>1. \A j \in 1..i : n[Len(notes) + j].dir = "P->V"
    <3>1. \A j \in 1..Len(more) : more[j].dir = "P->V"
      BY DEF AreUnits
    <3>2. \A j \in 1..i : j \in 1..Len(more)
      BY <1>1
    <3> QED BY <1>2, <3>1, <3>2
  <2>2. i \in Nat
    BY <1>1
  <2>3. Count(n, Len(notes) + i) = Count(n, Len(notes)) + i
    BY <2>1, <2>2, <1>1, CountOfUnits
  <2> QED BY <2>3, <1>4
<1>6. Len(u) = Count(n, Len(n))
  BY <1>1, <1>2, <1>3, <1>5
<1>7. ASSUME NEW k \in 1..Len(n)
      PROVE  BoundNote(u, n, k)
  <2>1. CASE k \in 1..Len(notes)
    BY <2>1, <1>n, <1>u, BoundBefore
  <2>2. CASE k \notin 1..Len(notes)
    <3>1. PICK i \in 1..Len(more) : k = Len(notes) + i
      <4>1. k - Len(notes) \in 1..Len(more) /\ k = Len(notes) + (k - Len(notes))
        BY <2>2, <1>1, <1>2
      <4> QED BY <4>1
    <3>2. Count(n, k) = Len(units) + i
      BY <3>1, <1>5, <1>1
    <3>3. n[k].dir = "P->V" /\ n[k].value = moreUnits[i]
      BY <3>1, <1>2 DEF AreUnits
    <3> QED BY <3>2, <3>3, <1>3 DEF BoundNote
  <2> QED BY <2>1, <2>2
<1> QED
  BY <1>n, <1>u, <1>6, <1>7 DEF BoundNotes

LEMMA BoundDraws ==
  ASSUME NEW units, NEW notes, NEW more, IsList(units), IsList(notes), IsList(more),
         Len(units) = Count(notes, Len(notes)), BoundNotes(units, notes),
         AreDraws(more, units)
  PROVE  /\ Len(units) = Count(notes \o more, Len(notes \o more))
         /\ BoundNotes(units, notes \o more)
<1>n. PICK n : n = notes \o more
  OBVIOUS
<1>1. Len(notes) \in Nat /\ Len(units) \in Nat /\ Len(more) \in Nat
  BY ListProperties
<1>2. /\ Len(n) = Len(notes) + Len(more)
      /\ \A i \in 1..Len(notes) : n[i] = notes[i]
      /\ \A i \in 1..Len(more) : n[Len(notes) + i] = more[i]
  BY <1>n, Joined
<1>3. units = units \o <<>> /\ IsList(<<>>)
  BY JoinedToNothing, EmptyList
<1>4. Count(n, Len(notes)) = Len(units)
  BY <1>1, <1>2, CountSame
<1>5. ASSUME NEW i \in 0..Len(more) PROVE Count(n, Len(notes) + i) = Len(units)
  <2>1. ASSUME NEW j \in 1..i PROVE n[Len(notes) + j].dir # "P->V"
    <3>1. j \in 1..Len(more)
      BY <1>1
    <3>2. n[Len(notes) + j].dir = "V->P"
      BY <3>1, <1>2 DEF AreDraws
    <3> QED BY <3>2
  <2>2. i \in Nat
    BY <1>1
  <2>3. Count(n, Len(notes) + i) = Count(n, Len(notes))
    BY <2>1, <2>2, <1>1, CountOfDraws
  <2> QED BY <2>3, <1>4
<1>6. Len(units) = Count(n, Len(n))
  BY <1>1, <1>2, <1>5
<1>7. SubSeq(units, 1, Len(units)) = units
  BY SubSeqFull DEF IsList
<1>8. ASSUME NEW k \in 1..Len(n)
      PROVE  BoundNote(units, n, k)
  <2>1. CASE k \in 1..Len(notes)
    <3>1. BoundNote(units \o <<>>, notes \o more, k)
      BY <2>1, EmptyList, BoundBefore
    <3> QED BY <3>1, <1>3, <1>n
  <2>2. CASE k \notin 1..Len(notes)
    <3>1. PICK i \in 1..Len(more) : k = Len(notes) + i
      <4>1. k - Len(notes) \in 1..Len(more) /\ k = Len(notes) + (k - Len(notes))
        BY <2>2, <1>1, <1>2
      <4> QED BY <4>1
    <3>2. Count(n, k) = Len(units)
      BY <3>1, <1>5, <1>1
    <3>3. n[k].dir = "V->P" /\ n[k].value[1] = units
      BY <3>1, <1>2 DEF AreDraws
    <3> QED BY <3>2, <3>3, <1>7 DEF BoundNote
  <2> QED BY <2>1, <2>2
<1> QED
  BY <1>n, <1>6, <1>8 DEF BoundNotes

LEMMA MovedBinds ==
  ASSUME NEW c, NEW labels, NEW units, Binds(c), IsList(units)
  PROVE  Binds(Moved(c, labels, units))
<1>1. /\ IsChannel(c) /\ Len(c.units) = Count(c.notes, Len(c.notes))
      /\ BoundNotes(c.units, c.notes) /\ (c.inQuery \/ c.seed = c.units)
      /\ IsList(c.units) /\ IsList(c.notes) /\ IsList(c.seed)
  BY DEF Binds, IsChannel
<1>2. PICK d : d = Moved(c, labels, units)
  OBVIOUS
<1>3. PICK more : more = SentNotes(labels, units)
  OBVIOUS
<1>3a. LET e == Moved(c, labels, units)
       IN  /\ IsChannel(e) /\ e.units = c.units \o units /\ e.seed = c.seed \o Mixed(c, units)
           /\ e.notes = c.notes \o SentNotes(labels, units) /\ e.inQuery = c.inQuery
  BY ONLY <1>1, IsList(units), MovedIs
<1>4. /\ IsChannel(d) /\ d.units = c.units \o units /\ d.seed = c.seed \o Mixed(c, units)
      /\ d.notes = c.notes \o more /\ d.inQuery = c.inQuery
  BY <1>2, <1>3, <1>3a
<1>5. /\ IsList(more) /\ Len(more) = Len(units)
      /\ \A i \in 1..Len(units) : more[i] = Note("P->V", labels[i], units[i])
  BY <1>3, SentNotesAre
<1>6. ASSUME NEW i \in 1..Len(more) PROVE more[i].dir = "P->V" /\ more[i].value = units[i]
  <2>1. more[i] = Note("P->V", labels[i], units[i])
    BY <1>5
  <2> QED BY <2>1 DEF Note
<1>6a. AreUnits(more, units)
  BY <1>5, <1>6 DEF AreUnits
<1>7. Len(d.units) = Count(d.notes, Len(d.notes)) /\ BoundNotes(d.units, d.notes)
  <2>1. /\ Len(c.units \o units) = Count(c.notes \o more, Len(c.notes \o more))
        /\ BoundNotes(c.units \o units, c.notes \o more)
    <3>1. IsList(more)
      BY <1>5
    <3>2. /\ Len(c.units) = Count(c.notes, Len(c.notes)) /\ BoundNotes(c.units, c.notes)
          /\ IsList(c.units) /\ IsList(c.notes)
      BY <1>1
    <3> QED BY <3>1, <3>2, <1>6a, BoundUnits, Zenon
  <2> QED BY <2>1, <1>4
<1>8. d.inQuery \/ d.seed = d.units
  BY <1>1, <1>4 DEF Mixed
<1> QED
  BY <1>2, <1>4, <1>7, <1>8 DEF Binds

LEMMA FailedBinds ==
  ASSUME NEW c, Binds(c)
  PROVE  Binds(Failed(c))
BY FailedIs DEF Binds

LEMMA BeginsBinds ==
  ASSUME NEW c, Binds(c)
  PROVE  Binds(BeginsQueryPhase(c))
BY BeginsIs DEF Binds

LEMMA DrawnBinds ==
  ASSUME NEW c, NEW labels, Binds(c), IsList(labels), c.seed = c.units
  PROVE  Binds(Drawn(c, labels))
<1>1. /\ IsChannel(c) /\ Len(c.units) = Count(c.notes, Len(c.notes))
      /\ BoundNotes(c.units, c.notes)
      /\ IsList(c.units) /\ IsList(c.notes)
  BY DEF Binds, IsChannel
<1>2. PICK d : d = Drawn(c, labels)
  OBVIOUS
<1>3. PICK more : more = DrawnNotes(c, labels)
  OBVIOUS
<1>4. /\ IsChannel(d) /\ d.units = c.units /\ d.seed = c.seed
      /\ d.notes = c.notes \o more
  BY <1>1, <1>2, <1>3, DrawnIs
<1>5. /\ IsList(more) /\ Len(more) = Len(labels)
      /\ \A i \in 1..Len(labels) : more[i] = Note("V->P", labels[i], Random(c, i - 1))
  BY <1>3, DrawnNotesAre
<1>6. ASSUME NEW i \in 1..Len(more) PROVE more[i].dir = "V->P" /\ more[i].value[1] = c.units
  <2>1. more[i] = Note("V->P", labels[i], Random(c, i - 1))
    BY <1>5
  <2> QED BY <2>1 DEF Note, Random
<1>6a. AreDraws(more, c.units)
  BY <1>6 DEF AreDraws
<1>7. Len(d.units) = Count(d.notes, Len(d.notes)) /\ BoundNotes(d.units, d.notes)
  <2>1. /\ Len(c.units) = Count(c.notes \o more, Len(c.notes \o more))
        /\ BoundNotes(c.units, c.notes \o more)
    BY <1>1, <1>5, <1>6a, BoundDraws
  <2> QED BY <2>1, <1>4
<1> QED
  BY <1>2, <1>4, <1>7 DEF Binds

LEMMA DrawsNothing ==
  ASSUME NEW c, IsChannel(c)
  PROVE  Drawn(c, <<>>).notes = c.notes
<1>1. IsList(c.notes)
  BY DEF IsChannel
<1>2. DrawnNotes(c, <<>>) = <<>>
  BY EmptyList, DrawnNotesAre, ListsAreEqual
<1>3. Drawn(c, <<>>).notes = c.notes \o DrawnNotes(c, <<>>)
  BY EmptyList, DrawnIs
<1>4. c.notes \o <<>> = c.notes
  BY <1>1, JoinedToNothing
<1> QED
  BY <1>2, <1>3, <1>4

LEMMA DrawsBinds ==
  ASSUME NEW c, NEW labels, Binds(c), IsList(labels)
  PROVE  Binds(Draws(c, labels))
<1>1. CASE c.inQuery /\ labels = <<>>
  <2>1. IsChannel(c)
    BY DEF Binds
  <2>2. PICK d : d = Drawn(c, labels)
    OBVIOUS
  <2>3. /\ IsChannel(d) /\ d.units = c.units /\ d.seed = c.seed /\ d.notes = c.notes
        /\ d.inQuery = c.inQuery
    BY <1>1, <2>1, <2>2, DrawnIs, DrawsNothing
  <2>4. Binds(d)
    BY <2>3 DEF Binds
  <2> QED BY <2>2, <2>4, DrawsIs, <1>1
<1>2. CASE c.inQuery /\ labels # <<>>
  BY <1>2, FailedBinds, DrawsIs
<1>3. CASE ~c.inQuery
  <2>1. c.seed = c.units
    BY <1>3 DEF Binds
  <2>2. Binds(Drawn(c, labels))
    BY <2>1, DrawnBinds
  <2> QED BY <2>2, <1>3, DrawsIs
<1> QED
  BY <1>1, <1>2, <1>3

LEMMA SendsBinds ==
  ASSUME NEW c, NEW labels, NEW units, Binds(c), IsList(units)
  PROVE  Binds(Sends(c, labels, units))
BY MovedBinds DEF Sends, Unless

(* The verifier has not read beyond the end of the proof. *)
Within(c, data) == Len(c.units) <= Len(data)

LEMMA ReceivedUnits ==
  ASSUME NEW c, NEW data, IsChannel(c), IsList(data), Within(c, data)
  PROVE  Available(c, data) \in Nat /\ Available(c, data) = Len(data) - Len(c.units)
BY ListProperties DEF Available, IsChannel, Within

-----------------------------------------------------------------------------
(* The numbers of the queries come after the work. *)

(* A seed that ends with a nonce for the state before it. *)
Worked(seed) == /\ seed # <<>>
                /\ seed[Len(seed)] = Nonce(SubSeq(seed, 1, Len(seed) - 1))

Costs(notes) ==
  \A i \in 1..Len(notes) :
     notes[i].label[1] = "FRI/QueryIndices" => Worked(notes[i].value[1])

OtherLabels(labels) == \A i \in 1..Len(labels) : labels[i][1] # "FRI/QueryIndices"

LEMMA CostsJoined ==
  ASSUME NEW notes, NEW more, IsList(notes), IsList(more), Costs(notes), Costs(more)
  PROVE  Costs(notes \o more)
<1>1. Len(notes) \in Nat /\ Len(more) \in Nat
  BY ListProperties
<1>2. PICK n : n = notes \o more
  OBVIOUS
<1>3. /\ Len(n) = Len(notes) + Len(more)
      /\ \A i \in 1..Len(notes) : n[i] = notes[i]
      /\ \A i \in 1..Len(more) : n[Len(notes) + i] = more[i]
  BY <1>2, Joined
<1>4. ASSUME NEW k \in 1..Len(n), n[k].label[1] = "FRI/QueryIndices"
      PROVE  Worked(n[k].value[1])
  <2>1. CASE k \in 1..Len(notes)
    BY <2>1, <1>3, <1>4 DEF Costs
  <2>2. CASE k \notin 1..Len(notes)
    <3>1. PICK i \in 1..Len(more) : k = Len(notes) + i
      <4>1. k - Len(notes) \in 1..Len(more) /\ k = Len(notes) + (k - Len(notes))
        BY <2>2, <1>1, <1>3
      <4> QED BY <4>1
    <3>2. n[k] = more[i]
      BY <3>1, <1>3
    <3> QED BY <3>2, <1>4 DEF Costs
  <2> QED BY <2>1, <2>2
<1> QED
  BY <1>2, <1>4 DEF Costs

LEMMA CostsMoved ==
  ASSUME NEW c, NEW labels, NEW units, IsChannel(c), IsList(units), OtherLabels(labels),
         Len(units) <= Len(labels), Len(labels) \in Nat, Costs(c.notes)
  PROVE  Costs(Moved(c, labels, units).notes)
<1>1. PICK more : more = SentNotes(labels, units)
  OBVIOUS
<1>2. /\ IsList(more) /\ Len(more) = Len(units)
      /\ \A i \in 1..Len(units) : more[i] = Note("P->V", labels[i], units[i])
  BY <1>1, SentNotesAre
<1>3. ASSUME NEW i \in 1..Len(more) PROVE more[i].label[1] # "FRI/QueryIndices"
  <2>1. more[i].label = labels[i]
    <3>1. more[i] = Note("P->V", labels[i], units[i])
      BY <1>2
    <3> QED BY <3>1 DEF Note
  <2>2. i \in 1..Len(labels)
    BY <1>2, ListProperties
  <2> QED BY <2>1, <2>2 DEF OtherLabels
<1>4. Costs(more)
  BY <1>3 DEF Costs
<1>5. IsList(c.notes)
  BY DEF IsChannel
<1>6. IsList(more)
  BY <1>2
<1>7. Costs(c.notes \o more)
  BY <1>4, <1>5, <1>6, CostsJoined
<1>8. Moved(c, labels, units).notes = c.notes \o SentNotes(labels, units)
  BY MovedIs
<1> QED
  BY <1>1, <1>7, <1>8

LEMMA CostsSends ==
  ASSUME NEW c, NEW labels, NEW units, IsChannel(c), IsList(units), OtherLabels(labels),
         Len(units) <= Len(labels), Len(labels) \in Nat, Costs(c.notes)
  PROVE  Costs(Sends(c, labels, units).notes)
BY CostsMoved DEF Sends, Unless

LEMMA CostsDraws ==
  ASSUME NEW c, NEW labels, IsChannel(c), IsList(labels), Costs(c.notes),
         OtherLabels(labels) \/ Worked(c.seed) \/ c.inQuery \/ c.failed
  PROVE  Costs(Draws(c, labels).notes)
<1>1. CASE c.failed
  BY <1>1, DrawsIs
<1>2. CASE c.inQuery /\ labels = <<>>
  BY <1>2, DrawsIs, DrawsNothing
<1>3. CASE c.inQuery /\ labels # <<>>
  BY <1>3, DrawsIs, FailedIs
<1>4. CASE ~c.inQuery /\ ~c.failed
  <2>1. PICK more : more = DrawnNotes(c, labels)
    OBVIOUS
  <2>2. /\ IsList(more) /\ Len(more) = Len(labels)
        /\ \A i \in 1..Len(labels) : more[i] = Note("V->P", labels[i], Random(c, i - 1))
    BY <2>1, DrawnNotesAre
  <2>3. ASSUME NEW i \in 1..Len(more), more[i].label[1] = "FRI/QueryIndices"
        PROVE  Worked(more[i].value[1])
    <3>1. more[i].label = labels[i] /\ more[i].value[1] = c.seed
      <4>1. more[i] = Note("V->P", labels[i], Random(c, i - 1))
        BY <2>2
      <4> QED BY <4>1 DEF Note, Random
    <3>2. ~OtherLabels(labels)
      BY <3>1, <2>2, <2>3 DEF OtherLabels
    <3> QED BY <3>1, <3>2, <1>4
  <2>4. Costs(more)
    BY <2>3 DEF Costs
  <2>5. IsList(c.notes)
    BY DEF IsChannel
  <2>6. IsList(more)
    BY <2>2
  <2>7. Costs(c.notes \o more)
    BY <2>4, <2>5, <2>6, CostsJoined
  <2> QED BY <2>1, <2>7, <1>4, DrawsIs, DrawnIs
<1> QED
  BY <1>1, <1>2, <1>3, <1>4

(* Once a nonce for the seed is mixed into it, the work is done. *)
LEMMA NonceWorks ==
  ASSUME NEW seed, IsList(seed)
  PROVE  Worked(seed \o << Nonce(seed) >>)
<1>1. PICK after : after = seed \o << Nonce(seed) >>
  OBVIOUS
<1>2. /\ Len(after) = Len(seed) + 1 /\ after[Len(seed) + 1] = Nonce(seed)
      /\ SubSeq(after, 1, Len(seed)) = seed
  BY <1>1, OneMoreElement
<1>3. Len(seed) \in Nat
  BY ListProperties
<1>4. after # <<>> /\ Len(after) - 1 = Len(seed)
  BY <1>2, <1>3
<1> QED
  BY <1>1, <1>2, <1>4 DEF Worked

LEMMA WorksWorks ==
  ASSUME NEW c, NEW bits \in Nat, NEW label, Binds(c), label[1] # "FRI/QueryIndices",
         Costs(c.notes)
  PROVE  LET d == Works(c, bits, label)
         IN  /\ Binds(d)
             /\ Costs(d.notes)
             /\ bits > 0 => Worked(d.seed) \/ d.inQuery \/ d.failed
<1>1. CASE bits = 0
  BY <1>1 DEF Works
<1>2. CASE bits # 0
  <2>1. PICK u : u = << Nonce(c.seed) >>
    OBVIOUS
  <2>2. PICK labels : labels = <<label>>
    OBVIOUS
  <2>3. IsList(u) /\ Len(u) = 1 /\ Len(labels) = 1 /\ labels[1] = label
    BY <2>1, <2>2, OneElement
  <2>4. PICK d : d = Sends(c, labels, u)
    OBVIOUS
  <2>5. Works(c, bits, label) = d
    BY <1>2, <2>1, <2>2, <2>4 DEF Works
  <2>6. Binds(d)
    BY <2>3, <2>4, SendsBinds
  <2>7. OtherLabels(labels)
    BY <2>3 DEF OtherLabels
  <2>8. Costs(d.notes)
    BY <2>3, <2>4, <2>7, CostsSends DEF Binds
  <2>9. CASE c.failed
    BY <2>9, <2>4, <2>5, <2>6, <2>8 DEF Sends, Unless
  <2>10. CASE ~c.failed
    <3>1. IsChannel(c) /\ IsList(c.seed)
      BY DEF Binds, IsChannel
    <3>2. d = Moved(c, labels, u)
      BY <2>4, <2>10 DEF Sends, Unless
    <3>3. d.seed = c.seed \o Mixed(c, u) /\ d.inQuery = c.inQuery
      BY <3>1, <3>2, <2>3, MovedIs
    <3>4. d.inQuery \/ Worked(d.seed)
      BY <3>1, <3>3, <2>1, NonceWorks DEF Mixed
    <3> QED BY <3>4, <2>5, <2>6, <2>8
  <2> QED BY <2>9, <2>10
<1> QED
  BY <1>1, <1>2

-----------------------------------------------------------------------------
(* Nothing is taken back. *)

Grows(c, d) == IsPrefix(c.units, d.units) /\ IsPrefix(c.notes, d.notes)

LEMMA GrowsItself ==
  ASSUME NEW c, IsChannel(c)
  PROVE  Grows(c, c)
BY PrefixOfItself DEF Grows, IsChannel

LEMMA GrowsOn ==
  ASSUME NEW c, NEW d, NEW e, IsChannel(c), IsChannel(d), IsChannel(e),
         Grows(c, d), Grows(d, e)
  PROVE  Grows(c, e)
<1>1. IsPrefix(c.units, e.units)
  BY PrefixOfPrefix DEF Grows, IsChannel
<1>2. IsPrefix(c.notes, e.notes)
  BY PrefixOfPrefix DEF Grows, IsChannel
<1> QED
  BY <1>1, <1>2 DEF Grows

LEMMA SendsGrows ==
  ASSUME NEW c, NEW labels, NEW units, IsChannel(c), IsList(units)
  PROVE  LET d == Sends(c, labels, units)
         IN  IsChannel(d) /\ Grows(c, d) /\ d.failed = c.failed /\ d.inQuery = c.inQuery
<1>1. IsList(c.units) /\ IsList(c.notes) /\ IsList(SentNotes(labels, units))
  BY SentNotesAre DEF IsChannel
<1>2. /\ IsPrefix(c.units, c.units \o units)
      /\ IsPrefix(c.notes, c.notes \o SentNotes(labels, units))
  BY <1>1, PrefixOfJoined
<1>3. LET d == Moved(c, labels, units)
      IN  IsChannel(d) /\ Grows(c, d) /\ d.failed = c.failed /\ d.inQuery = c.inQuery
  <2>1. PICK d : d = Moved(c, labels, units)
    OBVIOUS
  <2>2. /\ IsChannel(d) /\ d.units = c.units \o units
        /\ d.notes = c.notes \o SentNotes(labels, units)
        /\ d.failed = c.failed /\ d.inQuery = c.inQuery
    BY <2>1, MovedIs
  <2>3. Grows(c, d)
    BY <1>2, <2>2 DEF Grows
  <2> QED BY <2>1, <2>2, <2>3
<1> QED
  BY <1>3, GrowsItself DEF Sends, Unless

LEMMA DrawsGrows ==
  ASSUME NEW c, NEW labels, IsChannel(c), IsList(labels)
  PROVE  LET d == Draws(c, labels)
         IN  IsChannel(d) /\ Grows(c, d) /\ (c.failed => d.failed)
<1>1. IsList(c.units) /\ IsList(c.notes) /\ IsList(DrawnNotes(c, labels))
  BY DrawnNotesAre DEF IsChannel
<1>2. /\ IsPrefix(c.units, c.units)
      /\ IsPrefix(c.notes, c.notes \o DrawnNotes(c, labels))
      /\ IsPrefix(c.notes, c.notes)
  BY <1>1, PrefixOfJoined, PrefixOfItself
<1>3. LET d == Drawn(c, labels)
      IN  IsChannel(d) /\ Grows(c, d)
  BY <1>2, DrawnIs DEF Grows
<1>4. IsChannel(Failed(c)) /\ Grows(c, Failed(c))
  BY <1>2, FailedIs DEF Grows
<1> QED
  BY <1>3, <1>4, GrowsItself, DrawsIs

LEMMA WorksGrows ==
  ASSUME NEW c, NEW bits, NEW label, IsChannel(c)
  PROVE  LET d == Works(c, bits, label)
         IN  IsChannel(d) /\ Grows(c, d) /\ d.failed = c.failed
<1>1. IsList(<< Nonce(c.seed) >>)
  BY OneElement
<1> QED
  BY <1>1, SendsGrows, GrowsItself DEF Works

LEMMA BeginsGrows ==
  ASSUME NEW c, IsChannel(c)
  PROVE  Grows(c, BeginsQueryPhase(c))
BY BeginsIs, GrowsItself DEF Grows

-----------------------------------------------------------------------------
(* The verifier replays what the prover did. *)

(* The verifier's channel is the one of the prover, and it has read only   *)
(* of the proof; or it has failed on the way there.                        *)
Follows(v, p, data) ==
  \/ v = p /\ Within(p, data)
  \/ v.failed /\ IsChannel(v) /\ IsPrefix(v.notes, p.notes)

LEMMA FollowsFailed ==
  ASSUME NEW v, NEW p, NEW data, IsChannel(p), Follows(v, p, data)
  PROVE  Follows(Failed(v), p, data)
<1>1. CASE v = p
  BY <1>1, FailedIs, PrefixOfItself DEF Follows, IsChannel
<1>2. CASE v.failed /\ IsChannel(v) /\ IsPrefix(v.notes, p.notes)
  BY <1>2, FailedIs DEF Follows
<1> QED
  BY <1>1, <1>2 DEF Follows

LEMMA FollowsOn ==
  ASSUME NEW v, NEW p, NEW q, NEW data, IsChannel(v), IsChannel(p), IsChannel(q),
         v.failed, IsPrefix(v.notes, p.notes), Grows(p, q)
  PROVE  Follows(v, q, data)
BY PrefixOfPrefix DEF Follows, Grows, IsChannel

(* Receiving the next units of a proof that the prover wrote.              *)
LEMMA Replay ==
  ASSUME NEW c, NEW labels, NEW units, NEW total, NEW data,
         IsChannel(c), ~c.failed, IsList(labels), IsList(units), Len(labels) = Len(units),
         IsList(total), IsList(data), IsPrefix(data, total),
         Within(c, data), IsPrefix(Sends(c, labels, units).units, total)
  PROVE  Follows(Receives(c, labels, data), Sends(c, labels, units), data)
<1>1. PICK s : s = Moved(c, labels, units)
  OBVIOUS
<1>2. s = Sends(c, labels, units)
  BY <1>1 DEF Sends, Unless
<1>3. /\ IsChannel(s) /\ s.units = c.units \o units
      /\ s.notes = c.notes \o SentNotes(labels, units)
  <2>1. LET d == Moved(c, labels, units)
        IN  /\ IsChannel(d) /\ d.units = c.units \o units
            /\ d.notes = c.notes \o SentNotes(labels, units)
    BY MovedIs
  <2> QED BY <1>1, <2>1
<1>4. IsList(c.units) /\ IsList(c.notes) /\ IsList(s.units)
  BY <1>3 DEF IsChannel
<1>5. /\ Len(c.units) \in Nat /\ Len(units) \in Nat /\ Len(data) \in Nat
      /\ Len(total) \in Nat
  BY <1>4, ListProperties
<1>6. Len(c.units) <= Len(data)
  BY DEF Within
<1>7. Available(c, data) \in Nat /\ Available(c, data) = Len(data) - Len(c.units)
  BY ReceivedUnits
<1>8. ASSUME NEW i \in 1..Len(units), i <= Available(c, data)
      PROVE  data[Len(c.units) + i] = units[i]
  <2>1. Len(c.units) + i \in 1..Len(data)
    BY <1>5, <1>7, <1>8
  <2>2. data[Len(c.units) + i] = total[Len(c.units) + i]
    BY <2>1, PrefixIs
  <2>3. /\ Len(c.units \o units) = Len(c.units) + Len(units)
        /\ (c.units \o units)[Len(c.units) + i] = units[i]
    BY <1>4, Joined
  <2>4. IsPrefix(s.units, total)
    BY <1>2
  <2>5. Len(c.units) + i \in 1..Len(s.units)
    BY <1>3, <1>5, <2>3
  <2>6. s.units[Len(c.units) + i] = total[Len(c.units) + i]
    BY <1>4, <2>4, <2>5, PrefixIs
  <2> QED BY <2>2, <2>3, <2>6, <1>3
<1>9. ASSUME NEW n \in Nat, n <= Available(c, data), n <= Len(units)
      PROVE  LET v == NextUnits(c, n, data)
             IN  /\ IsList(v) /\ Len(v) = n
                 /\ \A i \in 1..n : v[i] = units[i]
  <2>1. PICK v : v = NextUnits(c, n, data)
    OBVIOUS
  <2>2. IsList(v) /\ Len(v) = n
    BY <2>1, NextUnitsAre
  <2>3. ASSUME NEW i \in 1..n PROVE v[i] = units[i]
    <3>1. v[i] = IF Len(c.units) + i <= Len(data) THEN data[Len(c.units) + i] ELSE <<"junk">>
      BY <2>1, NextUnitsAre
    <3>2. Len(c.units) + i <= Len(data) /\ i \in 1..Len(units) /\ i <= Available(c, data)
      BY <1>5, <1>7, <1>9
    <3> QED BY <3>1, <3>2, <1>8
  <2> QED BY <2>1, <2>2, <2>3
<1>10. CASE Len(labels) <= Available(c, data)
  <2>1. NextUnits(c, Len(labels), data) = units
    <3>1. PICK v : v = NextUnits(c, Len(labels), data)
      OBVIOUS
    <3>2. IsList(v) /\ Len(v) = Len(units) /\ \A i \in 1..Len(units) : v[i] = units[i]
      BY <3>1, <1>5, <1>9, <1>10
    <3> QED BY <3>1, <3>2, ListsAreEqual
  <2>2. Receives(c, labels, data) = s
    BY <2>1, <1>1, <1>10 DEF Receives, Unless
  <2>3. Len(c.units \o units) = Len(c.units) + Len(units)
    BY <1>4, Joined
  <2>4. Within(s, data)
    BY <2>3, <1>3, <1>5, <1>7, <1>10 DEF Within
  <2> QED BY <2>2, <2>4, <1>2 DEF Follows
<1>11. CASE ~(Len(labels) <= Available(c, data))
  <2>1. PICK v : v = NextUnits(c, Available(c, data), data)
    OBVIOUS
  <2>2. /\ IsList(v) /\ Len(v) = Available(c, data)
        /\ \A i \in 1..Len(v) : v[i] = units[i]
    <3>1. Available(c, data) <= Len(units)
      BY <1>5, <1>7, <1>11
    <3>2. Available(c, data) \in Nat /\ Available(c, data) <= Available(c, data)
      BY <1>7
    <3>3. LET w == NextUnits(c, Available(c, data), data)
          IN  /\ IsList(w) /\ Len(w) = Available(c, data)
              /\ \A i \in 1..Available(c, data) : w[i] = units[i]
      BY <3>1, <3>2, <1>9
    <3> QED BY <3>3, <2>1
  <2>3. PICK d : d = Moved(c, labels, v)
    OBVIOUS
  <2>4. Receives(c, labels, data) = Failed(d)
    BY <2>1, <2>3, <1>11 DEF Receives, Unless
  <2>5. IsChannel(d) /\ d.notes = c.notes \o SentNotes(labels, v)
    BY <2>2, <2>3, MovedIs
  <2>6. PICK short : short = SentNotes(labels, v)
    OBVIOUS
  <2>7. PICK long : long = SentNotes(labels, units)
    OBVIOUS
  <2>8. /\ IsList(short) /\ Len(short) = Len(v)
        /\ \A i \in 1..Len(v) : short[i] = Note("P->V", labels[i], v[i])
    BY <2>2, <2>6, SentNotesAre
  <2>9. /\ IsList(long) /\ Len(long) = Len(units)
        /\ \A i \in 1..Len(units) : long[i] = Note("P->V", labels[i], units[i])
    BY <2>7, SentNotesAre
  <2>10. Len(v) <= Len(units)
    BY <2>2, <1>5, <1>7, <1>11
  <2>11. \A i \in 1..Len(short) : short[i] = long[i]
    <3>1. ASSUME NEW i \in 1..Len(v) PROVE short[i] = long[i]
      <4>1. i \in 1..Len(units)
        BY <2>2, <2>10, <1>5, <1>7
      <4>2. v[i] = units[i]
        BY <2>2
      <4>3. short[i] = Note("P->V", labels[i], v[i])
        BY <2>8
      <4>4. long[i] = Note("P->V", labels[i], units[i])
        BY <4>1, <2>9
      <4> QED BY ONLY <4>2, <4>3, <4>4
    <3> QED BY ONLY <2>8, <3>1
  <2>12. IsPrefix(d.notes, s.notes)
    <3>1. /\ Len(c.notes) \in Nat /\ Len(short) \in Nat /\ Len(long) \in Nat
          /\ Len(short) <= Len(long)
      BY <1>4, <2>8, <2>9, <2>10, ListProperties
    <3>2. /\ Len(d.notes) = Len(c.notes) + Len(short)
          /\ Len(s.notes) = Len(c.notes) + Len(long)
      <4>1. IsList(short) /\ IsList(long)
        BY <2>8, <2>9
      <4>2. /\ Len(c.notes \o short) = Len(c.notes) + Len(short)
            /\ Len(c.notes \o long) = Len(c.notes) + Len(long)
        BY <4>1, <1>4, Joined
      <4> QED BY <4>2, <1>3, <2>5, <2>6, <2>7
    <3>3. ASSUME NEW k \in 1..Len(d.notes) PROVE d.notes[k] = s.notes[k]
      <4>1. CASE k \in 1..Len(c.notes)
        BY <4>1, <1>3, <1>4, <2>5, <2>6, <2>7, <2>8, <2>9, Joined
      <4>2. CASE k \notin 1..Len(c.notes)
        <5>1. PICK i \in 1..Len(short) : k = Len(c.notes) + i
          <6>1. k - Len(c.notes) \in 1..Len(short) /\ k = Len(c.notes) + (k - Len(c.notes))
            BY <3>1, <3>2, <4>2
          <6> QED BY <6>1
        <5>2. IsList(short) /\ IsList(long) /\ i \in 1..Len(long)
          BY <2>8, <2>9, <3>1
        <5>3. (c.notes \o short)[Len(c.notes) + i] = short[i]
          BY <5>2, <1>4, Joined
        <5>4. (c.notes \o long)[Len(c.notes) + i] = long[i]
          BY <5>2, <1>4, Joined
        <5> QED BY <5>1, <5>3, <5>4, <2>5, <2>6, <2>7, <2>11, <1>3
      <4> QED BY <4>1, <4>2
    <3>4. IsList(d.notes) /\ IsList(s.notes)
      BY <2>5, <1>3 DEF IsChannel
    <3>5. Len(d.notes) <= Len(s.notes)
      BY <3>1, <3>2
    <3> QED BY <3>3, <3>4, <3>5, PrefixIs
  <2>13. /\ Failed(d).failed /\ IsChannel(Failed(d))
         /\ IsPrefix(Failed(d).notes, s.notes)
    BY <2>5, <2>12, FailedIs
  <2> QED BY <2>4, <2>13, <1>2 DEF Follows
<1> QED
  BY <1>10, <1>11

LEMMA ReplaySends ==
  ASSUME NEW v, NEW p, NEW labels, NEW units, NEW total, NEW data,
         Follows(v, p, data),
         IsChannel(p), ~p.failed, IsList(labels), IsList(units), Len(labels) = Len(units),
         IsList(total), IsList(data), IsPrefix(data, total),
         IsPrefix(Sends(p, labels, units).units, total)
  PROVE  Follows(Receives(v, labels, data), Sends(p, labels, units), data)
<1>1. CASE v = p /\ Within(p, data)
  BY <1>1, Replay
<1>2. CASE v.failed /\ IsChannel(v) /\ IsPrefix(v.notes, p.notes)
  <2>1. Receives(v, labels, data) = v
    BY <1>2 DEF Receives, Unless
  <2>2. IsChannel(Sends(p, labels, units)) /\ Grows(p, Sends(p, labels, units))
    BY SendsGrows
  <2> QED BY <1>2, <2>1, <2>2, FollowsOn
<1> QED
  BY <1>1, <1>2 DEF Follows

LEMMA ReplayDraws ==
  ASSUME NEW v, NEW p, NEW labels, NEW data, Follows(v, p, data),
         IsChannel(p), IsList(labels)
  PROVE  Follows(Draws(v, labels), Draws(p, labels), data)
<1>1. CASE v = p /\ Within(p, data)
  <2>1. Within(Draws(p, labels), data)
    BY <1>1, DrawsIs, DrawnIs, FailedIs DEF Within
  <2> QED BY <1>1, <2>1 DEF Follows
<1>2. CASE v.failed /\ IsChannel(v) /\ IsPrefix(v.notes, p.notes)
  <2>1. Draws(v, labels) = v
    BY <1>2 DEF Draws, Unless
  <2>2. IsChannel(Draws(p, labels)) /\ Grows(p, Draws(p, labels))
    BY DrawsGrows
  <2> QED BY <1>2, <2>1, <2>2, FollowsOn
<1> QED
  BY <1>1, <1>2 DEF Follows

LEMMA ReplayWork ==
  ASSUME NEW v, NEW p, NEW bits, NEW label, NEW total, NEW data,
         Follows(v, p, data), IsChannel(p), ~p.failed,
         IsList(total), IsList(data), IsPrefix(data, total),
         IsPrefix(Works(p, bits, label).units, total)
  PROVE  Follows(ChecksWork(v, bits, label, data), Works(p, bits, label), data)
<1>1. CASE bits = 0
  BY <1>1 DEF ChecksWork, Works
<1>2. CASE bits # 0
  <2>1. PICK u : u = << Nonce(p.seed) >>
    OBVIOUS
  <2>2. PICK labels : labels = <<label>>
    OBVIOUS
  <2>3. IsList(u) /\ IsList(labels) /\ Len(labels) = Len(u)
    BY <2>1, <2>2, OneElement
  <2>4. PICK s : s = Sends(p, labels, u)
    OBVIOUS
  <2>5. Works(p, bits, label) = s
    BY <1>2, <2>1, <2>2, <2>4 DEF Works
  <2>6. PICK d : d = Receives(v, labels, data)
    OBVIOUS
  <2>7. Follows(d, s, data)
    BY <2>3, <2>4, <2>5, <2>6, ReplaySends
  <2>8. IsChannel(s)
    BY <2>3, <2>4, SendsGrows
  <2>9. Follows(Failed(d), s, data)
    BY <2>7, <2>8, FollowsFailed
  <2>10. ChecksWork(v, bits, label, data) \in {d, Failed(d)}
    BY <1>2, <2>2, <2>6 DEF ChecksWork, Unless
  <2> QED BY <2>5, <2>7, <2>9, <2>10
<1> QED
  BY <1>1, <1>2

-----------------------------------------------------------------------------
(* The sizes of what is sent. *)

LEMMA ParametersAre ==
  ASSUME params \in Parameters
  PROVE  /\ params.widths \in Seq(Nat) /\ params.mask \in Seq(Nat \X Nat)
         /\ params.nInteraction \in Nat /\ params.nBreaks \in Nat
         /\ params.logSize \in Nat /\ params.logTrace \in Nat
         /\ params.friSteps \in Seq(Nat) /\ params.friSteps # <<>>
         /\ params.nQueries \in Nat /\ params.powBits \in Nat
         /\ NLayers \in Nat \ {0} /\ NTraces \in Nat \ {0}
         /\ Len(params.mask) \in Nat
         /\ Widths \in Seq(Nat)
<1>1. /\ params.widths \in Seq(Nat) /\ params.mask \in Seq(Nat \X Nat)
      /\ params.nInteraction \in Nat /\ params.nBreaks \in Nat
      /\ params.logSize \in Nat /\ params.logTrace \in Nat
      /\ params.friSteps \in Seq(Nat) /\ params.friSteps # <<>>
      /\ params.nQueries \in Nat /\ params.powBits \in Nat
  BY ParametersAssumption
<1>2. Widths \in Seq(Nat) /\ Len(Widths) = Len(params.widths) + 1
  BY <1>1 DEF Widths
<1>3. NTraces \in Nat \ {0}
  BY <1>1, <1>2 DEF NTraces
<1>4. NLayers \in Nat \ {0} /\ Len(params.mask) \in Nat
  BY <1>1 DEF NLayers
<1> QED
  BY <1>1, <1>2, <1>3, <1>4

LEMMA SizesAre ==
  ASSUME params \in Parameters
  PROVE  /\ \A l \in 0..(NLayers - 1) : Step(l) \in Nat /\ CosetSize(l) \in Nat \ {0}
         /\ \A t \in 0..(NTraces - 1) : Widths[t + 1] \in Nat
<1>1. params.friSteps \in Seq(Nat) /\ NLayers \in Nat /\ Widths \in Seq(Nat) /\ NTraces \in Nat
  BY ParametersAre
<1>2. ASSUME NEW l \in 0..(NLayers - 1) PROVE Step(l) \in Nat
  <2>1. l + 1 \in 1..Len(params.friSteps)
    BY <1>1 DEF NLayers
  <2> QED BY <2>1, <1>1 DEF Step
<1>3. ASSUME NEW t \in 0..(NTraces - 1) PROVE Widths[t + 1] \in Nat
  <2>1. t + 1 \in 1..Len(Widths)
    BY <1>1 DEF NTraces
  <2> QED BY <2>1, <1>1
<1> QED
  BY <1>2, <1>3, Pow2Is DEF CosetSize

LEMMA FiniteImage ==
  ASSUME NEW f, NEW S, IsFiniteSet(S), f = [x \in S |-> f[x]]
  PROVE  IsFiniteSet({f[x] : x \in S})
<1> DEFINE T == {f[x] : x \in S}
<1>1. f \in Surjection(S, T)
  BY DEF Surjection
<1> QED
  BY <1>1, FS_Surjection

LEMMA FiniteValues ==
  ASSUME NEW s, NEW n \in Nat, s = [i \in 1..n |-> s[i]]
  PROVE  IsFiniteSet(Values(s))
<1>1. IsFiniteSet(1..n)
  BY FS_Interval
<1>2. Values(s) = {s[i] : i \in 1..n}
  BY DEF Values
<1> QED
  BY <1>1, <1>2, FiniteImage

(* The cells of a table that are sent are finitely many. *)
LEMMA FiniteCells ==
  ASSUME NEW data, NEW integrity, IsFiniteSet(data), IsFiniteSet(integrity), NEW width \in Nat
  PROVE  IsFiniteSet(ElementsToBeTransmitted(width, AllQueryRows(data, integrity), integrity))
<1> DEFINE cells == data \union integrity
           rows == AllQueryRows(data, integrity)
           columns == 0..(width - 1)
           f == [cell \in cells |-> cell[1]]
<1>1. IsFiniteSet(cells)
  BY FS_Union
<1>2. rows = {f[x] : x \in cells}
  BY DEF AllQueryRows
<1>3. f = [x \in cells |-> f[x]]
  OBVIOUS
<1>4. IsFiniteSet(columns)
  BY FS_Interval
<1> HIDE DEF f, cells, columns, rows
<1>5. IsFiniteSet(rows)
  BY <1>1, <1>2, <1>3, FiniteImage
<1>6. IsFiniteSet(rows \X columns)
  BY <1>4, <1>5, FS_Product
<1>7. {<<row, col>> : row \in rows, col \in columns} = rows \X columns
  OBVIOUS
<1>8. ElementsToBeTransmitted(width, rows, integrity) \in SUBSET (rows \X columns)
  BY <1>7 DEF ElementsToBeTransmitted, columns
<1>9. IsFiniteSet(ElementsToBeTransmitted(width, rows, integrity))
  BY <1>6, <1>8, FS_Subset
<1> QED
  BY <1>9 DEF rows

LEMMA InOrderIsList ==
  ASSUME NEW cells, IsFiniteSet(cells)
  PROVE  IsList(InOrder(cells)) /\ Len(InOrder(cells)) = Cardinality(cells)
<1>1. Cardinality(cells) \in Nat
  BY FS_CardinalityType
<1> DEFINE cell(k) == CHOOSE c \in cells : Cardinality({d \in cells : Before(d, c)}) = k - 1
<1>2. PICK s : s = InOrder(cells)
  OBVIOUS
<1>3. s = [k \in 1..Cardinality(cells) |-> cell(k)]
  BY <1>2 DEF InOrder
<1> HIDE DEF cell
<1>4. s = [k \in 1..Cardinality(cells) |-> s[k]]
  BY <1>3
<1> QED
  BY <1>1, <1>2, <1>4, IndexedIsList

(* The cells of a trace for any list of queries. *)
LEMMA FiniteTraceQueries ==
  ASSUME params \in Parameters, NEW queries, IsList(queries), NEW t \in 0..(NTraces - 1)
  PROVE  /\ IsList(QueriesToTrace(t, queries))
         /\ IsFiniteSet(Values(QueriesToTrace(t, queries)))
<1>1. PICK mask : mask = SplitMask(OracleMask, Widths)[t]
  OBVIOUS
<1>2. PICK q : q = FirstLayerQueries(queries, CosetSize(0))
  OBVIOUS
<1>3. Len(mask) \in Nat
  <2>1. PICK items : items = {i \in 1..Len(OracleMask) : TraceOf(OracleMask[i], Widths) = t}
    OBVIOUS
  <2>2. Len(OracleMask) \in Nat
    OBVIOUS
  <2>3. IsFiniteSet(1..Len(OracleMask)) /\ items \in SUBSET (1..Len(OracleMask))
    BY <2>1, <2>2, FS_Interval
  <2>4. Cardinality(items) \in Nat
    BY <2>3, FS_Subset, FS_CardinalityType
  <2>5. CountUpTo(t, Len(OracleMask), OracleMask, Widths) = Cardinality(items)
    BY <2>1 DEF CountUpTo
  <2>6. t \in 0..(Len(Widths) - 1)
    BY DEF NTraces
  <2> DEFINE number(u) == CountUpTo(u, Len(OracleMask), OracleMask, Widths)
             item(u, k) == OracleMask[CHOOSE i \in DOMAIN OracleMask :
                                        /\ TraceOf(OracleMask[i], Widths) = u
                                        /\ CountUpTo(u, i, OracleMask, Widths) = k]
             place(u, k) == <<item(u, k)[1], ColumnToTraceColumn(item(u, k)[2], Widths)[2]>>
  <2>7. SplitMask(OracleMask, Widths)
          = [u \in 0..(Len(Widths) - 1) |-> [k \in 1..number(u) |-> place(u, k)]]
    BY DEF SplitMask
  <2> HIDE DEF number, place
  <2>8. mask = [k \in 1..number(t) |-> place(t, k)]
    BY <1>1, <2>6, <2>7
  <2>9. mask = [k \in 1..number(t) |-> mask[k]]
    BY <2>8
  <2>10. number(t) \in Nat
    BY <2>4, <2>5 DEF number
  <2> QED BY <2>9, <2>10, IndexedIsList
<1>4. Len(q) \in Nat
  <2>0. 0 \in 0..(NLayers - 1)
    BY ParametersAre
  <2>1. CosetSize(0) \in Nat /\ Len(queries) \in Nat
    BY <2>0, SizesAre, ListProperties
  <2>2. Len(queries) * CosetSize(0) \in Nat
    BY <2>1
  <2>3. q = [i \in 1..(Len(queries) * CosetSize(0)) |-> q[i]]
    BY <1>2 DEF FirstLayerQueries
  <2> QED BY <2>2, <2>3, IndexedIsList
<1>5. PICK s : s = TraceQueries(q, mask, params.logTrace)
  OBVIOUS
<1>6. Len(q) * Len(mask) \in Nat
  BY <1>3, <1>4
<1>7. s = [i \in 1..(Len(q) * Len(mask)) |-> s[i]]
  BY <1>5 DEF TraceQueries
<1>8. IsList(s) /\ IsFiniteSet(Values(s))
  BY <1>6, <1>7, IndexedIsList, FiniteValues
<1> QED
  BY <1>1, <1>2, <1>5, <1>8 DEF QueriesToTrace

(* And those of a layer. *)
LEMMA FiniteLayerQueries ==
  ASSUME NEW queries, IsList(queries), NEW below, NEW size \in Nat
  PROVE  /\ IsFiniteSet(DataQueries(queries, below, size))
         /\ IsFiniteSet(IntegrityQueries(queries, below, size))
<1> DEFINE V == Values(queries)
           row == [q \in V |-> Row(q \div below, size)]
           cell == [q \in V |-> RowCol(q \div below, size)]
           rows == {row[q] : q \in V}
           columns == 0..(size - 1)
<1>1. IsFiniteSet(V)
  BY ListProperties, FiniteValues
<1>2. row = [q \in V |-> row[q]] /\ cell = [q \in V |-> cell[q]]
  OBVIOUS
<1>3. CosetCells(queries, below, size) = {<<r, c>> : r \in rows, c \in columns}
  BY DEF CosetCells
<1>4. IntegrityQueries(queries, below, size) = {cell[q] : q \in V}
  BY DEF IntegrityQueries
<1>5. IsFiniteSet(columns)
  BY FS_Interval
<1> HIDE DEF V, row, cell, columns
<1>6. IsFiniteSet({cell[q] : q \in V}) /\ IsFiniteSet(rows)
  BY <1>1, <1>2, FiniteImage
<1> HIDE DEF rows
<1>7. {<<r, c>> : r \in rows, c \in columns} = rows \X columns
  OBVIOUS
<1>8. IsFiniteSet(rows \X columns)
  BY <1>5, <1>6, FS_Product
<1>9. DataQueries(queries, below, size) \in SUBSET (rows \X columns)
  BY <1>3, <1>7 DEF DataQueries
<1> QED
  BY <1>4, <1>6, <1>8, <1>9, FS_Subset

-----------------------------------------------------------------------------
(* A channel of the prover on which everything is bound and paid for, and  *)
(* one that it becomes.                                                    *)

Good(c, bits) == Binds(c) /\ (bits > 0 => Costs(c.notes))

Advances(c, d, bits) == Good(d, bits) /\ Grows(c, d)

LEMMA GoodIsChannel ==
  ASSUME NEW c, NEW bits, Good(c, bits)
  PROVE  IsChannel(c)
BY DEF Good, Binds

LEMMA AdvancesOn ==
  ASSUME NEW c, NEW d, NEW e, NEW bits, Good(c, bits), Advances(c, d, bits), Advances(d, e, bits)
  PROVE  Advances(c, e, bits)
BY GoodIsChannel, GrowsOn DEF Advances

LEMMA AdvancesSends ==
  ASSUME NEW c, NEW labels, NEW units, NEW bits, Good(c, bits),
         IsList(labels), IsList(units), Len(units) = Len(labels), OtherLabels(labels)
  PROVE  Advances(c, Sends(c, labels, units), bits)
<1>1. IsChannel(c) /\ Binds(c)
  BY DEF Good, Binds
<1>2. Binds(Sends(c, labels, units))
  BY <1>1, SendsBinds
<1>3. Len(units) <= Len(labels) /\ Len(labels) \in Nat
  BY ListProperties
<1>4. bits > 0 => Costs(Sends(c, labels, units).notes)
  BY <1>1, <1>3, CostsSends DEF Good
<1>5. Grows(c, Sends(c, labels, units))
  BY <1>1, SendsGrows
<1> QED
  BY <1>2, <1>4, <1>5 DEF Advances, Good

LEMMA AdvancesDraws ==
  ASSUME NEW c, NEW labels, NEW bits, Good(c, bits), IsList(labels),
         OtherLabels(labels) \/ (bits > 0 => Worked(c.seed) \/ c.inQuery \/ c.failed)
  PROVE  Advances(c, Draws(c, labels), bits)
<1>1. IsChannel(c) /\ Binds(c)
  BY DEF Good, Binds
<1>2. Binds(Draws(c, labels))
  BY <1>1, DrawsBinds
<1>3. bits > 0 => Costs(Draws(c, labels).notes)
  BY <1>1, CostsDraws DEF Good
<1>4. Grows(c, Draws(c, labels))
  BY <1>1, DrawsGrows
<1> QED
  BY <1>2, <1>3, <1>4 DEF Advances, Good

LEMMA AdvancesItself ==
  ASSUME NEW c, NEW bits, Good(c, bits)
  PROVE  Advances(c, c, bits) /\ Advances(c, Failed(c), bits)
<1>1. IsChannel(c) /\ Binds(c)
  BY DEF Good, Binds
<1>2. Binds(Failed(c)) /\ Failed(c).notes = c.notes /\ Failed(c).units = c.units
  BY <1>1, FailedBinds, FailedIs
<1>3. Grows(c, c)
  BY <1>1, GrowsItself
<1> QED
  BY <1>2, <1>3 DEF Advances, Good, Grows

(* One unit under one label, and one value for one label. *)
LEMMA AdvancesOne ==
  ASSUME NEW c, NEW label, NEW unit, NEW bits, Good(c, bits), label[1] # "FRI/QueryIndices"
  PROVE  /\ Advances(c, Sends(c, <<label>>, <<unit>>), bits)
         /\ Advances(c, Draws(c, <<label>>), bits)
<1>1. PICK labels : labels = <<label>>
  OBVIOUS
<1>2. PICK units : units = <<unit>>
  OBVIOUS
<1>3. /\ IsList(labels) /\ IsList(units) /\ Len(units) = 1 /\ Len(labels) = 1
      /\ labels[1] = label
  BY <1>1, <1>2, OneElement
<1>4. OtherLabels(labels)
  BY <1>3 DEF OtherLabels
<1> QED
  BY <1>1, <1>2, <1>3, <1>4, AdvancesSends, AdvancesDraws

(* The channel's part of choosing the queries. *)
LEMMA AdvancesQueries ==
  ASSUME NEW c, Good(c, params.powBits), params \in Parameters
  PROVE  Advances(c, BeginsQueryPhase(PDrawsQueries(c)), params.powBits)
<1>1. PICK bits : bits = params.powBits
  OBVIOUS
<1>2. PICK labels : labels = QueryLabels
  OBVIOUS
<1>3. bits \in Nat /\ params.nQueries \in Nat
  BY <1>1, ParametersAre
<1>4. IsList(labels)
  <2>1. labels = [i \in 1..params.nQueries |-> labels[i]]
    BY <1>2 DEF QueryLabels
  <2> QED BY <2>1, <1>3, IndexedIsList
<1>5. PICK w : w = Works(c, bits, <<"POW">>)
  OBVIOUS
<1>6. IsChannel(c) /\ Binds(c) /\ (bits > 0 => Costs(c.notes))
  BY <1>1 DEF Good, Binds
<1>7. Good(w, bits) /\ (bits > 0 => Worked(w.seed) \/ w.inQuery \/ w.failed)
  <2>1. PICK label : label = <<"POW">>
    OBVIOUS
  <2>2. label[1] # "FRI/QueryIndices"
    BY <2>1
  <2>3. CASE bits = 0
    BY <1>3, <1>5, <1>6, <2>3 DEF Works, Good
  <2>4. CASE bits # 0
    <3>1. Costs(c.notes)
      BY <1>3, <1>6, <2>4
    <3> QED BY <1>3, <1>5, <1>6, <2>1, <2>2, <3>1, WorksWorks DEF Good
  <2> QED BY <2>3, <2>4
<1>8. Grows(c, w)
  BY <1>5, <1>6, WorksGrows
<1>9. Advances(c, w, bits)
  BY <1>7, <1>8 DEF Advances
<1>10. Advances(w, Draws(w, labels), bits)
  BY <1>4, <1>7, AdvancesDraws
<1>11. PICK d : d = Draws(w, labels)
  OBVIOUS
<1>12. Advances(c, d, bits)
  BY <1>1, <1>9, <1>10, <1>11, AdvancesOn
<1>13. Advances(d, BeginsQueryPhase(d), bits)
  <2>1. IsChannel(d) /\ Binds(d)
    BY <1>12 DEF Advances, Good, Binds
  <2> QED
    BY <2>1, <1>12, BeginsBinds, BeginsIs, BeginsGrows DEF Advances, Good
<1> QED
  BY <1>1, <1>2, <1>5, <1>11, <1>12, <1>13, AdvancesOn DEF PDrawsQueries

(* The cells of a table and its nodes. *)
LEMMA AdvancesDecommits ==
  ASSUME NEW c, NEW bits, Good(c, bits), NEW scope, scope # "FRI/QueryIndices",
         NEW i, NEW table, NEW width \in Nat, NEW data, NEW integrity,
         IsFiniteSet(data), IsFiniteSet(integrity)
  PROVE  Advances(c, Decommits(c, scope, i, table, width, data, integrity), bits)
<1>1. PICK cells :
        cells = InOrder(ElementsToBeTransmitted(width, AllQueryRows(data, integrity), integrity))
  OBVIOUS
<1>2. PICK elements : elements = [k \in DOMAIN cells |-> Content(table, cells[k])]
  OBVIOUS
<1>3. PICK labels : labels = CellLabels(scope, i, cells)
  OBVIOUS
<1>4. IsList(cells)
  BY <1>1, FiniteCells, InOrderIsList
<1>5. Len(cells) \in Nat /\ DOMAIN cells = 1..Len(cells)
  BY <1>4, ListProperties
<1>6. IsList(elements) /\ Len(elements) = Len(cells)
  <2>1. elements = [k \in 1..Len(cells) |-> elements[k]]
    BY <1>2, <1>5
  <2> QED BY <2>1, <1>5, IndexedIsList
<1>7. IsList(labels) /\ Len(labels) = Len(cells) /\ OtherLabels(labels)
  <2>1. /\ labels = [k \in 1..Len(cells) |-> labels[k]]
        /\ \A k \in 1..Len(cells) : labels[k][1] = scope
    BY <1>3, <1>5 DEF CellLabels
  <2>2. IsList(labels) /\ Len(labels) = Len(cells)
    BY <2>1, <1>5, IndexedIsList
  <2> QED BY <2>1, <2>2 DEF OtherLabels
<1>8. PICK d : d = Sends(c, labels, elements)
  OBVIOUS
<1>9. Advances(c, d, bits)
  BY <1>6, <1>7, <1>8, AdvancesSends
<1>10. PICK label : label = <<scope, i>>
  OBVIOUS
<1>11. PICK nodes : nodes = Nodes(table, AllQueryRows(data, integrity))
  OBVIOUS
<1>12. Advances(d, Sends(d, <<label>>, <<nodes>>), bits)
  <2>1. label[1] # "FRI/QueryIndices"
    BY <1>10
  <2>2. Good(d, bits)
    BY <1>9 DEF Advances
  <2> QED BY <2>1, <2>2, AdvancesOne
<1>13. PICK e : e = Sends(d, <<label>>, <<nodes>>)
  OBVIOUS
<1>14. Decommits(c, scope, i, table, width, data, integrity)
          = IF data \intersect integrity # {} THEN Failed(c) ELSE e
  BY <1>1, <1>2, <1>3, <1>8, <1>10, <1>11, <1>13 DEF Decommits
<1>15. Advances(c, e, bits)
  BY <1>9, <1>12, <1>13, AdvancesOn
<1> QED
  BY <1>14, <1>15, AdvancesItself

-----------------------------------------------------------------------------
(* The places of the prover, <<place, loop index, channel>>, and the one   *)
(* that comes after each when nothing fails.                               *)

Places == {"trace", "interaction", "composition", "broken", "oods", "boundary", "layer", "last",
           "queries", "traces", "layers"}

(* Only from here on does the prover use its queries.                      *)
Late == {"traces", "layers"}

IsPlace(s) ==
  /\ s[1] \in Places
  /\ s[1] = "layer" => s[2] \in 1..NLayers
  /\ s[1] = "traces" => s[2] \in 0..(NTraces - 1)
  /\ s[1] = "layers" => s[2] \in 1..NLayers

IsLast(s) == s[1] = "layers" /\ s[2] = NLayers

InteractionLabels == [i \in 1..params.nInteraction |-> <<"Interaction element", i>>]

LayerPoint(l, c) ==
  IF Step(l - 1) = 0 THEN c
                     ELSE Draws(c, << <<"FRI/Commitment/Layer: Evaluation point", l>> >>)

LayerChannel(l, c) ==
  IF l # 1 /\ Step(l - 1) = 0 THEN Failed(c)
  ELSE IF l = NLayers THEN LayerPoint(l, c)
  ELSE Sends(LayerPoint(l, c), << <<"FRI/Commitment/Layer: Commitment", l>> >>,
             << Root(<<"fri", l>>) >>)

TraceData(t) == Values(QueriesToTrace(t, pQueries))
LayerData(l) == DataQueries(pQueries, Pow2[CumulativeStep(l)], CosetSize(l))
LayerIntegrity(l) == IntegrityQueries(pQueries, Pow2[CumulativeStep(l)], CosetSize(l))

NextChannel(at, l, c) ==
  CASE at = "trace" ->
         Sends(c, << <<"Original/Commit on Trace">> >>, << Root(<<"trace", 0>>) >>)
    [] at = "interaction" ->
         Sends(Draws(c, InteractionLabels), << <<"Interaction/Commit on Trace">> >>,
               << Root(<<"trace", 1>>) >>)
    [] at = "composition" -> Draws(c, << <<"Original: Constraint polynomial">> >>)
    [] at = "broken" ->
         Sends(c, << <<"Out Of Domain Sampling/Commit on Trace">> >>,
               << Root(<<"trace", NTraces - 1>>) >>)
    [] at = "oods" ->
         Sends(Draws(c, << <<"OODS values: Evaluation point">> >>), OodsLabels,
               EvalMaskAtPoint \o BrokenEvaluation)
    [] at = "boundary" -> Draws(c, << <<"Out Of Domain Sampling: Constraint polynomial">> >>)
    [] at = "layer" -> LayerChannel(l, c)
    [] at = "last" ->
         Sends(c, << <<"FRI/Commitment/Last Layer: Coefficients">> >>, << <<"coefs">> >>)
    [] at = "queries" -> BeginsQueryPhase(PDrawsQueries(c))
    [] at = "traces" ->
         Decommits(c, "Virtual Oracle/Trace", l, <<"trace", l>>, Widths[l + 1], TraceData(l), {})
    [] at = "layers" ->
         Decommits(c, "FRI/Decommitment/Layer", l, <<"fri", l>>, CosetSize(l),
                   LayerData(l), LayerIntegrity(l))

NextAt(at, l) ==
  CASE at = "trace" -> IF HasInteraction THEN "interaction" ELSE "composition"
    [] at = "interaction" -> "composition"
    [] at = "composition" -> "broken"
    [] at = "broken" -> "oods"
    [] at = "oods" -> "boundary"
    [] at = "boundary" -> "layer"
    [] at = "layer" -> IF l = NLayers THEN "last" ELSE "layer"
    [] at = "last" -> "queries"
    [] at = "queries" -> "traces"
    [] at = "traces" -> IF l + 1 < NTraces THEN "traces" ELSE "layers"
    [] at = "layers" -> "layers"

NextIndex(at, l) ==
  CASE at = "boundary" -> 1
    [] at = "queries" -> 0
    [] at = "traces" -> IF l + 1 < NTraces THEN l + 1 ELSE 1
    [] at \in {"layer", "layers"} -> l + 1
    [] OTHER -> l

After(s) == << NextAt(s[1], s[2]), NextIndex(s[1], s[2]), NextChannel(s[1], s[2], s[3]) >>

LEMMA PlacesGoOn ==
  ASSUME params \in Parameters, NEW s, IsPlace(s), ~IsLast(s)
  PROVE  IsPlace(After(s)) /\ (s[1] \in Late => After(s)[1] \in Late)
<1>1. NTraces \in Nat \ {0} /\ NLayers \in Nat \ {0}
  BY ParametersAre
<1>2. After(s)[1] = NextAt(s[1], s[2]) /\ After(s)[2] = NextIndex(s[1], s[2])
  BY DEF After
<1>3. CASE s[1] = "layer"
  BY <1>1, <1>2, <1>3 DEF IsPlace, NextAt, NextIndex, Places, Late
<1>4. CASE s[1] = "traces"
  BY <1>1, <1>2, <1>4 DEF IsPlace, NextAt, NextIndex, Places, Late
<1>5. CASE s[1] = "layers"
  BY <1>1, <1>2, <1>5 DEF IsPlace, IsLast, NextAt, NextIndex, Places, Late
<1>6. CASE s[1] = "boundary"
  <2>1. After(s)[1] = "layer" /\ After(s)[2] = 1
    BY <1>2, <1>6 DEF NextAt, NextIndex
  <2> QED BY <1>1, <1>6, <2>1 DEF IsPlace, Places, Late
<1>8. CASE s[1] = "queries"
  <2>1. After(s)[1] = "traces" /\ After(s)[2] = 0
    BY <1>2, <1>8 DEF NextAt, NextIndex
  <2> QED BY <1>1, <1>8, <2>1 DEF IsPlace, Places, Late
<1>7. CASE s[1] \in {"trace", "interaction", "composition", "broken", "oods", "last"}
  BY <1>1, <1>2, <1>7 DEF IsPlace, NextAt, NextIndex, Places, Late
<1> QED
  BY <1>3, <1>4, <1>5, <1>6, <1>7, <1>8 DEF IsPlace, Places

(* The values that are sampled and their labels. *)
LEMMA OodsValues ==
  ASSUME params \in Parameters
  PROVE  LET values == EvalMaskAtPoint \o BrokenEvaluation
         IN  /\ IsList(values) /\ IsList(OodsLabels) /\ Len(values) = Len(OodsLabels)
             /\ OtherLabels(OodsLabels)
<1>1. /\ params.mask \in Seq(Nat \X Nat) /\ params.nBreaks \in Nat /\ Len(params.mask) \in Nat
      /\ DOMAIN params.mask = 1..Len(params.mask)
  BY ParametersAre
<1>2. PICK broken : broken = BrokenEvaluation
  OBVIOUS
<1>3. PICK mask : mask = EvalMaskAtPoint
  OBVIOUS
<1>4. IsList(broken) /\ Len(broken) = params.nBreaks
  <2>1. broken = [i \in 1..params.nBreaks |-> broken[i]]
    BY <1>2 DEF BrokenEvaluation
  <2> QED BY <2>1, <1>1, IndexedIsList
<1>5. IsList(mask) /\ Len(mask) = Len(params.mask)
  <2>1. \E values : mask = Reassembled(values, params.mask, params.widths, 0)
    BY <1>3 DEF EvalMaskAtPoint
  <2>2. PICK values : mask = Reassembled(values, params.mask, params.widths, 0)
    BY <2>1
  <2>3. mask = [i \in 1..Len(params.mask) |-> mask[i]]
    BY <2>2, <1>1 DEF Reassembled
  <2> QED BY <2>3, <1>1, IndexedIsList
<1>6. IsList(mask \o broken) /\ Len(mask \o broken) = Len(params.mask) + params.nBreaks
  BY <1>4, <1>5, Joined
<1>7. PICK labels : labels = OodsLabels
  OBVIOUS
<1>8. /\ labels = [i \in 1..(Len(params.mask) + params.nBreaks) |-> labels[i]]
      /\ \A i \in 1..(Len(params.mask) + params.nBreaks) : labels[i][1] = "OODS values"
  BY <1>7 DEF OodsLabels
<1>9. Len(params.mask) + params.nBreaks \in Nat
  BY <1>1
<1>10. IsList(labels) /\ Len(labels) = Len(params.mask) + params.nBreaks
  BY <1>8, <1>9, IndexedIsList
<1>11. OtherLabels(labels)
  BY <1>8, <1>10 DEF OtherLabels
<1> QED
  BY <1>2, <1>3, <1>6, <1>7, <1>10, <1>11

LEMMA InteractionLabelsAre ==
  ASSUME params \in Parameters
  PROVE  IsList(InteractionLabels) /\ OtherLabels(InteractionLabels)
<1>1. PICK labels : labels = InteractionLabels
  OBVIOUS
<1>2. /\ labels = [i \in 1..params.nInteraction |-> labels[i]]
      /\ \A i \in 1..params.nInteraction : labels[i][1] = "Interaction element"
  BY <1>1 DEF InteractionLabels
<1>3. IsList(labels) /\ Len(labels) = params.nInteraction
  <2>1. params.nInteraction \in Nat
    BY ParametersAre
  <2> QED BY <1>2, <2>1, IndexedIsList
<1>4. OtherLabels(labels)
  BY <1>2, <1>3 DEF OtherLabels
<1> QED
  BY <1>1, <1>3, <1>4

(* Whatever the place, the channel stays good. *)
LEMMA ChannelAdvances ==
  ASSUME params \in Parameters, NEW s, IsPlace(s), ~IsLast(s), Good(s[3], params.powBits),
         s[1] \in Late => IsList(pQueries)
  PROVE  Advances(s[3], After(s)[3], params.powBits)
<1>1. PICK at : at = s[1]
  OBVIOUS
<1>2. PICK l : l = s[2]
  OBVIOUS
<1>3. PICK c : c = s[3]
  OBVIOUS
<1>4. PICK bits : bits = params.powBits
  OBVIOUS
<1>5. Good(c, bits)
  BY <1>3, <1>4
<1> SUFFICES Advances(c, NextChannel(at, l, c), bits)
  BY <1>1, <1>2, <1>3, <1>4 DEF After
<1>6. CASE at \in {"trace", "broken", "composition", "boundary", "last"}
  <2>1. ASSUME NEW label, NEW unit, label[1] # "FRI/QueryIndices"
        PROVE  /\ Advances(c, Sends(c, <<label>>, <<unit>>), bits)
               /\ Advances(c, Draws(c, <<label>>), bits)
    BY <1>5, <2>1, AdvancesOne
  <2>2. CASE at = "trace"
    <3>1. Advances(c, Sends(c, << <<"Original/Commit on Trace">> >>, << Root(<<"trace", 0>>) >>), bits)
      BY <2>1
    <3> QED BY <2>2, <3>1 DEF NextChannel
  <2>3. CASE at = "broken"
    <3>1. Advances(c, Sends(c, << <<"Out Of Domain Sampling/Commit on Trace">> >>,
                            << Root(<<"trace", NTraces - 1>>) >>), bits)
      BY <2>1
    <3> QED BY <2>3, <3>1 DEF NextChannel
  <2>4. CASE at = "composition"
    <3>1. Advances(c, Draws(c, << <<"Original: Constraint polynomial">> >>), bits)
      BY <2>1
    <3> QED BY <2>4, <3>1 DEF NextChannel
  <2>5. CASE at = "boundary"
    <3>1. Advances(c, Draws(c, << <<"Out Of Domain Sampling: Constraint polynomial">> >>), bits)
      BY <2>1
    <3> QED BY <2>5, <3>1 DEF NextChannel
  <2>6. CASE at = "last"
    <3>1. Advances(c, Sends(c, << <<"FRI/Commitment/Last Layer: Coefficients">> >>,
                            << <<"coefs">> >>), bits)
      BY <2>1
    <3> QED BY <2>6, <3>1 DEF NextChannel
  <2> QED BY <1>6, <2>2, <2>3, <2>4, <2>5, <2>6
<1>7. CASE at = "interaction"
  <2>1. PICK d : d = Draws(c, InteractionLabels)
    OBVIOUS
  <2>2. Advances(c, d, bits)
    BY <1>5, <2>1, InteractionLabelsAre, AdvancesDraws
  <2>3. Good(d, bits)
    BY <2>2 DEF Advances
  <2>4. Advances(d, Sends(d, << <<"Interaction/Commit on Trace">> >>, << Root(<<"trace", 1>>) >>), bits)
    BY <2>3, AdvancesOne
  <2>5. NextChannel(at, l, c)
          = Sends(d, << <<"Interaction/Commit on Trace">> >>, << Root(<<"trace", 1>>) >>)
    BY <1>7, <2>1 DEF NextChannel
  <2> QED BY <1>5, <2>2, <2>4, <2>5, AdvancesOn
<1>8. CASE at = "oods"
  <2>1. PICK label : label = <<"OODS values: Evaluation point">>
    OBVIOUS
  <2>2. PICK d : d = Draws(c, <<label>>)
    OBVIOUS
  <2>3. Advances(c, d, bits)
    BY <1>5, <2>1, <2>2, AdvancesOne
  <2>4. Good(d, bits)
    BY <2>3 DEF Advances
  <2>5. PICK values : values = EvalMaskAtPoint \o BrokenEvaluation
    OBVIOUS
  <2>6. /\ IsList(values) /\ IsList(OodsLabels) /\ Len(values) = Len(OodsLabels)
        /\ OtherLabels(OodsLabels)
    BY <2>5, OodsValues
  <2>7. Advances(d, Sends(d, OodsLabels, values), bits)
    BY <2>4, <2>6, AdvancesSends
  <2>8. NextChannel(at, l, c) = Sends(d, OodsLabels, values)
    BY <1>8, <2>1, <2>2, <2>5 DEF NextChannel
  <2> QED BY <1>5, <2>3, <2>7, <2>8, AdvancesOn
<1>9. CASE at = "layer"
  <2>1. PICK d : d = LayerPoint(l, c)
    OBVIOUS
  <2>2. Advances(c, d, bits)
    <3>1. PICK label : label = <<"FRI/Commitment/Layer: Evaluation point", l>>
      OBVIOUS
    <3>2. label[1] # "FRI/QueryIndices"
      BY <3>1
    <3>3. Advances(c, Draws(c, <<label>>), bits) /\ Advances(c, c, bits)
      BY <1>5, <3>2, AdvancesOne, AdvancesItself
    <3> QED BY <2>1, <3>1, <3>3 DEF LayerPoint
  <2>3. PICK label : label = <<"FRI/Commitment/Layer: Commitment", l>>
    OBVIOUS
  <2>4. PICK unit : unit = Root(<<"fri", l>>)
    OBVIOUS
  <2>5. label[1] # "FRI/QueryIndices" /\ Good(d, bits)
    BY <2>2, <2>3 DEF Advances
  <2>6. Advances(d, Sends(d, <<label>>, <<unit>>), bits)
    BY <2>5, AdvancesOne
  <2>7. NextChannel(at, l, c) \in {d, Sends(d, <<label>>, <<unit>>), Failed(c)}
    BY <1>9, <2>1, <2>3, <2>4 DEF NextChannel, LayerChannel
  <2>8. Advances(c, Sends(d, <<label>>, <<unit>>), bits)
    BY <1>5, <2>2, <2>6, AdvancesOn
  <2> QED BY <1>5, <2>2, <2>7, <2>8, AdvancesItself
<1>10. CASE at = "queries"
  <2>1. Advances(c, BeginsQueryPhase(PDrawsQueries(c)), bits)
    BY <1>4, <1>5, AdvancesQueries
  <2> QED BY <2>1, <1>10 DEF NextChannel
<1>11. CASE at = "traces"
  <2>1. l \in 0..(NTraces - 1) /\ IsList(pQueries)
    BY <1>1, <1>2, <1>11 DEF IsPlace, Late
  <2>2. IsFiniteSet(TraceData(l)) /\ IsFiniteSet({}) /\ Widths[l + 1] \in Nat
    BY <2>1, FiniteTraceQueries, SizesAre, FS_EmptySet DEF TraceData
  <2>3. Advances(c, Decommits(c, "Virtual Oracle/Trace", l, <<"trace", l>>, Widths[l + 1],
                              TraceData(l), {}), bits)
    BY <1>5, <2>2, AdvancesDecommits
  <2> QED BY <2>3, <1>11 DEF NextChannel
<1>12. CASE at = "layers"
  <2>1. l \in 0..(NLayers - 1) /\ IsList(pQueries)
    <3>1. l \in 1..NLayers /\ l # NLayers
      BY <1>1, <1>2, <1>12 DEF IsPlace, IsLast
    <3>2. IsList(pQueries)
      BY <1>1, <1>12 DEF Late
    <3> QED BY <3>1, <3>2, ParametersAre
  <2>2. CosetSize(l) \in Nat
    BY <2>1, SizesAre
  <2>3. IsFiniteSet(LayerData(l)) /\ IsFiniteSet(LayerIntegrity(l))
    BY <2>1, <2>2, FiniteLayerQueries DEF LayerData, LayerIntegrity
  <2>4. Advances(c, Decommits(c, "FRI/Decommitment/Layer", l, <<"fri", l>>, CosetSize(l),
                              LayerData(l), LayerIntegrity(l)), bits)
    BY <1>5, <2>2, <2>3, AdvancesDecommits
  <2> QED BY <2>4, <1>12 DEF NextChannel
<1> QED
  BY <1>1, <1>6, <1>7, <1>8, <1>9, <1>10, <1>11, <1>12 DEF IsPlace, Places

-----------------------------------------------------------------------------
(* The parameters do not change, nor do the queries once they are chosen.  *)

LEMMA SizesUnchanged ==
  ASSUME UNCHANGED params
  PROVE  /\ NTraces' = NTraces /\ NLayers' = NLayers /\ Widths' = Widths
         /\ HasInteraction' = HasInteraction
         /\ \A l : Step(l)' = Step(l) /\ CosetSize(l)' = CosetSize(l)
         /\ \A l : CumulativeStep(l)' = CumulativeStep(l)
         /\ OracleMask' = OracleMask
BY DEF NTraces, NLayers, Widths, HasInteraction, Step, CosetSize, CumulativeStep, OracleMask

LEMMA SampleUnchanged ==
  ASSUME UNCHANGED params
  PROVE  /\ EvalMaskAtPoint' = EvalMaskAtPoint /\ BrokenEvaluation' = BrokenEvaluation
         /\ OodsLabels' = OodsLabels /\ InteractionLabels' = InteractionLabels
         /\ QueryLabels' = QueryLabels
BY SizesUnchanged DEF EvalMaskAtPoint, BrokenEvaluation, OodsLabels, InteractionLabels, QueryLabels

LEMMA TablesUnchanged ==
  ASSUME UNCHANGED <<params, pQueries, pConstraints>>
  PROVE  /\ \A l : TraceData(l)' = TraceData(l)
         /\ \A l : LayerData(l)' = LayerData(l) /\ LayerIntegrity(l)' = LayerIntegrity(l)
         /\ \A table, cell : Content(table, cell)' = Content(table, cell)
<1>1. \A l : TraceData(l)' = TraceData(l)
  BY SizesUnchanged DEF TraceData, QueriesToTrace
<1>2. \A l : LayerData(l)' = LayerData(l) /\ LayerIntegrity(l)' = LayerIntegrity(l)
  BY SizesUnchanged DEF LayerData, LayerIntegrity
<1>3. \A index : FirstLayerValue(index)' = FirstLayerValue(index)
  BY SizesUnchanged DEF FirstLayerValue
<1>4. \A l, index : FriValue(l, index)' = FriValue(l, index)
  BY <1>3 DEF FriValue
<1>5. \A l, cell : FriCell(l, cell)' = FriCell(l, cell)
  BY <1>4, SizesUnchanged DEF FriCell
<1>6. \A table, cell : Content(table, cell)' = Content(table, cell)
  BY <1>5 DEF Content
<1> QED
  BY <1>1, <1>2, <1>6

LEMMA AfterUnchanged ==
  ASSUME UNCHANGED params, NEW s, s[1] \in Late => UNCHANGED <<pQueries, pConstraints>>
  PROVE  After(s)' = After(s)
<1>0. NTraces' = NTraces /\ NLayers' = NLayers /\ HasInteraction' = HasInteraction
  BY SizesUnchanged
<1>1. NextAt(s[1], s[2])' = NextAt(s[1], s[2])
  BY <1>0 DEF NextAt
<1>2. NextIndex(s[1], s[2])' = NextIndex(s[1], s[2])
  BY <1>0 DEF NextIndex
<1>3. CASE s[1] \in Late
  <2>1. ASSUME NEW c, NEW scope, NEW i, NEW table, NEW width, NEW data, NEW integrity
        PROVE  Decommits(c, scope, i, table, width, data, integrity)'
                 = Decommits(c, scope, i, table, width, data, integrity)
    BY <1>3, TablesUnchanged DEF Decommits
  <2> QED BY <1>1, <1>2, <1>3, <2>1, SizesUnchanged, TablesUnchanged DEF After, NextChannel, Late
<1>4. CASE s[1] = "layer"
  <2>0. Step(s[2] - 1)' = Step(s[2] - 1)
    BY DEF Step
  <2>1. LayerPoint(s[2], s[3])' = LayerPoint(s[2], s[3])
    BY <2>0 DEF LayerPoint
  <2>2. LayerChannel(s[2], s[3])' = LayerChannel(s[2], s[3])
    BY <1>0, <2>0, <2>1 DEF LayerChannel
  <2> QED BY <1>1, <1>2, <1>4, <2>2 DEF After, NextChannel
<1>5. CASE s[1] = "queries"
  <2>1. PDrawsQueries(s[3])' = PDrawsQueries(s[3])
    BY SampleUnchanged DEF PDrawsQueries
  <2> QED BY <1>1, <1>2, <1>5, <2>1 DEF After, NextChannel
<1>6. CASE s[1] \notin {"layer", "queries", "traces", "layers"}
  <2>1. NextChannel(s[1], s[2], s[3])' = NextChannel(s[1], s[2], s[3])
    BY <1>6, SizesUnchanged, SampleUnchanged DEF NextChannel
  <2> QED BY <1>1, <1>2, <2>1 DEF After
<1> QED
  BY <1>3, <1>4, <1>5, <1>6 DEF Late

-----------------------------------------------------------------------------
(* A step of the prover leads to the place after, or it fails.             *)

Here == << IF pAt = "done" THEN "layers" ELSE pAt, pIndex, pChannel >>

QueriesAre(queries) == \E numbers \in QueryValues : queries = Increasing(numbers)

LEMMA QueriesAreAList ==
  ASSUME params \in Parameters, NEW queries, QueriesAre(queries)
  PROVE  IsList(queries)
<1>1. PICK numbers \in QueryValues : queries = Increasing(numbers)
  BY DEF QueriesAre
<1>2. DOMAIN numbers = 1..params.nQueries /\ params.nQueries \in Nat
  BY ParametersAre DEF QueryValues
<1> DEFINE number(k) == CHOOSE v \in Values(numbers) :
                          /\ Cardinality({i \in DOMAIN numbers : numbers[i] < v}) < k
                          /\ k <= Cardinality({i \in DOMAIN numbers : numbers[i] <= v})
<1>3. queries = [k \in 1..params.nQueries |-> number(k)]
  BY <1>1, <1>2 DEF Increasing
<1> HIDE DEF number
<1>4. queries = [k \in 1..params.nQueries |-> queries[k]]
  BY <1>3
<1> QED
  BY <1>2, <1>4, IndexedIsList

Fails == pAt' = "failed" /\ pChannel' \in {Failed(pChannel), After(Here)[3]}

GoesOn == /\ ~pChannel'.failed
          /\ <<pAt', pIndex', pChannel'>> = After(Here)

(* PGo with the channel that comes after, or after a failed assertion.     *)
LEMMA GoIs ==
  ASSUME NEW next, NEW c, PGo(next, c), pAt \in Places,
         \/ c = NextChannel(pAt, pIndex, pChannel) /\ next = NextAt(pAt, pIndex)
         \/ c = Failed(pChannel),
         pIndex' = NextIndex(pAt, pIndex), IsChannel(pChannel)
  PROVE  Fails \/ GoesOn
<1>1. /\ Here[1] = pAt /\ Here[2] = pIndex /\ Here[3] = pChannel
  BY DEF Here, Places
<1>2. After(Here) = << NextAt(pAt, pIndex), NextIndex(pAt, pIndex),
                       NextChannel(pAt, pIndex, pChannel) >>
  BY <1>1 DEF After
<1>3. pChannel' = c /\ pAt' = IF c.failed THEN "failed" ELSE next
  BY DEF PGo
<1>4. CASE c = Failed(pChannel)
  BY <1>3, <1>4, FailedIs DEF Fails
<1>5. CASE c = NextChannel(pAt, pIndex, pChannel) /\ next = NextAt(pAt, pIndex)
  <2>1. After(Here)[3] = c
    BY <1>2, <1>5
  <2>2. CASE c.failed
    BY <1>3, <2>1, <2>2 DEF Fails
  <2>3. CASE ~c.failed
    BY <1>2, <1>3, <1>5, <2>3 DEF GoesOn
  <2> QED BY <2>2, <2>3
<1> QED
  BY <1>4, <1>5

LEMMA ProverSteps ==
  ASSUME Prover, params \in Parameters, IsChannel(pChannel)
  PROVE  /\ pAt \in Places /\ ~IsLast(Here)
         /\ UNCHANGED <<params, proof, vvars>>
         /\ Fails \/ GoesOn
         /\ pAt \in Late => UNCHANGED <<pQueries, pConstraints>>
         /\ pAt' \in Late => pAt \in Late \/ QueriesAre(pQueries')
<1> USE DEF Places, Late
<1>1. CASE PCommitOnTrace
  <2>1. pAt = "trace" /\ UNCHANGED <<pIndex, pQueries, pConstraints>>
    BY <1>1 DEF PCommitOnTrace
  <2>2. PGo(NextAt(pAt, pIndex), NextChannel(pAt, pIndex, pChannel))
    BY <1>1, <2>1 DEF PCommitOnTrace, NextAt, NextChannel
  <2>3. pIndex' = NextIndex(pAt, pIndex) /\ NextAt(pAt, pIndex) \notin Late
    BY <2>1 DEF NextIndex, NextAt
  <2>4. Fails \/ GoesOn
    BY <2>1, <2>2, <2>3, GoIs
  <2> QED BY <2>1, <2>2, <2>3, <2>4 DEF PGo, Here, IsLast
<1>2. CASE PInteraction
  <2>1. pAt = "interaction" /\ UNCHANGED <<pIndex, pQueries, pConstraints>>
    BY <1>2 DEF PInteraction
  <2>2. PGo(NextAt(pAt, pIndex), NextChannel(pAt, pIndex, pChannel))
    BY <1>2, <2>1 DEF PInteraction, NextAt, NextChannel, InteractionLabels
  <2>3. pIndex' = NextIndex(pAt, pIndex) /\ NextAt(pAt, pIndex) \notin Late
    BY <2>1 DEF NextIndex, NextAt
  <2>4. Fails \/ GoesOn
    BY <2>1, <2>2, <2>3, GoIs
  <2> QED BY <2>1, <2>2, <2>3, <2>4 DEF PGo, Here, IsLast
<1>3. CASE PCreateComposition
  <2>1. pAt = "composition" /\ UNCHANGED <<pIndex, pQueries, pConstraints>>
    BY <1>3 DEF PCreateComposition
  <2>2. PGo(NextAt(pAt, pIndex), NextChannel(pAt, pIndex, pChannel))
    BY <1>3, <2>1 DEF PCreateComposition, NextAt, NextChannel
  <2>3. pIndex' = NextIndex(pAt, pIndex) /\ NextAt(pAt, pIndex) \notin Late
    BY <2>1 DEF NextIndex, NextAt
  <2>4. Fails \/ GoesOn
    BY <2>1, <2>2, <2>3, GoIs
  <2> QED BY <2>1, <2>2, <2>3, <2>4 DEF PGo, Here, IsLast
<1>4. CASE PCommitOnBroken
  <2>1. pAt = "broken" /\ UNCHANGED <<pIndex, pQueries, pConstraints>>
    BY <1>4 DEF PCommitOnBroken
  <2>2. PGo(NextAt(pAt, pIndex), NextChannel(pAt, pIndex, pChannel))
    BY <1>4, <2>1 DEF PCommitOnBroken, NextAt, NextChannel
  <2>3. pIndex' = NextIndex(pAt, pIndex) /\ NextAt(pAt, pIndex) \notin Late
    BY <2>1 DEF NextIndex, NextAt
  <2>4. Fails \/ GoesOn
    BY <2>1, <2>2, <2>3, GoIs
  <2> QED BY <2>1, <2>2, <2>3, <2>4 DEF PGo, Here, IsLast
<1>5. CASE ProveOods
  <2>1. pAt = "oods" /\ UNCHANGED <<pIndex, pQueries>>
    BY <1>5 DEF ProveOods
  <2>2. PGo(NextAt(pAt, pIndex), NextChannel(pAt, pIndex, pChannel))
    BY <1>5, <2>1 DEF ProveOods, NextAt, NextChannel
  <2>3. pIndex' = NextIndex(pAt, pIndex) /\ NextAt(pAt, pIndex) \notin Late
    BY <2>1 DEF NextIndex, NextAt
  <2>4. Fails \/ GoesOn
    BY <2>1, <2>2, <2>3, GoIs
  <2> QED BY <2>1, <2>2, <2>3, <2>4 DEF PGo, Here, IsLast
<1>6. CASE PCreateBoundary
  <2>1. pAt = "boundary" /\ pIndex' = 1 /\ UNCHANGED <<pQueries, pConstraints>>
    BY <1>6 DEF PCreateBoundary
  <2>2. PGo(NextAt(pAt, pIndex), NextChannel(pAt, pIndex, pChannel))
    BY <1>6, <2>1 DEF PCreateBoundary, NextAt, NextChannel
  <2>3. pIndex' = NextIndex(pAt, pIndex) /\ NextAt(pAt, pIndex) \notin Late
    BY <2>1 DEF NextIndex, NextAt
  <2>4. Fails \/ GoesOn
    BY <2>1, <2>2, <2>3, GoIs
  <2> QED BY <2>1, <2>2, <2>3, <2>4 DEF PGo, Here, IsLast
<1>7. CASE PLayer
  <2>1. /\ pAt = "layer" /\ pIndex' = pIndex + 1 /\ UNCHANGED <<pQueries, pConstraints>>
        /\ UNCHANGED <<params, proof, vvars>>
    BY <1>7 DEF PLayer, PGo
  <2>2. NextChannel(pAt, pIndex, pChannel) = LayerChannel(pIndex, pChannel)
    BY <2>1 DEF NextChannel
  <2>3. NextAt(pAt, pIndex) = IF pIndex = NLayers THEN "last" ELSE "layer"
    BY <2>1 DEF NextAt
  <2>4. PGo(NextAt(pAt, pIndex), LayerChannel(pIndex, pChannel))
    BY <1>7, <2>3 DEF PLayer, LayerChannel, LayerPoint
  <2>5. pIndex' = NextIndex(pAt, pIndex) /\ NextAt(pAt, pIndex) \notin Late
    BY <2>1, <2>3 DEF NextIndex
  <2>6. Fails \/ GoesOn
    BY <2>1, <2>2, <2>4, <2>5, GoIs
  <2>7. pAt' \notin Late
    BY <2>4, <2>5 DEF PGo
  <2> QED BY <2>1, <2>6, <2>7 DEF Here, IsLast
<1>8. CASE SendLastLayer
  <2>1. /\ pAt = "last" /\ UNCHANGED <<pIndex, pQueries, pConstraints>>
        /\ UNCHANGED <<params, proof, vvars>>
    BY <1>8 DEF SendLastLayer, PGo
  <2>2. NextAt(pAt, pIndex) = "queries"
    BY <2>1 DEF NextAt
  <2>3. PICK c \in {NextChannel(pAt, pIndex, pChannel), Failed(pChannel)} : PGo("queries", c)
    BY <1>8, <2>1 DEF SendLastLayer, NextChannel
  <2>4. pIndex' = NextIndex(pAt, pIndex)
    BY <2>1 DEF NextIndex
  <2>5. Fails \/ GoesOn
    BY <2>1, <2>2, <2>3, <2>4, GoIs
  <2>6. pAt' \notin Late
    BY <2>3 DEF PGo
  <2> QED BY <2>1, <2>5, <2>6 DEF Here, IsLast
<1>9. CASE PChooseQueries
  <2>1. /\ pAt = "queries" /\ pIndex' = 0 /\ UNCHANGED pConstraints
        /\ UNCHANGED <<params, proof, vvars>>
        /\ QueriesAre(pQueries')
    BY <1>9 DEF PChooseQueries, PGo, QueriesAre
  <2>2. PGo(NextAt(pAt, pIndex), NextChannel(pAt, pIndex, pChannel))
    BY <1>9, <2>1 DEF PChooseQueries, NextAt, NextChannel
  <2>3. pIndex' = NextIndex(pAt, pIndex)
    BY <2>1 DEF NextIndex
  <2>4. Fails \/ GoesOn
    BY <2>1, <2>2, <2>3, GoIs
  <2> QED BY <2>1, <2>4 DEF Here, IsLast
<1>10. CASE PDecommitTrace
  <2>1. /\ pAt = "traces" /\ UNCHANGED <<pQueries, pConstraints>>
        /\ UNCHANGED <<params, proof, vvars>>
        /\ pIndex' = IF pIndex + 1 < NTraces THEN pIndex + 1 ELSE 1
    BY <1>10 DEF PDecommitTrace, PGo
  <2>2. NextAt(pAt, pIndex) = IF pIndex + 1 < NTraces THEN "traces" ELSE "layers"
    BY <2>1 DEF NextAt
  <2>3. NextChannel(pAt, pIndex, pChannel)
          = Decommits(pChannel, "Virtual Oracle/Trace", pIndex, <<"trace", pIndex>>,
                      Widths[pIndex + 1], TraceData(pIndex), {})
    BY <2>1 DEF NextChannel
  <2>4. PICK c \in {NextChannel(pAt, pIndex, pChannel), Failed(pChannel)} :
          PGo(NextAt(pAt, pIndex), c)
    BY <1>10, <2>2, <2>3 DEF PDecommitTrace, TraceData
  <2>5. pIndex' = NextIndex(pAt, pIndex)
    BY <2>1 DEF NextIndex
  <2>6. Fails \/ GoesOn
    BY <2>1, <2>4, <2>5, GoIs
  <2> QED BY <2>1, <2>6 DEF Here, IsLast
<1>11. CASE PDecommitLayer
  <2>1. /\ pAt = "layers" /\ pIndex < NLayers /\ UNCHANGED <<pQueries, pConstraints>>
        /\ UNCHANGED <<params, proof, vvars>>
        /\ pIndex' = pIndex + 1
    BY <1>11 DEF PDecommitLayer, PGo
  <2>2. NextAt(pAt, pIndex) = "layers"
    BY <2>1 DEF NextAt
  <2>3. NextChannel(pAt, pIndex, pChannel)
          = Decommits(pChannel, "FRI/Decommitment/Layer", pIndex, <<"fri", pIndex>>,
                      CosetSize(pIndex), LayerData(pIndex), LayerIntegrity(pIndex))
    BY <2>1 DEF NextChannel
  <2>4. PGo(NextAt(pAt, pIndex), NextChannel(pAt, pIndex, pChannel))
    BY <1>11, <2>2, <2>3 DEF PDecommitLayer, LayerData, LayerIntegrity
  <2>5. pIndex' = NextIndex(pAt, pIndex)
    BY <2>1 DEF NextIndex
  <2>6. Fails \/ GoesOn
    BY <2>1, <2>4, <2>5, GoIs
  <2>7. NLayers \in Nat
    BY ParametersAre
  <2> QED BY <2>1, <2>6, <2>7 DEF Here, IsLast
<1> QED
  BY <1>1, <1>2, <1>3, <1>4, <1>5, <1>6, <1>7, <1>8, <1>9, <1>10, <1>11 DEF Prover

-----------------------------------------------------------------------------
(* The prover's run as the set of the places it went through: each but the *)
(* last has the one after it in the set.                                   *)

OnTheWay(s) ==
  /\ IsPlace(s)
  /\ Good(s[3], params.powBits) /\ ~s[3].failed
  /\ Grows(s[3], pChannel)
  /\ s[1] \in Late => Here[1] \in Late

IsRun(S) ==
  /\ << "trace", 0, NewChannel >> \in S
  /\ Here \in S
  /\ \A s \in S : OnTheWay(s)
  /\ \A s \in S : s = Here \/ (~IsLast(s) /\ After(s) \in S)

LEMMA RunGoesOn ==
  ASSUME NEW S, IsRun(S), Prover, GoesOn, params \in Parameters,
         IsChannel(pChannel), pAt \in Late => QueriesAre(pQueries)
  PROVE  \E T : IsRun(T)'
<1>1. PICK next : next = After(Here)
  OBVIOUS
<1>2. PICK T : T = S \union {next}
  OBVIOUS
<1>3. PICK here : here = Here
  OBVIOUS
<1>4. /\ pAt \in Places /\ ~IsLast(here)
      /\ UNCHANGED params
      /\ pAt \in Late => UNCHANGED <<pQueries, pConstraints>>
  BY <1>3, ProverSteps
<1>5. here[1] = pAt /\ here[2] = pIndex /\ here[3] = pChannel
  BY <1>3, <1>4 DEF Here, Places
<1>6. here \in S /\ OnTheWay(here)
  BY <1>3 DEF IsRun
<1>7. IsPlace(next) /\ (here[1] \in Late => next[1] \in Late)
  BY <1>1, <1>3, <1>4, <1>6, PlacesGoOn DEF OnTheWay
<1>8. Here' = next
  <2>1. <<pAt', pIndex', pChannel'>> = next
    BY <1>1 DEF GoesOn
  <2>2. pAt' = next[1]
    BY <2>1
  <2>3. pAt' # "done"
    BY <2>2, <1>7 DEF IsPlace, Places
  <2> QED BY <2>1, <2>3 DEF Here
<1>9. pChannel' = next[3] /\ ~next[3].failed
  BY <1>1 DEF GoesOn
<1>10. Advances(here[3], next[3], params.powBits)
  <2>1. here[1] \in Late => IsList(pQueries)
    BY <1>5, QueriesAreAList
  <2> QED BY <1>1, <1>3, <1>4, <1>6, <2>1, ChannelAdvances DEF OnTheWay
<1>11. Good(next[3], params.powBits) /\ Grows(pChannel, pChannel') /\ IsChannel(pChannel')
  BY <1>5, <1>9, <1>10, GoodIsChannel DEF Advances
<1>12. ASSUME NEW s, IsPlace(s) PROVE IsPlace(s)'
  BY <1>4, <1>12, SizesUnchanged DEF IsPlace
<1>13. ASSUME NEW s \in S PROVE OnTheWay(s)'
  <2>1. OnTheWay(s)
    BY DEF IsRun
  <2>2. IsPlace(s)'
    BY <2>1, <1>12 DEF OnTheWay
  <2>3. Good(s[3], params'.powBits) /\ ~s[3].failed
    BY <2>1, <1>4 DEF OnTheWay
  <2>4. Grows(s[3], pChannel')
    BY <2>1, <1>11, GoodIsChannel, GrowsOn DEF OnTheWay
  <2>5. s[1] \in Late => (Here')[1] \in Late
    BY <2>1, <1>3, <1>7, <1>8 DEF OnTheWay
  <2> QED BY <2>2, <2>3, <2>4, <2>5 DEF OnTheWay
<1>14. OnTheWay(next)'
  <2>1. IsPlace(next)'
    BY <1>7, <1>12
  <2>2. Good(next[3], params'.powBits) /\ ~next[3].failed
    BY <1>4, <1>9, <1>11
  <2>3. Grows(next[3], pChannel')
    BY <1>9, <1>11, GrowsItself
  <2> QED BY <2>1, <2>2, <2>3, <1>8 DEF OnTheWay
<1>15. ASSUME NEW s \in S PROVE ~IsLast(s)' /\ After(s)' \in T
  <2>1. OnTheWay(s) /\ (s = here \/ (~IsLast(s) /\ After(s) \in S))
    BY <1>3 DEF IsRun
  <2>2. ~IsLast(s)
    BY <2>1, <1>4
  <2>3. ~IsLast(s)'
    BY <2>2, <1>4, SizesUnchanged DEF IsLast
  <2>4. s[1] \in Late => UNCHANGED <<pQueries, pConstraints>>
    BY <2>1, <1>3, <1>4, <1>5 DEF OnTheWay
  <2>5. After(s)' = After(s)
    BY <2>4, <1>4, AfterUnchanged
  <2>6. After(s) \in T
    BY <2>1, <1>1, <1>2, <1>3
  <2> QED BY <2>3, <2>5, <2>6
<1>16. << "trace", 0, NewChannel >> \in T
  BY <1>2 DEF IsRun
<1>17. Here' \in T
  BY <1>2, <1>8
<1>18. \A s \in T : OnTheWay(s)'
  BY <1>2, <1>13, <1>14
<1>19. \A s \in T : s = Here' \/ (~IsLast(s)' /\ After(s)' \in T)
  BY <1>2, <1>8, <1>15
<1>20. IsRun(T)'
  BY <1>16, <1>17, <1>18, <1>19 DEF IsRun
<1> QED
  BY <1>20

LEMMA RunStays ==
  ASSUME NEW S, IsRun(S), UNCHANGED <<params, pIndex, pQueries, pChannel, pConstraints>>,
         Here' = Here
  PROVE  IsRun(S)'
<1>1. ASSUME NEW s \in S PROVE OnTheWay(s)'
  <2>1. OnTheWay(s)
    BY DEF IsRun
  <2>2. IsPlace(s)'
    BY <2>1, SizesUnchanged DEF OnTheWay, IsPlace
  <2> QED BY <2>1, <2>2 DEF OnTheWay
<1>2. ASSUME NEW s \in S PROVE s = Here' \/ (~IsLast(s)' /\ After(s)' \in S)
  <2>1. s = Here \/ (~IsLast(s) /\ After(s) \in S)
    BY DEF IsRun
  <2>2. After(s)' = After(s)
    BY AfterUnchanged
  <2>3. IsLast(s)' <=> IsLast(s)
    BY SizesUnchanged DEF IsLast
  <2> QED BY <2>1, <2>2, <2>3
<1>3. << "trace", 0, NewChannel >> \in S /\ Here' \in S
  BY DEF IsRun
<1> QED
  BY <1>1, <1>2, <1>3 DEF IsRun

-----------------------------------------------------------------------------
(* The verifier at a place of the prover's run goes to the place after.    *)

Reading == {"trace", "interaction", "composition", "broken", "oods", "boundary", "layer", "last",
            "queries", "traces", "inner"}

(* Where the verifier has done what the prover had done at s.              *)
Stands(s) ==
  /\ s[1] = IF vAt = "inner" THEN "layers" ELSE vAt
  /\ vAt \in {"layer", "inner"} => vIndex = s[2] - 1
  /\ vAt = "traces" => vIndex = s[2]
  /\ vAt \in {"traces", "inner"} => vQueries = pQueries

Reads(s) == s[3] = vChannel /\ Within(vChannel, proof) /\ Stands(s)

(* What is known of a place s of the run and the next one, t, when the     *)
(* verifier has a proof that the prover has written or its beginning.      *)
Between(s, t) ==
  /\ params \in Parameters
  /\ IsPlace(s) /\ IsChannel(s[3]) /\ ~s[3].failed
  /\ t = After(s) /\ IsChannel(t[3]) /\ ~t[3].failed
  /\ IsPrefix(t[3].units, pChannel.units) /\ IsPrefix(t[3].notes, pChannel.notes)
  /\ IsList(pChannel.units) /\ IsList(pChannel.notes) /\ IsList(proof)
  /\ IsPrefix(proof, pChannel.units)
  /\ QueriesAre(pQueries)
  /\ Reads(s)

(* What a step of the verifier leads to.                                   *)
ReadsOn(t) ==
  /\ UNCHANGED <<params, pvars, proof>>
  /\ \/ /\ vAt' \in {"rejected", "crashed"}
        /\ IsList(vChannel'.notes) /\ IsPrefix(vChannel'.notes, pChannel.notes)
     \/ vAt' \in Reading /\ Reads(t)'

LEMMA VGoIs ==
  ASSUME NEW s, NEW t, Between(s, t), NEW next, NEW c, VGo(next, c), Follows(c, t[3], proof),
         next \in Reading,
         t[1] = IF next = "inner" THEN "layers" ELSE next,
         next \in {"layer", "inner"} => vIndex' = t[2] - 1,
         next = "traces" => vIndex' = t[2],
         (next \in {"traces", "inner"} /\ ~c.failed) => vQueries' = pQueries
  PROVE  ReadsOn(t)
<1>1. /\ vAt' = (IF c.failed THEN "rejected" ELSE next) /\ vChannel' = c
      /\ UNCHANGED <<params, pvars, proof>>
  BY DEF VGo
<1>2. IsChannel(t[3]) /\ ~t[3].failed /\ IsPrefix(t[3].notes, pChannel.notes)
      /\ IsList(pChannel.notes)
  BY DEF Between
<1>3. CASE c.failed
  <2>1. IsChannel(c) /\ IsPrefix(c.notes, t[3].notes)
    BY <1>2, <1>3 DEF Follows
  <2>2. IsList(c.notes) /\ IsPrefix(c.notes, pChannel.notes)
    BY <1>2, <2>1, PrefixOfPrefix DEF IsChannel
  <2> QED BY <1>1, <1>3, <2>2 DEF ReadsOn
<1>4. CASE ~c.failed
  <2>1. c = t[3] /\ Within(t[3], proof)
    BY <1>4 DEF Follows
  <2>2. vAt' = next /\ proof' = proof /\ pQueries' = pQueries
    BY <1>1, <1>4 DEF pvars
  <2>3. Stands(t)'
    BY <2>2, <1>4 DEF Stands
  <2>4. Reads(t)'
    BY <1>1, <2>1, <2>2, <2>3 DEF Reads
  <2> QED BY <1>1, <2>2, <2>4 DEF ReadsOn
<1> QED
  BY <1>3, <1>4

(* Receiving what was sent last.                                           *)
LEMMA FollowsSent ==
  ASSUME NEW v, NEW p, NEW labels, NEW units, Follows(v, p, proof), IsChannel(p),
         IsList(labels), IsList(units), Len(labels) = Len(units),
         IsList(pChannel.units), IsList(proof), IsPrefix(proof, pChannel.units),
         NEW q, q = Sends(p, labels, units), ~q.failed, IsPrefix(q.units, pChannel.units)
  PROVE  Follows(Receives(v, labels, proof), q, proof)
<1>1. ~p.failed
  BY SendsGrows
<1> QED
  BY <1>1, ReplaySends

LEMMA FollowsOneSent ==
  ASSUME NEW v, NEW p, NEW label, NEW unit, Follows(v, p, proof), IsChannel(p),
         IsList(pChannel.units), IsList(proof), IsPrefix(proof, pChannel.units),
         NEW q, q = Sends(p, <<label>>, <<unit>>), ~q.failed, IsPrefix(q.units, pChannel.units)
  PROVE  Follows(Receives(v, <<label>>, proof), q, proof)
<1>1. PICK labels : labels = <<label>>
  OBVIOUS
<1>2. PICK units : units = <<unit>>
  OBVIOUS
<1>3. IsList(labels) /\ IsList(units) /\ Len(labels) = Len(units)
  BY <1>1, <1>2, OneElement
<1> QED
  BY <1>1, <1>2, <1>3, FollowsSent

LEMMA FollowsOneDrawn ==
  ASSUME NEW v, NEW p, NEW label, Follows(v, p, proof), IsChannel(p)
  PROVE  Follows(Draws(v, <<label>>), Draws(p, <<label>>), proof) /\ IsChannel(Draws(p, <<label>>))
<1>1. PICK labels : labels = <<label>>
  OBVIOUS
<1>2. IsList(labels)
  BY <1>1, OneElement
<1> QED
  BY <1>1, <1>2, ReplayDraws, DrawsGrows

LEMMA ReadsFollows ==
  ASSUME NEW s, NEW t, Between(s, t)
  PROVE  /\ Follows(vChannel, s[3], proof) /\ IsChannel(s[3])
         /\ t[3] = NextChannel(s[1], s[2], s[3])
         /\ t[1] = NextAt(s[1], s[2]) /\ t[2] = NextIndex(s[1], s[2])
BY DEF Between, Reads, Follows, After

LEMMA ReadsTrace ==
  ASSUME NEW s, NEW t, Between(s, t), VReadTraceCommitment
  PROVE  ReadsOn(t)
<1>1. s[1] = "trace"
  BY DEF Between, Reads, Stands, VReadTraceCommitment
<1>2. t[3] = Sends(s[3], << <<"Original/Commit on Trace">> >>, << Root(<<"trace", 0>>) >>)
  BY <1>1, ReadsFollows DEF NextChannel
<1>3. Follows(Receives(vChannel, << <<"Original/Commit on Trace">> >>, proof), t[3], proof)
  BY <1>2, ReadsFollows, FollowsOneSent DEF Between
<1>4. t[1] = IF HasInteraction THEN "interaction" ELSE "composition"
  BY <1>1, ReadsFollows DEF NextAt
<1> QED
  BY <1>3, <1>4, VGoIs DEF VReadTraceCommitment, Reading

LEMMA ReadsInteraction ==
  ASSUME NEW s, NEW t, Between(s, t), VInteraction
  PROVE  ReadsOn(t)
<1>1. s[1] = "interaction"
  BY DEF Between, Reads, Stands, VInteraction
<1>2. PICK q : q = Draws(s[3], InteractionLabels)
  OBVIOUS
<1>3. t[3] = Sends(q, << <<"Interaction/Commit on Trace">> >>, << Root(<<"trace", 1>>) >>)
  BY <1>1, <1>2, ReadsFollows DEF NextChannel
<1>4. IsList(InteractionLabels)
  BY InteractionLabelsAre DEF Between
<1>5. Follows(Draws(vChannel, InteractionLabels), q, proof) /\ IsChannel(q)
  BY <1>2, <1>4, ReadsFollows, ReplayDraws, DrawsGrows
<1>6. PICK d : d = Draws(vChannel, InteractionLabels)
  OBVIOUS
<1>7. Follows(Receives(d, << <<"Interaction/Commit on Trace">> >>, proof), t[3], proof)
  BY <1>3, <1>5, <1>6, FollowsOneSent DEF Between
<1>8. t[1] = "composition"
  BY <1>1, ReadsFollows DEF NextAt
<1>9. VGo("composition", Receives(d, << <<"Interaction/Commit on Trace">> >>, proof))
  BY <1>6 DEF VInteraction, InteractionLabels
<1> QED
  BY <1>7, <1>8, <1>9, VGoIs DEF Reading

LEMMA ReadsComposition ==
  ASSUME NEW s, NEW t, Between(s, t), VCreateComposition
  PROVE  ReadsOn(t)
<1>1. s[1] = "composition"
  BY DEF Between, Reads, Stands, VCreateComposition
<1>2. t[3] = Draws(s[3], << <<"Original: Constraint polynomial">> >>)
  BY <1>1, ReadsFollows DEF NextChannel
<1>3. Follows(Draws(vChannel, << <<"Original: Constraint polynomial">> >>), t[3], proof)
  BY <1>2, ReadsFollows, FollowsOneDrawn
<1>4. t[1] = "broken"
  BY <1>1, ReadsFollows DEF NextAt
<1> QED
  BY <1>3, <1>4, VGoIs DEF VCreateComposition, Reading

LEMMA ReadsBroken ==
  ASSUME NEW s, NEW t, Between(s, t), VReadBrokenCommitment
  PROVE  ReadsOn(t)
<1>1. s[1] = "broken"
  BY DEF Between, Reads, Stands, VReadBrokenCommitment
<1>2. t[3] = Sends(s[3], << <<"Out Of Domain Sampling/Commit on Trace">> >>,
                   << Root(<<"trace", NTraces - 1>>) >>)
  BY <1>1, ReadsFollows DEF NextChannel
<1>3. Follows(Receives(vChannel, << <<"Out Of Domain Sampling/Commit on Trace">> >>, proof),
              t[3], proof)
  BY <1>2, ReadsFollows, FollowsOneSent DEF Between
<1>4. t[1] = "oods"
  BY <1>1, ReadsFollows DEF NextAt
<1> QED
  BY <1>3, <1>4, VGoIs DEF VReadBrokenCommitment, Reading

LEMMA ReadsOods ==
  ASSUME NEW s, NEW t, Between(s, t), VerifyOods
  PROVE  ReadsOn(t)
<1>1. s[1] = "oods"
  BY DEF Between, Reads, Stands, VerifyOods
<1>2. PICK label : label = <<"OODS values: Evaluation point">>
  OBVIOUS
<1>3. PICK q : q = Draws(s[3], <<label>>)
  OBVIOUS
<1>4. PICK d : d = Draws(vChannel, <<label>>)
  OBVIOUS
<1>5. PICK values : values = EvalMaskAtPoint \o BrokenEvaluation
  OBVIOUS
<1>6. t[3] = Sends(q, OodsLabels, values)
  BY <1>1, <1>2, <1>3, <1>5, ReadsFollows DEF NextChannel
<1>7. Follows(d, q, proof) /\ IsChannel(q)
  BY <1>3, <1>4, ReadsFollows, FollowsOneDrawn
<1>8. IsList(values) /\ IsList(OodsLabels) /\ Len(values) = Len(OodsLabels)
  BY <1>5, OodsValues DEF Between
<1>9. PICK c : c = Receives(d, OodsLabels, proof)
  OBVIOUS
<1>10. Follows(c, t[3], proof)
  BY <1>6, <1>7, <1>8, <1>9, FollowsSent DEF Between
<1>11. Follows(Failed(c), t[3], proof)
  BY <1>10, FollowsFailed DEF Between
<1>12. PICK e \in {c, Failed(c)} : VGo("boundary", e)
  BY <1>2, <1>4, <1>9 DEF VerifyOods, Unless
<1>13. t[1] = "boundary"
  BY <1>1, ReadsFollows DEF NextAt
<1> QED
  BY <1>10, <1>11, <1>12, <1>13, VGoIs DEF Reading

LEMMA ReadsBoundary ==
  ASSUME NEW s, NEW t, Between(s, t), VCreateBoundary
  PROVE  ReadsOn(t)
<1>1. s[1] = "boundary"
  BY DEF Between, Reads, Stands, VCreateBoundary
<1>2. t[3] = Draws(s[3], << <<"Out Of Domain Sampling: Constraint polynomial">> >>)
  BY <1>1, ReadsFollows DEF NextChannel
<1>3. Follows(Draws(vChannel, << <<"Out Of Domain Sampling: Constraint polynomial">> >>),
              t[3], proof)
  BY <1>2, ReadsFollows, FollowsOneDrawn
<1>4. t[1] = "layer" /\ t[2] = 1
  BY <1>1, ReadsFollows DEF NextAt, NextIndex
<1>5. vIndex' = t[2] - 1
  <2>1. vIndex' = 0
    BY DEF VCreateBoundary
  <2>2. t[2] - 1 = 0
    BY <1>4
  <2> QED BY <2>1, <2>2
<1> QED
  BY <1>3, <1>4, <1>5, VGoIs DEF VCreateBoundary, Reading

LEMMA ReadsLastLayer ==
  ASSUME NEW s, NEW t, Between(s, t), ReadLastLayerCoefficients
  PROVE  ReadsOn(t)
<1>1. s[1] = "last"
  BY DEF Between, Reads, Stands, ReadLastLayerCoefficients
<1>2. t[3] = Sends(s[3], << <<"FRI/Commitment/Last Layer: Coefficients">> >>, << <<"coefs">> >>)
  BY <1>1, ReadsFollows DEF NextChannel
<1>3. Follows(Receives(vChannel, << <<"FRI/Commitment/Last Layer: Coefficients">> >>, proof),
              t[3], proof)
  BY <1>2, ReadsFollows, FollowsOneSent DEF Between
<1>4. t[1] = "queries"
  BY <1>1, ReadsFollows DEF NextAt
<1> QED
  BY <1>3, <1>4, VGoIs DEF ReadLastLayerCoefficients, Reading

(* A round of the commitment phase of FRI: both draw a point unless it is  *)
(* the first round with a step of zero.                                    *)
LEMMA ReadsLayer ==
  ASSUME NEW s, NEW t, Between(s, t), VLayer
  PROVE  ReadsOn(t)
<1>1. s[1] = "layer" /\ vIndex = s[2] - 1
  BY DEF Between, Reads, Stands, VLayer
<1>2. s[2] \in 1..NLayers /\ NLayers \in Nat
  BY <1>1, ParametersAre DEF Between, IsPlace
<1>3. PICK l \in 1..NLayers : l = s[2]
  BY <1>2
<1>4. t[3] = LayerChannel(l, s[3])
  BY <1>1, <1>3, ReadsFollows DEF NextChannel
<1>5. l = 1 \/ Step(l - 1) # 0
  <2>1. ~t[3].failed /\ Failed(s[3]).failed
    BY FailedIs DEF Between
  <2> QED BY <1>4, <2>1 DEF LayerChannel
<1>6. PICK p : p = LayerPoint(l, s[3])
  OBVIOUS
<1>7. PICK label : label = <<"FRI/Commitment/Layer: Evaluation point", l>>
  OBVIOUS
<1>8. PICK d : d = IF VDrawsPoint(vIndex) THEN Draws(vChannel, <<label>>) ELSE vChannel
  OBVIOUS
<1>9. VDrawsPoint(vIndex) <=> Step(l - 1) # 0
  <2>1. vIndex = l - 1 /\ (vIndex # 0 <=> l # 1)
    BY <1>1, <1>2, <1>3
  <2>2. CASE l = 1
    <3>1. l - 1 = 0 /\ vIndex = 0
      BY <2>1, <2>2
    <3> QED BY <3>1 DEF VDrawsPoint
  <2>3. CASE l # 1
    BY <2>1, <2>3, <1>2, <1>3, <1>5 DEF VDrawsPoint
  <2> QED BY <2>2, <2>3
<1>10. Follows(d, p, proof) /\ IsChannel(p)
  <2>1. /\ Follows(Draws(vChannel, <<label>>), Draws(s[3], <<label>>), proof)
        /\ IsChannel(Draws(s[3], <<label>>))
    BY ReadsFollows, FollowsOneDrawn
  <2> QED BY <1>6, <1>7, <1>8, <1>9, <2>1, ReadsFollows DEF LayerPoint
<1>11. PICK label2 : label2 = <<"FRI/Commitment/Layer: Commitment", l>>
  OBVIOUS
<1>12. PICK unit : unit = Root(<<"fri", l>>)
  OBVIOUS
<1>13. t[3] = IF l = NLayers THEN p ELSE Sends(p, <<label2>>, <<unit>>)
  BY <1>4, <1>5, <1>6, <1>11, <1>12 DEF LayerChannel
<1>14. vIndex + 1 = l /\ (vIndex < NLayers - 1 <=> l # NLayers)
  BY <1>1, <1>2, <1>3
<1>15. PICK c : c = IF l = NLayers THEN d ELSE Receives(d, <<label2>>, proof)
  OBVIOUS
<1>16. Follows(c, t[3], proof)
  <2>1. CASE l = NLayers
    BY <2>1, <1>10, <1>13, <1>15
  <2>2. CASE l # NLayers
    <3>1. t[3] = Sends(p, <<label2>>, <<unit>>) /\ c = Receives(d, <<label2>>, proof)
      BY <2>2, <1>13, <1>15
    <3> QED BY <3>1, <1>10, FollowsOneSent DEF Between
  <2> QED BY <2>1, <2>2
<1>17. VGo(IF l = NLayers THEN "last" ELSE "layer", c) /\ vIndex' = l
  BY <1>7, <1>8, <1>11, <1>14, <1>15 DEF VLayer
<1>18. t[1] = (IF l = NLayers THEN "last" ELSE "layer") /\ t[2] = l + 1
  BY <1>1, <1>3, ReadsFollows DEF NextAt, NextIndex
<1>19. vIndex' = t[2] - 1
  BY <1>17, <1>18
<1> QED
  BY <1>16, <1>17, <1>18, <1>19, VGoIs DEF Reading

(* The work and the queries.  Where the verifier's stream is the prover's, *)
(* so are the queries.                                                     *)
LEMMA ReadsQueries ==
  ASSUME NEW s, NEW t, Between(s, t), VChooseQueries
  PROVE  ReadsOn(t)
<1>1. s[1] = "queries"
  BY DEF Between, Reads, Stands, VChooseQueries
<1>2. PICK w : w = Works(s[3], params.powBits, <<"POW">>)
  OBVIOUS
<1>3. PICK worked : worked = ChecksWork(vChannel, params.powBits, <<"POW">>, proof)
  OBVIOUS
<1>4. PICK labels : labels = QueryLabels
  OBVIOUS
<1>5. PICK d : d = Draws(w, labels)
  OBVIOUS
<1>6. t[3] = BeginsQueryPhase(d)
  BY <1>1, <1>2, <1>4, <1>5, ReadsFollows DEF NextChannel, PDrawsQueries
<1>7. IsChannel(w) /\ Grows(s[3], w)
  BY <1>2, ReadsFollows, WorksGrows
<1>8. params.nQueries \in Nat
  BY ParametersAre DEF Between
<1>9. /\ IsList(labels) /\ Len(labels) = params.nQueries
      /\ \A i \in 1..params.nQueries : labels[i] = <<"FRI/QueryIndices", i>>
  <2>1. /\ labels = [i \in 1..params.nQueries |-> labels[i]]
        /\ \A i \in 1..params.nQueries : labels[i] = <<"FRI/QueryIndices", i>>
    BY <1>4 DEF QueryLabels
  <2> QED BY <2>1, <1>8, IndexedIsList
<1>10. IsChannel(d) /\ Grows(w, d) /\ (w.failed => d.failed)
  BY <1>5, <1>7, <1>9, DrawsGrows
<1>11. /\ IsChannel(t[3]) /\ t[3].units = d.units /\ t[3].notes = d.notes
       /\ t[3].failed = d.failed
  BY <1>6, <1>10, BeginsIs
<1>12. ~d.failed /\ ~w.failed
  BY <1>10, <1>11 DEF Between
<1>13. Follows(worked, w, proof)
  <2>1. IsPrefix(w.units, t[3].units)
    BY <1>10, <1>11 DEF Grows
  <2>2. IsPrefix(w.units, pChannel.units)
    BY <2>1, <1>7, <1>11, PrefixOfPrefix DEF Between, IsChannel
  <2> QED BY <2>2, <1>2, <1>3, ReadsFollows, ReplayWork DEF Between
<1>14. PICK c : c = Draws(worked, labels)
  OBVIOUS
<1>15. Follows(c, d, proof)
  BY <1>5, <1>7, <1>9, <1>13, <1>14, ReplayDraws
<1>16. Follows(BeginsQueryPhase(c), t[3], proof)
  <2>1. CASE c = d /\ Within(d, proof)
    <3>1. Within(t[3], proof)
      BY <2>1, <1>11 DEF Within
    <3> QED BY <2>1, <3>1, <1>6 DEF Follows
  <2>2. CASE c.failed /\ IsChannel(c) /\ IsPrefix(c.notes, d.notes)
    <3>1. /\ IsChannel(BeginsQueryPhase(c)) /\ BeginsQueryPhase(c).failed
          /\ BeginsQueryPhase(c).notes = c.notes
      BY <2>2, BeginsIs
    <3> QED BY <2>2, <3>1, <1>11 DEF Follows
  <2> QED BY <2>1, <2>2, <1>15 DEF Follows
<1>17. /\ VGo("traces", BeginsQueryPhase(c)) /\ vIndex' = 0
       /\ \E numbers \in QueryValues : vQueries' = Increasing(numbers)
       /\ SameStream(worked) => vQueries' = pQueries
  BY <1>3, <1>4, <1>14 DEF VChooseQueries
<1>18. ASSUME ~BeginsQueryPhase(c).failed PROVE vQueries' = pQueries
  <2>1. ~worked.failed
    <3>1. CASE worked.failed
      <4>1. c = worked
        BY <3>1, <1>14, DrawsIs
      <4>2. IsChannel(worked)
        BY <1>13, <1>7 DEF Follows
      <4>3. BeginsQueryPhase(c).failed = c.failed
        BY <4>1, <4>2, BeginsIs
      <4> QED BY <1>18, <3>1, <4>1, <4>3
    <3> QED BY <3>1
  <2>2. worked = w
    BY <2>1, <1>13 DEF Follows
  <2>3. CASE params.nQueries = 0
    <3>1. PICK mine \in QueryValues : vQueries' = Increasing(mine)
      BY <1>17
    <3>2. PICK theirs \in QueryValues : pQueries = Increasing(theirs)
      BY DEF Between, QueriesAre
    <3>3. mine = theirs
      BY <2>3 DEF QueryValues
    <3> QED BY <3>1, <3>2, <3>3
  <2>4. CASE params.nQueries # 0
    <3>1. 1 \in 1..params.nQueries /\ 1 \in 1..Len(labels)
      BY <2>4, <1>8, <1>9
    <3>2. PICK more : more = DrawnNotes(w, labels)
      OBVIOUS
    <3>3. IsList(more) /\ Len(more) = Len(labels) /\ more[1] = Note("V->P", labels[1], Random(w, 1 - 1))
      BY <3>1, <3>2, <1>9, DrawnNotesAre
    <3>4. labels # <<>>
      BY <3>1
    <3>5. d = Drawn(w, labels)
      <4>1. ~w.inQuery
        BY <3>4, <1>5, <1>7, <1>12, DrawsIs, FailedIs
      <4> QED BY <4>1, <1>5, <1>12, DrawsIs
    <3>6. d.notes = w.notes \o more
      BY <3>2, <3>5, <1>7, <1>9, DrawnIs
    <3>7. IsList(w.notes) /\ IsList(d.notes) /\ Len(w.notes) \in Nat
      BY <1>7, <1>10, ListProperties DEF IsChannel
    <3>8. PICK k : k = Len(w.notes) + 1
      OBVIOUS
    <3>9. k \in 1..Len(d.notes) /\ d.notes[k] = more[1]
      <4>1. /\ Len(w.notes \o more) = Len(w.notes) + Len(more)
            /\ (w.notes \o more)[Len(w.notes) + 1] = more[1]
        BY <3>1, <3>3, <3>7, Joined
      <4>2. Len(more) \in Nat /\ Len(more) >= 1
        BY <3>1, <3>3, ListProperties
      <4> QED BY <4>1, <4>2, <3>6, <3>7, <3>8
    <3>10. IsPrefix(d.notes, pChannel.notes) /\ IsList(pChannel.notes)
      BY <1>11 DEF Between
    <3>11. Len(d.notes) <= Len(pChannel.notes) /\ pChannel.notes[k] = d.notes[k]
      BY <3>7, <3>9, <3>10, PrefixIs
    <3>12. k \in DOMAIN pChannel.notes
      <4>1. Len(pChannel.notes) \in Nat /\ DOMAIN pChannel.notes = 1..Len(pChannel.notes)
        BY <3>10, ListProperties
      <4>2. Len(d.notes) \in Nat
        BY <3>7, ListProperties
      <4> QED BY <4>1, <4>2, <3>9, <3>11
    <3>13. /\ pChannel.notes[k].label = <<"FRI/QueryIndices", 1>>
           /\ pChannel.notes[k].value = Random(w, 0)
      <4>1. labels[1] = <<"FRI/QueryIndices", 1>> /\ 1 - 1 = 0
        BY <3>1, <1>9
      <4> QED BY <4>1, <3>3, <3>9, <3>11 DEF Note
    <3>14. SameStream(worked)
      BY <2>2, <3>12, <3>13 DEF SameStream
    <3> QED BY <3>14, <1>17
  <2> QED BY <2>3, <2>4
<1>19. t[1] = "traces" /\ t[2] = 0
  BY <1>1, ReadsFollows DEF NextAt, NextIndex
<1> QED
  BY <1>16, <1>17, <1>18, <1>19, VGoIs DEF Reading

(* A table that was decommitted is read: first its cells, then the nodes.  *)
LEMMA FollowsOnFailed ==
  ASSUME NEW v, NEW p, NEW q, Follows(v, p, proof), v.failed, ~p.failed,
         IsChannel(p), IsChannel(q), Grows(p, q)
  PROVE  Follows(v, q, proof)
BY FollowsOn DEF Follows

LEMMA FollowsDecommitted ==
  ASSUME NEW v, NEW p, Follows(v, p, proof), IsChannel(p),
         NEW scope, NEW i, NEW table, NEW width \in Nat, NEW data, NEW integrity,
         IsFiniteSet(data), IsFiniteSet(integrity),
         NEW q, q = Decommits(p, scope, i, table, width, data, integrity),
         ~q.failed, IsPrefix(q.units, pChannel.units), IsChannel(q),
         IsList(pChannel.units), IsList(proof), IsPrefix(proof, pChannel.units),
         NEW cells,
         cells = InOrder(ElementsToBeTransmitted(width, AllQueryRows(data, integrity), integrity)),
         NEW c, c = ReadsCells(v, scope, i, cells)
  PROVE  /\ IsChannel(c) /\ IsPrefix(c.notes, q.notes)
         /\ \A rowsData : Follows(VerifiesDecommitment(c, scope, i, table, width, rowsData), q, proof)
         /\ c.failed => Follows(c, q, proof)
<1>2. PICK elements : elements = [k \in DOMAIN cells |-> Content(table, cells[k])]
  OBVIOUS
<1>3. PICK labels : labels = CellLabels(scope, i, cells)
  OBVIOUS
<1>4. IsList(cells)
  BY FiniteCells, InOrderIsList
<1>5. Len(cells) \in Nat /\ DOMAIN cells = 1..Len(cells)
  BY <1>4, ListProperties
<1>6. IsList(elements) /\ Len(elements) = Len(cells)
  <2>1. elements = [k \in 1..Len(cells) |-> elements[k]]
    BY <1>2, <1>5
  <2> QED BY <2>1, <1>5, IndexedIsList
<1>7. IsList(labels) /\ Len(labels) = Len(cells)
  <2>1. labels = [k \in 1..Len(cells) |-> labels[k]]
    BY <1>3, <1>5 DEF CellLabels
  <2> QED BY <2>1, <1>5, IndexedIsList
<1>8. PICK m : m = Sends(p, labels, elements)
  OBVIOUS
<1>9. PICK label : label = <<scope, i>>
  OBVIOUS
<1>10. PICK nodes : nodes = Nodes(table, AllQueryRows(data, integrity))
  OBVIOUS
<1>11. q = Sends(m, <<label>>, <<nodes>>)
  <2>1. q = IF data \intersect integrity # {} THEN Failed(p) ELSE Sends(m, <<label>>, <<nodes>>)
    BY <1>2, <1>3, <1>8, <1>9, <1>10 DEF Decommits
  <2>2. Failed(p).failed
    BY FailedIs
  <2> QED BY <2>1, <2>2
<1>12. IsChannel(m)
  BY <1>6, <1>8, SendsGrows
<1>13. Grows(m, q) /\ ~m.failed
  <2>1. PICK last : last = <<nodes>>
    OBVIOUS
  <2>2. IsList(last)
    BY <2>1, OneElement
  <2> QED BY <1>11, <1>12, <2>1, <2>2, SendsGrows
<1>14. IsPrefix(m.units, pChannel.units)
  <2>1. IsPrefix(m.units, q.units)
    BY <1>13 DEF Grows
  <2> QED BY <2>1, <1>12, PrefixOfPrefix DEF IsChannel
<1>15. c = Receives(v, labels, proof)
  BY <1>3 DEF ReadsCells
<1>16. Follows(c, m, proof)
  BY <1>6, <1>7, <1>8, <1>13, <1>14, <1>15, FollowsSent
<1>17. c.failed => Follows(c, q, proof)
  BY <1>12, <1>13, <1>16, FollowsOnFailed
<1>18. Follows(Failed(c), q, proof)
  <2>1. IsChannel(c)
    BY <1>12, <1>16 DEF Follows
  <2>2. Failed(c).failed
    BY <2>1, FailedIs
  <2>3. Follows(Failed(c), m, proof)
    BY <1>12, <1>16, FollowsFailed
  <2> QED BY <2>2, <2>3, <1>12, <1>13, FollowsOnFailed
<1>19. IsChannel(c) /\ IsPrefix(c.notes, q.notes)
  <2>1. IsChannel(c) /\ IsPrefix(c.notes, m.notes)
    BY <1>12, <1>16, PrefixOfItself DEF Follows, IsChannel
  <2>2. IsPrefix(m.notes, q.notes)
    BY <1>13 DEF Grows
  <2> QED BY <2>1, <2>2, <1>12, PrefixOfPrefix DEF IsChannel
<1>20. PICK d : d = Receives(c, <<label>>, proof)
  OBVIOUS
<1>21. Follows(d, q, proof) /\ Follows(Failed(d), q, proof)
  BY <1>11, <1>12, <1>16, <1>20, FollowsOneSent, FollowsFailed
<1>22. ASSUME NEW rowsData
       PROVE  Follows(VerifiesDecommitment(c, scope, i, table, width, rowsData), q, proof)
  <2>1. ASSUME NEW rows PROVE VerifiesIntegrity(c, scope, i, table, rows) \in {d, Failed(d)}
    BY <1>9, <1>20 DEF VerifiesIntegrity, Unless
  <2>2. PICK e : e = VerifiesDecommitment(c, scope, i, table, width, rowsData)
    OBVIOUS
  <2>3. (e = c /\ c.failed) \/ e = Failed(c) \/ e \in {d, Failed(d)}
    BY <2>1, <2>2 DEF VerifiesDecommitment, Unless
  <2> QED BY <2>2, <2>3, <1>17, <1>18, <1>21
<1> QED
  BY <1>17, <1>19, <1>22

LEMMA ReadsTraceCells ==
  ASSUME NEW s, NEW t, Between(s, t), VVerifyTrace
  PROVE  ReadsOn(t)
<1>1. s[1] = "traces" /\ vIndex = s[2] /\ vQueries = pQueries
  BY DEF Between, Reads, Stands, VVerifyTrace
<1>2. vIndex \in 0..(NTraces - 1) /\ NTraces \in Nat
  BY <1>1, ParametersAre DEF Between, IsPlace
<1>3. IsList(pQueries)
  BY QueriesAreAList DEF Between
<1>4. t[3] = Decommits(s[3], "Virtual Oracle/Trace", vIndex, <<"trace", vIndex>>,
                       Widths[vIndex + 1], TraceData(vIndex), {})
  BY <1>1, ReadsFollows DEF NextChannel
<1>5. PICK cells : cells = InOrder(ElementsToBeTransmitted(Widths[vIndex + 1],
                                     AllQueryRows(TraceData(vIndex), {}), {}))
  OBVIOUS
<1>6. PICK c : c = ReadsCells(vChannel, "Virtual Oracle/Trace", vIndex, cells)
  OBVIOUS
<1>7. IsFiniteSet(TraceData(vIndex)) /\ IsFiniteSet({}) /\ Widths[vIndex + 1] \in Nat
  BY <1>2, <1>3, FiniteTraceQueries, SizesAre, FS_EmptySet DEF TraceData, Between
<1>8. /\ \A rowsData : Follows(VerifiesDecommitment(c, "Virtual Oracle/Trace", vIndex,
                                 <<"trace", vIndex>>, Widths[vIndex + 1], rowsData), t[3], proof)
      /\ c.failed => Follows(c, t[3], proof)
  <2>1. Follows(vChannel, s[3], proof) /\ IsChannel(s[3])
    BY ReadsFollows
  <2>2. /\ ~t[3].failed /\ IsPrefix(t[3].units, pChannel.units) /\ IsChannel(t[3])
        /\ IsList(pChannel.units) /\ IsList(proof) /\ IsPrefix(proof, pChannel.units)
    BY DEF Between
  <2> QED BY <2>1, <2>2, <1>4, <1>5, <1>6, <1>7, FollowsDecommitted
<1>9. PICK answers : answers = Answers(c, cells)
  OBVIOUS
<1>10. PICK verified : verified = VerifiesDecommitment(c, "Virtual Oracle/Trace", vIndex,
                                    <<"trace", vIndex>>, Widths[vIndex + 1], answers)
  OBVIOUS
<1>11. PICK e : e = IF c.failed THEN c ELSE verified
  OBVIOUS
<1>12. Follows(e, t[3], proof)
  BY <1>8, <1>10, <1>11
<1>13. PICK next : next = IF vIndex + 1 = NTraces THEN "inner" ELSE "traces"
  OBVIOUS
<1>14. /\ VGo(next, e)
       /\ vIndex' = (IF vIndex + 1 = NTraces THEN 0 ELSE vIndex + 1)
       /\ vQueries' = vQueries
  BY <1>1, <1>5, <1>6, <1>9, <1>10, <1>11, <1>13 DEF VVerifyTrace, TraceData, Unless
<1>15. vIndex + 1 < NTraces <=> vIndex + 1 # NTraces
  BY <1>2
<1>16. /\ t[1] = (IF vIndex + 1 = NTraces THEN "layers" ELSE "traces")
       /\ t[2] = (IF vIndex + 1 = NTraces THEN 1 ELSE vIndex + 1)
  BY <1>1, <1>15, ReadsFollows DEF NextAt, NextIndex
<1>17. CASE vIndex + 1 = NTraces
  <2>1. next = "inner" /\ vIndex' = 0 /\ t[1] = "layers" /\ t[2] = 1
    BY <1>13, <1>14, <1>16, <1>17
  <2>2. vIndex' = t[2] - 1
    BY <2>1
  <2> QED BY <1>1, <1>12, <1>14, <2>1, <2>2, VGoIs DEF Reading
<1>18. CASE vIndex + 1 # NTraces
  <2>1. next = "traces" /\ vIndex' = t[2] /\ t[1] = "traces"
    BY <1>13, <1>14, <1>16, <1>18
  <2> QED BY <1>1, <1>12, <1>14, <2>1, VGoIs DEF Reading
<1> QED
  BY <1>17, <1>18

LEMMA ReadsLayerCells ==
  ASSUME NEW s, NEW t, Between(s, t), VVerifyLayer
  PROVE  ReadsOn(t)
<1>1. /\ s[1] = "layers" /\ vIndex = s[2] - 1 /\ vQueries = pQueries /\ vAt = "inner"
      /\ vIndex < NLayers - 1
  BY DEF Between, Reads, Stands, VVerifyLayer
<1>2. s[2] \in 1..NLayers /\ NLayers \in Nat
  BY <1>1, ParametersAre DEF Between, IsPlace
<1>3. PICK l \in 1..(NLayers - 1) : l = s[2] /\ l = vIndex + 1 /\ vIndex = l - 1
  BY <1>1, <1>2
<1>4. t[3] = Decommits(s[3], "FRI/Decommitment/Layer", l, <<"fri", l>>, CosetSize(l),
                       LayerData(l), LayerIntegrity(l))
  <2>1. t[3] = NextChannel("layers", l, s[3])
    BY <1>1, <1>3, ReadsFollows
  <2> QED BY ONLY <2>1 DEF NextChannel
<1>5. PICK cells : cells = InOrder(ElementsToBeTransmitted(CosetSize(l),
                                     AllQueryRows(LayerData(l), LayerIntegrity(l)),
                                     LayerIntegrity(l)))
  OBVIOUS
<1>6. PICK c : c = ReadsCells(vChannel, "FRI/Decommitment/Layer", l, cells)
  OBVIOUS
<1>7. IsFiniteSet(LayerData(l)) /\ IsFiniteSet(LayerIntegrity(l)) /\ CosetSize(l) \in Nat
  <2>1. CosetSize(l) \in Nat
    BY <1>2, SizesAre DEF Between
  <2>2. IsList(pQueries)
    BY QueriesAreAList DEF Between
  <2> QED BY <2>1, <2>2, FiniteLayerQueries DEF LayerData, LayerIntegrity
<1>8. /\ IsChannel(c) /\ IsPrefix(c.notes, t[3].notes)
      /\ \A rowsData : Follows(VerifiesDecommitment(c, "FRI/Decommitment/Layer", l,
                                 <<"fri", l>>, CosetSize(l), rowsData), t[3], proof)
      /\ c.failed => Follows(c, t[3], proof)
  <2>1. Follows(vChannel, s[3], proof) /\ IsChannel(s[3])
    BY ReadsFollows
  <2>2. /\ ~t[3].failed /\ IsPrefix(t[3].units, pChannel.units) /\ IsChannel(t[3])
        /\ IsList(pChannel.units) /\ IsList(proof) /\ IsPrefix(proof, pChannel.units)
    BY DEF Between
  <2> QED BY <2>1, <2>2, <1>4, <1>5, <1>6, <1>7, FollowsDecommitted
<1>9. LayerData(l) \intersect LayerIntegrity(l) = {}
  BY DEF LayerData, LayerIntegrity, DataQueries
<1>10. /\ \/ \E rowsData :
               VGo("inner", IF c.failed THEN c
                            ELSE VerifiesDecommitment(c, "FRI/Decommitment/Layer", l,
                                   <<"fri", l>>, CosetSize(l), rowsData))
          \/ VGo("crashed", c) /\ ~c.failed
       /\ vIndex' = l /\ vQueries' = vQueries
  BY <1>1, <1>3, <1>5, <1>6, <1>9 DEF VVerifyLayer, LayerData, LayerIntegrity, Unless
<1>11. t[1] = "layers" /\ t[2] = l + 1
  BY <1>1, <1>3, ReadsFollows DEF NextAt, NextIndex
<1>12. CASE VGo("crashed", c) /\ ~c.failed
  <2>1. UNCHANGED <<params, pvars, proof>> /\ vAt' = "crashed" /\ vChannel' = c
    BY <1>12 DEF VGo
  <2>2. IsList(c.notes) /\ IsPrefix(c.notes, pChannel.notes)
    BY <1>8, PrefixOfPrefix DEF Between, IsChannel
  <2> QED BY <2>1, <2>2 DEF ReadsOn
<1>13. CASE ~(VGo("crashed", c) /\ ~c.failed)
  <2>1. PICK rowsData : VGo("inner", IF c.failed THEN c
                            ELSE VerifiesDecommitment(c, "FRI/Decommitment/Layer", l,
                                   <<"fri", l>>, CosetSize(l), rowsData))
    BY <1>10, <1>13
  <2>2. PICK e : e = IF c.failed THEN c
                     ELSE VerifiesDecommitment(c, "FRI/Decommitment/Layer", l,
                            <<"fri", l>>, CosetSize(l), rowsData)
    OBVIOUS
  <2>3. Follows(e, t[3], proof)
    BY <1>8, <2>2
  <2>4. VGo("inner", e) /\ vIndex' = t[2] - 1 /\ vQueries' = pQueries
    BY <1>1, <1>3, <1>10, <1>11, <2>1, <2>2
  <2> QED BY <1>11, <2>3, <2>4, VGoIs DEF Reading
<1> QED
  BY <1>12, <1>13

-----------------------------------------------------------------------------
(* The inductive invariant.                                                *)

Inv ==
  /\ params \in Parameters
  /\ Good(pChannel, params.powBits)
  /\ pAt \in Places \union {"failed", "done"}
  /\ pAt = "done" => pIndex = NLayers
  /\ pAt \in Late \union {"done"} => QueriesAre(pQueries)
  /\ pAt # "done" => vAt = "waits" /\ proof = <<>>
  /\ IsList(proof) /\ IsPrefix(proof, pChannel.units)
  /\ vAt \in Reading \union {"waits", "rejected", "crashed", "accepted"}
  /\ vAt = "waits" => vChannel = NewChannel
  /\ vAt \in {"rejected", "crashed"} =>
       IsList(vChannel.notes) /\ IsPrefix(vChannel.notes, pChannel.notes)
  /\ vAt = "accepted" => vChannel = pChannel /\ Within(vChannel, proof)
  /\ pAt # "failed" => \E S : IsRun(S) /\ (vAt \in Reading => \E s \in S : Reads(s))

LEMMA InvInit == Init => Inv
<1> SUFFICES ASSUME Init PROVE Inv
  OBVIOUS
<1>1. /\ params \in Parameters
      /\ pAt = "trace" /\ pIndex = 0 /\ pChannel = NewChannel
      /\ proof = <<>> /\ vAt = "waits" /\ vChannel = NewChannel
  BY DEF Init
<1>2. Binds(NewChannel) /\ IsChannel(NewChannel)
  BY NewBinds, NewIsChannel
<1>3. NewChannel.notes = <<>> /\ NewChannel.units = <<>> /\ ~NewChannel.failed
  BY DEF NewChannel
<1>4. Costs(NewChannel.notes)
  BY <1>3 DEF Costs
<1>5. Good(NewChannel, params.powBits)
  BY <1>2, <1>4 DEF Good
<1>6. IsList(proof) /\ IsPrefix(proof, pChannel.units)
  BY <1>1, <1>3, EmptyList, PrefixOfItself
<1>7. PICK here : here = << "trace", 0, NewChannel >>
  OBVIOUS
<1>8. Here = here
  BY <1>1, <1>7 DEF Here
<1>9. OnTheWay(here)
  <2>1. IsPlace(here)
    BY <1>7 DEF IsPlace, Places
  <2>2. here[1] \notin Late
    BY <1>7 DEF Late
  <2>3. here[3] = NewChannel
    BY <1>7
  <2>4. Grows(NewChannel, NewChannel)
    BY <1>2, GrowsItself
  <2> QED BY <1>1, <1>3, <1>5, <2>1, <2>2, <2>3, <2>4 DEF OnTheWay
<1>10. IsRun({here})
  BY <1>7, <1>8, <1>9 DEF IsRun
<1>11. vAt \notin Reading
  BY <1>1 DEF Reading
<1>12. \E S : IsRun(S) /\ (vAt \in Reading => \E s \in S : Reads(s))
  BY <1>10, <1>11
<1> QED
  BY <1>1, <1>5, <1>6, <1>11, <1>12 DEF Inv, Places, Late

LEMMA InvProver ==
  ASSUME Inv, Prover
  PROVE  Inv'
<1>1. /\ params \in Parameters /\ Good(pChannel, params.powBits) /\ IsChannel(pChannel)
      /\ proof = <<>> /\ vAt = "waits" /\ vChannel = NewChannel
      /\ pAt \in Places /\ ~IsLast(Here)
      /\ UNCHANGED <<params, proof, vvars>>
      /\ Fails \/ GoesOn
      /\ pAt \in Late => UNCHANGED <<pQueries, pConstraints>>
      /\ pAt' \in Late => pAt \in Late \/ QueriesAre(pQueries')
  <2>1. params \in Parameters /\ Good(pChannel, params.powBits) /\ IsChannel(pChannel)
    BY GoodIsChannel DEF Inv
  <2>2. /\ pAt \in Places /\ ~IsLast(Here)
        /\ UNCHANGED <<params, proof, vvars>>
        /\ Fails \/ GoesOn
        /\ pAt \in Late => UNCHANGED <<pQueries, pConstraints>>
        /\ pAt' \in Late => pAt \in Late \/ QueriesAre(pQueries')
    BY <2>1, ProverSteps
  <2>3. proof = <<>> /\ vAt = "waits" /\ vChannel = NewChannel
    BY <2>2 DEF Inv, Places
  <2> QED BY <2>1, <2>2, <2>3
<1>2. PICK S : IsRun(S)
  BY <1>1 DEF Inv, Places
<1>3. PICK here : here = Here
  OBVIOUS
<1>4. here[1] = pAt /\ here[2] = pIndex /\ here[3] = pChannel
  BY <1>1, <1>3 DEF Here, Places
<1>5. OnTheWay(here)
  BY <1>2, <1>3 DEF IsRun
<1>6. pAt \in Late => QueriesAre(pQueries)
  BY DEF Inv
<1>7. Advances(pChannel, After(here)[3], params.powBits)
  <2>1. here[1] \in Late => IsList(pQueries)
    BY <1>1, <1>4, <1>6, QueriesAreAList
  <2> QED BY <1>1, <1>3, <1>4, <1>5, <2>1, ChannelAdvances DEF OnTheWay
<1>8. PICK next : next = After(here)
  OBVIOUS
<1>9. Good(pChannel', params'.powBits)
  <2>1. Good(next[3], params.powBits) /\ Good(Failed(pChannel), params.powBits)
    BY <1>1, <1>7, <1>8, AdvancesItself DEF Advances
  <2>2. pChannel' \in {Failed(pChannel), next[3]}
    <3>1. CASE Fails
      BY <3>1, <1>3, <1>8 DEF Fails
    <3>2. CASE GoesOn
      BY <3>2, <1>3, <1>8 DEF GoesOn
    <3> QED BY <3>1, <3>2, <1>1
  <2> QED BY <1>1, <2>1, <2>2
<1>10. CASE Fails
  <2>1. pAt' = "failed" /\ proof' = <<>> /\ vAt' = "waits" /\ vChannel' = NewChannel
        /\ params' \in Parameters
    BY <1>1, <1>10 DEF Fails, vvars
  <2>2. IsList(<<>>) /\ IsPrefix(<<>>, pChannel'.units)
    BY <1>9, GoodIsChannel, EmptyList, PrefixIs, ListProperties DEF IsChannel
  <2> QED BY <1>9, <2>1, <2>2 DEF Inv, Places, Late, Reading
<1>11. CASE GoesOn
  <2>1. <<pAt', pIndex', pChannel'>> = next
    BY <1>3, <1>8, <1>11 DEF GoesOn
  <2>2. IsPlace(next)
    BY <1>1, <1>3, <1>5, <1>8, PlacesGoOn DEF OnTheWay
  <2>3. pAt' \in Places
    <3>1. pAt' = next[1]
      BY <2>1
    <3> QED BY <2>2, <3>1 DEF IsPlace
  <2>4. proof' = <<>> /\ vAt' = "waits" /\ vChannel' = NewChannel /\ params' \in Parameters
    BY <1>1 DEF vvars
  <2>5. IsList(<<>>) /\ IsPrefix(<<>>, pChannel'.units)
    BY <1>9, GoodIsChannel, EmptyList, PrefixIs, ListProperties DEF IsChannel
  <2>6. pAt' \in Late => QueriesAre(pQueries)'
    <3>1. ASSUME NEW q PROVE QueriesAre(q)' <=> QueriesAre(q)
      <4>1. QueryValues' = QueryValues
        BY <1>1, SizesUnchanged DEF QueryValues, NFirstIndices
      <4> QED BY <4>1 DEF QueriesAre
    <3>2. PICK q : q = pQueries'
      OBVIOUS
    <3>3. QueriesAre(pQueries)' <=> QueriesAre(q)
      BY <1>1, <3>2, SizesUnchanged DEF QueriesAre, QueryValues, NFirstIndices
    <3> QED BY <1>1, <1>6, <3>2, <3>3
  <2>7. \E T : IsRun(T)'
    BY <1>1, <1>2, <1>6, <1>11, RunGoesOn
  <2>8. pAt' \in Places \union {"failed", "done"} /\ pAt' # "done" /\ vAt' \notin Reading
    BY <2>3, <2>4 DEF Places, Reading
  <2>9. pAt' \in Late \union {"done"} => QueriesAre(pQueries)'
    BY <2>6, <2>8
  <2> QED BY <1>9, <2>4, <2>5, <2>7, <2>8, <2>9 DEF Inv
<1> QED
  BY <1>1, <1>10, <1>11

LEMMA InvHandOver ==
  ASSUME Inv, HandOver
  PROVE  Inv'
<1>1. /\ pAt = "layers" /\ pIndex = NLayers /\ pAt' = "done" /\ vAt' = "trace"
      /\ UNCHANGED <<params, pIndex, pQueries, pChannel, pConstraints, vChannel>>
  BY DEF HandOver
<1>2. PICK n \in 0..Len(pChannel.units) : proof' = SubSeq(pChannel.units, 1, n)
  BY DEF HandOver
<1>3. IsChannel(pChannel) /\ IsList(pChannel.units) /\ Len(pChannel.units) \in Nat
  BY GoodIsChannel, ListProperties DEF Inv, IsChannel
<1>4. IsList(proof') /\ IsPrefix(proof', pChannel'.units)
  <2>1. /\ IsList(proof') /\ Len(proof') = n
        /\ \A i \in 1..n : proof'[i] = pChannel.units[i]
    BY <1>2, <1>3, Beginning
  <2> QED BY <1>1, <1>3, <2>1, PrefixIs
<1>5. vChannel = NewChannel /\ params \in Parameters /\ QueriesAre(pQueries)
  BY <1>1 DEF Inv, Places, Late
<1>6. PICK S : IsRun(S)
  BY <1>1 DEF Inv
<1>7. Here' = Here
  BY <1>1 DEF Here
<1>8. IsRun(S)'
  BY <1>1, <1>6, <1>7, RunStays
<1>9. PICK s : s = << "trace", 0, NewChannel >>
  OBVIOUS
<1>10. s \in S
  BY <1>6, <1>9 DEF IsRun
<1>11. Reads(s)'
  <2>1. Stands(s)'
    BY <1>1, <1>9 DEF Stands
  <2>2. Within(vChannel, proof)'
    <3>1. Len(vChannel'.units) = 0 /\ Len(proof') \in Nat
      BY <1>1, <1>4, <1>5, EmptyList, ListProperties DEF NewChannel
    <3> QED BY <3>1 DEF Within
  <2>3. s[3] = vChannel'
    BY <1>1, <1>5, <1>9
  <2> QED BY <2>1, <2>2, <2>3 DEF Reads
<1>12. QueriesAre(pQueries)'
  BY <1>1, <1>5, SizesUnchanged DEF QueriesAre, QueryValues, NFirstIndices
<1>13. Good(pChannel', params'.powBits) /\ params' \in Parameters /\ pIndex' = NLayers'
  BY <1>1, <1>5, SizesUnchanged DEF Inv
<1>14. vAt' \in Reading /\ vAt' \notin {"waits", "rejected", "crashed", "accepted"}
  BY <1>1 DEF Reading
<1>15. \E T : IsRun(T)' /\ (vAt' \in Reading => \E x \in T : Reads(x)')
  BY <1>8, <1>10, <1>11
<1> QED
  BY <1>1, <1>4, <1>12, <1>13, <1>14, <1>15 DEF Inv

LEMMA VerifierReadsOn ==
  ASSUME NEW s, NEW t, Between(s, t), ~IsLast(s), Verifier
  PROVE  ReadsOn(t)
<1>1. ASSUME VerifyLastLayer PROVE FALSE
  <2>1. s[1] = "layers" /\ s[2] - 1 = NLayers - 1
    BY <1>1 DEF Between, Reads, Stands, VerifyLastLayer
  <2>2. s[2] \in 1..NLayers /\ NLayers \in Nat
    BY <2>1, ParametersAre DEF Between, IsPlace
  <2> QED BY <2>1, <2>2 DEF IsLast
<1> QED
  BY <1>1, ReadsTrace, ReadsInteraction, ReadsComposition, ReadsBroken, ReadsOods, ReadsBoundary,
     ReadsLayer, ReadsLastLayer, ReadsQueries, ReadsTraceCells, ReadsLayerCells DEF Verifier

LEMMA InvVerifier ==
  ASSUME Inv, Verifier
  PROVE  Inv'
<1>1. vAt \in Reading
  BY DEF Verifier, VReadTraceCommitment, VInteraction, VCreateComposition, VReadBrokenCommitment,
         VerifyOods, VCreateBoundary, VLayer, ReadLastLayerCoefficients, VChooseQueries,
         VVerifyTrace, VVerifyLayer, VerifyLastLayer, Reading
<1>2. pAt = "done" /\ pIndex = NLayers
  BY <1>1 DEF Inv, Reading
<1>3. PICK S : IsRun(S) /\ (vAt \in Reading => \E s \in S : Reads(s))
  BY <1>2 DEF Inv
<1>4. PICK s \in S : Reads(s)
  BY <1>1, <1>3
<1>5. OnTheWay(s) /\ (s = Here \/ (~IsLast(s) /\ After(s) \in S))
  BY <1>3 DEF IsRun
<1>6. PICK here : here = Here
  OBVIOUS
<1>7. IsLast(here) /\ here[3] = pChannel
  BY <1>2, <1>6 DEF Here, IsLast
<1>8. /\ params \in Parameters /\ QueriesAre(pQueries) /\ IsChannel(pChannel)
      /\ IsList(proof) /\ IsPrefix(proof, pChannel.units)
      /\ IsList(pChannel.units) /\ IsList(pChannel.notes)
  BY <1>2, GoodIsChannel DEF Inv, IsChannel
<1>9. ASSUME UNCHANGED <<params, pvars, proof>>,
             \/ vAt' = "accepted" /\ vChannel' = pChannel /\ Within(pChannel, proof)
             \/ /\ vAt' \in {"rejected", "crashed"}
                /\ IsList(vChannel'.notes) /\ IsPrefix(vChannel'.notes, pChannel.notes)
             \/ vAt' \in Reading /\ \E t \in S : Reads(t)'
      PROVE  Inv'
  <2>1. /\ params' = params /\ pAt' = pAt /\ pIndex' = pIndex /\ pQueries' = pQueries
        /\ pChannel' = pChannel /\ pConstraints' = pConstraints /\ proof' = proof
    BY <1>9 DEF pvars
  <2>2. Here' = Here
    BY <2>1 DEF Here
  <2>3. IsRun(S)'
    BY <1>3, <2>1, <2>2, RunStays
  <2>4. QueriesAre(pQueries)' /\ NLayers' = NLayers
    BY <1>8, <2>1, SizesUnchanged DEF QueriesAre, QueryValues, NFirstIndices
  <2>5. Good(pChannel', params'.powBits)
    BY <2>1 DEF Inv
  <2>6. vAt' \in Reading \union {"rejected", "crashed", "accepted"} /\ vAt' # "waits"
    BY <1>9 DEF Reading
  <2>7. Within(vChannel, proof)' <=> Len(vChannel'.units) <= Len(proof)
    BY <2>1 DEF Within
  <2>8. vAt' = "accepted" => vChannel' = pChannel' /\ Within(vChannel, proof)'
    BY <1>9, <2>1, <2>7 DEF Within, Reading
  <2>9. vAt' \in {"rejected", "crashed"} =>
          IsList(vChannel'.notes) /\ IsPrefix(vChannel'.notes, pChannel'.notes)
    BY <1>9, <2>1 DEF Reading
  <2>10. \E T : IsRun(T)' /\ (vAt' \in Reading => \E t \in T : Reads(t)')
    BY <1>9, <2>3 DEF Reading
  <2> QED BY <1>2, <1>8, <2>1, <2>4, <2>5, <2>6, <2>8, <2>9, <2>10 DEF Inv
<1>10. CASE ~IsLast(s)
  <2>1. PICK t : t = After(s)
    OBVIOUS
  <2>2. t \in S /\ OnTheWay(t)
    BY <1>3, <1>5, <1>6, <1>7, <1>10, <2>1 DEF IsRun
  <2>3. Between(s, t)
    <3>1. /\ IsPlace(s) /\ IsChannel(s[3]) /\ ~s[3].failed /\ IsChannel(t[3]) /\ ~t[3].failed
          /\ IsPrefix(t[3].units, pChannel.units) /\ IsPrefix(t[3].notes, pChannel.notes)
      BY <1>5, <2>2, GoodIsChannel DEF OnTheWay, Grows
    <3> QED BY <3>1, <1>4, <1>8, <2>1 DEF Between
  <2>4. ReadsOn(t)
    BY <1>10, <2>3, VerifierReadsOn
  <2> QED BY <1>9, <2>2, <2>4 DEF ReadsOn
<1>11. CASE IsLast(s)
  <2>1. s = Here /\ s[3] = pChannel
    BY <1>5, <1>6, <1>7, <1>11
  <2>2. vChannel = pChannel /\ Within(pChannel, proof)
    BY <1>4, <2>1 DEF Reads
  <2>3. vAt = "inner" /\ vIndex = NLayers - 1
    BY <1>1, <1>4, <1>11 DEF Reads, Stands, IsLast, Reading
  <2>4. VerifyLastLayer
    <3>1. ~VVerifyLayer
      BY <2>3, <1>8, ParametersAre DEF VVerifyLayer
    <3> QED
      BY <2>3, <3>1 DEF Verifier, VReadTraceCommitment, VInteraction, VCreateComposition,
         VReadBrokenCommitment, VerifyOods, VCreateBoundary, VLayer, ReadLastLayerCoefficients,
         VChooseQueries, VVerifyTrace
  <2>5. PICK c \in {pChannel, Failed(pChannel)} : VGo("accepted", c)
    BY <2>2, <2>4 DEF VerifyLastLayer
  <2>6. /\ vAt' = (IF c.failed THEN "rejected" ELSE "accepted") /\ vChannel' = c
        /\ UNCHANGED <<params, pvars, proof>>
    BY <2>5 DEF VGo
  <2>7. c.notes = pChannel.notes /\ (~c.failed => c = pChannel)
    BY <1>8, <2>5, FailedIs
  <2>8. IsList(c.notes) /\ IsPrefix(c.notes, pChannel.notes)
    BY <1>8, <2>7, PrefixOfItself
  <2> QED BY <1>9, <2>2, <2>6, <2>7, <2>8
<1> QED
  BY <1>10, <1>11

LEMMA InvStutters ==
  ASSUME Inv, UNCHANGED vars
  PROVE  Inv'
<1>1. /\ params' = params /\ pAt' = pAt /\ pIndex' = pIndex /\ pQueries' = pQueries
      /\ pChannel' = pChannel /\ pConstraints' = pConstraints /\ proof' = proof
      /\ vAt' = vAt /\ vIndex' = vIndex /\ vQueries' = vQueries /\ vChannel' = vChannel
  BY DEF vars, pvars, vvars
<1>2. Here' = Here
  BY <1>1 DEF Here
<1>3. (\E S : IsRun(S) /\ (vAt \in Reading => \E s \in S : Reads(s)))
      => \E S : IsRun(S)' /\ (vAt' \in Reading => \E s \in S : Reads(s)')
  <2>1. ASSUME NEW s, Reads(s) PROVE Reads(s)'
    BY <1>1, <2>1 DEF Reads, Stands, Within
  <2>2. ASSUME NEW S, IsRun(S), vAt \in Reading => \E s \in S : Reads(s)
        PROVE  IsRun(S)' /\ (vAt' \in Reading => \E s \in S : Reads(s)')
    <3>1. IsRun(S)'
      BY <1>1, <1>2, <2>2, RunStays
    <3> QED BY <3>1, <1>1, <2>1, <2>2
  <2> QED BY <2>2
<1>4. QueriesAre(pQueries)' <=> QueriesAre(pQueries)
  BY <1>1, SizesUnchanged DEF QueriesAre, QueryValues, NFirstIndices
<1>5. Within(vChannel, proof)' <=> Within(vChannel, proof)
  BY <1>1 DEF Within
<1>6. NLayers' = NLayers
  BY <1>1, SizesUnchanged
<1> QED
  BY <1>1, <1>3, <1>4, <1>5, <1>6 DEF Inv

LEMMA Invariance == Spec => []Inv
<1>1. ASSUME Inv, [Next]_vars PROVE Inv'
  BY <1>1, InvProver, InvHandOver, InvVerifier, InvStutters DEF Next
<1> QED
  BY <1>1, InvInit, PTL DEF Spec

-----------------------------------------------------------------------------
(* What follows from it.                                                   *)

LEMMA LockstepHolds ==
  ASSUME Inv
  PROVE  Lockstep /\ IsList(vChannel.notes)
<1>1. IsChannel(pChannel) /\ IsList(pChannel.notes)
  BY GoodIsChannel DEF Inv, IsChannel
<1>2. CASE vAt = "waits"
  <2>1. vChannel.notes = <<>>
    BY <1>2 DEF Inv, NewChannel
  <2> QED BY <1>1, <2>1, EmptyList, PrefixIs, ListProperties DEF Lockstep
<1>3. CASE vAt \in Reading
  <2>1. pAt # "failed"
    BY <1>3 DEF Inv, Reading
  <2>2. PICK S : IsRun(S) /\ (vAt \in Reading => \E s \in S : Reads(s))
    BY <2>1 DEF Inv
  <2>3. PICK s \in S : Reads(s)
    BY <1>3, <2>2
  <2>4. Grows(s[3], pChannel) /\ s[3] = vChannel /\ IsChannel(s[3])
    BY <2>2, <2>3, GoodIsChannel DEF IsRun, OnTheWay, Reads
  <2> QED BY <2>4 DEF Grows, Lockstep, IsChannel
<1>4. CASE vAt \in {"rejected", "crashed"}
  BY <1>4 DEF Inv, Lockstep
<1>5. CASE vAt = "accepted"
  BY <1>1, <1>5, PrefixOfItself DEF Inv, Lockstep
<1> QED
  BY <1>2, <1>3, <1>4, <1>5 DEF Inv

(* The two programs are in lockstep, for all parameters, whatever the      *)
(* queries and wherever the proof ends (stark.cc, fri_prover.cc,           *)
(* fri_verifier.cc, composition_oracle.cc, table_impl.cc).                 *)
THEOREM ProgramsAreInLockstep == Spec => []Lockstep
BY Invariance, LockstepHolds, PTL

(* A proof that is accepted was read to its end and is all that was        *)
(* written: a proof that is cut short anywhere is refused.                 *)
THEOREM AcceptedProofsAreWhole == Spec => []AcceptedIsWhole
<1>1. ASSUME Inv PROVE AcceptedIsWhole
  <2> SUFFICES ASSUME vAt = "accepted"
               PROVE  Len(vChannel.units) = Len(proof) /\ proof = pChannel.units
    BY DEF AcceptedIsWhole
  <2>1. /\ vChannel = pChannel /\ Len(pChannel.units) <= Len(proof)
        /\ IsList(proof) /\ IsPrefix(proof, pChannel.units)
    BY <1>1 DEF Inv, Within
  <2>2. IsList(pChannel.units)
    BY <1>1, GoodIsChannel DEF Inv, IsChannel
  <2>3. Len(proof) \in Nat /\ Len(pChannel.units) \in Nat
    BY <2>1, <2>2, ListProperties
  <2>4. Len(proof) <= Len(pChannel.units) /\ \A i \in 1..Len(proof) : proof[i] = pChannel.units[i]
    BY <2>1, <2>2, PrefixIs
  <2>5. Len(proof) = Len(pChannel.units)
    BY <2>1, <2>3, <2>4
  <2>6. proof = pChannel.units
    BY <2>1, <2>2, <2>4, <2>5, ListsAreEqual
  <2> QED BY <2>1, <2>5, <2>6
<1> QED
  BY <1>1, Invariance, PTL

(* The seed of a random value, if note i is one, is the units before it.   *)
SeedIsUnits(notes, i) ==
  LET seed == notes[i].value[1]
  IN  notes[i].dir = "V->P" =>
        /\ Len(seed) = Count(notes, i)
        /\ \A k \in UnitsUpTo(notes, i) : seed[Count(notes, k)] = notes[k].value

(* The seed of every note is what was sent before it.                      *)
LEMMA BoundSeeds ==
  ASSUME NEW c, Binds(c), NEW i \in 1..Len(c.notes)
  PROVE  SeedIsUnits(c.notes, i)
<1>1. PICK notes : notes = c.notes
  OBVIOUS
<1>2. /\ IsList(c.units) /\ IsList(notes) /\ BoundNotes(c.units, notes)
      /\ Len(c.units) = Count(notes, Len(notes)) /\ i \in 1..Len(notes)
  BY <1>1 DEF Binds, IsChannel
<1>3. Len(notes) \in Nat /\ Len(c.units) \in Nat
  BY <1>2, ListProperties
<1>4. SUFFICES ASSUME notes[i].dir = "V->P"
               PROVE  /\ Len(notes[i].value[1]) = Count(notes, i)
                      /\ \A k \in UnitsUpTo(notes, i) :
                           notes[i].value[1][Count(notes, k)] = notes[k].value
  BY <1>1 DEF SeedIsUnits
<1>5. notes[i].value[1] = SubSeq(c.units, 1, Count(notes, i))
  BY <1>2, <1>4 DEF BoundNotes, BoundNote
<1>6. Count(notes, i) \in 0..Len(c.units)
  <2>1. Count(notes, i) <= Count(notes, Len(notes))
    BY <1>2, <1>3, CountGrows
  <2>2. Count(notes, i) \in Nat
    BY <1>2, CountIs
  <2> QED BY <1>2, <1>3, <2>1, <2>2
<1>7. PICK n \in 0..Len(c.units) : n = Count(notes, i)
  BY <1>6
<1>8. PICK seed : seed = SubSeq(c.units, 1, n)
  OBVIOUS
<1>9. Len(seed) = n /\ \A k \in 1..n : seed[k] = c.units[k]
  BY <1>2, <1>8, Beginning
<1>10. ASSUME NEW k \in UnitsUpTo(notes, i) PROVE seed[Count(notes, k)] = notes[k].value
  <2>1. k \in 1..i /\ notes[k].dir = "P->V"
    BY DEF UnitsUpTo
  <2>2. k \in Nat \ {0} /\ i \in Nat /\ k <= i /\ k \in 1..Len(notes)
    BY <2>1, <1>2, <1>3
  <2>3. Count(notes, k) <= Count(notes, i)
    BY <2>2, CountGrows
  <2>4. Count(notes, k) >= 1 /\ Count(notes, k) \in Nat
    BY <2>1, <2>2, CountOfUnit, CountIs
  <2>5. Count(notes, k) \in 1..n
    BY <2>3, <2>4, <1>7
  <2>6. notes[k].value = c.units[Count(notes, k)]
    BY <2>1, <2>2, <1>2 DEF BoundNotes, BoundNote
  <2> QED BY <2>5, <2>6, <1>9
<1> QED
  BY <1>5, <1>7, <1>8, <1>9, <1>10

LEMMA SeedsOfBeginning ==
  ASSUME NEW notes, NEW more, IsList(notes), IsList(more), IsPrefix(notes, more),
         NEW i \in 1..Len(notes), SeedIsUnits(more, i)
  PROVE  SeedIsUnits(notes, i)
<1>1. Len(notes) \in Nat /\ \A k \in 1..Len(notes) : notes[k] = more[k]
  BY PrefixIs, ListProperties
<1>2. ASSUME NEW k \in 1..i PROVE Count(notes, k) = Count(more, k) /\ notes[k] = more[k]
  <2>1. k \in Nat /\ \A j \in 1..k : notes[j] = more[j]
    BY <1>1
  <2>2. notes[k] = more[k]
    BY <1>1
  <2> QED BY <2>1, <2>2, CountSame
<1>3. UnitsUpTo(notes, i) = UnitsUpTo(more, i) /\ UnitsUpTo(notes, i) \in SUBSET (1..i)
  BY <1>2 DEF UnitsUpTo
<1>4. i \in 1..i
  BY <1>1
<1>5. notes[i] = more[i] /\ Count(notes, i) = Count(more, i)
  BY <1>2, <1>4
<1> QED
  BY <1>2, <1>3, <1>5 DEF SeedIsUnits

(* Every random value of either side depends on all of the proof that went *)
(* by before it (noninteractive_prover_channel.cc:37-45).                  *)
THEOREM RandomnessBinds == Spec => []RandomnessBindsProof
<1>1. ASSUME Inv PROVE RandomnessBindsProof
  <2>1. Binds(pChannel) /\ IsList(pChannel.notes)
    BY <1>1 DEF Inv, Good, Binds, IsChannel
  <2>2. IsPrefix(vChannel.notes, pChannel.notes)
    BY <1>1, LockstepHolds DEF Lockstep
  <2>3. IsList(vChannel.notes)
    BY <1>1, LockstepHolds
  <2>4. ASSUME NEW c \in {pChannel, vChannel}, NEW i \in DOMAIN c.notes
        PROVE  SeedIsUnits(c.notes, i)
    <3>1. i \in 1..Len(c.notes)
      BY <2>1, <2>3, ListProperties
    <3>2. CASE c = pChannel
      BY <3>1, <3>2, <2>1, BoundSeeds
    <3>3. CASE c = vChannel
      <4>1. i \in 1..Len(pChannel.notes)
        BY <3>1, <3>3, <2>1, <2>2, <2>3, PrefixIs, ListProperties
      <4>2. SeedIsUnits(pChannel.notes, i)
        BY <4>1, <2>1, BoundSeeds
      <4> QED BY <3>1, <3>3, <4>2, <2>1, <2>2, <2>3, SeedsOfBeginning
    <3> QED BY <3>2, <3>3
  <2> QED BY <2>4 DEF RandomnessBindsProof, SeedIsUnits, Count, UnitsUpTo
<1> QED
  BY <1>1, Invariance, PTL

(* The numbers of the queries come after the work (channel.h:44-53).       *)
THEOREM QueriesComeAfterWork == Spec => []QueriesCostWork
<1>1. ASSUME Inv PROVE QueriesCostWork
  <2> SUFFICES ASSUME NEW c \in {pChannel, vChannel}, NEW i \in DOMAIN c.notes,
                      c.notes[i].label[1] = "FRI/QueryIndices", params.powBits > 0
               PROVE  Worked(c.notes[i].value[1])
    BY DEF QueriesCostWork, Worked
  <2>1. Costs(pChannel.notes) /\ IsList(pChannel.notes)
    BY <1>1 DEF Inv, Good, Binds, IsChannel
  <2>2. IsPrefix(vChannel.notes, pChannel.notes)
    BY <1>1, LockstepHolds DEF Lockstep
  <2>3. IsList(vChannel.notes)
    BY <1>1, LockstepHolds
  <2>4. i \in 1..Len(c.notes)
    BY <2>1, <2>3, ListProperties
  <2>5. i \in 1..Len(pChannel.notes) /\ c.notes[i] = pChannel.notes[i]
    BY <2>1, <2>2, <2>3, <2>4, PrefixIs, ListProperties
  <2> QED BY <2>1, <2>5 DEF Costs
<1> QED
  BY <1>1, Invariance, PTL

-----------------------------------------------------------------------------
(* The cells of a table and the queries, in the order they are sent in.    *)

(* All cells are listed, in the order of Before.                           *)
LEMMA InOrderIsAll ==
  ASSUME NEW cells \in SUBSET (Nat \X Nat), IsFiniteSet(cells)
  PROVE  Values(InOrder(cells)) = cells
<1> DEFINE Lower(c) == {d \in cells : Before(d, c)}
           rank(c) == Cardinality(Lower(c))
<1>1. PICK n \in Nat : n = Cardinality(cells)
  BY FS_CardinalityType
<1>2. ASSUME NEW c \in cells
      PROVE  IsFiniteSet(Lower(c)) /\ rank(c) \in 0..(n - 1)
  <2>1. Lower(c) \in SUBSET cells /\ c \notin Lower(c)
    BY DEF Before
  <2>2. IsFiniteSet(Lower(c)) /\ rank(c) <= n /\ rank(c) # n
    BY <2>1, <1>1, FS_Subset
  <2>3. rank(c) \in Nat
    BY <2>2, FS_CardinalityType
  <2> QED BY <2>2, <2>3, <1>1
<1>3. ASSUME NEW c \in cells, NEW d \in cells, Before(c, d)
      PROVE  rank(c) < rank(d)
  <2>1. Lower(c) \in SUBSET Lower(d) /\ c \in Lower(d) /\ c \notin Lower(c)
    <3>1. ASSUME NEW b \in cells, Before(b, c) PROVE Before(b, d)
      <4>1. b[1] \in Nat /\ c[1] \in Nat /\ d[1] \in Nat /\ b[2] \in Nat /\ c[2] \in Nat /\ d[2] \in Nat
        OBVIOUS
      <4> QED BY <4>1, <3>1, <1>3 DEF Before
    <3>2. ~Before(c, c)
      BY DEF Before
    <3> QED BY <3>1, <3>2, <1>3
  <2>2. rank(c) <= rank(d) /\ rank(c) # rank(d)
    BY <2>1, <1>2, FS_Subset
  <2>3. rank(c) \in Nat /\ rank(d) \in Nat
    <3> HIDE DEF rank, Lower
    <3>1. rank(c) \in 0..(n - 1) /\ rank(d) \in 0..(n - 1)
      BY <1>2
    <3> QED BY <3>1
  <2> QED BY <2>2, <2>3
<1>4. ASSUME NEW c \in cells, NEW d \in cells, rank(c) = rank(d) PROVE c = d
  <2> SUFFICES ASSUME c # d PROVE FALSE
    OBVIOUS
  <2>1. Before(c, d) \/ Before(d, c)
    <3>1. c[1] \in Nat /\ d[1] \in Nat /\ c[2] \in Nat /\ d[2] \in Nat
          /\ c = <<c[1], c[2]>> /\ d = <<d[1], d[2]>>
      OBVIOUS
    <3>2. c[1] # d[1] \/ c[2] # d[2]
      BY <3>1
    <3> QED BY <3>1, <3>2 DEF Before
  <2>2. rank(c) \in Int /\ rank(d) \in Int
    BY <1>2
  <2> QED BY <2>1, <2>2, <1>3, <1>4
<1>5. ASSUME NEW k \in 0..(n - 1) PROVE \E c \in cells : rank(c) = k
  <2> SUFFICES ASSUME \A c \in cells : rank(c) # k PROVE FALSE
    OBVIOUS
  <2> DEFINE T == (0..(n - 1)) \ {k}
             f == [c \in cells |-> rank(c)]
  <2>1. IsFiniteSet(T) /\ Cardinality(T) = n - 1
    <3>1. PICK S : S = 0..(n - 1)
      OBVIOUS
    <3>2. IsFiniteSet(S) /\ Cardinality(S) = n /\ k \in S
      BY <3>1, FS_Interval
    <3>3. IsFiniteSet(S \ {k}) /\ Cardinality(S \ {k}) = n - 1
      BY ONLY <3>2, FS_RemoveElement
    <3> QED BY <3>1, <3>3
  <2>2. f \in [cells -> T]
    BY <1>2
  <2>3. \A c \in cells : f[c] = rank(c)
    OBVIOUS
  <2> HIDE DEF f, T
  <2>4. PICK c, d \in cells : c # d /\ f[c] = f[d]
    BY <2>1, <2>2, <1>1, FS_PigeonHole
  <2> QED BY <2>3, <2>4, <1>4
<1> DEFINE cell(k) == CHOOSE c \in cells : rank(c) = k - 1
<1>6. PICK s : s = InOrder(cells)
  OBVIOUS
<1>7. s = [k \in 1..n |-> cell(k)]
  BY <1>1, <1>6 DEF InOrder
<1>8. ASSUME NEW k \in 1..n PROVE cell(k) \in cells /\ rank(cell(k)) = k - 1
  <2>1. k - 1 \in 0..(n - 1)
    OBVIOUS
  <2> HIDE DEF rank
  <2> QED BY <2>1, <1>5
<1>9. ASSUME NEW c \in cells PROVE \E k \in 1..n : cell(k) = c
  <2>1. PICK k : k = rank(c) + 1
    OBVIOUS
  <2>2. k \in 1..n /\ k - 1 = rank(c)
    <3> HIDE DEF rank
    <3>1. rank(c) \in 0..(n - 1)
      BY <1>2
    <3> QED BY <2>1, <3>1
  <2>3. cell(k) \in cells /\ rank(cell(k)) = rank(c)
    BY <2>2, <1>8
  <2>4. cell(k) = c
    <3> HIDE DEF cell, rank
    <3> QED BY <2>3, <1>4
  <2> QED BY <2>2, <2>4
<1> HIDE DEF cell, rank
<1>10. DOMAIN s = 1..n /\ \A k \in 1..n : s[k] = cell(k)
  BY <1>7
<1>11. \A v : v \in Values(s) <=> v \in cells
  <2>1. Values(s) = {s[k] : k \in 1..n}
    BY <1>10 DEF Values
  <2> QED BY <2>1, <1>8, <1>9, <1>10
<1> QED
  BY <1>6, <1>11

(* The queries are numbers of those that were drawn.                       *)
LEMMA IncreasingIsNumbers ==
  ASSUME NEW n \in Nat, NEW m \in Nat, NEW numbers \in [1..n -> 0..m]
  PROVE  Increasing(numbers) \in [1..n -> 0..m]
<1> DEFINE UpTo(v) == {i \in 1..n : numbers[i] <= v}
           Below(v) == {i \in 1..n : numbers[i] < v}
<1>1. ASSUME NEW v \in Int PROVE IsFiniteSet(UpTo(v)) /\ Cardinality(UpTo(v)) \in Nat
  <2>1. IsFiniteSet(1..n)
    BY FS_Interval
  <2>2. UpTo(v) \in SUBSET (1..n)
    OBVIOUS
  <2> HIDE DEF UpTo
  <2>3. IsFiniteSet(UpTo(v))
    BY <2>1, <2>2, FS_Subset
  <2> QED BY <2>3, FS_CardinalityType
<1>2. ASSUME NEW k \in 1..n
      PROVE  \E v \in Values(numbers) : /\ Cardinality(Below(v)) < k
                                        /\ k <= Cardinality(UpTo(v))
  <2> DEFINE T == {v \in Nat : k <= Cardinality(UpTo(v))}
  <2>1. m \in T
    <3>1. UpTo(m) = 1..n
      OBVIOUS
    <3>2. Cardinality(1..n) = n
      BY FS_Interval
    <3> HIDE DEF UpTo
    <3> QED BY <3>1, <3>2
  <2>2. PICK v \in T : \A w \in T : v <= w
    <3>1. T \in SUBSET Nat
      OBVIOUS
    <3> HIDE DEF T
    <3> QED BY <2>1, <3>1, LeastOf
  <2>3. v \in Nat /\ k <= Cardinality(UpTo(v))
    BY <2>2
  <2>4. Below(v) = UpTo(v - 1) /\ v - 1 \in Int
    <3>1. \A i \in 1..n : numbers[i] \in Int
      OBVIOUS
    <3> QED BY <2>3, <3>1
  <2>5. Cardinality(Below(v)) < k
    <3>1. CASE v = 0
      <4>1. Below(v) = {}
        BY <3>1
      <4> HIDE DEF Below
      <4> QED BY <4>1, FS_EmptySet
    <3>2. CASE v # 0
      <4>1. v - 1 \in Nat /\ ~(v <= v - 1)
        BY <2>3, <3>2
      <4>2. ~(k <= Cardinality(UpTo(v - 1)))
        BY <4>1, <2>2
      <4>3. Cardinality(UpTo(v - 1)) \in Nat
        BY <1>1, <2>4
      <4> HIDE DEF UpTo, Below
      <4> QED BY <4>2, <4>3, <2>4
    <3> QED BY <3>1, <3>2
  <2>6. PICK i \in UpTo(v) : i \notin Below(v)
    <3>1. UpTo(v) # Below(v)
      <4> HIDE DEF UpTo, Below
      <4>1. Cardinality(UpTo(v)) \in Nat
        BY <1>1, <2>3
      <4> QED BY <2>3, <2>5, <4>1
    <3>2. Below(v) \in SUBSET UpTo(v)
      BY <2>3
    <3> QED BY <3>1, <3>2
  <2>7. i \in 1..n /\ numbers[i] = v
    BY <2>3, <2>6
  <2>8. v \in Values(numbers)
    BY <2>7 DEF Values
  <2> HIDE DEF Below, UpTo
  <2> QED BY <2>3, <2>5, <2>8
<1> DEFINE Number(k) == CHOOSE v \in Values(numbers) : /\ Cardinality(Below(v)) < k
                                                       /\ k <= Cardinality(UpTo(v))
<1>3. ASSUME NEW k \in 1..n PROVE Number(k) \in 0..m
  <2>1. Number(k) \in Values(numbers)
    <3> HIDE DEF Below, UpTo
    <3> QED BY <1>2
  <2>2. Values(numbers) \in SUBSET (0..m)
    BY DEF Values
  <2> QED BY <2>1, <2>2
<1>4. DOMAIN numbers = 1..n
  OBVIOUS
<1>5. Increasing(numbers) = [k \in 1..n |-> Number(k)]
  BY <1>4 DEF Increasing
<1> HIDE DEF Number
<1> QED
  BY <1>3, <1>5

-----------------------------------------------------------------------------
(* The columns of all traces, and the mask: which of them a constraint is  *)
(* about.                                                                  *)

(* Every column of the concatenation is a column of one of the traces.     *)
LEMMA ColumnIs ==
  ASSUME NEW widths \in Seq(Nat), NEW column \in Nat, column < SumOf(widths)
  PROVE  \E t \in 1..Len(widths) : \E k \in 0..(widths[t] - 1) :
           /\ column = SumOfFirst(widths, t - 1) + k
           /\ ColumnToTraceColumn(column, widths) = <<t - 1, k>>
<1> DEFINE start(t) == SumOf(SubSeq(widths, 1, t - 1))
           trace == CHOOSE t \in DOMAIN widths :
                      column >= start(t) /\ column - start(t) < widths[t]
<1>1. PICK n \in Nat : n = Len(widths)
  OBVIOUS
<1>2. IsList(widths) /\ DOMAIN widths = 1..n /\ \A i \in 1..n : widths[i] \in Nat
  BY <1>1, ListIs
<1>3. /\ SumOfFirst(widths, 0) = 0 /\ \A k \in 0..n : SumOfFirst(widths, k) \in Nat
      /\ \A k \in 0..(n - 1) : SumOfFirst(widths, k + 1) = SumOfFirst(widths, k) + widths[k + 1]
  BY <1>2, SumOfFirstIs
<1>4. \A t \in 1..n : start(t) = SumOfFirst(widths, t - 1)
  <2>1. ASSUME NEW t \in 1..n PROVE start(t) = SumOfFirst(widths, t - 1)
    <3>1. PICK m \in 0..Len(widths) : m = t - 1
      BY <1>1
    <3> QED BY <1>1, <1>2, <3>1, SumOfBeginning
  <2> QED BY <2>1
<1>5. \E t \in 1..n : column >= start(t) /\ column - start(t) < widths[t]
  <2> DEFINE ends == [i \in 0..n |-> SumOfFirst(widths, i)]
  <2>1. ends[0] = 0 /\ \A i \in 0..n : ends[i] \in Nat /\ ends[i] = SumOfFirst(widths, i)
    BY <1>3
  <2>2. column < ends[n]
    BY <1>1, <2>1 DEF SumOf
  <2> HIDE DEF ends
  <2>3. PICK t \in 1..n : ends[t - 1] <= column /\ column < ends[t]
    BY <2>1, <2>2, BetweenBounds
  <2>4. t - 1 \in 0..(n - 1) /\ t - 1 \in 0..n /\ t \in 0..n /\ (t - 1) + 1 = t
    OBVIOUS
  <2>5. SumOfFirst(widths, t) = SumOfFirst(widths, t - 1) + widths[t]
    BY <2>4, <1>3
  <2>6. start(t) = SumOfFirst(widths, t - 1) /\ start(t) \in Nat /\ widths[t] \in Nat
    BY <1>2, <1>3, <1>4, <2>4
  <2> HIDE DEF start
  <2> QED BY <2>1, <2>3, <2>4, <2>5, <2>6
<1>6. trace \in 1..n /\ column >= start(trace) /\ column - start(trace) < widths[trace]
  <2> HIDE DEF start
  <2> QED BY <1>2, <1>5
<1>7. ColumnToTraceColumn(column, widths) = <<trace - 1, column - start(trace)>>
  BY DEF ColumnToTraceColumn
<1>8. PICK t \in 1..n : t = trace
  BY <1>6
<1>9. start(t) = SumOfFirst(widths, t - 1) /\ start(t) \in Nat /\ widths[t] \in Nat
  <2>1. t - 1 \in 0..n
    OBVIOUS
  <2> QED BY <2>1, <1>2, <1>3, <1>4
<1> HIDE DEF start, trace
<1>10. PICK k : k = column - start(t)
  OBVIOUS
<1>11. k \in 0..(widths[t] - 1) /\ column = SumOfFirst(widths, t - 1) + k
  BY <1>6, <1>8, <1>9, <1>10
<1> QED
  BY <1>1, <1>7, <1>8, <1>10, <1>11

(* The columns of all traces, numbered as one: a trace starts after the    *)
(* widths of those before it.                                              *)
LEMMA ConcatenatedIs ==
  ASSUME NEW widths \in Seq(Nat)
  PROVE  /\ IsList(Concatenated(widths)) /\ Len(Concatenated(widths)) = SumOf(widths)
         /\ \A t \in 1..Len(widths) : \A k \in 0..(widths[t] - 1) :
              Concatenated(widths)[SumOfFirst(widths, t - 1) + k + 1] = <<t - 1, k>>
<1>1. PICK n \in Nat : n = Len(widths)
  OBVIOUS
<1>2. IsList(widths) /\ DOMAIN widths = 1..n /\ \A i \in 1..n : widths[i] \in Nat
  BY <1>1, ListIs
<1>3. /\ SumOfFirst(widths, 0) = 0 /\ \A k \in 0..n : SumOfFirst(widths, k) \in Nat
      /\ \A k \in 0..(n - 1) : SumOfFirst(widths, k + 1) = SumOfFirst(widths, k) + widths[k + 1]
  BY <1>2, SumOfFirstIs
<1> DEFINE columns(t) == [c \in 1..widths[t] |-> <<t - 1, c - 1>>]
<1>4. PICK lists : lists = [t \in 1..n |-> columns(t)]
  OBVIOUS
<1>5. Concatenated(widths) = FlattenSeq(lists)
  BY <1>2, <1>4 DEF Concatenated
<1>6. ASSUME NEW t \in 1..n
      PROVE  /\ IsList(columns(t)) /\ Len(columns(t)) = widths[t]
             /\ \A c \in 1..widths[t] : columns(t)[c] = <<t - 1, c - 1>>
  <2>1. PICK f : f = columns(t)
    OBVIOUS
  <2>2. f = [c \in 1..widths[t] |-> f[c]] /\ \A c \in 1..widths[t] : f[c] = <<t - 1, c - 1>>
    BY <2>1
  <2>3. widths[t] \in Nat
    BY <1>2
  <2>4. IsList(f) /\ Len(f) = widths[t]
    BY <2>2, <2>3, IndexedIsList
  <2> QED BY <2>1, <2>2, <2>4
<1>7. IsList(lists) /\ Len(lists) = n /\ \A t \in 1..n : lists[t] = columns(t)
  <2> HIDE DEF columns
  <2>1. lists = [t \in 1..n |-> lists[t]]
    BY <1>4
  <2> QED BY <2>1, <1>4, IndexedIsList
<1>8. PICK ends : ends = [i \in 0..n |-> SumOfFirst(widths, i)]
  OBVIOUS
<1>9. ends[0] = 0 /\ \A i \in 0..n : ends[i] = SumOfFirst(widths, i)
  BY <1>3, <1>8
<1>10. \A i \in 1..Len(lists) : ends[i] = ends[i - 1] + Len(lists[i])
  <2>1. ASSUME NEW i \in 1..n PROVE ends[i] = ends[i - 1] + Len(lists[i])
    <3>1. i - 1 \in 0..(n - 1) /\ i \in 0..n /\ i - 1 \in 0..n /\ (i - 1) + 1 = i
      OBVIOUS
    <3>2. SumOfFirst(widths, i) = SumOfFirst(widths, i - 1) + widths[i]
      BY <3>1, <1>3
    <3> HIDE DEF columns
    <3>3. Len(lists[i]) = widths[i]
      BY <1>6, <1>7
    <3> QED BY <3>1, <3>2, <3>3, <1>9
  <2> QED BY <2>1, <1>7
<1>11. \A i \in 1..Len(lists) : IsList(lists[i])
  <2> HIDE DEF columns
  <2> QED BY <1>6, <1>7
<1>12. /\ IsList(FlattenSeq(lists)) /\ Len(FlattenSeq(lists)) = ends[n]
       /\ \A i \in 1..n : \A k \in 1..Len(lists[i]) :
            FlattenSeq(lists)[ends[i - 1] + k] = lists[i][k]
  <2> HIDE DEF columns
  <2>1. /\ IsList(FlattenSeq(lists)) /\ Len(FlattenSeq(lists)) = ends[Len(lists)]
        /\ \A i \in 1..Len(lists) : \A k \in 1..Len(lists[i]) :
             FlattenSeq(lists)[ends[i - 1] + k] = lists[i][k]
    <3>1. IsList(lists) /\ ends[0] = 0
      BY <1>7, <1>9
    <3>2. Ends(lists, ends)
      BY ONLY <3>1, <1>10, <1>11 DEF Ends
    <3>3. Flattened(lists, ends)
      BY ONLY <3>2, FlattenedIs
    <3> QED BY ONLY <3>3 DEF Flattened
  <2> QED BY <2>1, <1>7
<1>13. ASSUME NEW t \in 1..n, NEW k \in 0..(widths[t] - 1)
       PROVE  FlattenSeq(lists)[SumOfFirst(widths, t - 1) + k + 1] = <<t - 1, k>>
  <2>1. t - 1 \in 0..n /\ widths[t] \in Nat
    BY <1>2
  <2>2. ends[t - 1] = SumOfFirst(widths, t - 1) /\ SumOfFirst(widths, t - 1) \in Nat
    BY <2>1, <1>3, <1>9
  <2>3. PICK c \in 1..widths[t] : c = k + 1
    BY <2>1
  <2>4. lists[t][c] = <<t - 1, c - 1>> /\ Len(lists[t]) = widths[t] /\ c - 1 = k
    <3>1. c - 1 = k
      BY <2>3
    <3> HIDE DEF columns
    <3>2. columns(t)[c] = <<t - 1, c - 1>>
      BY <1>6
    <3> QED BY <3>1, <3>2, <1>6, <1>7
  <2>5. FlattenSeq(lists)[ends[t - 1] + c] = lists[t][c]
    BY <2>4, <1>12
  <2>6. ends[t - 1] + c = SumOfFirst(widths, t - 1) + k + 1
    BY <2>2, <2>3
  <2> QED BY <2>4, <2>5, <2>6
<1>14. n \in 0..n
  OBVIOUS
<1> QED
  BY <1>1, <1>5, <1>9, <1>12, <1>13, <1>14 DEF SumOf

(* Both ways to find the trace and the column of a number agree.           *)
LEMMA ConcatenatedColumn ==
  ASSUME NEW widths \in Seq(Nat), NEW column \in Nat, column < SumOf(widths)
  PROVE  Concatenated(widths)[column + 1] = ColumnToTraceColumn(column, widths)
<1>0. PICK t \in 1..Len(widths) : \E k \in 0..(widths[t] - 1) :
        /\ column = SumOfFirst(widths, t - 1) + k
        /\ ColumnToTraceColumn(column, widths) = <<t - 1, k>>
  BY ColumnIs
<1>1. PICK k \in 0..(widths[t] - 1) :
        /\ column = SumOfFirst(widths, t - 1) + k
        /\ ColumnToTraceColumn(column, widths) = <<t - 1, k>>
  BY <1>0
<1>2. Concatenated(widths)[SumOfFirst(widths, t - 1) + k + 1] = <<t - 1, k>>
  BY ConcatenatedIs
<1> QED
  BY <1>1, <1>2

(* The items of the mask that are in a trace, counted one by one.          *)
LEMMA CountUpToIs ==
  ASSUME NEW t, NEW mask, NEW widths, NEW n \in Nat
  PROVE  /\ CountUpTo(t, n, mask, widths) \in Nat
         /\ CountUpTo(t, 0, mask, widths) = 0
         /\ CountUpTo(t, n + 1, mask, widths) =
              IF TraceOf(mask[n + 1], widths) = t THEN CountUpTo(t, n, mask, widths) + 1
                                                  ELSE CountUpTo(t, n, mask, widths)
<1> DEFINE items(m) == {i \in 1..m : TraceOf(mask[i], widths) = t}
<1>1. IsFiniteSet(items(n)) /\ Cardinality(items(n)) \in Nat
  <2>1. IsFiniteSet(1..n) /\ items(n) \in SUBSET (1..n)
    BY FS_Interval
  <2> HIDE DEF items
  <2> QED BY <2>1, FS_Subset, FS_CardinalityType
<1>2. items(0) = {}
  OBVIOUS
<1>3. /\ TraceOf(mask[n + 1], widths) = t =>
           Cardinality(items(n + 1)) = Cardinality(items(n)) + 1
      /\ TraceOf(mask[n + 1], widths) # t =>
           Cardinality(items(n + 1)) = Cardinality(items(n))
  <2>1. CASE TraceOf(mask[n + 1], widths) = t
    <3>1. items(n + 1) = items(n) \union {n + 1} /\ n + 1 \notin items(n)
      BY <2>1
    <3> HIDE DEF items
    <3> QED BY <2>1, <3>1, <1>1, FS_AddElement
  <2>2. CASE TraceOf(mask[n + 1], widths) # t
    <3>1. items(n + 1) = items(n)
      BY <2>2
    <3> HIDE DEF items
    <3> QED BY <2>2, <3>1
  <2> QED BY <2>1, <2>2
<1>4. \A m : CountUpTo(t, m, mask, widths) = Cardinality(items(m))
  BY DEF CountUpTo
<1> HIDE DEF items
<1> QED
  BY <1>1, <1>2, <1>3, <1>4, FS_EmptySet

(* A longer part of the mask has at least as many of them.                 *)
LEMMA CountUpToGrows ==
  ASSUME NEW t, NEW mask, NEW widths, NEW m \in Nat, NEW n \in Nat, m <= n
  PROVE  CountUpTo(t, m, mask, widths) <= CountUpTo(t, n, mask, widths)
<1> DEFINE count(k) == CountUpTo(t, k, mask, widths)
           T == {d \in Nat : count(m) <= count(m + d)}
<1>1. \A k \in Nat : count(k) \in Nat /\ count(k) <= count(k + 1)
  <2>1. ASSUME NEW k \in Nat PROVE count(k) \in Nat /\ count(k) <= count(k + 1)
    <3>1. count(k) \in Nat
      BY CountUpToIs
    <3>2. CASE TraceOf(mask[k + 1], widths) = t
      <4>1. count(k + 1) = count(k) + 1
        BY <3>2, CountUpToIs
      <4> HIDE DEF count
      <4> QED BY <3>1, <4>1
    <3>3. CASE TraceOf(mask[k + 1], widths) # t
      <4>1. count(k + 1) = count(k)
        BY <3>3, CountUpToIs
      <4> HIDE DEF count
      <4> QED BY <3>1, <4>1
    <3> QED BY <3>2, <3>3
  <2> QED BY <2>1
<1> HIDE DEF count
<1>2. 0 \in T
  BY <1>1
<1>3. ASSUME NEW d \in T PROVE d + 1 \in T
  <2>1. m + (d + 1) = (m + d) + 1 /\ m + d \in Nat
    OBVIOUS
  <2>2. count(m) \in Nat /\ count(m + d) \in Nat /\ count((m + d) + 1) \in Nat
        /\ count(m + d) <= count((m + d) + 1)
    BY <2>1, <1>1
  <2>3. count(m) <= count(m + d)
    OBVIOUS
  <2> QED BY <2>1, <2>2, <2>3
<1>4. T = Nat
  <2>1. T \in SUBSET Nat
    OBVIOUS
  <2> HIDE DEF T
  <2> QED BY <1>2, <1>3, <2>1, SetInduction
<1>5. n - m \in T /\ m + (n - m) = n
  <2>1. n - m \in Nat /\ m + (n - m) = n
    OBVIOUS
  <2> HIDE DEF T
  <2> QED BY <1>4, <2>1
<1>6. count(m) <= count(n)
  BY <1>5
<1> QED
  BY <1>6 DEF count

(* The part of a trace has the items of the mask that are in it, in order. *)
LEMMA PartIs ==
  ASSUME NEW widths \in Seq(Nat), NEW mask, IsList(mask), NEW t \in 0..(Len(widths) - 1)
  PROVE  LET part == SplitMask(mask, widths)[t]
         IN  /\ IsList(part) /\ Len(part) = CountUpTo(t, Len(mask), mask, widths)
             /\ \A i \in 1..Len(mask) : TraceOf(mask[i], widths) = t =>
                  LET k == CountUpTo(t, i, mask, widths)
                  IN  /\ k \in 1..Len(part)
                      /\ part[k] = <<mask[i][1], ColumnToTraceColumn(mask[i][2], widths)[2]>>
             /\ \A k \in 1..Len(part) : \E i \in 1..Len(mask) :
                  TraceOf(mask[i], widths) = t /\ CountUpTo(t, i, mask, widths) = k
<1> DEFINE count(n) == CountUpTo(t, n, mask, widths)
           In(i) == TraceOf(mask[i], widths) = t
           place(k) == CHOOSE i \in DOMAIN mask : TraceOf(mask[i], widths) = t /\ count(i) = k
           item(k) == <<mask[place(k)][1], ColumnToTraceColumn(mask[place(k)][2], widths)[2]>>
<1>1. PICK part : part = SplitMask(mask, widths)[t]
  OBVIOUS
<1>2. PICK n \in Nat : n = Len(mask) /\ DOMAIN mask = 1..n
  BY ListProperties
<1>3. part = [k \in 1..count(n) |-> item(k)]
  BY <1>1, <1>2 DEF SplitMask
<1>4. /\ \A k \in Nat : count(k) \in Nat
      /\ count(0) = 0
      /\ \A k \in Nat : In(k + 1) => count(k + 1) = count(k) + 1
      /\ \A k \in Nat : ~In(k + 1) => count(k + 1) = count(k)
  <2>1. \A k \in Nat : count(k) \in Nat
    BY CountUpToIs
  <2>2. count(0) = 0
    BY CountUpToIs
  <2>3. ASSUME NEW k \in Nat, In(k + 1) PROVE count(k + 1) = count(k) + 1
    BY <2>3, CountUpToIs
  <2>4. ASSUME NEW k \in Nat, ~In(k + 1) PROVE count(k + 1) = count(k)
    BY <2>4, CountUpToIs
  <2> HIDE DEF count, In
  <2> QED BY <2>1, <2>2, <2>3, <2>4
<1>5. \A i, j \in Nat : i <= j => count(i) <= count(j)
  BY CountUpToGrows
<1>7. \A k : place(k) = CHOOSE i \in 1..n : In(i) /\ count(i) = k
  BY <1>2
<1> HIDE DEF count, In, place
<1>8. IsList(part) /\ Len(part) = count(n) /\ \A k \in 1..count(n) : part[k] = item(k)
  <2> HIDE DEF item
  <2>1. part = [k \in 1..count(n) |-> part[k]] /\ \A k \in 1..count(n) : part[k] = item(k)
    BY <1>3
  <2> QED BY <2>1, <1>2, <1>4, IndexedIsList
<1>9. ASSUME NEW i \in 1..n, In(i) PROVE count(i) \in 1..count(n) /\ place(count(i)) = i
  <2>1. i - 1 \in Nat /\ (i - 1) + 1 = i /\ i \in Nat /\ i <= n
    OBVIOUS
  <2>2. count(i) = count(i - 1) + 1 /\ count(i - 1) \in Nat /\ count(i) <= count(n)
        /\ count(n) \in Nat
    BY <2>1, <1>2, <1>4, <1>5, <1>9
  <2>3. ASSUME NEW j \in 1..n, In(j), count(j) = count(i) PROVE j = i
    <3>1. j - 1 \in Nat /\ (j - 1) + 1 = j /\ j \in Nat
      OBVIOUS
    <3>2. count(j) = count(j - 1) + 1 /\ count(j - 1) \in Nat
      BY <3>1, <1>4, <2>3
    <3>3. i < j => count(i) <= count(j - 1)
      BY <2>1, <3>1, <1>5
    <3>4. j < i => count(j) <= count(i - 1)
      BY <2>1, <3>1, <1>5
    <3> QED BY <2>1, <2>2, <2>3, <3>1, <3>2, <3>3, <3>4
  <2>4. place(count(i)) \in 1..n /\ In(place(count(i))) /\ count(place(count(i))) = count(i)
    BY <1>7, <1>9
  <2> QED BY <2>2, <2>3, <2>4
<1>10. ASSUME NEW k \in 1..count(n) PROVE \E i \in 1..n : In(i) /\ count(i) = k
  <2> DEFINE T == {m \in Nat : k <= count(m)}
  <2>1. k \in Nat /\ 1 <= k /\ k <= count(n) /\ count(n) \in Nat
    BY <1>2, <1>4
  <2>2. T \in SUBSET Nat /\ n \in T
    BY <1>2, <2>1
  <2>3. PICK i \in T : \A j \in T : i <= j
    <3> HIDE DEF T
    <3> QED BY <2>2, LeastOf
  <2>4. i \in Nat /\ k <= count(i) /\ i <= n /\ i # 0
    BY <2>1, <2>2, <2>3, <1>4
  <2>5. i - 1 \in Nat /\ (i - 1) + 1 = i /\ i - 1 \notin T
    BY <2>3, <2>4
  <2>6. count(i - 1) \in Nat /\ count(i - 1) < k
    <3>1. count(i - 1) \in Nat
      BY <2>5, <1>4
    <3>2. ~(k <= count(i - 1))
      BY <2>5
    <3> QED BY <2>1, <3>1, <3>2
  <2>7. (In(i) => count(i) = count(i - 1) + 1) /\ (~In(i) => count(i) = count(i - 1))
    BY <2>5, <1>4
  <2>8. In(i) /\ count(i) = k
    BY <2>1, <2>4, <2>6, <2>7
  <2> QED BY <2>4, <2>8
<1>11. \A i \in 1..n : In(i) => part[count(i)] = <<mask[i][1], ColumnToTraceColumn(mask[i][2], widths)[2]>>
  <2>1. ASSUME NEW i \in 1..n, In(i)
        PROVE  part[count(i)] = <<mask[i][1], ColumnToTraceColumn(mask[i][2], widths)[2]>>
    <3>1. PICK k \in 1..count(n) : k = count(i) /\ place(k) = i
      BY <1>9, <2>1
    <3>2. part[k] = item(k)
      BY <1>8
    <3> QED BY <3>1, <3>2
  <2> QED BY <2>1
<1> HIDE DEF item
<1> QED
  BY <1>1, <1>2, <1>8, <1>9, <1>10, <1>11 DEF count, In

Sampled == EvalMaskAtPoint \o BrokenEvaluation

(* An item of a mask is in the trace of its column.                        *)
LEMMA TraceOfItem ==
  ASSUME NEW widths \in Seq(Nat), NEW item, item[2] \in Nat, item[2] < SumOf(widths)
  PROVE  /\ TraceOf(item, widths) \in 0..(Len(widths) - 1)
         /\ ColumnToTraceColumn(item[2], widths)[2] \in 0..(widths[TraceOf(item, widths) + 1] - 1)
         /\ Concatenated(widths)[item[2] + 1]
              = <<TraceOf(item, widths), ColumnToTraceColumn(item[2], widths)[2]>>
<1>1. PICK t \in 1..Len(widths) : \E k \in 0..(widths[t] - 1) :
        /\ item[2] = SumOfFirst(widths, t - 1) + k
        /\ ColumnToTraceColumn(item[2], widths) = <<t - 1, k>>
  BY ColumnIs
<1>2. PICK k \in 0..(widths[t] - 1) : ColumnToTraceColumn(item[2], widths) = <<t - 1, k>>
  BY <1>1
<1>3. Concatenated(widths)[item[2] + 1] = <<t - 1, k>>
  BY <1>2, ConcatenatedColumn
<1>4. TraceOf(item, widths) = t - 1 /\ ColumnToTraceColumn(item[2], widths)[2] = k
  BY <1>2 DEF TraceOf
<1>5. (t - 1) + 1 = t
  OBVIOUS
<1> QED
  BY <1>3, <1>4, <1>5

(* The items of the mask are columns of the first traces.                  *)
LEMMA MaskIsInside ==
  ASSUME params \in Parameters, NEW i \in 1..Len(params.mask)
  PROVE  /\ params.mask[i] \in Nat \X Nat /\ params.mask[i][2] < SumOf(params.widths)
         /\ IsList(params.mask) /\ DOMAIN params.mask = 1..Len(params.mask)
<1>1. /\ params.mask \in Seq(Nat \X Nat)
      /\ \A j \in DOMAIN params.mask : params.mask[j][2] < SumOf(params.widths)
  BY ParametersAssumption
<1> QED
  BY <1>1, ListIs

(* What the prover samples of the traces are the columns of the mask, each *)
(* at its row.                                                             *)
LEMMA MaskIsSampled ==
  ASSUME params \in Parameters
  PROVE  EvalMaskAtPoint =
           [i \in DOMAIN params.mask |->
              Evaluation(Concatenated(params.widths)[params.mask[i][2] + 1],
                         PointAt(1, params.mask[i][1], params.logTrace))]
<1>1. PICK mask : mask = params.mask
  OBVIOUS
<1>2. PICK widths : widths = params.widths
  OBVIOUS
<1>3. PICK parts : parts = SplitMask(mask, widths)
  OBVIOUS
<1>4. widths \in Seq(Nat) /\ IsList(mask) /\ DOMAIN mask = 1..Len(mask)
  <2>1. /\ params.widths \in Seq(Nat) /\ params.mask \in Seq(Nat \X Nat)
    BY ParametersAre
  <2> QED BY <2>1, <1>1, <1>2, ListIs
<1>5. DOMAIN parts = 0..(Len(widths) - 1)
  BY <1>3 DEF SplitMask
<1> DEFINE value(t, k) == Evaluation(<<t, parts[t][k][2]>>,
                                     PointAt(1, parts[t][k][1], params.logTrace))
<1>6. PICK values : values = [t \in DOMAIN parts |-> [k \in DOMAIN parts[t] |-> value(t, k)]]
  OBVIOUS
<1>7. EvalMaskAtPoint = Reassembled(values, mask, widths, 0)
  BY <1>1, <1>2, <1>3, <1>6 DEF EvalMaskAtPoint
<1>8. ASSUME NEW i \in 1..Len(mask)
      PROVE  values[TraceOf(mask[i], widths)]
               [0 * CountUpTo(TraceOf(mask[i], widths), Len(mask), mask, widths)
                  + CountUpTo(TraceOf(mask[i], widths), i, mask, widths)]
             = Evaluation(Concatenated(widths)[mask[i][2] + 1],
                          PointAt(1, mask[i][1], params.logTrace))
  <2>1. mask[i] \in Nat \X Nat /\ mask[i][2] < SumOf(widths)
    BY <1>1, <1>2, MaskIsInside
  <2>2. PICK t : t = TraceOf(mask[i], widths)
    OBVIOUS
  <2>3. PICK column : column = ColumnToTraceColumn(mask[i][2], widths)[2]
    OBVIOUS
  <2>4. t \in 0..(Len(widths) - 1) /\ Concatenated(widths)[mask[i][2] + 1] = <<t, column>>
    <3>1. mask[i][2] \in Nat
      BY <2>1
    <3> QED BY <3>1, <2>1, <2>2, <2>3, <1>4, TraceOfItem
  <2>5. PICK k : k = CountUpTo(t, i, mask, widths)
    OBVIOUS
  <2>6. /\ k \in 1..Len(parts[t]) /\ IsList(parts[t])
        /\ parts[t][k] = <<mask[i][1], column>>
    BY <2>2, <2>3, <2>4, <2>5, <1>3, <1>4, PartIs
  <2>7. k \in DOMAIN parts[t] /\ k \in Nat
    BY <2>6, ListProperties
  <2>8. values[t][k] = value(t, k)
    <3> HIDE DEF value
    <3> QED BY <2>4, <2>7, <1>5, <1>6
  <2>9. values[t][k] = Evaluation(<<t, column>>, PointAt(1, mask[i][1], params.logTrace))
    BY <2>6, <2>8
  <2>10. 0 * CountUpTo(t, Len(mask), mask, widths) + k = k
    <3>1. Len(mask) \in Nat
      BY <1>4, ListProperties
    <3>2. PICK n : n = CountUpTo(t, Len(mask), mask, widths)
      OBVIOUS
    <3>3. n \in Nat
      BY <3>1, <3>2, CountUpToIs
    <3>4. 0 * n + k = k
      BY <3>3, <2>7
    <3> QED BY <3>2, <3>4
  <2> QED BY <2>2, <2>4, <2>5, <2>9, <2>10
<1>9. EvalMaskAtPoint = [i \in 1..Len(mask) |->
        Evaluation(Concatenated(widths)[mask[i][2] + 1], PointAt(1, mask[i][1], params.logTrace))]
  BY <1>4, <1>7, <1>8 DEF Reassembled
<1> QED
  BY <1>1, <1>2, <1>4, <1>9

(* The equation holds for the values that are sampled.                     *)
LEMMA OodsIsTrue ==
  ASSUME params \in Parameters
  PROVE  OodsHolds(Sampled)
BY MaskIsSampled DEF OodsHolds, Sampled

(* The values that are sampled, one by one.                                *)
LEMMA SampledAre ==
  ASSUME params \in Parameters
  PROVE  /\ IsList(Sampled) /\ Len(Sampled) = Len(params.mask) + params.nBreaks
         /\ \A i \in 1..Len(params.mask) :
              Sampled[i] = Evaluation(Concatenated(params.widths)[params.mask[i][2] + 1],
                                      PointAt(1, params.mask[i][1], params.logTrace))
         /\ \A i \in 1..params.nBreaks :
              Sampled[Len(params.mask) + i]
                = Evaluation(<<NTraces - 1, i - 1>>, PointAt(params.nBreaks, 0, params.logTrace))
<1>1. PICK n \in Nat : n = Len(params.mask) /\ DOMAIN params.mask = 1..n
  <2>1. params.mask \in Seq(Nat \X Nat)
    BY ParametersAre
  <2> QED BY <2>1
<1>2. params.nBreaks \in Nat
  BY ParametersAre
<1> DEFINE first(i) == Evaluation(Concatenated(params.widths)[params.mask[i][2] + 1],
                                  PointAt(1, params.mask[i][1], params.logTrace))
           second(i) == Evaluation(<<NTraces - 1, i - 1>>,
                                   PointAt(params.nBreaks, 0, params.logTrace))
<1>3. EvalMaskAtPoint = [i \in 1..n |-> first(i)]
  BY <1>1, MaskIsSampled
<1>4. BrokenEvaluation = [i \in 1..params.nBreaks |-> second(i)]
  BY DEF BrokenEvaluation
<1> HIDE DEF first, second
<1>5. PICK s, t : s = EvalMaskAtPoint /\ t = BrokenEvaluation
  OBVIOUS
<1>6. IsList(s) /\ Len(s) = n /\ \A i \in 1..n : s[i] = first(i)
  <2>1. s = [i \in 1..n |-> s[i]] /\ \A i \in 1..n : s[i] = first(i)
    BY <1>3, <1>5
  <2> QED BY <2>1, <1>1, IndexedIsList
<1>7. IsList(t) /\ Len(t) = params.nBreaks /\ \A i \in 1..params.nBreaks : t[i] = second(i)
  <2>1. t = [i \in 1..params.nBreaks |-> t[i]] /\ \A i \in 1..params.nBreaks : t[i] = second(i)
    BY <1>4, <1>5
  <2> QED BY <2>1, <1>2, IndexedIsList
<1>8. /\ IsList(s \o t) /\ Len(s \o t) = n + params.nBreaks
      /\ \A i \in 1..n : (s \o t)[i] = first(i)
      /\ \A i \in 1..params.nBreaks : (s \o t)[n + i] = second(i)
  BY <1>6, <1>7, Joined
<1> QED
  BY <1>1, <1>5, <1>8 DEF Sampled, first, second

-----------------------------------------------------------------------------
(* The boundary constraints of the columns: what FRI is run on is of low   *)
(* degree.                                                                 *)

(* The broken composition is one more trace after the others.              *)
LEMMA WidthsAre ==
  ASSUME params \in Parameters
  PROVE  /\ Widths \in Seq(Nat) /\ params.widths \in Seq(Nat)
         /\ Len(Widths) = Len(params.widths) + 1 /\ NTraces = Len(Widths)
         /\ SumOfFirst(Widths, Len(params.widths)) = SumOf(params.widths)
         /\ SumOf(Widths) = SumOf(params.widths) + params.nBreaks
         /\ Widths[Len(params.widths) + 1] = params.nBreaks
         /\ SumOf(params.widths) \in Nat /\ params.nBreaks \in Nat
         /\ \A t \in 1..Len(params.widths) :
              Widths[t] = params.widths[t]
                /\ SumOfFirst(Widths, t - 1) = SumOfFirst(params.widths, t - 1)
<1>1. PICK widths : widths = params.widths
  OBVIOUS
<1>2. widths \in Seq(Nat) /\ params.nBreaks \in Nat /\ Widths \in Seq(Nat)
  BY <1>1, ParametersAre
<1>3. PICK n \in Nat : n = Len(widths)
  BY <1>2
<1>4. /\ Len(Widths) = n + 1 /\ Widths[n + 1] = params.nBreaks
      /\ \A t \in 1..n : Widths[t] = widths[t] /\ widths[t] \in Nat
  BY <1>1, <1>2, <1>3 DEF Widths
<1>5. ASSUME NEW m \in 0..n PROVE SumOfFirst(Widths, m) = SumOfFirst(widths, m)
  <2>1. \A t \in 1..m : Widths[t] = widths[t] /\ widths[t] \in Nat
    BY <1>4
  <2> QED BY <2>1, SameSums
<1>6. n \in 0..n /\ \A t \in 1..n : t - 1 \in 0..n
  OBVIOUS
<1>7. SumOfFirst(Widths, n + 1) = SumOfFirst(Widths, n) + params.nBreaks
  <2>1. n + 1 \in Nat /\ n \in 0..((n + 1) - 1)
    OBVIOUS
  <2>2. \A t \in 1..(n + 1) : Widths[t] \in Nat
    BY <1>2, <1>4
  <2>3. SumOfFirst(Widths, n + 1) = SumOfFirst(Widths, n) + Widths[n + 1]
    BY <2>1, <2>2, SumOfFirstIs
  <2> QED BY <2>3, <1>4
<1>8. SumOf(widths) \in Nat
  BY <1>3, <1>4, <1>6, SumOfFirstIs DEF SumOf
<1> QED
  BY <1>1, <1>2, <1>3, <1>4, <1>5, <1>6, <1>7, <1>8 DEF SumOf, NTraces

(* The columns of the first traces are the same in all traces.             *)
LEMMA SameColumn ==
  ASSUME params \in Parameters, NEW column \in Nat, column < SumOf(params.widths)
  PROVE  Concatenated(Widths)[column + 1] = Concatenated(params.widths)[column + 1]
<1>1. PICK widths : widths = params.widths
  OBVIOUS
<1>2. PICK t \in 1..Len(widths) : \E k \in 0..(widths[t] - 1) :
        /\ column = SumOfFirst(widths, t - 1) + k
        /\ ColumnToTraceColumn(column, widths) = <<t - 1, k>>
  BY <1>1, WidthsAre, ColumnIs
<1>3. PICK k \in 0..(widths[t] - 1) : column = SumOfFirst(widths, t - 1) + k
  BY <1>2
<1>4. /\ Widths[t] = widths[t] /\ SumOfFirst(Widths, t - 1) = SumOfFirst(widths, t - 1)
      /\ Widths \in Seq(Nat) /\ widths \in Seq(Nat) /\ t \in 1..Len(Widths)
  <2>1. Len(widths) \in Nat
    BY <1>1, WidthsAre
  <2> QED BY <2>1, <1>1, WidthsAre
<1>5. Concatenated(widths)[SumOfFirst(widths, t - 1) + k + 1] = <<t - 1, k>>
  BY <1>4, ConcatenatedIs
<1>6. Concatenated(Widths)[SumOfFirst(Widths, t - 1) + k + 1] = <<t - 1, k>>
  BY <1>4, ConcatenatedIs
<1> QED
  BY <1>1, <1>3, <1>4, <1>5, <1>6

(* Its columns are the last of all.                                        *)
LEMMA BrokenColumn ==
  ASSUME params \in Parameters, NEW i \in 1..params.nBreaks
  PROVE  Concatenated(Widths)[SumOf(params.widths) + i] = <<NTraces - 1, i - 1>>
<1>1. PICK n \in Nat : n = Len(params.widths)
  BY WidthsAre
<1>2. PICK w \in Nat : w = SumOf(params.widths)
  BY WidthsAre
<1>3. /\ Widths \in Seq(Nat) /\ Len(Widths) = n + 1 /\ NTraces = n + 1
      /\ SumOfFirst(Widths, (n + 1) - 1) = w /\ Widths[n + 1] = params.nBreaks
      /\ params.nBreaks \in Nat
  <2>1. (n + 1) - 1 = n
    OBVIOUS
  <2> QED BY <2>1, <1>1, <1>2, WidthsAre
<1>4. PICK k \in 0..(Widths[n + 1] - 1) : k = i - 1
  BY <1>3
<1>5. n + 1 \in 1..Len(Widths)
  BY <1>3
<1>6. Concatenated(Widths)[SumOfFirst(Widths, (n + 1) - 1) + k + 1] = <<(n + 1) - 1, k>>
  BY <1>3, <1>5, ConcatenatedIs
<1>7. w + k + 1 = w + i /\ (n + 1) - 1 = NTraces - 1
  BY <1>3, <1>4
<1> QED
  BY <1>2, <1>3, <1>4, <1>6, <1>7

IsTrue(c) == c.y = Evaluation(Concatenated(Widths)[c.column + 1], c.x)

(* The constraints of an item of the mask are true of its column.          *)
LEMMA MaskConstraintsAre ==
  ASSUME params \in Parameters, NEW i \in 1..Len(params.mask), NEW value,
         value = Evaluation(Concatenated(params.widths)[params.mask[i][2] + 1],
                            PointAt(1, params.mask[i][1], params.logTrace))
  PROVE  LET list == MaskConstraints(params.mask, i, value, params.extension, params.logTrace)
         IN  /\ IsList(list)
             /\ \A j \in 1..Len(list) : /\ IsTrue(list[j]) /\ list[j].column = params.mask[i][2]
<1>1. PICK point : point = PointAt(1, params.mask[i][1], params.logTrace)
  OBVIOUS
<1>2. PICK column : column = params.mask[i][2]
  OBVIOUS
<1>3. PICK it : it = Concatenated(Widths)[column + 1]
  OBVIOUS
<1>4. it = Concatenated(params.widths)[column + 1] /\ value = Evaluation(it, point)
  <2>1. column \in Nat /\ column < SumOf(params.widths)
    BY <1>2, MaskIsInside
  <2> QED BY <2>1, <1>1, <1>2, <1>3, SameColumn
<1>5. point[1] = "z"
  BY <1>1 DEF PointAt
<1>6. value = <<"eval", it, point>>
  BY <1>4, <1>5 DEF Evaluation
<1>7. PICK first : first = Constraint(column, point, value)
  OBVIOUS
<1>8. PICK second : second = Constraint(column, Conjugate(point), Frobenius(value))
  OBVIOUS
<1>9. IsTrue(first) /\ first.column = column
  BY <1>3, <1>4, <1>7 DEF IsTrue, Constraint
<1>10. IsTrue(second) /\ second.column = column
  <2>1. Evaluation(it, Conjugate(point)) = Frobenius(<<"eval", it, point>>)
    <3>1. Conjugate(point)[1] = "conjugate" /\ Conjugate(point)[2] = point
      BY DEF Conjugate
    <3> QED BY <3>1 DEF Evaluation
  <2>2. second.column = column /\ second.x = Conjugate(point) /\ second.y = Frobenius(value)
    BY <1>8 DEF Constraint
  <2> QED BY <2>1, <2>2, <1>3, <1>6 DEF IsTrue
<1>11. PICK list : list = MaskConstraints(params.mask, i, value, params.extension, params.logTrace)
  OBVIOUS
<1>12. list = <<first>> \/ list = Append(<<first>>, second)
  BY <1>1, <1>2, <1>7, <1>8, <1>11 DEF MaskConstraints
<1>13. CASE list = <<first>>
  <2>1. IsList(list) /\ Len(list) = 1 /\ list[1] = first
    BY <1>13, OneElement
  <2>2. \A j \in 1..1 : j = 1
    OBVIOUS
  <2> QED BY <2>1, <2>2, <1>2, <1>9, <1>11
<1>14. CASE list = Append(<<first>>, second)
  <2>1. list \in Seq({first, second}) /\ Len(list) = 2 /\ list[1] = first /\ list[2] = second
    <3>1. PICK S : S = {first, second}
      OBVIOUS
    <3>2. PICK s : s = <<first>>
      OBVIOUS
    <3>3. s \in Seq(S) /\ Len(s) = 1 /\ s[1] = first /\ second \in S
      BY <3>1, <3>2
    <3>3a. s \in Seq(S) /\ second \in S
      BY <3>3
    <3>4. /\ Append(s, second) \in Seq(S) /\ Len(Append(s, second)) = Len(s) + 1
          /\ \A k \in 1..Len(s) : Append(s, second)[k] = s[k]
          /\ Append(s, second)[Len(s) + 1] = second
      BY ONLY <3>3a, AppendProperties
    <3>5. list = Append(s, second) /\ Len(s) + 1 = 2 /\ 1 \in 1..Len(s)
      BY <3>2, <3>3, <1>14
    <3> QED BY <3>1, <3>3, <3>4, <3>5
  <2>2. \A j \in 1..2 : j = 1 \/ j = 2
    OBVIOUS
  <2> QED BY <2>1, <2>2, <1>2, <1>9, <1>10, <1>11, ListIs
<1> QED
  BY <1>12, <1>13, <1>14

(* Every constraint is true of the committed columns, and on one of them.  *)
LEMMA ConstraintsAreTrue ==
  ASSUME params \in Parameters
  PROVE  LET all == Constraints(Sampled)
         IN  /\ IsList(all)
             /\ \A k \in 1..Len(all) : IsTrue(all[k]) /\ all[k].column \in 0..(SumOf(Widths) - 1)
<1>1. PICK n \in Nat : n = Len(params.mask)
  <2>1. params.mask \in Seq(Nat \X Nat)
    BY ParametersAre
  <2> QED BY <2>1
<1>2. PICK w \in Nat : w = SumOf(params.widths)
  BY WidthsAre
<1>2a. PICK m \in Nat : m = params.nBreaks /\ SumOf(Widths) = w + m
  BY <1>2, WidthsAre
<1>3. PICK values : values = Sampled
  OBVIOUS
<1> DEFINE list(i) == MaskConstraints(params.mask, i, values[i], params.extension, params.logTrace)
           last(i) == Constraint(w + i - 1, PointAt(m, 0, params.logTrace), values[n + i])
<1>4. PICK lists : lists = [i \in 1..n |-> list(i)]
  OBVIOUS
<1>5. PICK lasts : lasts = [i \in 1..m |-> last(i)]
  OBVIOUS
<1>6. Constraints(values) = FlattenSeq(lists) \o lasts
  BY <1>1, <1>2, <1>2a, <1>4, <1>5 DEF Constraints, BoundaryConstraints
<1> DEFINE Fits(c) == IsTrue(c) /\ c.column \in 0..(SumOf(Widths) - 1)
<1>7. ASSUME NEW i \in 1..n
      PROVE  IsList(list(i)) /\ \A j \in 1..Len(list(i)) : Fits(list(i)[j])
  <2>1. values[i] = Evaluation(Concatenated(params.widths)[params.mask[i][2] + 1],
                               PointAt(1, params.mask[i][1], params.logTrace))
    BY <1>1, <1>3, SampledAre
  <2>2. IsList(list(i))
        /\ \A j \in 1..Len(list(i)) : IsTrue(list(i)[j]) /\ list(i)[j].column = params.mask[i][2]
    BY <2>1, <1>1, MaskConstraintsAre
  <2>3. params.mask[i][2] \in 0..(SumOf(Widths) - 1)
    <3>1. params.mask[i][2] \in Nat /\ params.mask[i][2] < w
      BY <1>1, <1>2, MaskIsInside
    <3> QED BY <3>1, <1>2a
  <2> HIDE DEF list
  <2> QED BY <2>2, <2>3
<1>8. ASSUME NEW i \in 1..m PROVE Fits(last(i))
  <2>1. values[n + i] = Evaluation(<<NTraces - 1, i - 1>>, PointAt(m, 0, params.logTrace))
    BY <1>1, <1>2a, <1>3, SampledAre
  <2>2. Concatenated(Widths)[w + i] = <<NTraces - 1, i - 1>>
    BY <1>2, <1>2a, BrokenColumn
  <2>3. PICK c : c = last(i)
    OBVIOUS
  <2>4. c.column = w + i - 1 /\ c.x = PointAt(m, 0, params.logTrace) /\ c.y = values[n + i]
    BY <2>3 DEF Constraint
  <2>5. c.column + 1 = w + i /\ c.column \in 0..(SumOf(Widths) - 1)
    BY <2>4, <1>2a
  <2>6. IsTrue(c)
    BY <2>1, <2>2, <2>4, <2>5 DEF IsTrue
  <2> QED BY <2>3, <2>5, <2>6
<1>9. IsList(lists) /\ Len(lists) = n /\ \A i \in 1..n : lists[i] = list(i)
  <2> HIDE DEF list
  <2>1. lists = [i \in 1..n |-> lists[i]]
    BY <1>4
  <2> QED BY <2>1, <1>4, IndexedIsList
<1>10. IsList(lasts) /\ Len(lasts) = m /\ \A i \in 1..m : lasts[i] = last(i)
  <2> HIDE DEF last
  <2>1. lasts = [i \in 1..m |-> lasts[i]]
    BY <1>5
  <2> QED BY <2>1, <1>5, IndexedIsList
<1> HIDE DEF list, last, Fits
<1>11. \A i \in 1..n : IsList(lists[i]) /\ Len(lists[i]) \in Nat
                       /\ \A j \in 1..Len(lists[i]) : Fits(lists[i][j])
  BY <1>7, <1>9, ListProperties
<1>12. PICK before : before[0] = 0 /\ \A i \in 1..n : before[i] = before[i - 1] + Len(lists[i])
  <2>1. PICK lengths : lengths = [i \in 1..n |-> Len(lists[i])]
    OBVIOUS
  <2>2. \A i \in 1..n : lengths[i] = Len(lists[i]) /\ lengths[i] \in Nat
    BY <2>1, <1>11
  <2>3. /\ SumOfFirst(lengths, 0) = 0
        /\ \A k \in 0..(n - 1) : SumOfFirst(lengths, k + 1) = SumOfFirst(lengths, k) + lengths[k + 1]
    BY <2>2, SumOfFirstIs
  <2>4. PICK f : f = [k \in 0..n |-> SumOfFirst(lengths, k)]
    OBVIOUS
  <2>5. f[0] = 0
    BY <2>3, <2>4
  <2>6. ASSUME NEW i \in 1..n PROVE f[i] = f[i - 1] + Len(lists[i])
    <3>1. i - 1 \in 0..(n - 1) /\ (i - 1) + 1 = i /\ i \in 0..n /\ i - 1 \in 0..n
      OBVIOUS
    <3>2. SumOfFirst(lengths, i) = SumOfFirst(lengths, i - 1) + lengths[i]
      BY <3>1, <2>3
    <3> QED BY <3>1, <3>2, <2>2, <2>4
  <2> QED BY <2>5, <2>6
<1>13. PICK flat : flat = FlattenSeq(lists)
  OBVIOUS
<1>14. IsList(flat) /\ \A k \in 1..Len(flat) : Fits(flat[k])
  <2>1. IsList(flat)
    BY <1>9, <1>11, <1>12, <1>13, FlattenIs
  <2>2. ASSUME NEW k \in 1..Len(flat) PROVE Fits(flat[k])
    <3>0. /\ IsList(lists) /\ \A i \in 1..Len(lists) : IsList(lists[i])
          /\ before[0] = 0 /\ \A i \in 1..Len(lists) : before[i] = before[i - 1] + Len(lists[i])
          /\ k \in 1..Len(FlattenSeq(lists))
      BY <1>9, <1>11, <1>12, <1>13
    <3>1. \E i \in 1..Len(lists) : \E j \in 1..Len(lists[i]) :
             k = before[i - 1] + j /\ FlattenSeq(lists)[k] = lists[i][j]
      BY ONLY <3>0, FlattenedElements
    <3>2. PICK i \in 1..n : \E j \in 1..Len(lists[i]) : flat[k] = lists[i][j]
      BY <3>1, <1>9, <1>13
    <3> QED BY <3>2, <1>11
  <2> QED BY <2>1, <2>2
<1>15. PICK all : all = flat \o lasts
  OBVIOUS
<1>16. /\ IsList(all) /\ Len(all) = Len(flat) + m
       /\ \A k \in 1..Len(flat) : all[k] = flat[k]
       /\ \A k \in 1..m : all[Len(flat) + k] = lasts[k]
  <2>1. IsList(flat) /\ IsList(lasts) /\ Len(lasts) = m
    BY <1>10, <1>14
  <2> QED BY ONLY <2>1, <1>15, Joined
<1>17. ASSUME NEW k \in 1..Len(all) PROVE Fits(all[k])
  <2>1. Len(flat) \in Nat
    BY <1>14, ListProperties
  <2>2. CASE k <= Len(flat)
    <3>1. k \in 1..Len(flat)
      BY <2>1, <2>2
    <3> QED BY <3>1, <1>14, <1>16
  <2>3. CASE ~(k <= Len(flat))
    <3>1. PICK i \in 1..m : i = k - Len(flat)
      BY <2>1, <2>3, <1>16
    <3>2. k = Len(flat) + i
      BY <3>1, <2>1
    <3> QED BY <3>2, <1>8, <1>10, <1>16
  <2> QED BY <2>2, <2>3
<1> QED
  BY <1>3, <1>6, <1>13, <1>15, <1>16, <1>17 DEF Fits

(* So what FRI is run on is of low degree.                                 *)
LEMMA QuotientsAreOfLowDegree ==
  ASSUME params \in Parameters, pConstraints = Constraints(Sampled)
  PROVE  IsOfLowDegree
<1>1. PICK all : all = Constraints(Sampled)
  OBVIOUS
<1>2. IsList(all) /\ \A k \in 1..Len(all) : IsTrue(all[k])
  BY <1>1, ConstraintsAreTrue
<1>3. DOMAIN all = 1..Len(all)
  BY <1>2, ListProperties
<1> QED
  BY <1>1, <1>2, <1>3 DEF IsOfLowDegree, IsTrue

-----------------------------------------------------------------------------
(* The steps and the queries of FRI.                                       *)

(* The FRI steps are natural numbers, one for each layer.                  *)
LEMMA StepsAre ==
  ASSUME params \in Parameters
  PROVE  /\ IsList(params.friSteps) /\ Len(params.friSteps) = NLayers /\ NLayers \in Nat \ {0}
         /\ \A i \in 1..NLayers : params.friSteps[i] \in Nat
         /\ Step(0) = params.friSteps[1] /\ Step(0) \in Nat
         /\ Step(0) <= params.logSize /\ params.logSize \in Nat /\ params.logTrace \in Nat
<1>1. PICK s : s = params.friSteps
  OBVIOUS
<1>2. /\ s \in Seq(Nat) /\ s # <<>> /\ SumOf(s) <= params.logTrace
      /\ params.logTrace <= params.logSize /\ params.logTrace \in Nat /\ params.logSize \in Nat
  BY <1>1, ParametersAssumption
<1>3. PICK n \in Nat \ {0} : n = Len(s)
  BY <1>2
<1>4. IsList(s) /\ \A i \in 1..n : s[i] \in Nat
  BY <1>2, <1>3, ListIs
<1>5. 1 \in 1..n /\ n \in 1..n /\ s[1] \in Nat
  BY <1>4
<1>6. SumOf(SubSeq(s, 2, n)) \in Nat /\ SumOf(SubSeq(s, 2, n)) = SumOfFirst(s, n) - s[1]
  BY <1>3, <1>4, <1>5, SumAfterFirst
<1>7. SumOfFirst(s, n) \in Nat /\ SumOfFirst(s, n) = SumOf(s)
  <2>1. n \in 0..n
    OBVIOUS
  <2> QED BY <2>1, <1>3, <1>4, SumOfFirstIs DEF SumOf
<1>8. s[1] <= params.logSize
  BY <1>2, <1>5, <1>6, <1>7
<1>9. Step(0) = s[1]
  BY <1>1 DEF Step
<1> QED
  BY <1>1, <1>2, <1>3, <1>4, <1>5, <1>8, <1>9 DEF NLayers

(* The queries are a list of natural numbers.                              *)
LEMMA QueriesAreNumbers ==
  ASSUME params \in Parameters, NEW queries, QueriesAre(queries)
  PROVE  /\ IsList(queries) /\ Len(queries) = params.nQueries /\ params.nQueries \in Nat
         /\ \A j \in 1..params.nQueries : queries[j] \in Nat
<1>1. PICK numbers \in QueryValues : queries = Increasing(numbers)
  BY DEF QueriesAre
<1>2. PICK m \in Nat : m = NFirstIndices - 1
  <2>1. params.logSize - Step(0) \in Nat
    BY StepsAre
  <2>2. Pow2[params.logSize - Step(0)] \in Nat \ {0}
    BY <2>1, Pow2Is
  <2> QED BY <2>2 DEF NFirstIndices
<1>3. PICK n \in Nat : n = params.nQueries
  BY ParametersAre
<1>4. numbers \in [1..n -> 0..m]
  BY <1>1, <1>2, <1>3 DEF QueryValues
<1>5. queries \in [1..n -> 0..m]
  BY <1>1, <1>4, IncreasingIsNumbers
<1>6. queries = [j \in 1..n |-> queries[j]] /\ \A j \in 1..n : queries[j] \in Nat
  BY <1>5
<1> QED
  BY <1>3, <1>6, IndexedIsList

(* There is one query of the first layer for each place in the coset of    *)
(* each query.                                                             *)
LEMMA FirstQueriesAre ==
  ASSUME NEW queries, IsList(queries), \A j \in 1..Len(queries) : queries[j] \in Nat,
         NEW size \in Nat \ {0}
  PROVE  LET first == FirstLayerQueries(queries, size)
         IN  /\ IsList(first) /\ Len(first) = Len(queries) * size
             /\ \A i \in 1..Len(first) : first[i] \in Nat
<1>1. PICK n \in Nat : n = Len(queries)
  BY ListProperties
<1>2. PICK m \in Nat : m = n * size
  <2>1. n * size \in Nat
    OBVIOUS
  <2> QED BY <2>1
<1>3. PICK first : first = FirstLayerQueries(queries, size)
  OBVIOUS
<1>4. /\ first = [i \in 1..m |-> first[i]]
      /\ \A i \in 1..m : first[i] = queries[((i - 1) \div size) + 1] * size + ((i - 1) % size)
  BY <1>1, <1>2, <1>3 DEF FirstLayerQueries
<1>5. IsList(first) /\ Len(first) = m
  BY <1>4, IndexedIsList
<1>6. ASSUME NEW i \in 1..m PROVE first[i] \in Nat
  <2>1. PICK a, b \in Nat : a = (i - 1) \div size /\ b = (i - 1) % size /\ i - 1 = size * a + b
                            /\ b < size
    OBVIOUS
  <2>2. a < n
    <3>1. size * a < size * n
      BY <2>1, <1>2
    <3>2. a >= n => size * a >= size * n
      OBVIOUS
    <3> QED BY <3>1, <3>2
  <2>3. a + 1 \in 1..Len(queries)
    BY <2>2, <1>1
  <2>4. queries[a + 1] \in Nat
    BY <2>3
  <2>5. queries[a + 1] * size + b \in Nat
    BY <2>4
  <2> QED BY <2>1, <2>5, <1>4
<1> QED
  BY <1>1, <1>2, <1>3, <1>5, <1>6

(* The reversal of a reversed index is the index, so a mask without an     *)
(* offset asks for the row itself.                                         *)
LEMMA RowOfNoOffset ==
  ASSUME NEW q \in Nat, NEW b \in Nat
  PROVE  LET length == Pow2[b]
         IN  (q \div length) * length + BitReverse[b][(BitReverse[b][q % length] + 0) % length] = q
<1>1. PICK n \in Nat \ {0} : n = Pow2[b]
  BY Pow2Is
<1>2. PICK c, d \in Nat : c = q \div n /\ d = q % n /\ q = n * c + d /\ d < n
  OBVIOUS
<1>3. d \in 0..(Pow2[b] - 1)
  BY <1>1, <1>2
<1>4. BitReverse[b][d] \in 0..(Pow2[b] - 1) /\ BitReverse[b][BitReverse[b][d]] = d
  BY <1>3, BitReverseRange, BitReverseTwice
<1>5. PICK e \in 0..(n - 1) : e = BitReverse[b][d]
  BY <1>1, <1>4
<1>6. (e + 0) % n = e
  BY <1>1
<1>7. c * n + d = q
  BY <1>2
<1> QED
  BY <1>1, <1>2, <1>4, <1>5, <1>6, <1>7

(* The cells that a trace is asked for at the queries of the first layer.  *)
LEMMA TraceCellsAre ==
  ASSUME params \in Parameters, NEW queries, QueriesAre(queries), NEW t \in 0..(NTraces - 1)
  PROVE  LET cells == QueriesToTrace(t, queries)
             first == FirstLayerQueries(queries, CosetSize(0))
             part == SplitMask(OracleMask, Widths)[t]
         IN  /\ IsList(cells) /\ Len(part) \in Nat /\ IsList(first)
             /\ Len(cells) = Len(first) * Len(part)
             /\ \A i \in 1..Len(cells) : cells[i] \in Nat \X (0..(Widths[t + 1] - 1))
             /\ \A k \in 0..(Len(first) - 1) : \A j \in 1..Len(part) :
                  cells[k * Len(part) + j] = <<first[k + 1], part[j][2]>>
<1>1. PICK cells : cells = QueriesToTrace(t, queries)
  OBVIOUS
<1>2. PICK first : first = FirstLayerQueries(queries, CosetSize(0))
  OBVIOUS
<1>3. PICK part : part = SplitMask(OracleMask, Widths)[t]
  OBVIOUS
<1>4. /\ IsList(queries) /\ Len(queries) = params.nQueries
      /\ \A j \in 1..Len(queries) : queries[j] \in Nat
  BY QueriesAreNumbers
<1>5. CosetSize(0) \in Nat \ {0} /\ params.logTrace \in Nat
  <2>1. Step(0) \in Nat /\ params.logTrace \in Nat
    BY StepsAre
  <2> QED BY <2>1, Pow2Is DEF CosetSize
<1>6. IsList(first) /\ \A i \in 1..Len(first) : first[i] \in Nat
  BY <1>2, <1>4, <1>5, FirstQueriesAre
<1>7. PICK mask : mask = OracleMask
  OBVIOUS
<1>8. /\ Widths \in Seq(Nat) /\ SumOf(Widths) \in Nat /\ NTraces = Len(Widths)
  <2>1. SumOf(Widths) = SumOf(params.widths) + params.nBreaks
    BY WidthsAre
  <2> QED BY <2>1, WidthsAre
<1>9. /\ IsList(mask) /\ Len(mask) = SumOf(Widths)
      /\ \A i \in 1..Len(mask) : mask[i] = <<0, i - 1>>
  <2>1. /\ mask = [i \in 1..SumOf(Widths) |-> mask[i]]
        /\ \A i \in 1..SumOf(Widths) : mask[i] = <<0, i - 1>>
    BY <1>7 DEF OracleMask, BoundaryMask
  <2> QED BY <2>1, <1>8, IndexedIsList
<1>10. IsList(part) /\ \A j \in 1..Len(part) : /\ part[j][1] = 0
                                               /\ part[j][2] \in 0..(Widths[t + 1] - 1)
  <2>1. t \in 0..(Len(Widths) - 1)
    BY <1>8
  <2>2. IsList(part)
    BY <2>1, <1>3, <1>7, <1>8, <1>9, PartIs
  <2>3. ASSUME NEW j \in 1..Len(part)
        PROVE  part[j][1] = 0 /\ part[j][2] \in 0..(Widths[t + 1] - 1)
    <3>1. PICK i \in 1..Len(mask) :
            TraceOf(mask[i], Widths) = t /\ CountUpTo(t, i, mask, Widths) = j
      BY <2>1, <1>3, <1>7, <1>8, <1>9, PartIs
    <3>2. part[j] = <<mask[i][1], ColumnToTraceColumn(mask[i][2], Widths)[2]>>
      <4>1. TraceOf(mask[i], Widths) = t =>
              part[CountUpTo(t, i, mask, Widths)]
                = <<mask[i][1], ColumnToTraceColumn(mask[i][2], Widths)[2]>>
        BY <2>1, <1>3, <1>7, <1>8, <1>9, PartIs
      <4> QED BY <4>1, <3>1
    <3>3. mask[i][1] = 0 /\ mask[i][2] = i - 1 /\ i - 1 \in Nat /\ i - 1 < SumOf(Widths)
      BY <1>8, <1>9
    <3>4. ColumnToTraceColumn(mask[i][2], Widths)[2] \in 0..(Widths[t + 1] - 1)
      BY <3>1, <3>3, <1>8, TraceOfItem
    <3> QED BY <3>2, <3>3, <3>4
  <2> QED BY <2>2, <2>3
<1>11. PICK n \in Nat : n = Len(part)
  BY <1>10, ListProperties
<1>12. PICK m \in Nat : m = Len(first)
  BY <1>6, ListProperties
<1>13. PICK total \in Nat : total = m * n
  <2>1. m * n \in Nat
    OBVIOUS
  <2> QED BY <2>1
<1> DEFINE length == Pow2[params.logTrace]
           cell(q, item) ==
             <<(q \div length) * length
                 + BitReverse[params.logTrace][(BitReverse[params.logTrace][q % length] + item[1])
                                                 % length],
               item[2]>>
<1>14. cells = [i \in 1..total |-> cell(first[((i - 1) \div n) + 1], part[((i - 1) % n) + 1])]
  BY <1>1, <1>2, <1>3, <1>11, <1>12, <1>13 DEF QueriesToTrace, TraceQueries
<1>15. ASSUME NEW k \in 1..m, NEW j \in 1..n
       PROVE  /\ cell(first[k], part[j]) = <<first[k], part[j][2]>>
              /\ <<first[k], part[j][2]>> \in Nat \X (0..(Widths[t + 1] - 1))
  <2>1. first[k] \in Nat /\ part[j][1] = 0 /\ part[j][2] \in 0..(Widths[t + 1] - 1)
    BY <1>6, <1>10, <1>11, <1>12
  <2>2. (first[k] \div length) * length
          + BitReverse[params.logTrace][(BitReverse[params.logTrace][first[k] % length] + 0)
                                          % length] = first[k]
    BY <2>1, <1>5, RowOfNoOffset
  <2> QED BY <2>1, <2>2
<1> HIDE DEF cell
<1>16. /\ cells = [i \in 1..total |-> cells[i]]
       /\ \A i \in 1..total : cells[i] = cell(first[((i - 1) \div n) + 1], part[((i - 1) % n) + 1])
  BY <1>14
<1>17. IsList(cells) /\ Len(cells) = total
  BY <1>16, IndexedIsList
<1>18. ASSUME NEW k \in 0..(m - 1), NEW j \in 1..n
       PROVE  cells[k * n + j] = <<first[k + 1], part[j][2]>>
  <2>1. PICK a \in Nat : a = k * n
    <3>1. k \in Nat /\ k * n \in Nat
      OBVIOUS
    <3> QED BY <3>1
  <2>2. a + j \in 1..total
    <3>1. (k + 1) * n <= m * n
      OBVIOUS
    <3>2. (k + 1) * n = a + n
      BY <2>1
    <3> QED BY <3>1, <3>2, <1>13
  <2>3. \A x, y, s \in Nat : s > 0 /\ y < s => (x * s + y) \div s = x /\ (x * s + y) % s = y
    OBVIOUS
  <2>4. PICK y \in Nat : y = j - 1
    OBVIOUS
  <2>5. k \in Nat /\ n > 0 /\ y < n
    BY <2>4
  <2>6. (k * n + y) \div n = k /\ (k * n + y) % n = y
    BY ONLY <2>3, <2>5, n \in Nat, y \in Nat
  <2>7. (a + j) - 1 = k * n + y
    BY <2>1, <2>4
  <2>8. cells[a + j] = cell(first[k + 1], part[y + 1])
    BY <2>2, <2>6, <2>7, <1>16
  <2>9. k + 1 \in 1..m /\ y + 1 = j
    BY <2>4
  <2> QED BY <2>1, <2>8, <2>9, <1>15
<1>19. ASSUME NEW i \in 1..total PROVE cells[i] \in Nat \X (0..(Widths[t + 1] - 1))
  <2>1. n # 0
    <3>1. n = 0 => total = 0
      BY <1>13
    <3> QED BY <3>1
  <2>2. PICK a, b \in Nat : a = (i - 1) \div n /\ b = (i - 1) % n /\ i - 1 = n * a + b /\ b < n
    BY <2>1
  <2>3. a < m
    <3>1. n * a < n * m
      BY <2>2, <1>13
    <3>2. a >= m => n * a >= n * m
      OBVIOUS
    <3> QED BY <3>1, <3>2
  <2>4. a + 1 \in 1..m /\ b + 1 \in 1..n
    BY <2>2, <2>3
  <2>5. cells[i] = cell(first[a + 1], part[b + 1])
    BY <2>2, <1>16
  <2>6. cell(first[a + 1], part[b + 1]) \in Nat \X (0..(Widths[t + 1] - 1))
    BY <2>4, <1>15
  <2> QED BY <2>5, <2>6
<1> QED
  BY <1>1, <1>2, <1>3, <1>6, <1>11, <1>12, <1>13, <1>17, <1>18, <1>19

-----------------------------------------------------------------------------
(* The prover's channel fails nowhere but in a layer with a step of zero.  *)

Excused == \E l \in 1..(NLayers - 1) : Step(l) = 0

(* A channel that can be drawn from.                                       *)
Open(c) == IsChannel(c) /\ ~c.failed /\ ~c.inQuery

(* A channel stays open while data is sent and randomness is drawn.        *)
LEMMA OpenSends ==
  ASSUME NEW c, NEW label, NEW unit, Open(c)
  PROVE  Open(Sends(c, <<label>>, <<unit>>))
<1>1. PICK labels : labels = <<label>>
  OBVIOUS
<1>2. PICK units : units = <<unit>> /\ IsList(units)
  BY OneElement
<1>3. Open(Sends(c, labels, units))
  BY <1>2, SendsGrows DEF Open
<1> QED
  BY <1>1, <1>2, <1>3

LEMMA OpenDraws ==
  ASSUME NEW c, NEW labels, Open(c), IsList(labels)
  PROVE  Open(Draws(c, labels))
BY DrawsIs, DrawnIs DEF Open

LEMMA OpenDraw ==
  ASSUME NEW c, NEW label, Open(c)
  PROVE  Open(Draws(c, <<label>>))
<1>1. PICK labels : labels = <<label>> /\ IsList(labels)
  BY OneElement
<1> QED
  BY <1>1, OpenDraws

(* A decommitment that has all rows it is asked for succeeds.              *)
LEMMA DecommitsGoes ==
  ASSUME NEW c, IsChannel(c), ~c.failed, NEW scope, NEW i, NEW table, NEW width \in Nat,
         NEW data, NEW integrity, IsFiniteSet(data), IsFiniteSet(integrity),
         data \intersect integrity = {}
  PROVE  ~Decommits(c, scope, i, table, width, data, integrity).failed
<1>1. PICK cells :
        cells = InOrder(ElementsToBeTransmitted(width, AllQueryRows(data, integrity), integrity))
  OBVIOUS
<1>2. PICK elements : elements = [k \in DOMAIN cells |-> Content(table, cells[k])]
  OBVIOUS
<1>3. PICK labels : labels = CellLabels(scope, i, cells)
  OBVIOUS
<1>4. IsList(cells)
  BY <1>1, FiniteCells, InOrderIsList
<1>5. Len(cells) \in Nat /\ DOMAIN cells = 1..Len(cells)
  BY <1>4, ListProperties
<1>6. IsList(elements)
  <2>1. elements = [k \in 1..Len(cells) |-> elements[k]]
    BY <1>2, <1>5
  <2> QED BY <2>1, <1>5, IndexedIsList
<1>7. PICK m : m = Sends(c, labels, elements)
  OBVIOUS
<1>8. IsChannel(m) /\ ~m.failed
  BY <1>6, <1>7, SendsGrows
<1>9. PICK units : units = << Nodes(table, AllQueryRows(data, integrity)) >> /\ IsList(units)
  BY OneElement
<1>10. ~Sends(m, << <<scope, i>> >>, units).failed
  BY <1>8, <1>9, SendsGrows
<1> QED
  BY <1>1, <1>2, <1>3, <1>7, <1>9, <1>10 DEF Decommits

(* Whatever the place, what comes after does not fail.                     *)
LEMMA ChannelGoes ==
  ASSUME params \in Parameters, NEW s, IsPlace(s), ~IsLast(s), IsChannel(s[3]), ~s[3].failed,
         s[1] \notin Late => ~s[3].inQuery,
         s[1] \in Late => QueriesAre(pQueries)
  PROVE  /\ After(s)[3].failed => Excused
         /\ After(s)[1] \notin Late /\ ~After(s)[3].failed => ~After(s)[3].inQuery
<1>1. PICK at : at = s[1]
  OBVIOUS
<1>2. PICK l : l = s[2]
  OBVIOUS
<1>3. PICK c : c = s[3]
  OBVIOUS
<1>4. PICK d : d = NextChannel(at, l, c)
  OBVIOUS
<1>5. After(s)[1] = NextAt(at, l) /\ After(s)[3] = d
  BY <1>1, <1>2, <1>3, <1>4 DEF After
<1>6. IsChannel(c) /\ ~c.failed /\ (at \notin Late => Open(c))
  BY <1>1, <1>3 DEF Open
<1>7. SUFFICES (d.failed => Excused) /\ (NextAt(at, l) \notin Late /\ ~d.failed => ~d.inQuery)
  BY <1>5
<1>8. ASSUME Open(d) PROVE (d.failed => Excused) /\ (NextAt(at, l) \notin Late /\ ~d.failed => ~d.inQuery)
  BY <1>8 DEF Open
<1>9. CASE at = "trace"
  BY <1>4, <1>6, <1>8, <1>9, OpenSends DEF NextChannel, Late
<1>10. CASE at = "interaction"
  <2>1. Open(Draws(c, InteractionLabels))
    BY <1>6, <1>10, InteractionLabelsAre, OpenDraws DEF Late
  <2> QED BY <1>4, <1>8, <1>10, <2>1, OpenSends DEF NextChannel
<1>11. CASE at = "composition"
  BY <1>4, <1>6, <1>8, <1>11, OpenDraw DEF NextChannel, Late
<1>12. CASE at = "broken"
  BY <1>4, <1>6, <1>8, <1>12, OpenSends DEF NextChannel, Late
<1>13. CASE at = "oods"
  <2>1. PICK e : e = Draws(c, << <<"OODS values: Evaluation point">> >>)
    OBVIOUS
  <2>2. Open(e)
    BY <1>6, <1>13, <2>1, OpenDraw DEF Late
  <2>3. PICK values : values = EvalMaskAtPoint \o BrokenEvaluation
    OBVIOUS
  <2>4. d = Sends(e, OodsLabels, values)
    BY <1>4, <1>13, <2>1, <2>3 DEF NextChannel
  <2>5. IsList(values)
    BY <2>3, OodsValues
  <2>6. Open(d)
    BY <2>2, <2>4, <2>5, SendsGrows DEF Open
  <2> QED BY <1>8, <2>6
<1>14. CASE at = "boundary"
  BY <1>4, <1>6, <1>8, <1>14, OpenDraw DEF NextChannel, Late
<1>15. CASE at = "layer"
  <2>1. l \in 1..NLayers /\ NLayers \in Nat
    BY <1>1, <1>2, <1>15, ParametersAre DEF IsPlace
  <2>2. PICK p : p = LayerPoint(l, c)
    OBVIOUS
  <2>3. Open(p)
    BY <1>6, <1>15, <2>2, OpenDraw DEF LayerPoint, Late
  <2>4. d = LayerChannel(l, c)
    BY <1>4, <1>15 DEF NextChannel
  <2>5. CASE l # 1 /\ Step(l - 1) = 0
    <3>1. l - 1 \in 1..(NLayers - 1)
      BY <2>1, <2>5
    <3>2. Excused
      BY <2>5, <3>1 DEF Excused
    <3>3. d.failed
      BY <1>6, <2>4, <2>5, FailedIs DEF LayerChannel
    <3> QED BY <3>2, <3>3
  <2>6. CASE ~(l # 1 /\ Step(l - 1) = 0)
    <3>1. d = IF l = NLayers THEN p
              ELSE Sends(p, << <<"FRI/Commitment/Layer: Commitment", l>> >>, << Root(<<"fri", l>>) >>)
      BY <2>2, <2>4, <2>6 DEF LayerChannel
    <3>2. Open(d)
      BY <2>3, <3>1, OpenSends
    <3> QED BY <1>8, <3>2
  <2> QED BY <2>5, <2>6
<1>16. CASE at = "last"
  BY <1>4, <1>6, <1>8, <1>16, OpenSends DEF NextChannel, Late
<1>17. CASE at = "queries"
  <2>1. PICK e : e = Works(c, params.powBits, <<"POW">>)
    OBVIOUS
  <2>2. Open(e)
    <3>1. CASE params.powBits = 0
      BY <1>6, <1>17, <2>1, <3>1 DEF Works, Late
    <3>2. CASE params.powBits # 0
      BY <1>6, <1>17, <2>1, <3>2, OpenSends DEF Works, Late
    <3> QED BY <3>1, <3>2
  <2>3. IsList(QueryLabels)
    <3>1. params.nQueries \in Nat
      BY ParametersAre
    <3>2. QueryLabels = [i \in 1..params.nQueries |-> QueryLabels[i]]
      BY DEF QueryLabels
    <3> QED BY <3>1, <3>2, IndexedIsList
  <2>4. Open(Draws(e, QueryLabels))
    BY <2>2, <2>3, OpenDraws
  <2>5. PICK f : f = Draws(e, QueryLabels)
    OBVIOUS
  <2>6. d = BeginsQueryPhase(f)
    BY <1>4, <1>17, <2>1, <2>5 DEF NextChannel, PDrawsQueries
  <2>7. ~d.failed
    BY <2>4, <2>5, <2>6, BeginsIs DEF Open
  <2>8. NextAt(at, l) \in Late
    BY <1>17 DEF NextAt, Late
  <2> QED BY <2>7, <2>8
<1>18. CASE at = "traces"
  <2>1. l \in 0..(NTraces - 1) /\ QueriesAre(pQueries)
    BY <1>1, <1>2, <1>18 DEF IsPlace, Late
  <2>2. IsFiniteSet(TraceData(l)) /\ IsFiniteSet({}) /\ Widths[l + 1] \in Nat
    BY <2>1, QueriesAreAList, FiniteTraceQueries, SizesAre, FS_EmptySet DEF TraceData
  <2>3. d = Decommits(c, "Virtual Oracle/Trace", l, <<"trace", l>>, Widths[l + 1],
                      TraceData(l), {})
    BY <1>4, <1>18 DEF NextChannel
  <2>4. TraceData(l) \intersect {} = {}
    OBVIOUS
  <2>5. ~d.failed
    BY <1>6, <2>2, <2>3, <2>4, DecommitsGoes
  <2>6. NextAt(at, l) \in Late
    BY <1>18 DEF NextAt, Late
  <2> QED BY <2>5, <2>6
<1>19. CASE at = "layers"
  <2>1. l \in 1..NLayers /\ NLayers \in Nat /\ QueriesAre(pQueries)
    BY <1>1, <1>2, <1>19, ParametersAre DEF IsPlace, Late
  <2>2. l # NLayers
    BY <1>1, <1>2, <1>19 DEF IsLast
  <2>3. l \in 0..(NLayers - 1)
    BY <2>1, <2>2
  <2>4. IsFiniteSet(LayerData(l)) /\ IsFiniteSet(LayerIntegrity(l)) /\ CosetSize(l) \in Nat
    <3>1. CosetSize(l) \in Nat
      BY <2>3, SizesAre
    <3>2. IsList(pQueries)
      BY <2>1, QueriesAreAList
    <3> QED BY <3>1, <3>2, FiniteLayerQueries DEF LayerData, LayerIntegrity
  <2>5. LayerData(l) \intersect LayerIntegrity(l) = {}
    BY DEF LayerData, LayerIntegrity, DataQueries
  <2>6. d = Decommits(c, "FRI/Decommitment/Layer", l, <<"fri", l>>, CosetSize(l),
                      LayerData(l), LayerIntegrity(l))
    BY <1>4, <1>19 DEF NextChannel
  <2>7. ~d.failed
    BY <1>6, <2>4, <2>5, <2>6, DecommitsGoes
  <2>8. NextAt(at, l) \in Late
    BY <1>19 DEF NextAt, Late
  <2> QED BY <2>7, <2>8
<1> QED
  BY <1>1, <1>9, <1>10, <1>11, <1>12, <1>13, <1>14, <1>15, <1>16, <1>17, <1>18, <1>19
     DEF IsPlace, Places

(* Where the conditions on the columns are those of the sampled values.    *)
Committed == {"boundary", "layer", "last", "queries", "traces", "layers", "done"}

Honest ==
  /\ pAt \in Places \ Late => ~pChannel.inQuery
  /\ pAt \in Committed => pConstraints = Constraints(Sampled)
  /\ pAt = "failed" => Excused

(* No assertion of the prover fails that is not one of the channel.        *)
LEMMA AssertionsHold ==
  ASSUME Prover, params \in Parameters, IsChannel(pChannel), IsPlace(Here), Honest,
         pAt \in Late => QueriesAre(pQueries)
  PROVE  /\ pChannel' = NextChannel(pAt, pIndex, pChannel)
         /\ pAt' = IF pChannel'.failed THEN "failed" ELSE NextAt(pAt, pIndex)
         /\ pConstraints' = IF pAt = "oods" THEN Constraints(Sampled) ELSE pConstraints
<1> DEFINE Goal == /\ pChannel' = NextChannel(pAt, pIndex, pChannel)
                   /\ pAt' = IF pChannel'.failed THEN "failed" ELSE NextAt(pAt, pIndex)
                   /\ pConstraints' = IF pAt = "oods" THEN Constraints(Sampled) ELSE pConstraints
<1>0. ASSUME NEW next, NEW c, PGo(next, c), c = NextChannel(pAt, pIndex, pChannel),
             next = NextAt(pAt, pIndex),
             pConstraints' = IF pAt = "oods" THEN Constraints(Sampled) ELSE pConstraints
      PROVE  Goal
  BY <1>0 DEF PGo
<1> SUFFICES Goal
  OBVIOUS
<1> HIDE DEF Goal
<1>1. CASE PCommitOnTrace
  <2>1. pAt = "trace" /\ UNCHANGED pConstraints
    BY <1>1 DEF PCommitOnTrace
  <2>2. PGo(NextAt(pAt, pIndex), NextChannel(pAt, pIndex, pChannel))
    BY <1>1, <2>1 DEF PCommitOnTrace, NextAt, NextChannel
  <2> QED BY <2>1, <2>2, <1>0
<1>2. CASE PInteraction
  <2>1. pAt = "interaction" /\ UNCHANGED pConstraints
    BY <1>2 DEF PInteraction
  <2>2. PGo(NextAt(pAt, pIndex), NextChannel(pAt, pIndex, pChannel))
    BY <1>2, <2>1 DEF PInteraction, NextAt, NextChannel, InteractionLabels
  <2> QED BY <2>1, <2>2, <1>0
<1>3. CASE PCreateComposition
  <2>1. pAt = "composition" /\ UNCHANGED pConstraints
    BY <1>3 DEF PCreateComposition
  <2>2. PGo(NextAt(pAt, pIndex), NextChannel(pAt, pIndex, pChannel))
    BY <1>3, <2>1 DEF PCreateComposition, NextAt, NextChannel
  <2> QED BY <2>1, <2>2, <1>0
<1>4. CASE PCommitOnBroken
  <2>1. pAt = "broken" /\ UNCHANGED pConstraints
    BY <1>4 DEF PCommitOnBroken
  <2>2. PGo(NextAt(pAt, pIndex), NextChannel(pAt, pIndex, pChannel))
    BY <1>4, <2>1 DEF PCommitOnBroken, NextAt, NextChannel
  <2> QED BY <2>1, <2>2, <1>0
<1>5. CASE ProveOods
  <2>1. pAt = "oods" /\ pConstraints' = Constraints(Sampled)
    BY <1>5 DEF ProveOods, Sampled
  <2>2. PGo(NextAt(pAt, pIndex), NextChannel(pAt, pIndex, pChannel))
    BY <1>5, <2>1 DEF ProveOods, NextAt, NextChannel
  <2> QED BY <2>1, <2>2, <1>0
<1>6. CASE PCreateBoundary
  <2>1. pAt = "boundary" /\ UNCHANGED pConstraints
    BY <1>6 DEF PCreateBoundary
  <2>2. PGo(NextAt(pAt, pIndex), NextChannel(pAt, pIndex, pChannel))
    BY <1>6, <2>1 DEF PCreateBoundary, NextAt, NextChannel
  <2> QED BY <2>1, <2>2, <1>0
<1>7. CASE PLayer
  <2>1. pAt = "layer" /\ UNCHANGED pConstraints
    BY <1>7 DEF PLayer
  <2>2. NextChannel(pAt, pIndex, pChannel) = LayerChannel(pIndex, pChannel)
    BY <2>1 DEF NextChannel
  <2>3. NextAt(pAt, pIndex) = IF pIndex = NLayers THEN "last" ELSE "layer"
    BY <2>1 DEF NextAt
  <2>4. PGo(NextAt(pAt, pIndex), LayerChannel(pIndex, pChannel))
    BY <1>7, <2>3 DEF PLayer, LayerChannel, LayerPoint
  <2> QED BY <2>1, <2>2, <2>4, <1>0
<1>8. CASE SendLastLayer
  <2>1. pAt = "last" /\ UNCHANGED pConstraints
    BY <1>8 DEF SendLastLayer
  <2>2. IsOfLowDegree
    BY <2>1, QuotientsAreOfLowDegree DEF Honest, Committed
  <2>3. PGo(NextAt(pAt, pIndex), NextChannel(pAt, pIndex, pChannel))
    BY <1>8, <2>1, <2>2 DEF SendLastLayer, NextAt, NextChannel
  <2> QED BY <2>1, <2>3, <1>0
<1>9. CASE PChooseQueries
  <2>1. pAt = "queries" /\ UNCHANGED pConstraints
    BY <1>9 DEF PChooseQueries
  <2>2. PGo(NextAt(pAt, pIndex), NextChannel(pAt, pIndex, pChannel))
    BY <1>9, <2>1 DEF PChooseQueries, NextAt, NextChannel
  <2> QED BY <2>1, <2>2, <1>0
<1>10. CASE PDecommitTrace
  <2>1. pAt = "traces" /\ UNCHANGED pConstraints
    BY <1>10 DEF PDecommitTrace
  <2>2. pIndex \in 0..(NTraces - 1) /\ QueriesAre(pQueries)
    BY <2>1 DEF IsPlace, Here, Late
  <2>3. \A cell \in TraceData(pIndex) : cell[2] < Widths[pIndex + 1]
    <3>1. PICK cells : cells = QueriesToTrace(pIndex, pQueries)
      OBVIOUS
    <3>2. /\ IsList(cells)
          /\ \A i \in 1..Len(cells) : cells[i] \in Nat \X (0..(Widths[pIndex + 1] - 1))
      BY <2>2, <3>1, TraceCellsAre
    <3>3. DOMAIN cells = 1..Len(cells)
      BY <3>2, ListProperties
    <3>4. ASSUME NEW cell \in Values(cells) PROVE cell[2] < Widths[pIndex + 1]
      <4>1. cell \in Nat \X (0..(Widths[pIndex + 1] - 1))
        BY <3>2, <3>3 DEF Values
      <4>2. Widths[pIndex + 1] \in Nat
        BY <2>2, SizesAre
      <4> QED BY <4>1, <4>2
    <3> QED BY <3>1, <3>4 DEF TraceData
  <2>4. NextAt(pAt, pIndex) = IF pIndex + 1 < NTraces THEN "traces" ELSE "layers"
    BY <2>1 DEF NextAt
  <2>5. NextChannel(pAt, pIndex, pChannel)
          = Decommits(pChannel, "Virtual Oracle/Trace", pIndex, <<"trace", pIndex>>,
                      Widths[pIndex + 1], TraceData(pIndex), {})
    BY <2>1 DEF NextChannel
  <2>6. PGo(NextAt(pAt, pIndex), NextChannel(pAt, pIndex, pChannel))
    BY <1>10, <2>3, <2>4, <2>5 DEF PDecommitTrace, TraceData
  <2> QED BY <2>1, <2>6, <1>0
<1>11. CASE PDecommitLayer
  <2>1. pAt = "layers" /\ UNCHANGED pConstraints
    BY <1>11 DEF PDecommitLayer
  <2>2. NextAt(pAt, pIndex) = "layers"
    BY <2>1 DEF NextAt
  <2>3. NextChannel(pAt, pIndex, pChannel)
          = Decommits(pChannel, "FRI/Decommitment/Layer", pIndex, <<"fri", pIndex>>,
                      CosetSize(pIndex), LayerData(pIndex), LayerIntegrity(pIndex))
    BY <2>1 DEF NextChannel
  <2>4. PGo(NextAt(pAt, pIndex), NextChannel(pAt, pIndex, pChannel))
    BY <1>11, <2>2, <2>3 DEF PDecommitLayer, LayerData, LayerIntegrity
  <2> QED BY <2>1, <2>4, <1>0
<1> QED
  BY <1>1, <1>2, <1>3, <1>4, <1>5, <1>6, <1>7, <1>8, <1>9, <1>10, <1>11 DEF Prover

(* What is sampled and the constraints depend on the parameters alone.     *)
LEMMA ConstraintsUnchanged ==
  ASSUME UNCHANGED params
  PROVE  /\ Sampled' = Sampled /\ Constraints(Sampled)' = Constraints(Sampled)
         /\ Excused' <=> Excused
<1>1. Sampled' = Sampled
  BY SampleUnchanged DEF Sampled
<1>2. \A v : Constraints(v)' = Constraints(v)
  BY DEF Constraints
<1>3. Constraints(Sampled)' = Constraints(Sampled)
  BY <1>1 DEF Constraints
<1>4. Excused' <=> Excused
  BY SizesUnchanged DEF Excused, Step
<1> QED
  BY <1>1, <1>3, <1>4

(* The prover's steps keep Honest, and so do all others.                   *)
LEMMA HonestProver ==
  ASSUME Inv, Honest, Prover
  PROVE  Honest'
<1>1. /\ params \in Parameters /\ IsChannel(pChannel) /\ pAt \in Places /\ ~IsLast(Here)
      /\ UNCHANGED params /\ (pAt \in Late => QueriesAre(pQueries))
  <2>1. params \in Parameters /\ IsChannel(pChannel) /\ (pAt \in Late => QueriesAre(pQueries))
    BY GoodIsChannel DEF Inv
  <2> QED BY <2>1, ProverSteps
<1>2. PICK S : IsRun(S)
  BY <1>1 DEF Inv, Places
<1>3. PICK here : here = Here /\ here[1] = pAt /\ here[2] = pIndex /\ here[3] = pChannel
  BY <1>1 DEF Here, Places
<1>4. IsPlace(here) /\ ~here[3].failed
  BY <1>2, <1>3 DEF IsRun, OnTheWay
<1>5. /\ pChannel' = NextChannel(pAt, pIndex, pChannel)
      /\ pAt' = IF pChannel'.failed THEN "failed" ELSE NextAt(pAt, pIndex)
      /\ pConstraints' = IF pAt = "oods" THEN Constraints(Sampled) ELSE pConstraints
  BY <1>1, <1>3, <1>4, AssertionsHold
<1>6. After(here)[1] = NextAt(pAt, pIndex) /\ After(here)[3] = pChannel'
  BY <1>3, <1>5 DEF After
<1>7. /\ pChannel'.failed => Excused
      /\ NextAt(pAt, pIndex) \notin Late /\ ~pChannel'.failed => ~pChannel'.inQuery
  <2>1. here[1] \notin Late => ~here[3].inQuery
    BY <1>1, <1>3 DEF Honest
  <2> QED BY <1>1, <1>3, <1>4, <1>6, <2>1, ChannelGoes
<1>8. pAt' \in Places \ Late => ~pChannel'.inQuery
  BY <1>5, <1>7 DEF Places, Late
<1>9. pAt' \in Committed => pConstraints' = Constraints(Sampled)
  <2>1. SUFFICES ASSUME pAt' \in Committed, pAt # "oods" PROVE pAt \in Committed
    BY <1>5 DEF Honest
  <2>2. NextAt(pAt, pIndex) \in Committed
    BY <1>5, <2>1 DEF Committed
  <2> QED BY <1>1, <2>1, <2>2 DEF NextAt, Committed, Places
<1>10. pAt' = "failed" => Excused
  <2>1. NextAt(pAt, pIndex) # "failed"
    BY <1>1 DEF NextAt, Places
  <2> QED BY <1>5, <1>7, <2>1
<1> QED
  BY <1>1, <1>8, <1>9, <1>10, ConstraintsUnchanged DEF Honest

LEMMA HonestStays ==
  ASSUME Honest, UNCHANGED <<params, pvars>>
  PROVE  Honest'
BY ConstraintsUnchanged DEF Honest, pvars

LEMMA HonestNext ==
  ASSUME Inv, Honest, [Next]_vars
  PROVE  Honest'
<1>1. CASE Prover
  BY <1>1, HonestProver
<1>2. CASE HandOver
  <2>1. /\ pAt = "layers" /\ pAt' = "done" /\ UNCHANGED <<params, pIndex, pQueries, pChannel, pConstraints>>
    BY <1>2 DEF HandOver
  <2> QED BY <2>1, ConstraintsUnchanged DEF Honest, Committed, Places, Late
<1>3. CASE Verifier
  <2>1. UNCHANGED <<params, pvars>>
    BY <1>3 DEF Verifier, VReadTraceCommitment, VInteraction, VCreateComposition,
         VReadBrokenCommitment, VerifyOods, VCreateBoundary, VLayer, ReadLastLayerCoefficients,
         VChooseQueries, VVerifyTrace, VVerifyLayer, VerifyLastLayer, VGo
  <2> QED BY <2>1, HonestStays
<1>4. CASE UNCHANGED vars
  BY <1>4, HonestStays DEF vars
<1> QED
  BY <1>1, <1>2, <1>3, <1>4 DEF Next

LEMMA HonestInit ==
  ASSUME Init
  PROVE  Honest
BY DEF Init, Honest, NewChannel, Committed, Places, Late

-----------------------------------------------------------------------------
(* The verifier fails only where the proof was cut.                        *)

Took(v, p) == Follows(v, p, proof) /\ (v.failed => proof # pChannel.units)

(* What is within the data is received.                                    *)
LEMMA ReceivesWhole ==
  ASSUME NEW c, NEW labels, NEW units, NEW data, IsChannel(c), ~c.failed,
         IsList(labels), IsList(units), Len(labels) = Len(units), IsList(data),
         IsPrefix(Sends(c, labels, units).units, data)
  PROVE  ~Receives(c, labels, data).failed
<1>1. PICK n \in Nat : n = Len(labels)
  BY ListProperties
<1>2. PICK q : q = Sends(c, labels, units)
  OBVIOUS
<1>3. q = Moved(c, labels, units)
  BY <1>2 DEF Sends, Unless
<1>4. IsChannel(q) /\ q.units = c.units \o units
  <2>1. LET d == Moved(c, labels, units) IN IsChannel(d) /\ d.units = c.units \o units
    BY MovedIs
  <2> QED BY <1>3, <2>1
<1>5. IsList(c.units) /\ IsList(q.units)
  BY <1>4 DEF IsChannel
<1>6. Len(q.units) = Len(c.units) + n /\ Len(c.units) \in Nat /\ Len(q.units) \in Nat
  BY <1>1, <1>4, <1>5, Joined, ListProperties
<1>7. Len(q.units) <= Len(data) /\ Len(data) \in Nat
  BY <1>2, <1>5, PrefixIs, ListProperties
<1>8. Len(labels) <= Available(c, data)
  BY <1>1, <1>6, <1>7 DEF Available
<1>9. PICK next : next = NextUnits(c, n, data)
  OBVIOUS
<1>10. IsList(next)
  BY <1>9, NextUnitsAre
<1>11. ~Moved(c, labels, next).failed
  <2>1. LET d == Moved(c, labels, next) IN d.failed = c.failed
    BY <1>10, MovedIs
  <2> QED BY <2>1
<1> QED
  BY <1>1, <1>8, <1>9, <1>11 DEF Receives, Unless

(* The verifier takes what was sent, unless the proof ends there.          *)
LEMMA TookSent ==
  ASSUME NEW v, NEW p, NEW labels, NEW units, Took(v, p), IsChannel(p),
         IsList(labels), IsList(units), Len(labels) = Len(units),
         IsList(pChannel.units), IsList(proof), IsPrefix(proof, pChannel.units),
         NEW q, q = Sends(p, labels, units), ~q.failed, IsPrefix(q.units, pChannel.units)
  PROVE  Took(Receives(v, labels, proof), q)
<1>1. Follows(Receives(v, labels, proof), q, proof)
  BY FollowsSent DEF Took
<1>2. ~p.failed
  BY SendsGrows
<1>3. ASSUME proof = pChannel.units PROVE ~Receives(v, labels, proof).failed
  <2>1. v = p
    BY <1>3 DEF Took, Follows
  <2>2. IsPrefix(Sends(p, labels, units).units, proof)
    BY <1>3
  <2> QED BY <2>1, <2>2, <1>2, ReceivesWhole
<1> QED
  BY <1>1, <1>3 DEF Took

LEMMA TookOneSent ==
  ASSUME NEW v, NEW p, NEW label, NEW unit, Took(v, p), IsChannel(p),
         IsList(pChannel.units), IsList(proof), IsPrefix(proof, pChannel.units),
         NEW q, q = Sends(p, <<label>>, <<unit>>), ~q.failed, IsPrefix(q.units, pChannel.units)
  PROVE  Took(Receives(v, <<label>>, proof), q)
<1>1. PICK labels : labels = <<label>>
  OBVIOUS
<1>2. PICK units : units = <<unit>>
  OBVIOUS
<1>3. IsList(labels) /\ IsList(units) /\ Len(labels) = Len(units)
  BY <1>1, <1>2, OneElement
<1> QED
  BY <1>1, <1>2, <1>3, TookSent

(* Drawing does not fail on one side only.                                 *)
LEMMA TookDrawn ==
  ASSUME NEW v, NEW p, NEW labels, Took(v, p), IsChannel(p), IsList(labels),
         ~Draws(p, labels).failed
  PROVE  Took(Draws(v, labels), Draws(p, labels))
<1>1. Follows(Draws(v, labels), Draws(p, labels), proof)
  BY ReplayDraws DEF Took
<1>2. ASSUME proof = pChannel.units PROVE ~Draws(v, labels).failed
  BY <1>2 DEF Took, Follows
<1> QED
  BY <1>1, <1>2 DEF Took

LEMMA TookOneDrawn ==
  ASSUME NEW v, NEW p, NEW label, Took(v, p), IsChannel(p), ~Draws(p, <<label>>).failed
  PROVE  Took(Draws(v, <<label>>), Draws(p, <<label>>)) /\ IsChannel(Draws(p, <<label>>))
<1>1. PICK labels : labels = <<label>>
  OBVIOUS
<1>2. IsList(labels)
  BY <1>1, OneElement
<1> QED
  BY <1>1, <1>2, TookDrawn, DrawsGrows

(* A draw before a send has not failed if the send has not.                *)
LEMMA SentBefore ==
  ASSUME NEW c, NEW labels, NEW units, IsChannel(c), IsList(units),
         ~Sends(c, labels, units).failed
  PROVE  ~c.failed
BY SendsGrows

(* The end of what was received is what was sent.                          *)
LEMMA LastSent ==
  ASSUME NEW p, NEW labels, NEW units, IsChannel(p), ~p.failed, IsList(units)
  PROVE  LastUnits(Sends(p, labels, units), Len(units)) = units
<1>1. PICK q : q = Sends(p, labels, units)
  OBVIOUS
<1>2. q.units = p.units \o units
  <2>1. q = Moved(p, labels, units)
    BY <1>1 DEF Sends, Unless
  <2>2. LET d == Moved(p, labels, units) IN d.units = p.units \o units
    BY MovedIs
  <2> QED BY <2>1, <2>2
<1>3. SubSeq(p.units \o units, Len(p.units \o units) - Len(units) + 1, Len(p.units \o units)) = units
  BY EndOfJoined DEF IsChannel
<1> QED
  BY <1>1, <1>2, <1>3 DEF LastUnits

(* The nonce that the prover found is one that the verifier accepts.       *)
LEMMA TookWork ==
  ASSUME NEW v, NEW p, NEW bits, NEW label, Took(v, p), IsChannel(p), ~p.failed,
         IsList(pChannel.units), IsList(proof), IsPrefix(proof, pChannel.units),
         IsPrefix(Works(p, bits, label).units, pChannel.units)
  PROVE  Took(ChecksWork(v, bits, label, proof), Works(p, bits, label))
<1>1. CASE bits = 0
  BY <1>1 DEF ChecksWork, Works
<1>2. CASE bits # 0
  <2>1. PICK u : u = << Nonce(p.seed) >>
    OBVIOUS
  <2>2. PICK labels : labels = <<label>>
    OBVIOUS
  <2>3. IsList(u) /\ IsList(labels) /\ Len(labels) = Len(u) /\ Len(u) = 1
    BY <2>1, <2>2, OneElement
  <2>4. PICK s : s = Sends(p, labels, u)
    OBVIOUS
  <2>5. Works(p, bits, label) = s /\ IsChannel(s) /\ ~s.failed
    BY <1>2, <2>1, <2>2, <2>3, <2>4, SendsGrows DEF Works
  <2>6. PICK d : d = Receives(v, labels, proof)
    OBVIOUS
  <2>7. Took(d, s)
    BY <2>3, <2>4, <2>5, <2>6, TookSent
  <2>8. ~d.failed => LastUnits(d, 1) = u /\ v = p
    <3>1. SUFFICES ASSUME ~d.failed PROVE LastUnits(d, 1) = u /\ v = p
      OBVIOUS
    <3>2. d = s
      BY <2>7, <3>1 DEF Took, Follows
    <3>3. LastUnits(s, 1) = u
      BY <2>3, <2>4, LastSent
    <3>4. ~v.failed
      BY <2>6, <3>1 DEF Receives, Unless
    <3>5. v = p
      BY <3>4 DEF Took, Follows
    <3> QED BY <3>2, <3>3, <3>5
  <2>9. ChecksWork(v, bits, label, proof) = d
    <3>1. ChecksWork(v, bits, label, proof)
            = IF d.failed THEN d ELSE IF LastUnits(d, 1) = << Nonce(v.seed) >> THEN d ELSE Failed(d)
      BY <1>2, <2>2, <2>6 DEF ChecksWork, Unless, WorkState
    <3> QED BY <2>1, <2>8, <3>1
  <2> QED BY <2>5, <2>7, <2>9
<1> QED
  BY <1>1, <1>2

(* Whole rows with the contents of the table.                              *)
AreRows(rowsData, rows, width, table) ==
  /\ DOMAIN rowsData = rows \X (0..(width - 1))
  /\ {cell[1] : cell \in DOMAIN rowsData} = rows
  /\ \A cell \in DOMAIN rowsData : rowsData[cell] = Content(table, cell)

(* What the verifier reads of a table is what was committed to.            *)
LEMMA AnswersAre ==
  ASSUME NEW p, IsChannel(p), ~p.failed, NEW labels, NEW table,
         NEW wanted \in SUBSET (Nat \X Nat), IsFiniteSet(wanted),
         NEW cells, cells = InOrder(wanted),
         NEW elements, elements = [k \in DOMAIN cells |-> Content(table, cells[k])]
  PROVE  Answers(Sends(p, labels, elements), cells) = [cell \in wanted |-> Content(table, cell)]
<1>1. IsList(cells) /\ Values(cells) = wanted
  BY InOrderIsList, InOrderIsAll
<1>2. PICK n \in Nat : n = Len(cells) /\ DOMAIN cells = 1..n
  BY <1>1, ListProperties
<1>3. IsList(elements) /\ Len(elements) = n
  <2>1. elements = [k \in 1..n |-> elements[k]]
    BY <1>2
  <2> QED BY <2>1, IndexedIsList
<1>4. LastUnits(Sends(p, labels, elements), n) = elements
  BY <1>3, LastSent
<1> DEFINE place(cell) == CHOOSE k \in DOMAIN cells : cells[k] = cell
<1>5. Answers(Sends(p, labels, elements), cells) = [cell \in wanted |-> elements[place(cell)]]
  <2>1. PICK c : c = Sends(p, labels, elements)
    OBVIOUS
  <2>2. PICK units : units = LastUnits(c, Len(cells))
    OBVIOUS
  <2>3. Answers(c, cells) = [cell \in Values(cells) |-> units[place(cell)]]
    BY <2>2 DEF Answers
  <2>4. units = elements
    BY <1>2, <1>4, <2>1, <2>2
  <2> HIDE DEF place
  <2> QED BY <2>1, <2>3, <2>4, <1>1
<1>6. ASSUME NEW cell \in wanted PROVE elements[place(cell)] = Content(table, cell)
  <2>1. \E k \in DOMAIN cells : cells[k] = cell
    BY <1>1 DEF Values
  <2>2. place(cell) \in DOMAIN cells /\ cells[place(cell)] = cell
    BY <2>1
  <2> QED BY <2>2
<1> HIDE DEF place
<1> QED
  BY <1>5, <1>6

(* What reading the cells of a table comes to: the proof ends there, or    *)
(* the cells are those of the table, and so is what is verified with them. *)
Serves(c, q, scope, i, table, width, rows, wanted, cells) ==
  /\ c.failed => Took(c, q)
  /\ ~c.failed => Answers(c, cells) = [cell \in wanted |-> Content(table, cell)]
  /\ \A rowsData : AreRows(rowsData, rows, width, table) =>
       Took(VerifiesDecommitment(c, scope, i, table, width, rowsData), q)

(* The decommitment of the cells that the verifier asks for is accepted.   *)
LEMMA TookDecommitted ==
  ASSUME NEW v, NEW p, Took(v, p), IsChannel(p),
         NEW scope, NEW i, NEW table, NEW width \in Nat, NEW data, NEW integrity,
         IsFiniteSet(data), IsFiniteSet(integrity),
         NEW q, q = Decommits(p, scope, i, table, width, data, integrity),
         ~q.failed, IsPrefix(q.units, pChannel.units), IsChannel(q),
         IsList(pChannel.units), IsList(proof), IsPrefix(proof, pChannel.units),
         NEW wanted \in SUBSET (Nat \X Nat),
         wanted = ElementsToBeTransmitted(width, AllQueryRows(data, integrity), integrity),
         NEW cells, cells = InOrder(wanted),
         NEW c, c = ReadsCells(v, scope, i, cells)
  PROVE  Serves(c, q, scope, i, table, width, AllQueryRows(data, integrity), wanted, cells)
<1>2. PICK elements : elements = [k \in DOMAIN cells |-> Content(table, cells[k])]
  OBVIOUS
<1>3. PICK labels : labels = CellLabels(scope, i, cells)
  OBVIOUS
<1>4a. IsFiniteSet(wanted)
  BY FiniteCells
<1>4. IsList(cells)
  BY <1>4a, InOrderIsList
<1>5. Len(cells) \in Nat /\ DOMAIN cells = 1..Len(cells)
  BY <1>4, ListProperties
<1>6. IsList(elements) /\ Len(elements) = Len(cells)
  <2>1. elements = [k \in 1..Len(cells) |-> elements[k]]
    BY <1>2, <1>5
  <2> QED BY <2>1, <1>5, IndexedIsList
<1>7. IsList(labels) /\ Len(labels) = Len(cells)
  <2>1. labels = [k \in 1..Len(cells) |-> labels[k]]
    BY <1>3, <1>5 DEF CellLabels
  <2> QED BY <2>1, <1>5, IndexedIsList
<1>8. PICK m : m = Sends(p, labels, elements)
  OBVIOUS
<1>9. PICK label : label = <<scope, i>>
  OBVIOUS
<1>10. PICK rows : rows = AllQueryRows(data, integrity)
  OBVIOUS
<1>10a. PICK nodes : nodes = Nodes(table, rows)
  OBVIOUS
<1>11. q = Sends(m, <<label>>, <<nodes>>)
  <2>0. ~p.failed \/ p.failed
    OBVIOUS
  <2>1. q = IF data \intersect integrity # {} THEN Failed(p) ELSE Sends(m, <<label>>, <<nodes>>)
    BY <1>2, <1>3, <1>8, <1>9, <1>10, <1>10a DEF Decommits
  <2>2. Failed(p).failed
    BY FailedIs
  <2> QED BY <2>1, <2>2
<1>12. IsChannel(m)
  BY <1>6, <1>8, SendsGrows
<1>12a. PICK last : last = <<nodes>> /\ IsList(last) /\ Len(last) = 1
  BY OneElement
<1>13. Grows(m, q) /\ ~m.failed
  BY <1>11, <1>12, <1>12a, SendsGrows
<1>13a. ~p.failed
  BY <1>6, <1>8, <1>13, SendsGrows
<1>14. IsPrefix(m.units, pChannel.units)
  <2>1. IsPrefix(m.units, q.units)
    BY <1>13 DEF Grows
  <2> QED BY <2>1, <1>12, PrefixOfPrefix DEF IsChannel
<1>15. c = Receives(v, labels, proof)
  BY <1>3 DEF ReadsCells
<1>16. Took(c, m)
  BY <1>6, <1>7, <1>8, <1>13, <1>14, <1>15, TookSent
<1>17. c.failed => Took(c, q)
  BY <1>12, <1>13, <1>16, FollowsOnFailed DEF Took
<1>18. ~c.failed => c = m
  BY <1>16 DEF Took, Follows
<1>19. ~c.failed => Answers(c, cells) = [cell \in wanted |-> Content(table, cell)]
  <2>1. Answers(m, cells) = [cell \in wanted |-> Content(table, cell)]
    BY <1>2, <1>4a, <1>8, <1>13a, AnswersAre
  <2> QED BY <2>1, <1>18
<1>20. PICK d : d = Receives(c, <<label>>, proof)
  OBVIOUS
<1>21. Took(d, q)
  BY <1>11, <1>12, <1>16, <1>20, TookOneSent
<1>22. ~d.failed => LastUnits(d, 1) = <<nodes>>
  <2>1. ~d.failed => d = q
    BY <1>21 DEF Took, Follows
  <2>2. PICK one : one = <<label>>
    OBVIOUS
  <2>3. q = Sends(m, one, last)
    BY <1>11, <1>12a, <2>2
  <2>4. LastUnits(Sends(m, one, last), Len(last)) = last
    BY <1>12, <1>12a, <1>13, LastSent
  <2> QED BY <2>1, <2>3, <2>4, <1>12a
<1>23. ASSUME NEW rowsData, AreRows(rowsData, rows, width, table)
       PROVE  Took(VerifiesDecommitment(c, scope, i, table, width, rowsData), q)
  <2>1. VerifiesIntegrity(c, scope, i, table, rows)
          = IF d.failed THEN d ELSE IF LastUnits(d, 1) = <<nodes>> THEN d ELSE Failed(d)
    BY <1>9, <1>10a, <1>20 DEF VerifiesIntegrity, Unless
  <2>2. VerifiesIntegrity(c, scope, i, table, rows) = d
    BY <2>1, <1>22
  <2>3. PICK e : e = VerifiesDecommitment(c, scope, i, table, width, rowsData)
    OBVIOUS
  <2>4. e = IF c.failed THEN c ELSE VerifiesIntegrity(c, scope, i, table, rows)
    <3>1. /\ DOMAIN rowsData = rows \X (0..(width - 1))
          /\ {cell[1] : cell \in DOMAIN rowsData} = rows
          /\ \A cell \in DOMAIN rowsData : rowsData[cell] = Content(table, cell)
      BY <1>23 DEF AreRows
    <3> QED BY <2>3, <3>1 DEF VerifiesDecommitment, Unless
  <2> QED BY <2>2, <2>3, <2>4, <1>17, <1>21
<1> QED
  BY <1>10, <1>17, <1>19, <1>23 DEF Serves

-----------------------------------------------------------------------------
(* What the verifier knows is right, wherever the proof was cut.           *)

Sampling == {"boundary", "layer", "last", "queries", "traces", "inner"}

MaskValues(s) ==
  [i \in DOMAIN QueriesToTrace(s, vQueries) |-> TraceCell(s, QueriesToTrace(s, vQueries)[i])]

Right ==
  /\ vAt # "crashed"
  /\ vAt = "rejected" => proof # pChannel.units
  /\ vAt \in Sampling => vConstraints = Constraints(Sampled)
  /\ vAt \in {"traces", "inner"} => QueriesAre(vQueries)
  /\ vAt = "traces" => \A s \in 0..(vIndex - 1) : vMaskValues[s] = MaskValues(s)
  /\ vAt = "inner" =>
       vResults = [j \in 1..params.nQueries |-> FriValue(vIndex + 1, QueryIndex(vIndex, j))]

(* A step of the verifier succeeds, or the proof ends there.               *)
Passes(next) == vAt' = next \/ (vAt' = "rejected" /\ proof # pChannel.units)

(* A step that took what was sent succeeds.                                *)
LEMMA PassesGo ==
  ASSUME NEW next, NEW c, NEW p, VGo(next, c), Took(c, p)
  PROVE  Passes(next)
BY DEF VGo, Took, Passes

(* Rejecting a proof that was cut is right.                                *)
LEMMA RightRejected ==
  ASSUME vAt' = "rejected", proof # pChannel.units, UNCHANGED <<params, pvars, proof>>
  PROVE  Right'
BY DEF Right, Sampling, pvars

(* So is going on to a step that has no values to be right about.          *)
LEMMA RightSimple ==
  ASSUME NEW next, Passes(next), UNCHANGED <<params, pvars, proof>>,
         next \notin {"crashed", "rejected", "traces", "inner"},
         next \in Sampling => vConstraints' = Constraints(Sampled)
  PROVE  Right'
<1>1. CASE vAt' = next
  BY <1>1, ConstraintsUnchanged DEF Right
<1>2. CASE vAt' = "rejected" /\ proof # pChannel.units
  BY <1>2, RightRejected
<1> QED
  BY <1>1, <1>2 DEF Passes

(* A step of the verifier starts where it took all that came before.       *)
LEMMA ReadsTook ==
  ASSUME NEW s, NEW t, Between(s, t)
  PROVE  /\ Took(vChannel, s[3]) /\ IsChannel(s[3])
         /\ t[3] = NextChannel(s[1], s[2], s[3]) /\ ~t[3].failed
         /\ IsPrefix(t[3].units, pChannel.units)
         /\ IsList(pChannel.units) /\ IsList(proof) /\ IsPrefix(proof, pChannel.units)
BY ReadsFollows DEF Took, Between, Reads

(* The steps of the commitment phase, one by one.                          *)
LEMMA PassesTrace ==
  ASSUME NEW s, NEW t, Between(s, t), VReadTraceCommitment
  PROVE  Passes(IF HasInteraction THEN "interaction" ELSE "composition")
<1>1. s[1] = "trace"
  BY DEF Between, Reads, Stands, VReadTraceCommitment
<1>2. t[3] = Sends(s[3], << <<"Original/Commit on Trace">> >>, << Root(<<"trace", 0>>) >>)
  BY <1>1, ReadsFollows DEF NextChannel
<1>3. Took(Receives(vChannel, << <<"Original/Commit on Trace">> >>, proof), t[3])
  BY <1>2, ReadsTook, TookOneSent
<1> QED
  BY <1>3, PassesGo DEF VReadTraceCommitment

LEMMA PassesInteraction ==
  ASSUME NEW s, NEW t, Between(s, t), VInteraction
  PROVE  Passes("composition")
<1>1. s[1] = "interaction"
  BY DEF Between, Reads, Stands, VInteraction
<1>2. PICK q : q = Draws(s[3], InteractionLabels)
  OBVIOUS
<1>3. t[3] = Sends(q, << <<"Interaction/Commit on Trace">> >>, << Root(<<"trace", 1>>) >>)
  BY <1>1, <1>2, ReadsFollows DEF NextChannel
<1>4. IsList(InteractionLabels)
  BY InteractionLabelsAre DEF Between
<1>5. IsChannel(q)
  BY <1>2, <1>4, ReadsTook, DrawsGrows
<1>6. ~q.failed
  <2>1. PICK units : units = << Root(<<"trace", 1>>) >> /\ IsList(units)
    BY OneElement
  <2> QED BY <1>3, <1>5, <2>1, ReadsTook, SentBefore
<1>7. PICK d : d = Draws(vChannel, InteractionLabels)
  OBVIOUS
<1>8. Took(d, q)
  BY <1>2, <1>4, <1>6, <1>7, ReadsTook, TookDrawn
<1>9. Took(Receives(d, << <<"Interaction/Commit on Trace">> >>, proof), t[3])
  BY <1>3, <1>5, <1>8, ReadsTook, TookOneSent
<1>10. VGo("composition", Receives(d, << <<"Interaction/Commit on Trace">> >>, proof))
  BY <1>7 DEF VInteraction, InteractionLabels
<1> QED
  BY <1>9, <1>10, PassesGo

LEMMA PassesComposition ==
  ASSUME NEW s, NEW t, Between(s, t), VCreateComposition
  PROVE  Passes("broken")
<1>1. s[1] = "composition"
  BY DEF Between, Reads, Stands, VCreateComposition
<1>2. t[3] = Draws(s[3], << <<"Original: Constraint polynomial">> >>)
  BY <1>1, ReadsFollows DEF NextChannel
<1>3. Took(Draws(vChannel, << <<"Original: Constraint polynomial">> >>), t[3])
  BY <1>2, ReadsTook, TookOneDrawn
<1> QED
  BY <1>3, PassesGo DEF VCreateComposition

LEMMA PassesBroken ==
  ASSUME NEW s, NEW t, Between(s, t), VReadBrokenCommitment
  PROVE  Passes("oods")
<1>1. s[1] = "broken"
  BY DEF Between, Reads, Stands, VReadBrokenCommitment
<1>2. t[3] = Sends(s[3], << <<"Out Of Domain Sampling/Commit on Trace">> >>,
                   << Root(<<"trace", NTraces - 1>>) >>)
  BY <1>1, ReadsFollows DEF NextChannel
<1>3. Took(Receives(vChannel, << <<"Out Of Domain Sampling/Commit on Trace">> >>, proof), t[3])
  BY <1>2, ReadsTook, TookOneSent
<1> QED
  BY <1>3, PassesGo DEF VReadBrokenCommitment

(* The sampled values satisfy the equation, and the boundary conditions    *)
(* are the prover's.                                                       *)
LEMMA PassesOods ==
  ASSUME NEW s, NEW t, Between(s, t), VerifyOods
  PROVE  Passes("boundary") /\ (vAt' = "boundary" => vConstraints' = Constraints(Sampled))
<1>1. s[1] = "oods"
  BY DEF Between, Reads, Stands, VerifyOods
<1>2. PICK label : label = <<"OODS values: Evaluation point">>
  OBVIOUS
<1>3. PICK q : q = Draws(s[3], <<label>>)
  OBVIOUS
<1>4. PICK d : d = Draws(vChannel, <<label>>)
  OBVIOUS
<1>5. PICK values : values = Sampled
  OBVIOUS
<1>6. t[3] = Sends(q, OodsLabels, values)
  BY <1>1, <1>2, <1>3, <1>5, ReadsFollows DEF NextChannel, Sampled
<1>7. IsChannel(q)
  BY <1>3, ReadsFollows, FollowsOneDrawn
<1>8. IsList(values) /\ IsList(OodsLabels) /\ Len(values) = Len(OodsLabels)
  BY <1>5, OodsValues DEF Between, Sampled
<1>9. ~q.failed
  BY <1>6, <1>7, <1>8, ReadsTook, SentBefore
<1>10. Took(d, q)
  BY <1>3, <1>4, <1>9, ReadsTook, TookOneDrawn
<1>11. PICK c : c = Receives(d, OodsLabels, proof)
  OBVIOUS
<1>12. Took(c, t[3])
  BY <1>6, <1>7, <1>8, <1>10, <1>11, ReadsTook, TookSent
<1>13. PICK received : received = LastUnits(c, Len(OodsLabels))
  OBVIOUS
<1>14. ~c.failed => received = values
  <2>1. ~c.failed => c = t[3]
    BY <1>12 DEF Took, Follows
  <2>2. LastUnits(Sends(q, OodsLabels, values), Len(values)) = values
    BY <1>7, <1>8, <1>9, LastSent
  <2> QED BY <2>1, <2>2, <1>6, <1>8, <1>13
<1>15. OodsHolds(values)
  BY <1>5, OodsIsTrue DEF Between
<1>16. /\ VGo("boundary", IF c.failed THEN c ELSE IF OodsHolds(received) THEN c ELSE Failed(c))
       /\ vConstraints' = IF c.failed THEN vConstraints ELSE Constraints(received)
  BY <1>2, <1>4, <1>11, <1>13 DEF VerifyOods, Unless, VConstraints
<1>17. /\ VGo("boundary", c)
       /\ ~c.failed => vConstraints' = Constraints(values)
  BY <1>14, <1>15, <1>16
<1>18. Passes("boundary")
  BY <1>12, <1>17, PassesGo
<1>19. vAt' = "boundary" => ~c.failed
  BY <1>17 DEF VGo
<1> QED
  BY <1>5, <1>17, <1>18, <1>19

(* The verifier's constraints of the boundary are the prover's.            *)
LEMMA PassesBoundary ==
  ASSUME NEW s, NEW t, Between(s, t), VCreateBoundary
  PROVE  Passes("layer")
<1>1. s[1] = "boundary"
  BY DEF Between, Reads, Stands, VCreateBoundary
<1>2. t[3] = Draws(s[3], << <<"Out Of Domain Sampling: Constraint polynomial">> >>)
  BY <1>1, ReadsFollows DEF NextChannel
<1>3. Took(Draws(vChannel, << <<"Out Of Domain Sampling: Constraint polynomial">> >>), t[3])
  BY <1>2, ReadsTook, TookOneDrawn
<1> QED
  BY <1>3, PassesGo DEF VCreateBoundary

LEMMA PassesLastLayer ==
  ASSUME NEW s, NEW t, Between(s, t), ReadLastLayerCoefficients
  PROVE  Passes("queries")
<1>1. s[1] = "last"
  BY DEF Between, Reads, Stands, ReadLastLayerCoefficients
<1>2. t[3] = Sends(s[3], << <<"FRI/Commitment/Last Layer: Coefficients">> >>, << <<"coefs">> >>)
  BY <1>1, ReadsFollows DEF NextChannel
<1>3. Took(Receives(vChannel, << <<"FRI/Commitment/Last Layer: Coefficients">> >>, proof), t[3])
  BY <1>2, ReadsTook, TookOneSent
<1> QED
  BY <1>3, PassesGo DEF ReadLastLayerCoefficients

LEMMA PassesLayer ==
  ASSUME NEW s, NEW t, Between(s, t), VLayer
  PROVE  \E next \in {"layer", "last"} : Passes(next)
<1>1. s[1] = "layer" /\ vIndex = s[2] - 1
  BY DEF Between, Reads, Stands, VLayer
<1>2. s[2] \in 1..NLayers /\ NLayers \in Nat
  BY <1>1, ParametersAre DEF Between, IsPlace
<1>3. PICK l \in 1..NLayers : l = s[2]
  BY <1>2
<1>4. t[3] = LayerChannel(l, s[3])
  BY <1>1, <1>3, ReadsFollows DEF NextChannel
<1>5. l = 1 \/ Step(l - 1) # 0
  <2>1. ~t[3].failed /\ Failed(s[3]).failed
    BY FailedIs DEF Between
  <2> QED BY <1>4, <2>1 DEF LayerChannel
<1>6. PICK p : p = LayerPoint(l, s[3])
  OBVIOUS
<1>7. PICK label : label = <<"FRI/Commitment/Layer: Evaluation point", l>>
  OBVIOUS
<1>8. PICK d : d = IF VDrawsPoint(vIndex) THEN Draws(vChannel, <<label>>) ELSE vChannel
  OBVIOUS
<1>9. VDrawsPoint(vIndex) <=> Step(l - 1) # 0
  <2>1. vIndex = l - 1 /\ (vIndex # 0 <=> l # 1)
    BY <1>1, <1>2, <1>3
  <2>2. CASE l = 1
    <3>1. l - 1 = 0 /\ vIndex = 0
      BY <2>1, <2>2
    <3> QED BY <3>1 DEF VDrawsPoint
  <2>3. CASE l # 1
    BY <2>1, <2>3, <1>2, <1>3, <1>5 DEF VDrawsPoint
  <2> QED BY <2>2, <2>3
<1>10. IsChannel(p)
  BY <1>6, ReadsTook, FollowsOneDrawn DEF LayerPoint, Took
<1>11. PICK label2 : label2 = <<"FRI/Commitment/Layer: Commitment", l>>
  OBVIOUS
<1>12. PICK unit : unit = Root(<<"fri", l>>)
  OBVIOUS
<1>13. t[3] = IF l = NLayers THEN p ELSE Sends(p, <<label2>>, <<unit>>)
  BY <1>4, <1>5, <1>6, <1>11, <1>12 DEF LayerChannel
<1>14. ~p.failed
  <2>1. PICK units : units = <<unit>> /\ IsList(units)
    BY OneElement
  <2> QED BY <1>10, <1>13, <2>1, ReadsTook, SentBefore
<1>15. Took(d, p)
  <2>1. CASE Step(l - 1) = 0
    BY <2>1, <1>6, <1>8, <1>9, ReadsTook DEF LayerPoint
  <2>2. CASE Step(l - 1) # 0
    <3>1. p = Draws(s[3], <<label>>) /\ d = Draws(vChannel, <<label>>)
      BY <2>2, <1>6, <1>7, <1>8, <1>9 DEF LayerPoint
    <3> QED BY <3>1, <1>14, ReadsTook, TookOneDrawn
  <2> QED BY <2>1, <2>2
<1>16. vIndex + 1 = l /\ (vIndex < NLayers - 1 <=> l # NLayers)
  BY <1>1, <1>2, <1>3
<1>17. PICK c : c = IF l = NLayers THEN d ELSE Receives(d, <<label2>>, proof)
  OBVIOUS
<1>18. Took(c, t[3])
  <2>1. CASE l = NLayers
    BY <2>1, <1>13, <1>15, <1>17
  <2>2. CASE l # NLayers
    <3>1. t[3] = Sends(p, <<label2>>, <<unit>>) /\ c = Receives(d, <<label2>>, proof)
      BY <2>2, <1>13, <1>17
    <3> QED BY <3>1, <1>10, <1>15, ReadsTook, TookOneSent
  <2> QED BY <2>1, <2>2
<1>19. VGo(IF l = NLayers THEN "last" ELSE "layer", c)
  BY <1>7, <1>8, <1>11, <1>16, <1>17 DEF VLayer
<1> QED
  BY <1>18, <1>19, PassesGo

(* The queries are drawn after the work, and are numbers.                  *)
LEMMA PassesQueries ==
  ASSUME NEW s, NEW t, Between(s, t), VChooseQueries
  PROVE  Passes("traces") /\ vIndex' = 0 /\ \E numbers \in QueryValues : vQueries' = Increasing(numbers)
<1>1. s[1] = "queries"
  BY DEF Between, Reads, Stands, VChooseQueries
<1>2. PICK w : w = Works(s[3], params.powBits, <<"POW">>)
  OBVIOUS
<1>3. PICK worked : worked = ChecksWork(vChannel, params.powBits, <<"POW">>, proof)
  OBVIOUS
<1>4. PICK labels : labels = QueryLabels
  OBVIOUS
<1>5. PICK d : d = Draws(w, labels)
  OBVIOUS
<1>6. t[3] = BeginsQueryPhase(d)
  BY <1>1, <1>2, <1>4, <1>5, ReadsFollows DEF NextChannel, PDrawsQueries
<1>7. IsChannel(w) /\ Grows(s[3], w)
  BY <1>2, ReadsFollows, WorksGrows
<1>8. IsList(labels)
  <2>1. params.nQueries \in Nat
    BY ParametersAre DEF Between
  <2>2. labels = [i \in 1..params.nQueries |-> labels[i]]
    BY <1>4 DEF QueryLabels
  <2> QED BY <2>1, <2>2, IndexedIsList
<1>9. IsChannel(d) /\ Grows(w, d) /\ (w.failed => d.failed)
  BY <1>5, <1>7, <1>8, DrawsGrows
<1>10. IsChannel(t[3]) /\ t[3].units = d.units /\ t[3].notes = d.notes /\ t[3].failed = d.failed
  BY <1>6, <1>9, BeginsIs
<1>11. ~d.failed /\ ~w.failed /\ ~s[3].failed
  <2>1. ~d.failed /\ ~w.failed
    BY <1>9, <1>10 DEF Between
  <2> QED BY <2>1 DEF Between
<1>12. Took(worked, w)
  <2>1. IsPrefix(w.units, t[3].units)
    BY <1>9, <1>10 DEF Grows
  <2>2. IsPrefix(w.units, pChannel.units)
    BY <2>1, <1>7, <1>10, PrefixOfPrefix DEF Between, IsChannel
  <2> QED BY <2>2, <1>2, <1>3, <1>11, ReadsTook, TookWork
<1>13. PICK c : c = Draws(worked, labels)
  OBVIOUS
<1>14. Took(c, d)
  BY <1>5, <1>7, <1>8, <1>11, <1>12, <1>13, TookDrawn
<1>15. IsChannel(c)
  BY <1>9, <1>14 DEF Took, Follows
<1>16. BeginsQueryPhase(c).failed = c.failed
  BY <1>15, BeginsIs
<1>17. /\ VGo("traces", BeginsQueryPhase(c)) /\ vIndex' = 0
       /\ \E numbers \in QueryValues : vQueries' = Increasing(numbers)
  BY <1>3, <1>4, <1>13 DEF VChooseQueries
<1>18. Passes("traces")
  BY <1>14, <1>16, <1>17 DEF VGo, Took, Passes
<1> QED
  BY <1>17, <1>18

(* The cells that the traces gave for all of their parts of the mask.      *)
TraceMask(s, queries) ==
  [i \in DOMAIN QueriesToTrace(s, queries) |-> TraceCell(s, QueriesToTrace(s, queries)[i])]

GivesTraces(maskValues, queries) ==
  \A s \in 0..(NTraces - 1) : maskValues[s] = TraceMask(s, queries)

(* Put together, they are the columns of all traces at the query.          *)
LEMMA OracleIs ==
  ASSUME params \in Parameters, NEW queries, QueriesAre(queries),
         NEW maskValues, GivesTraces(maskValues, queries),
         NEW first, first = FirstLayerQueries(queries, CosetSize(0)),
         NEW n \in 0..(Len(first) - 1)
  PROVE  LET columns == Concatenated(Widths)
         IN  Reassembled(maskValues, OracleMask, Widths, n)
               = [i \in DOMAIN columns |->
                    TraceCell(columns[i][1], <<first[n + 1], columns[i][2]>>)]
<1>1. PICK mask : mask = OracleMask
  OBVIOUS
<1>2. /\ Widths \in Seq(Nat) /\ SumOf(Widths) \in Nat /\ NTraces = Len(Widths)
  <2>1. Widths \in Seq(Nat) /\ NTraces = Len(Widths)
    BY ParametersAre DEF NTraces
  <2> QED BY <2>1, WidthsAre
<1>3. PICK m \in Nat : m = SumOf(Widths)
  BY <1>2
<1>4. /\ IsList(mask) /\ Len(mask) = m /\ DOMAIN mask = 1..m
      /\ \A i \in 1..m : mask[i] = <<0, i - 1>>
  <2>1. /\ mask = [i \in 1..m |-> mask[i]] /\ \A i \in 1..m : mask[i] = <<0, i - 1>>
    BY <1>1, <1>3 DEF OracleMask, BoundaryMask
  <2> QED BY <2>1, IndexedIsList
<1>5. PICK columns : columns = Concatenated(Widths)
  OBVIOUS
<1>6. DOMAIN columns = 1..m
  <2>1. IsList(columns) /\ Len(columns) = m
    BY <1>2, <1>3, <1>5, ConcatenatedIs
  <2> QED BY <2>1, ListProperties
<1> DEFINE trace(i) == TraceOf(mask[i], Widths)
           value(i) == maskValues[trace(i)][n * CountUpTo(trace(i), m, mask, Widths)
                                              + CountUpTo(trace(i), i, mask, Widths)]
<1>7. Reassembled(maskValues, OracleMask, Widths, n) = [i \in 1..m |-> value(i)]
  BY <1>1, <1>4 DEF Reassembled
<1>8. ASSUME NEW i \in 1..m
      PROVE  value(i) = TraceCell(columns[i][1], <<first[n + 1], columns[i][2]>>)
  <2>1. PICK item : item = mask[i]
    OBVIOUS
  <2>2. item = <<0, i - 1>> /\ item[2] = i - 1 /\ item[2] \in Nat /\ item[2] < m
    BY <1>4, <2>1
  <2>3. PICK u \in 0..(NTraces - 1) : u = TraceOf(item, Widths)
    BY <1>2, <1>3, <2>2, TraceOfItem
  <2>4. PICK column : column = ColumnToTraceColumn(item[2], Widths)[2]
    OBVIOUS
  <2>5. columns[i] = <<u, column>>
    <3>1. Concatenated(Widths)[item[2] + 1] = <<u, column>>
      BY <1>2, <1>3, <2>2, <2>3, <2>4, TraceOfItem
    <3>2. item[2] + 1 = i
      BY <2>2
    <3> QED BY <3>1, <3>2, <1>5
  <2>6. PICK part : part = SplitMask(OracleMask, Widths)[u]
    OBVIOUS
  <2>7. PICK k : k = CountUpTo(u, i, mask, Widths)
    OBVIOUS
  <2>8. /\ Len(part) = CountUpTo(u, m, mask, Widths)
        /\ k \in 1..Len(part) /\ part[k] = <<item[1], column>>
    BY <1>1, <1>2, <1>4, <2>1, <2>3, <2>4, <2>6, <2>7, PartIs
  <2>9. PICK cells : cells = QueriesToTrace(u, queries)
    OBVIOUS
  <2>10. /\ IsList(cells) /\ Len(part) \in Nat /\ IsList(first)
         /\ Len(cells) = Len(first) * Len(part)
         /\ cells[n * Len(part) + k] = <<first[n + 1], part[k][2]>>
    BY <2>6, <2>8, <2>9, TraceCellsAre
  <2>11. PICK at : at = n * Len(part) + k
    OBVIOUS
  <2>12. at \in 1..Len(cells)
    <3>1. PICK w \in Nat : w = Len(part)
      BY <2>10
    <3>2. PICK r \in Nat : r = Len(first)
      BY <2>10, ListProperties
    <3>3. n \in Nat /\ n + 1 <= r /\ k \in Nat /\ 1 <= k /\ k <= w
      BY <3>1, <3>2, <2>8
    <3>4. n * w \in Nat /\ r * w \in Nat /\ (n + 1) * w <= r * w /\ (n + 1) * w = n * w + w
      BY <3>3
    <3>5. at = n * w + k /\ Len(cells) = r * w
      BY <3>1, <3>2, <2>10, <2>11
    <3> QED BY <3>3, <3>4, <3>5
  <2>13. maskValues[u][at] = TraceCell(u, cells[at])
    <3>1. DOMAIN cells = 1..Len(cells)
      BY <2>10, ListProperties
    <3>2. maskValues[u] = [j \in DOMAIN cells |-> TraceCell(u, cells[j])]
      BY <2>9 DEF GivesTraces, TraceMask
    <3> QED BY <3>1, <3>2, <2>12
  <2>14. value(i) = maskValues[u][at]
    BY <2>1, <2>3, <2>7, <2>8, <2>11
  <2>15. cells[at] = <<first[n + 1], column>>
    BY <2>8, <2>10, <2>11
  <2> QED BY <2>5, <2>13, <2>14, <2>15
<1> HIDE DEF value
<1> QED
  BY <1>5, <1>6, <1>7, <1>8

(* So the first results are values of the second layer.                    *)
LEMMA FirstResultsAre ==
  ASSUME params \in Parameters, QueriesAre(vQueries),
         vConstraints = pConstraints,
         NEW maskValues, GivesTraces(maskValues, vQueries)
  PROVE  FirstResults(maskValues) = [j \in 1..params.nQueries |-> FriValue(1, vQueries[j])]
<1>1. PICK n \in Nat : n = params.nQueries
  BY ParametersAre
<1>2. /\ IsList(vQueries) /\ Len(vQueries) = n /\ \A j \in 1..n : vQueries[j] \in Nat
      /\ DOMAIN vQueries = 1..n
  BY <1>1, QueriesAreNumbers, ListProperties
<1>2a. vQueries \in Seq(Nat)
  <2>1. vQueries = [j \in 1..n |-> vQueries[j]]
    BY <1>2, ListProperties
  <2>2. vQueries \in [1..n -> Nat]
    BY <1>2, <2>1
  <2> QED BY <2>2, IsASeq
<1>3. PICK size \in Nat \ {0} : size = CosetSize(0)
  BY StepsAre, SizesAre
<1>4. PICK first : first = FirstLayerQueries(vQueries, size)
  OBVIOUS
<1>5. IsList(first) /\ Len(first) = n * size
  BY <1>2, <1>4, FirstQueriesAre
<1>6. Len(first) \div size = n
  BY <1>5
<1>7. ASSUME NEW j \in 1..n, NEW k \in 0..(size - 1)
      PROVE  /\ OracleValue(maskValues, (j - 1) * size + k) = FriValue(0, vQueries[j] * size + k)
             /\ first[(j - 1) * size + 1] = vQueries[j] * size
  <2>1. PICK at : at = (j - 1) * size + k
    OBVIOUS
  <2>2. at \in 0..(Len(first) - 1) /\ at + 1 = (j - 1) * size + 1 + k
    <3>1. PICK a \in Nat : a = (j - 1) * size
      <4>1. j - 1 \in Nat
        OBVIOUS
      <4> QED BY <4>1
    <3>2. a + size <= n * size
      <4>1. j * size <= n * size
        OBVIOUS
      <4>2. j * size = (j - 1) * size + size
        OBVIOUS
      <4> QED BY <4>1, <4>2, <3>1
    <3>3. n * size \in Nat
      OBVIOUS
    <3> QED BY <3>1, <3>2, <3>3, <2>1, <1>5
  <2>3. first[at + 1] = vQueries[j] * size + k
    <3>1. first[(j - 1) * size + 1 + k] = vQueries[j] * size + k
      BY <1>2, <1>2a, <1>4, FirstQueriesAreCosets
    <3> QED BY <3>1, <2>2
  <2>4. 0 \in 0..(size - 1)
    OBVIOUS
  <2>5. first[(j - 1) * size + 1] = vQueries[j] * size
    <3>1. first[(j - 1) * size + 1 + 0] = vQueries[j] * size + 0
      BY <1>2, <1>2a, <1>4, <2>4, FirstQueriesAreCosets
    <3>2. (j - 1) * size + 1 + 0 = (j - 1) * size + 1
      OBVIOUS
    <3>3. vQueries[j] * size + 0 = vQueries[j] * size
      BY <1>2
    <3> QED BY <3>1, <3>2, <3>3
  <2>6. PICK columns : columns = Concatenated(Widths)
    OBVIOUS
  <2>7. PICK index : index = vQueries[j] * size + k
    OBVIOUS
  <2>8. Reassembled(maskValues, OracleMask, Widths, at)
          = [i \in DOMAIN columns |-> TraceCell(columns[i][1], <<index, columns[i][2]>>)]
    <3>1. first = FirstLayerQueries(vQueries, CosetSize(0)) /\ at \in 0..(Len(first) - 1)
      BY <1>3, <1>4, <2>2
    <3>2. params \in Parameters /\ QueriesAre(vQueries) /\ GivesTraces(maskValues, vQueries)
      OBVIOUS
    <3>3. LET all == Concatenated(Widths)
          IN  Reassembled(maskValues, OracleMask, Widths, at)
                = [i \in DOMAIN all |-> TraceCell(all[i][1], <<first[at + 1], all[i][2]>>)]
      BY ONLY <3>1, <3>2, OracleIs
    <3>4. first[at + 1] = index
      BY <2>3, <2>7
    <3> QED BY ONLY <2>6, <3>3, <3>4
  <2>9. OracleValue(maskValues, at) = FirstLayerValue(index)
    BY <2>6, <2>8 DEF OracleValue, FirstLayerValue
  <2> QED BY <2>1, <2>5, <2>7, <2>9 DEF FriValue
<1> DEFINE result(j) == Fold(0, [k \in 0..(size - 1) |-> OracleValue(maskValues, (j - 1) * size + k)],
                             first[(j - 1) * size + 1])
<1>8. FirstResults(maskValues) = [j \in 1..n |-> result(j)]
  BY <1>3, <1>4, <1>6 DEF FirstResults
<1>9. ASSUME NEW j \in 1..n PROVE result(j) = FriValue(1, vQueries[j])
  <2>1. PICK q \in Nat : q = vQueries[j]
    BY <1>2
  <2>2. PICK start : start = q * size
    OBVIOUS
  <2>3. PICK elements :
          elements = [k \in 0..(size - 1) |-> OracleValue(maskValues, (j - 1) * size + k)]
    OBVIOUS
  <2>4. elements = [k \in 0..(size - 1) |-> FriValue(0, start + k)]
    BY <1>7, <2>1, <2>2, <2>3
  <2>5. 0 \in 0..(size - 1)
    OBVIOUS
  <2>6. first[(j - 1) * size + 1] = start
    BY <1>7, <2>1, <2>2, <2>5
  <2>7. result(j) = Fold(0, elements, start)
    BY <2>3, <2>6
  <2>8. start \div size = q
    BY <2>2
  <2>9. Fold(0, elements, start) = FriValue(0 + 1, start \div size)
    BY <1>3, <2>4 DEF Fold
  <2> QED BY <2>1, <2>7, <2>8, <2>9
<1> HIDE DEF result
<1> QED
  BY <1>1, <1>8, <1>9

(* What has to be shown of a step between two traces, and of one to a      *)
(* layer.                                                                  *)
LEMMA RightTraces ==
  ASSUME Right, vAt = "traces", vAt' = "traces",
         UNCHANGED <<params, pvars, proof, vQueries, vConstraints>>,
         \A u \in 0..(vIndex' - 1) : vMaskValues'[u] = MaskValues(u)
  PROVE  Right'
<1>1. vConstraints = Constraints(Sampled) /\ QueriesAre(vQueries)
  BY DEF Right, Sampling
<1>2. vConstraints' = Constraints(Sampled)'
  BY <1>1, ConstraintsUnchanged
<1>3. QueriesAre(vQueries)'
  BY <1>1 DEF QueriesAre, QueryValues, NFirstIndices, Step
<1>4. ASSUME NEW u PROVE MaskValues(u)' = MaskValues(u)
  BY DEF MaskValues, QueriesToTrace, CosetSize, Step, OracleMask, Widths
<1>5. \A u \in 0..(vIndex' - 1) : vMaskValues'[u] = MaskValues(u)'
  BY <1>4
<1> QED
  BY <1>2, <1>3, <1>5 DEF Right

LEMMA RightInner ==
  ASSUME Right, vAt \in {"traces", "inner"}, vAt' = "inner",
         UNCHANGED <<params, pvars, proof, vQueries, vConstraints>>,
         NEW i \in Nat, vIndex' = i,
         vResults' = [j \in 1..params.nQueries |-> FriValue(i + 1, QueryIndex(i, j))]
  PROVE  Right'
<1>1. vConstraints = Constraints(Sampled) /\ QueriesAre(vQueries)
  BY DEF Right, Sampling
<1>2. vConstraints' = Constraints(Sampled)'
  BY <1>1, ConstraintsUnchanged
<1>3. QueriesAre(vQueries)'
  BY <1>1 DEF QueriesAre, QueryValues, NFirstIndices, Step
<1>4. ASSUME NEW j
      PROVE  FriValue(vIndex + 1, QueryIndex(vIndex, j))' = FriValue(i + 1, QueryIndex(i, j))
  <2>1. QueryIndex(vIndex, j)' = QueryIndex(i, j)
    BY DEF QueryIndex, QueryShift, Step
  <2>2. i + 1 # 0 /\ (vIndex + 1)' = i + 1
    OBVIOUS
  <2> QED BY <2>1, <2>2 DEF FriValue
<1>5. vResults' = [j \in 1..params.nQueries |-> FriValue(vIndex + 1, QueryIndex(vIndex, j))]'
  BY <1>4
<1> QED
  BY <1>2, <1>3, <1>5 DEF Right

(* What a query's number is divided by in the layer that a round reads.    *)
LEMMA ShiftsAre ==
  ASSUME params \in Parameters
  PROVE  /\ QueryShift(0) = 0
         /\ \A i \in 0..(NLayers - 1) :
              /\ QueryShift(i) \in Nat /\ QueryShift(i) = CumulativeStep(i + 1)
              /\ i + 1 < NLayers => QueryShift(i + 1) = QueryShift(i) + Step(i + 1)
<1>1. PICK steps : steps = params.friSteps
  OBVIOUS
<1>2. PICK n \in Nat \ {0} : n = NLayers
  BY StepsAre
<1>3. IsList(steps) /\ Len(steps) = n /\ \A i \in 1..n : steps[i] \in Nat
  BY <1>1, <1>2, StepsAre
<1>4. ASSUME NEW i \in 0..(n - 1)
      PROVE  /\ QueryShift(i) = SumOfFirst(steps, i + 1) - steps[1]
             /\ QueryShift(i) = CumulativeStep(i + 1) /\ QueryShift(i) \in Nat
  <2>1. PICK k \in 1..n : k = i + 1
    BY <1>2
  <2>2. k \in 0..n
    BY <2>1
  <2>3. SumOf(SubSeq(steps, 1, k)) = SumOfFirst(steps, k)
    BY <1>3, <2>2, SumOfBeginning
  <2>4. /\ SumOf(SubSeq(steps, 2, k)) \in Nat
        /\ SumOf(SubSeq(steps, 2, k)) = SumOfFirst(steps, k) - steps[1]
    BY <1>3, SumAfterFirst
  <2>5. Step(0) = steps[1]
    BY <1>1, StepsAre
  <2> QED BY <1>1, <2>1, <2>3, <2>4, <2>5 DEF QueryShift, CumulativeStep
<1>5. /\ SumOfFirst(steps, 0) = 0
      /\ \A k \in 0..(n - 1) : SumOfFirst(steps, k + 1) = SumOfFirst(steps, k) + steps[k + 1]
      /\ \A k \in 0..n : SumOfFirst(steps, k) \in Nat
  BY <1>3, SumOfFirstIs
<1>6. QueryShift(0) = 0
  <2>1. 0 \in 0..(n - 1) /\ 0 + 1 = 1 /\ steps[1] \in Nat
    BY <1>2, <1>3
  <2>2. SumOfFirst(steps, 1) = SumOfFirst(steps, 0) + steps[1]
    BY <1>5, <2>1
  <2>3. QueryShift(0) = SumOfFirst(steps, 1) - steps[1]
    BY <1>4, <2>1
  <2> QED BY <1>5, <2>1, <2>2, <2>3
<1>7. ASSUME NEW i \in 0..(n - 1), i + 1 < n
      PROVE  QueryShift(i + 1) = QueryShift(i) + Step(i + 1)
  <2>1. PICK k \in 1..(n - 1) : k = i + 1
    BY <1>7
  <2>2. k \in 0..(n - 1) /\ steps[k + 1] \in Nat /\ steps[1] \in Nat /\ k \in 0..n /\ k + 1 \in 0..n
    BY <1>3
  <2>3. SumOfFirst(steps, k + 1) = SumOfFirst(steps, k) + steps[k + 1]
    BY <1>5, <2>2
  <2>4. QueryShift(k) = SumOfFirst(steps, k + 1) - steps[1]
    BY <1>4, <2>2
  <2>5. QueryShift(i) = SumOfFirst(steps, k) - steps[1]
    BY <1>4, <2>1
  <2>6. Step(k) = steps[k + 1]
    BY <1>1 DEF Step
  <2>7. SumOfFirst(steps, k) \in Nat /\ SumOfFirst(steps, k + 1) \in Nat
    BY <1>5, <2>2
  <2>8. QueryShift(k) = QueryShift(i) + Step(k)
    BY <2>2, <2>3, <2>4, <2>5, <2>6, <2>7
  <2> QED BY <2>1, <2>8
<1> QED
  BY <1>2, <1>4, <1>6, <1>7

(* The number of a query is its place in the second layer.                 *)
LEMMA FirstShift ==
  ASSUME params \in Parameters, NEW j, vQueries[j] \in Nat
  PROVE  QueryIndex(0, j) = vQueries[j]
BY ShiftsAre, Pow2Is DEF QueryIndex

(* The cells of a trace that the verifier wants are whole rows.            *)
LEMMA TraceRows ==
  ASSUME params \in Parameters, NEW queries, QueriesAre(queries), NEW t \in 0..(NTraces - 1),
         NEW rows, rows = AllQueryRows(Values(QueriesToTrace(t, queries)), {}),
         NEW wanted, wanted = ElementsToBeTransmitted(Widths[t + 1], rows, {})
  PROVE  /\ wanted \in SUBSET (Nat \X Nat) /\ wanted = rows \X (0..(Widths[t + 1] - 1))
         /\ {cell[1] : cell \in wanted} = rows
         /\ \A i \in DOMAIN QueriesToTrace(t, queries) : QueriesToTrace(t, queries)[i] \in wanted
<1>1. PICK width \in Nat : width = Widths[t + 1]
  BY SizesAre
<1>2. PICK list : list = QueriesToTrace(t, queries)
  OBVIOUS
<1>3. \A i \in DOMAIN list : list[i] \in Nat \X (0..(width - 1))
  <2>1. IsList(list) /\ \A i \in 1..Len(list) : list[i] \in Nat \X (0..(width - 1))
    BY <1>1, <1>2, TraceCellsAre
  <2> QED BY <2>1, ListProperties
<1>4. rows = {list[i][1] : i \in DOMAIN list}
  BY <1>2 DEF AllQueryRows, Values
<1>5. wanted = rows \X (0..(width - 1))
  BY <1>1 DEF ElementsToBeTransmitted
<1>6. rows \in SUBSET Nat
  BY <1>3, <1>4
<1>7. wanted \in SUBSET (Nat \X Nat)
  BY <1>5, <1>6
<1>8. \A i \in DOMAIN list : list[i] \in wanted
  <2> SUFFICES ASSUME NEW i \in DOMAIN list PROVE list[i] \in wanted
    OBVIOUS
  <2>1. list[i][1] \in rows /\ list[i] \in Nat \X (0..(width - 1))
    BY <1>3, <1>4
  <2> QED BY <2>1, <1>5
<1>9. {cell[1] : cell \in wanted} = rows
  <2>1. \A cell \in wanted : cell[1] \in rows
    BY <1>5
  <2>2. ASSUME NEW row \in rows PROVE \E cell \in wanted : cell[1] = row
    BY <1>4, <1>8
  <2> QED BY <2>1, <2>2
<1> QED
  BY <1>1, <1>2, <1>5, <1>7, <1>8, <1>9

(* A trace is decommitted, and after the last the first layer is folded.   *)
LEMMA PassesTraceCells ==
  ASSUME NEW s, NEW t, Between(s, t), VVerifyTrace, Right, pConstraints = Constraints(Sampled)
  PROVE  Right'
<1>1. s[1] = "traces" /\ vIndex = s[2] /\ vQueries = pQueries /\ vAt = "traces"
  BY DEF Between, Reads, Stands, VVerifyTrace
<1>2. /\ params \in Parameters /\ QueriesAre(pQueries)
      /\ ~t[3].failed /\ IsPrefix(t[3].units, pChannel.units) /\ IsChannel(t[3])
      /\ IsList(pChannel.units) /\ IsList(proof) /\ IsPrefix(proof, pChannel.units)
  BY DEF Between
<1>3. PICK u \in 0..(NTraces - 1) : u = vIndex
  BY <1>1 DEF Between, IsPlace
<1>4. NTraces \in Nat /\ u \in Nat
  BY <1>2, ParametersAre
<1>5. PICK width \in Nat : width = Widths[u + 1]
  BY <1>2, SizesAre
<1>6. PICK list : list = QueriesToTrace(u, vQueries)
  OBVIOUS
<1>7. PICK rows : rows = AllQueryRows(Values(list), {})
  OBVIOUS
<1>8. PICK wanted : wanted = ElementsToBeTransmitted(width, rows, {})
  OBVIOUS
<1>9. /\ wanted \in SUBSET (Nat \X Nat) /\ wanted = rows \X (0..(width - 1))
      /\ {cell[1] : cell \in wanted} = rows
      /\ \A i \in DOMAIN list : list[i] \in wanted
  BY <1>1, <1>2, <1>5, <1>6, <1>7, <1>8, TraceRows
<1>10. PICK cells : cells = InOrder(wanted)
  OBVIOUS
<1>11. PICK table : table = <<"trace", u>>
  OBVIOUS
<1>12. PICK scope : scope = "Virtual Oracle/Trace"
  OBVIOUS
<1>13. PICK c : c = ReadsCells(vChannel, scope, u, cells)
  OBVIOUS
<1>14. t[3] = Decommits(s[3], scope, u, table, width, Values(list), {})
  BY <1>1, <1>3, <1>5, <1>6, <1>11, <1>12, ReadsFollows DEF NextChannel, TraceData
<1>15. Serves(c, t[3], scope, u, table, width, rows, wanted, cells)
  <2>1. IsFiniteSet(Values(list)) /\ IsFiniteSet({})
    BY <1>1, <1>2, <1>6, QueriesAreAList, FiniteTraceQueries, FS_EmptySet
  <2>2. Took(vChannel, s[3]) /\ IsChannel(s[3])
    BY ReadsTook
  <2>3. PICK data, none : data = Values(list) /\ none = {}
    OBVIOUS
  <2>4. wanted = ElementsToBeTransmitted(width, AllQueryRows(data, none), none)
    BY <1>7, <1>8, <2>3
  <2>5. t[3] = Decommits(s[3], scope, u, table, width, data, none)
    BY <1>14, <2>3
  <2>6. IsFiniteSet(data) /\ IsFiniteSet(none)
    BY <2>1, <2>3
  <2>9. PICK p, q, v : p = s[3] /\ q = t[3] /\ v = vChannel
    OBVIOUS
  <2>11. /\ Took(v, p) /\ IsChannel(p) /\ q = Decommits(p, scope, u, table, width, data, none)
         /\ ~q.failed /\ IsPrefix(q.units, pChannel.units) /\ IsChannel(q)
         /\ c = ReadsCells(v, scope, u, cells)
    BY <1>2, <1>13, <2>2, <2>5, <2>9
  <2>12. IsList(pChannel.units) /\ IsList(proof) /\ IsPrefix(proof, pChannel.units)
    BY <1>2
  <2>13. wanted \in SUBSET (Nat \X Nat)
    BY <1>9
  <2>14. Serves(c, q, scope, u, table, width, AllQueryRows(data, none), wanted, cells)
    <3>1. width \in Nat
      OBVIOUS
    <3> QED BY ONLY <3>1, <1>10, <2>4, <2>6, <2>11, <2>12, <2>13, TookDecommitted
  <2>8. AllQueryRows(data, none) = rows
    BY <1>7, <2>3
  <2> QED BY <2>8, <2>9, <2>14
<1>16. PICK answers : answers = Answers(c, cells)
  OBVIOUS
<1>17. PICK last : last <=> u + 1 = NTraces
  OBVIOUS
<1>18. PICK e : e = IF c.failed THEN c
                    ELSE VerifiesDecommitment(c, scope, u, table, width, answers)
  OBVIOUS
<1>19. ~c.failed => /\ answers = [cell \in wanted |-> Content(table, cell)]
                    /\ AreRows(answers, rows, width, table)
  <2> SUFFICES ASSUME ~c.failed
               PROVE  /\ answers = [cell \in wanted |-> Content(table, cell)]
                      /\ AreRows(answers, rows, width, table)
    OBVIOUS
  <2>1. answers = [cell \in wanted |-> Content(table, cell)]
    BY <1>15, <1>16 DEF Serves
  <2>2. DOMAIN answers = wanted /\ \A cell \in wanted : answers[cell] = Content(table, cell)
    BY <2>1
  <2> QED BY <2>1, <2>2, <1>9 DEF AreRows
<1>20. Took(e, t[3])
  BY <1>15, <1>18, <1>19 DEF Serves
<1>21. PICK next : next = IF u + 1 = NTraces THEN "inner" ELSE "traces"
  OBVIOUS
<1> DEFINE given == [r \in 0..u |-> IF r = u THEN [i \in DOMAIN list |-> answers[list[i]]]
                                    ELSE vMaskValues[r]]
<1>22. PICK maskValues : maskValues = given
  OBVIOUS
<1>23. /\ VGo(next, e)
       /\ vIndex' = (IF u + 1 = NTraces THEN 0 ELSE u + 1)
       /\ ~c.failed /\ u + 1 # NTraces => vMaskValues' = maskValues
       /\ ~c.failed /\ u + 1 = NTraces => vResults' = FirstResults(maskValues)
       /\ vQueries' = vQueries /\ vConstraints' = vConstraints
  BY <1>3, <1>5, <1>6, <1>7, <1>8, <1>10, <1>11, <1>12, <1>13, <1>16, <1>18, <1>21, <1>22
  DEF VVerifyTrace, Unless
<1> HIDE DEF given
<1>24. UNCHANGED <<params, pvars, proof>> /\ Passes(next)
       /\ vAt' = (IF e.failed THEN "rejected" ELSE next)
  BY <1>20, <1>23, PassesGo DEF VGo
<1>25. vAt' = "rejected" => Right'
  <2>1. next # "rejected"
    BY <1>21
  <2> QED BY <2>1, <1>24, RightRejected DEF Passes
<1>26. ASSUME vAt' # "rejected" PROVE Right'
  <2>1. vAt' = next /\ ~e.failed
    BY <1>24, <1>26
  <2>2. ~c.failed
    BY <2>1, <1>18
  <2>3. ASSUME NEW r \in 0..u PROVE maskValues[r] = MaskValues(r)
    <3>1. CASE r = u
      <4>1. maskValues[r] = [i \in DOMAIN list |-> answers[list[i]]]
        BY <3>1, <1>4, <1>22 DEF given
      <4>2. ASSUME NEW i \in DOMAIN list PROVE answers[list[i]] = TraceCell(u, list[i])
        <5>1. answers[list[i]] = Content(table, list[i])
          BY <1>9, <1>19, <2>2
        <5>2. table[1] = "trace" /\ table[2] = u
          BY <1>11
        <5> QED BY <5>1, <5>2 DEF Content
      <4>3. maskValues[r] = [i \in DOMAIN list |-> TraceCell(u, list[i])]
        BY <4>1, <4>2
      <4> QED BY <3>1, <4>3, <1>6 DEF MaskValues
    <3>2. CASE r # u
      <4>1. maskValues[r] = vMaskValues[r] /\ r \in 0..(vIndex - 1)
        BY <3>2, <1>3, <1>4, <1>22 DEF given
      <4> QED BY <4>1, <1>1 DEF Right
    <3> QED BY <3>1, <3>2
  <2>4. CASE u + 1 # NTraces
    <3>1. vAt' = "traces" /\ vIndex' = u + 1 /\ vMaskValues' = maskValues
      BY <2>1, <2>2, <2>4, <1>21, <1>23
    <3>2. \A r \in 0..(vIndex' - 1) : vMaskValues'[r] = MaskValues(r)
      BY <3>1, <2>3, <1>4
    <3> QED BY <3>1, <3>2, <1>1, <1>23, <1>24, RightTraces
  <2>5. CASE u + 1 = NTraces
    <3>1. vAt' = "inner" /\ vIndex' = 0 /\ vResults' = FirstResults(maskValues)
      BY <2>1, <2>2, <2>5, <1>21, <1>23
    <3>2. GivesTraces(maskValues, vQueries)
      <4>1. 0..(NTraces - 1) = 0..u
        BY <2>5, <1>4
      <4>2. \A r \in 0..(NTraces - 1) : maskValues[r] = TraceMask(r, vQueries)
        BY <4>1, <2>3 DEF MaskValues, TraceMask
      <4> QED BY <4>2 DEF GivesTraces
    <3>3. vConstraints = pConstraints
      BY <1>1 DEF Right, Sampling
    <3>4. FirstResults(maskValues) = [j \in 1..params.nQueries |-> FriValue(1, vQueries[j])]
      BY <1>1, <1>2, <3>2, <3>3, FirstResultsAre
    <3>5. ASSUME NEW j \in 1..params.nQueries PROVE QueryIndex(0, j) = vQueries[j]
      BY <1>1, <1>2, QueriesAreNumbers, FirstShift
    <3>6. vResults' = [j \in 1..params.nQueries |-> FriValue(0 + 1, QueryIndex(0, j))]
      BY <3>1, <3>4, <3>5
    <3>7. 0 \in Nat
      OBVIOUS
    <3> QED BY <3>1, <3>6, <3>7, <1>1, <1>23, <1>24, RightInner
  <2> QED BY <2>4, <2>5
<1> QED
  BY <1>25, <1>26

-----------------------------------------------------------------------------
(* The verifier's part of an inner layer.                                  *)

(* The index of a query in a layer is that in the layer before without its *)
(* place in the coset.                                                     *)
LEMMA IndexGoesDown ==
  ASSUME params \in Parameters, NEW i \in Nat, i + 1 < NLayers,
         NEW j, vQueries[j] \in Nat
  PROVE  /\ QueryIndex(i, j) \in Nat
         /\ QueryIndex(i, j) = vQueries[j] \div Pow2[CumulativeStep(i + 1)]
         /\ Row(QueryIndex(i, j), CosetSize(i + 1)) = QueryIndex(i + 1, j)
<1>1. PICK n \in Nat \ {0} : n = NLayers
  BY StepsAre
<1>2. i \in 0..(NLayers - 1) /\ i + 1 \in 0..(NLayers - 1) /\ i + 1 < NLayers
  BY <1>1
<1>3. PICK a \in Nat : a = QueryShift(i)
  BY <1>2, ShiftsAre
<1>4. PICK b \in Nat : b = Step(i + 1)
  BY <1>2, SizesAre
<1>5. QueryShift(i + 1) = a + b /\ a = CumulativeStep(i + 1)
  BY <1>2, <1>3, <1>4, ShiftsAre
<1>6. PICK m, k \in Nat \ {0} : m = Pow2[a] /\ k = Pow2[b]
  BY Pow2Is
<1>7. Pow2[a + b] = m * k
  BY <1>6, Pow2Sum
<1>8. PICK q \in Nat : q = vQueries[j]
  OBVIOUS
<1>9. (q \div m) \div k = q \div (m * k) /\ q \div m \in Nat
  <2>1. q \in Nat /\ m \in Nat \ {0} /\ k \in Nat \ {0}
    OBVIOUS
  <2>2. (q \div m) \div k = q \div (m * k)
    BY ONLY <2>1, DividedTwice
  <2>3. q \div m \in Nat
    BY <2>1
  <2> QED BY <2>2, <2>3
<1>10. QueryIndex(i, j) = q \div m /\ QueryIndex(i + 1, j) = q \div (m * k)
  BY <1>3, <1>5, <1>6, <1>7, <1>8 DEF QueryIndex
<1>11. CosetSize(i + 1) = k
  BY <1>4, <1>6 DEF CosetSize
<1> QED
  BY <1>5, <1>6, <1>8, <1>9, <1>10, <1>11 DEF Row

(* The results of the layer before and where they belong.                  *)
ResultsAre(i) ==
  vResults = [j \in 1..params.nQueries |-> FriValue(i + 1, QueryIndex(i, j))]

Locations(i) == {Location(i, j) : j \in 1..params.nQueries}

(* The first of the results with a location has the value of its cell.     *)
LEMMA ComputedIs ==
  ASSUME params \in Parameters, QueriesAre(vQueries), NEW i \in Nat, i + 1 < NLayers,
         ResultsAre(i), NEW cell \in Locations(i)
  PROVE  vResults[FirstAt(i, cell)] = FriCell(i + 1, cell)
<1> DEFINE l == i + 1
<1>a. PICK n \in Nat : n = params.nQueries
  BY ParametersAre
<1>b. PICK size \in Nat \ {0} : size = CosetSize(l)
  <2>1. l \in 0..(NLayers - 1)
    BY StepsAre
  <2> QED BY <2>1, SizesAre
<1>c. \A j \in 1..n : QueryIndex(i, j) \in Nat
  BY <1>a, QueriesAreNumbers, IndexGoesDown
<1>d. DOMAIN vResults = 1..n /\ \A j \in 1..n : vResults[j] = FriValue(l, QueryIndex(i, j))
  BY <1>a DEF ResultsAre
<1>e. \E j \in 1..n : Location(i, j) = cell
  BY <1>a DEF Locations
<1> DEFINE there(j) == Location(i, j) = cell
           T == {j \in 1..n : there(j)}
<1> HIDE DEF there
<1>1. PICK first \in T : \A j \in T : first <= j
  <2>1. T \in SUBSET Nat
    OBVIOUS
  <2>2. \E j \in 1..n : j \in T
    BY <1>e DEF there
  <2>3. PICK j : j \in T
    BY <2>2
  <2> HIDE DEF T
  <2> QED BY <2>1, <2>3, LeastOf
<1>2. first \in 1..n /\ there(first) /\ \A k \in 1..(first - 1) : ~there(k)
  BY <1>1
<1>3. DOMAIN vResults = 1..n
  BY <1>d
<1>4. PICK at : at = CHOOSE j \in DOMAIN vResults : there(j) /\ \A k \in 1..(j - 1) : ~there(k)
  OBVIOUS
<1>4a. at = FirstAt(i, cell)
  BY <1>4 DEF there, FirstAt
<1>5. at \in 1..n /\ there(at)
  BY <1>2, <1>3, <1>4
<1>6. PICK index \in Nat : index = QueryIndex(i, at)
  BY <1>c, <1>5
<1>7. vResults[at] = FriValue(l, index)
  BY <1>d, <1>5, <1>6
<1>8. cell = <<index \div size, index % size>>
  BY <1>b, <1>5, <1>6 DEF there, Location, RowCol, Row, Col
<1>9. cell[1] * size + cell[2] = index
  <2>1. PICK a, b \in Nat : a = index \div size /\ b = index % size /\ index = size * a + b
    <3>1. index \in Nat /\ size \in Nat \ {0}
      OBVIOUS
    <3> QED BY ONLY <3>1
  <2>2. cell[1] = a /\ cell[2] = b
    BY <1>8, <2>1
  <2>3. a * size = size * a
    OBVIOUS
  <2> QED BY <2>1, <2>2, <2>3
<1>10. FriCell(l, cell) = FriValue(l, index)
  BY <1>b, <1>9 DEF FriCell
<1> QED
  BY <1>4a, <1>7, <1>10

(* Folding a coset of a layer gives the value in the next.                 *)
LEMMA FoldIs ==
  ASSUME NEW l \in Nat, NEW size \in Nat \ {0}, size = CosetSize(l), NEW start \in Nat,
         NEW elements, elements = [k \in 0..(size - 1) |-> FriCell(l, <<start, k>>)]
  PROVE  Fold(l, elements, FirstElementIndex(start, size)) = FriValue(l + 1, start)
<1>1. ASSUME NEW k \in 0..(size - 1)
      PROVE  FriCell(l, <<start, k>>) = FriValue(l, start * size + k)
  BY DEF FriCell
<1>2. PICK first : first = start * size
  OBVIOUS
<1>3. elements = [k \in 0..(size - 1) |-> FriValue(l, first + k)]
  BY <1>1, <1>2
<1>4. first \div size = start
  BY <1>2
<1>5. Fold(l, elements, first) = FriValue(l + 1, start)
  BY <1>3, <1>4 DEF Fold
<1> QED
  BY <1>2, <1>5 DEF FirstElementIndex

(* What the verifier reads and what it computes make whole rows.           *)
MakeRows(data, computed, rows, i, size) ==
  /\ data \union computed = rows \X (0..(size - 1))
  /\ {cell[1] : cell \in data \union computed} = rows
  /\ \A j \in 1..params.nQueries : \A k \in 0..(size - 1) :
       <<QueryIndex(i + 1, j), k>> \in data \union computed

(* What the verifier reads and computes of a layer are the whole cosets.   *)
LEMMA LayerRows ==
  ASSUME params \in Parameters, QueriesAre(vQueries), NEW i \in Nat, i + 1 < NLayers,
         NEW size, size = CosetSize(i + 1), NEW below, below = Pow2[CumulativeStep(i + 1)],
         NEW data, data = DataQueries(vQueries, below, size),
         NEW integrity, integrity = IntegrityQueries(vQueries, below, size),
         NEW rows, rows = AllQueryRows(data, integrity),
         NEW computed, computed = Locations(i)
  PROVE  /\ data \intersect integrity = {} /\ data \in SUBSET (Nat \X Nat)
         /\ data = ElementsToBeTransmitted(size, rows, integrity)
         /\ computed = integrity
         /\ MakeRows(data, computed, rows, i, size)
<1>1. PICK n \in Nat : n = params.nQueries
  BY ParametersAre
<1>2. PICK queries : queries = vQueries
  OBVIOUS
<1>3. DOMAIN queries = 1..n /\ \A j \in 1..n : queries[j] \in Nat
  BY <1>1, <1>2, QueriesAreNumbers, ListProperties
<1>4. queries \in Seq(Nat)
  <2>1. Len(queries) = n /\ IsList(queries)
    BY <1>1, <1>2, QueriesAreNumbers
  <2>2. queries = [j \in 1..n |-> queries[j]]
    BY <2>1, ListProperties
  <2>3. queries \in [1..n -> Nat]
    BY <1>3, <2>2
  <2> QED BY <2>3, IsASeq
<1>5. size \in Nat \ {0}
  <2>1. i + 1 \in 0..(NLayers - 1)
    BY StepsAre
  <2> QED BY <2>1, SizesAre
<1>6. below \in Nat \ {0}
  <2>1. i \in 0..(NLayers - 1)
    BY StepsAre
  <2> QED BY <2>1, ShiftsAre, Pow2Is
<1>7. /\ data \intersect integrity = {}
      /\ \A j \in DOMAIN queries : \A k \in 0..(size - 1) :
           <<Row(queries[j] \div below, size), k>> \in data \union integrity
      /\ data \union integrity = rows \X (0..(size - 1))
  <2>1. /\ data = DataQueries(queries, below, size) /\ rows = AllQueryRows(data, integrity)
        /\ integrity = IntegrityQueries(queries, below, size)
    BY <1>2
  <2> QED BY ONLY <2>1, <1>4, <1>5, <1>6, CosetsAreComplete
<1>8. data = ElementsToBeTransmitted(size, rows, integrity)
  BY <1>2, <1>4, <1>5, <1>6, TransmittedAreDataQueries
<1>9. ASSUME NEW j \in 1..n
      PROVE  /\ QueryIndex(i, j) = queries[j] \div below
             /\ Row(QueryIndex(i, j), size) = QueryIndex(i + 1, j)
  BY <1>2, <1>3, IndexGoesDown
<1>10. computed = integrity
  <2>1. integrity = {RowCol(q \div below, size) : q \in Values(queries)}
    BY <1>2 DEF IntegrityQueries
  <2>2. ASSUME NEW j \in 1..n PROVE Location(i, j) \in integrity
    <3>1. queries[j] \in Values(queries)
      BY <1>3 DEF Values
    <3> QED BY <3>1, <2>1, <1>9 DEF Location
  <2>3. ASSUME NEW q \in Values(queries) PROVE RowCol(q \div below, size) \in computed
    <3>1. PICK j \in 1..n : q = queries[j]
      BY <1>3 DEF Values
    <3>2. RowCol(q \div below, size) = Location(i, j)
      BY <3>1, <1>9 DEF Location
    <3> QED BY <3>2, <1>1 DEF Locations
  <2> QED BY <2>1, <2>2, <2>3, <1>1 DEF Locations
<1>11. ASSUME NEW j \in 1..n, NEW k \in 0..(size - 1)
       PROVE  <<QueryIndex(i + 1, j), k>> \in data \union computed
  BY <1>3, <1>7, <1>9, <1>10
<1>12. data \in SUBSET (Nat \X Nat)
  <2>1. data \subseteq CosetCells(queries, below, size)
    BY <1>2 DEF DataQueries
  <2>2. ASSUME NEW q \in Values(queries), NEW col \in 0..(size - 1)
        PROVE  <<Row(q \div below, size), col>> \in Nat \X Nat
    <3>1. q \in Nat
      BY <1>3 DEF Values
    <3>2. q \div below \in Nat
      BY <3>1, <1>6, ShiftedIndex
    <3>3. (q \div below) \div size \in Nat
      BY <3>2, <1>5, ShiftedIndex
    <3> QED BY <3>3 DEF Row
  <2>3. CosetCells(queries, below, size) \in SUBSET (Nat \X Nat)
    BY <2>2 DEF CosetCells
  <2> QED BY <2>1, <2>3
<1>13. {cell[1] : cell \in data \union computed} = rows
  BY <1>10 DEF AllQueryRows
<1> QED
  BY <1>1, <1>7, <1>8, <1>10, <1>11, <1>12, <1>13 DEF MakeRows

(* The map of the verifier: what it read and, in the cells it computed,    *)
(* the results of the layer before.                                        *)
LEMMA MapIsRight ==
  ASSUME params \in Parameters, QueriesAre(vQueries), NEW i \in Nat, i + 1 < NLayers,
         NEW l, l = i + 1, NEW size, size = CosetSize(l), NEW table, table = <<"fri", l>>,
         ResultsAre(i),
         NEW data, NEW computed, NEW rows,
         computed = Locations(i), MakeRows(data, computed, rows, i, size),
         NEW answers, answers = [cell \in data |-> Content(table, cell)],
         NEW toVerify, toVerify = ToVerify(i, answers)
  PROVE  /\ AreRows(toVerify, rows, size, table)
         /\ \A cell \in data \union computed : toVerify[cell] = FriCell(l, cell)
<1>1. PICK n \in Nat : n = params.nQueries
  BY ParametersAre
<1>1a. vResults = [j \in 1..n |-> FriValue(l, QueryIndex(i, j))]
  BY <1>1 DEF ResultsAre
<1>1b. toVerify = [cell \in data \union computed |->
                     IF cell \in data THEN answers[cell]
                     ELSE vResults[FirstAt(i, cell)]]
  <2>1. DOMAIN vResults = 1..params.nQueries
    BY <1>1, <1>1a
  <2>2. computed = {Location(i, j) : j \in DOMAIN vResults}
    BY <2>1 DEF Locations
  <2>3. DOMAIN answers = data
    OBVIOUS
  <2> QED BY <2>2, <2>3 DEF ToVerify
<1>2. l \in Nat /\ size \in Nat \ {0}
  <2>1. l \in 0..(NLayers - 1)
    BY StepsAre
  <2> QED BY <2>1, SizesAre
<1>4. ASSUME NEW cell PROVE Content(table, cell) = FriCell(l, cell)
  <2>1. table[1] = "fri" /\ table[2] = l
    OBVIOUS
  <2> QED BY <2>1 DEF Content
<1>5. ASSUME NEW cell \in data PROVE toVerify[cell] = FriCell(l, cell)
  BY <1>1b, <1>4
<1>6. ASSUME NEW cell \in computed, cell \notin data PROVE toVerify[cell] = FriCell(l, cell)
  <2>2. toVerify[cell] = vResults[FirstAt(i, cell)]
    BY <1>1b, <1>6
  <2>5. vResults[FirstAt(i, cell)] = FriCell(l, cell)
    BY ComputedIs
  <2> QED BY <2>2, <2>5
<1>7. \A cell \in data \union computed : toVerify[cell] = FriCell(l, cell)
  BY <1>5, <1>6
<1>8. DOMAIN toVerify = data \union computed
  BY <1>1b
<1>9. AreRows(toVerify, rows, size, table)
  BY <1>4, <1>7, <1>8 DEF AreRows, MakeRows
<1> QED
  BY <1>7, <1>9

(* A layer is decommitted, and the cosets of the queries are folded.       *)
LEMMA PassesLayerCells ==
  ASSUME NEW s, NEW t, Between(s, t), VVerifyLayer, Right
  PROVE  Right'
<1>1. /\ s[1] = "layers" /\ vIndex = s[2] - 1 /\ vQueries = pQueries /\ vAt = "inner"
      /\ vIndex < NLayers - 1
  BY DEF Between, Reads, Stands, VVerifyLayer
<1>2. /\ params \in Parameters /\ QueriesAre(vQueries)
      /\ ~t[3].failed /\ IsPrefix(t[3].units, pChannel.units) /\ IsChannel(t[3])
      /\ IsList(pChannel.units) /\ IsList(proof) /\ IsPrefix(proof, pChannel.units)
  BY <1>1 DEF Between
<1>3. PICK i \in Nat : i = vIndex /\ i + 1 = s[2] /\ i + 1 < NLayers
  <2>1. s[2] \in 1..NLayers /\ NLayers \in Nat
    BY <1>1, <1>2, ParametersAre DEF Between, IsPlace
  <2> QED BY <2>1, <1>1
<1>4. PICK l \in Nat \ {0} : l = i + 1
  OBVIOUS
<1>5. PICK size \in Nat \ {0} : size = CosetSize(l)
  <2>1. l \in 0..(NLayers - 1)
    BY <1>2, <1>3, <1>4, StepsAre
  <2> QED BY <2>1, <1>2, SizesAre
<1>6. PICK below : below = Pow2[CumulativeStep(l)]
  OBVIOUS
<1>7. PICK data, integrity : /\ data = DataQueries(vQueries, below, size)
                             /\ integrity = IntegrityQueries(vQueries, below, size)
  OBVIOUS
<1>8. PICK rows : rows = AllQueryRows(data, integrity)
  OBVIOUS
<1>9. PICK n \in Nat : n = params.nQueries
  BY <1>2, ParametersAre
<1>10. PICK computed : computed = Locations(i)
  OBVIOUS
<1>11. /\ data \intersect integrity = {} /\ data \in SUBSET (Nat \X Nat)
       /\ data = ElementsToBeTransmitted(size, rows, integrity)
       /\ computed = integrity
       /\ MakeRows(data, computed, rows, i, size)
  BY <1>2, <1>3, <1>4, <1>5, <1>6, <1>7, <1>8, <1>9, <1>10, LayerRows
<1>12. IsFiniteSet(data) /\ IsFiniteSet(integrity) /\ size \in Nat
  BY <1>2, <1>7, QueriesAreAList, FiniteLayerQueries
<1>13. PICK cells : cells = InOrder(data)
  OBVIOUS
<1>14. Values(cells) = data
  BY <1>11, <1>12, <1>13, InOrderIsAll
<1>15. PICK table : table = <<"fri", l>>
  OBVIOUS
<1>16. PICK scope : scope = "FRI/Decommitment/Layer"
  OBVIOUS
<1>17. PICK c : c = ReadsCells(vChannel, scope, l, cells)
  OBVIOUS
<1>18. t[3] = Decommits(s[3], scope, l, table, size, data, integrity)
  <2>1. t[3] = NextChannel("layers", l, s[3])
    BY <1>1, <1>3, <1>4, ReadsFollows
  <2> QED BY <2>1, <1>1, <1>5, <1>6, <1>7, <1>15, <1>16 DEF NextChannel, LayerData, LayerIntegrity
<1>19. Serves(c, t[3], scope, l, table, size, rows, data, cells)
  <2>1. Took(vChannel, s[3]) /\ IsChannel(s[3])
    BY ReadsTook
  <2>2. PICK p, q, v : p = s[3] /\ q = t[3] /\ v = vChannel
    OBVIOUS
  <2>3. /\ Took(v, p) /\ IsChannel(p) /\ q = Decommits(p, scope, l, table, size, data, integrity)
        /\ ~q.failed /\ IsPrefix(q.units, pChannel.units) /\ IsChannel(q)
        /\ c = ReadsCells(v, scope, l, cells)
    BY <1>2, <1>17, <1>18, <2>1, <2>2
  <2>4. IsList(pChannel.units) /\ IsList(proof) /\ IsPrefix(proof, pChannel.units)
    BY <1>2
  <2>5. data = ElementsToBeTransmitted(size, AllQueryRows(data, integrity), integrity)
    BY <1>8, <1>11
  <2>6. data \in SUBSET (Nat \X Nat)
    BY <1>11
  <2>7. Serves(c, q, scope, l, table, size, AllQueryRows(data, integrity), data, cells)
    BY ONLY <1>12, <1>13, <2>3, <2>4, <2>5, <2>6, TookDecommitted
  <2> QED BY <1>8, <2>2, <2>7
<1>20. PICK answers : answers = Answers(c, cells)
  OBVIOUS
<1>21. ResultsAre(i)
  BY <1>1, <1>3 DEF Right, ResultsAre
<1>22. PICK toVerify : toVerify = ToVerify(i, answers)
  OBVIOUS
<1>23. ~c.failed => /\ AreRows(toVerify, rows, size, table)
                    /\ \A cell \in data \union computed : toVerify[cell] = FriCell(l, cell)
  <2>1. SUFFICES ASSUME ~c.failed
                 PROVE  /\ AreRows(toVerify, rows, size, table)
                        /\ \A cell \in data \union computed : toVerify[cell] = FriCell(l, cell)
    OBVIOUS
  <2>2. answers = [cell \in data |-> Content(table, cell)]
    BY <2>1, <1>19, <1>20 DEF Serves
  <2>3. /\ params \in Parameters /\ QueriesAre(vQueries) /\ i \in Nat /\ i + 1 < NLayers
        /\ l = i + 1 /\ size = CosetSize(l) /\ ResultsAre(i)
        /\ computed = Locations(i) /\ MakeRows(data, computed, rows, i, size)
    BY <1>2, <1>3, <1>4, <1>5, <1>10, <1>11, <1>21
  <2> QED
    BY ONLY <2>2, <2>3, <1>15, <1>22, MapIsRight
<1>24. PICK verified : verified = VerifiesDecommitment(c, scope, l, table, size, toVerify)
  OBVIOUS
<1>25. PICK e : e = IF c.failed THEN c ELSE verified
  OBVIOUS
<1> DEFINE found == \A j \in DOMAIN vResults : \A k \in InCoset(i) :
                      <<CosetStart(i, j), k>> \in DOMAIN toVerify
<1>26. data \intersect integrity = {}
  BY <1>11
<1>27. cells = InOrder(ElementsToBeTransmitted(size, AllQueryRows(data, integrity), integrity))
  BY <1>8, <1>11, <1>13
<1>28. /\ c.failed \/ found => VGo("inner", e)
       /\ ~c.failed /\ found => vResults' = FoldedResults(i, toVerify)
       /\ vIndex' = i + 1 /\ UNCHANGED <<vQueries, vConstraints>>
  BY ONLY VVerifyLayer, <1>3, <1>4, <1>5, <1>6, <1>7, <1>15, <1>16, <1>17, <1>20, <1>22, <1>24, <1>25, <1>26, <1>27
  DEF VVerifyLayer, Unless
<1>29. DOMAIN vResults = 1..n
  BY <1>9, <1>21 DEF ResultsAre
<1>30. InCoset(i) = 0..(size - 1)
  BY <1>4, <1>5 DEF InCoset
<1>31. ASSUME NEW j \in 1..n
       PROVE  /\ CosetStart(i, j) = QueryIndex(i + 1, j) /\ QueryIndex(i + 1, j) \in Nat
              /\ \A k \in 0..(size - 1) : <<CosetStart(i, j), k>> \in data \union computed
  <2>1. vQueries[j] \in Nat
    BY <1>2, <1>9, QueriesAreNumbers
  <2>2. Row(QueryIndex(i, j), CosetSize(i + 1)) = QueryIndex(i + 1, j) /\ QueryIndex(i, j) \in Nat
    BY <2>1, <1>2, <1>3, IndexGoesDown
  <2>3. CosetStart(i, j) = QueryIndex(i + 1, j)
    BY <2>2 DEF CosetStart
  <2>4. QueryIndex(i + 1, j) \in Nat
    <3>1. QueryIndex(i, j) \div size \in Nat
      BY <2>2, ShiftedIndex
    <3> QED BY <3>1, <2>2, <1>4, <1>5 DEF Row
  <2> QED BY <2>3, <2>4, <1>9, <1>11 DEF MakeRows
<1>32. ~c.failed => found
  <2>1. SUFFICES ASSUME ~c.failed PROVE found
    OBVIOUS
  <2>2. DOMAIN toVerify = data \union computed
    BY <2>1, <1>11, <1>23 DEF AreRows, MakeRows
  <2> QED BY <2>2, <1>29, <1>30, <1>31
<1> HIDE DEF found
<1>33. Took(e, t[3])
  BY <1>19, <1>23, <1>24, <1>25 DEF Serves
<1>34. VGo("inner", e)
  BY <1>28, <1>32
<1>35. /\ UNCHANGED <<params, pvars, proof>> /\ Passes("inner")
       /\ vAt' = (IF e.failed THEN "rejected" ELSE "inner")
  BY <1>33, <1>34, PassesGo DEF VGo
<1>36. CASE e.failed
  <2>1. vAt' = "rejected"
    BY <1>35, <1>36
  <2> QED BY <2>1, <1>35, RightRejected DEF Passes
<1>37. CASE ~e.failed
  <2>1. ~c.failed /\ vAt' = "inner"
    BY <1>25, <1>35, <1>37
  <2>2. vResults' = FoldedResults(i, toVerify)
    BY <2>1, <1>28, <1>32
  <2>3. ASSUME NEW j \in 1..n
        PROVE  Fold(i + 1, [k \in InCoset(i) |-> toVerify[<<CosetStart(i, j), k>>]],
                    FirstElementIndex(CosetStart(i, j), CosetSize(i + 1)))
                 = FriValue(l + 1, QueryIndex(l, j))
    <3>1. PICK start \in Nat : start = CosetStart(i, j) /\ start = QueryIndex(l, j)
      BY <1>4, <1>31
    <3>2. PICK elements : elements = [k \in InCoset(i) |-> toVerify[<<start, k>>]]
      OBVIOUS
    <3>3. \A k \in 0..(size - 1) : toVerify[<<start, k>>] = FriCell(l, <<start, k>>)
      BY <2>1, <3>1, <1>23, <1>31
    <3>4. elements = [k \in 0..(size - 1) |-> FriCell(l, <<start, k>>)]
      BY <3>2, <3>3, <1>30
    <3>5. Fold(l, elements, FirstElementIndex(start, size)) = FriValue(l + 1, start)
      BY <3>4, <1>5, FoldIs
    <3> QED BY <3>1, <3>2, <3>5, <1>4, <1>5
  <2>4. vResults' = [j \in 1..n |-> FriValue(l + 1, QueryIndex(l, j))]
    BY <2>2, <2>3, <1>29 DEF FoldedResults
  <2>5. vIndex' = l /\ l \in Nat /\ UNCHANGED <<vQueries, vConstraints>>
    BY <1>4, <1>28
  <2> QED BY <2>1, <2>4, <2>5, <1>1, <1>9, <1>35, RightInner
<1> QED
  BY <1>36, <1>37

(* Every step of the verifier before the last keeps Right.                 *)
LEMMA RightGoesOn ==
  ASSUME NEW s, NEW t, Between(s, t), ~IsLast(s), Verifier, Right,
         pConstraints = Constraints(Sampled)
  PROVE  Right'
<1>0. ASSUME VerifyLastLayer PROVE FALSE
  <2>1. s[1] = "layers" /\ s[2] - 1 = NLayers - 1
    BY <1>0 DEF Between, Reads, Stands, VerifyLastLayer
  <2>2. s[2] \in 1..NLayers /\ NLayers \in Nat
    BY <2>1, ParametersAre DEF Between, IsPlace
  <2> QED BY <2>1, <2>2 DEF IsLast
<1>1. CASE VReadTraceCommitment
  <2>1. UNCHANGED <<params, pvars, proof>>
    BY <1>1 DEF VReadTraceCommitment, VGo
  <2>2. PICK next \in {"interaction", "composition"} : Passes(next)
    BY <1>1, PassesTrace
  <2> QED BY <2>1, <2>2, RightSimple DEF Sampling
<1>2. CASE VInteraction
  <2>1. UNCHANGED <<params, pvars, proof>>
    BY <1>2 DEF VInteraction, VGo
  <2> QED BY <1>2, <2>1, PassesInteraction, RightSimple DEF Sampling
<1>3. CASE VCreateComposition
  <2>1. UNCHANGED <<params, pvars, proof>>
    BY <1>3 DEF VCreateComposition, VGo
  <2> QED BY <1>3, <2>1, PassesComposition, RightSimple DEF Sampling
<1>4. CASE VReadBrokenCommitment
  <2>1. UNCHANGED <<params, pvars, proof>>
    BY <1>4 DEF VReadBrokenCommitment, VGo
  <2> QED BY <1>4, <2>1, PassesBroken, RightSimple DEF Sampling
<1>5. CASE VerifyOods
  <2>1. UNCHANGED <<params, pvars, proof>>
    BY <1>5 DEF VerifyOods, VGo
  <2>2. Passes("boundary") /\ (vAt' = "boundary" => vConstraints' = Constraints(Sampled))
    BY <1>5, PassesOods
  <2>3. CASE vAt' = "boundary"
    BY <2>1, <2>2, <2>3, RightSimple
  <2>4. CASE vAt' # "boundary"
    BY <2>1, <2>2, <2>4, RightRejected DEF Passes
  <2> QED BY <2>3, <2>4
<1>6. CASE VCreateBoundary
  <2>1. UNCHANGED <<params, pvars, proof, vConstraints>> /\ vAt = "boundary"
    BY <1>6 DEF VCreateBoundary, VGo
  <2>2. vConstraints' = Constraints(Sampled)
    BY <2>1 DEF Right, Sampling
  <2> QED BY <1>6, <2>1, <2>2, PassesBoundary, RightSimple
<1>7. CASE VLayer
  <2>1. UNCHANGED <<params, pvars, proof, vConstraints>> /\ vAt = "layer"
    BY <1>7 DEF VLayer, VGo
  <2>2. vConstraints' = Constraints(Sampled)
    BY <2>1 DEF Right, Sampling
  <2>3. PICK next \in {"layer", "last"} : Passes(next)
    BY <1>7, PassesLayer
  <2> QED BY <2>1, <2>2, <2>3, RightSimple
<1>8. CASE ReadLastLayerCoefficients
  <2>1. UNCHANGED <<params, pvars, proof, vConstraints>> /\ vAt = "last"
    BY <1>8 DEF ReadLastLayerCoefficients, VGo
  <2>2. vConstraints' = Constraints(Sampled)
    BY <2>1 DEF Right, Sampling
  <2> QED BY <1>8, <2>1, <2>2, PassesLastLayer, RightSimple
<1>9. CASE VChooseQueries
  <2>1. UNCHANGED <<params, pvars, proof, vConstraints>> /\ vAt = "queries"
    BY <1>9 DEF VChooseQueries, VGo
  <2>2. /\ Passes("traces") /\ vIndex' = 0
        /\ \E numbers \in QueryValues : vQueries' = Increasing(numbers)
    BY <1>9, PassesQueries
  <2>3. CASE vAt' = "traces"
    <3>1. vConstraints' = Constraints(Sampled)'
      BY <2>1, ConstraintsUnchanged DEF Right, Sampling
    <3>2. QueriesAre(vQueries)'
      <4>1. QueryValues' = QueryValues
        BY <2>1 DEF QueryValues, NFirstIndices, Step
      <4> QED BY <2>2, <4>1 DEF QueriesAre
    <3>3. 0..(vIndex' - 1) = {}
      BY <2>2
    <3> QED BY <2>3, <3>1, <3>2, <3>3 DEF Right
  <2>4. CASE vAt' # "traces"
    BY <2>1, <2>2, <2>4, RightRejected DEF Passes
  <2> QED BY <2>3, <2>4
<1>10. CASE VVerifyTrace
  BY <1>10, PassesTraceCells
<1>11. CASE VVerifyLayer
  BY <1>11, PassesLayerCells
<1> QED
  BY <1>0, <1>1, <1>2, <1>3, <1>4, <1>5, <1>6, <1>7, <1>8, <1>9, <1>10, <1>11 DEF Verifier

(* The last results are values of the last layer.                          *)
LEMMA RightAtTheEnd ==
  ASSUME VerifyLastLayer, Right, params \in Parameters, ~vChannel.failed
  PROVE  Right'
<1>1. vAt = "inner" /\ vIndex = NLayers - 1
  BY DEF VerifyLastLayer
<1>2. PICK n \in Nat \ {0} : n = NLayers
  BY StepsAre
<1>3. PICK i \in Nat : i = vIndex /\ i + 1 = n /\ i = n - 1
  BY <1>1, <1>2
<1>4. vResults = [j \in 1..params.nQueries |-> FriValue(n, QueryIndex(i, j))]
  BY <1>1, <1>3 DEF Right
<1>5. DOMAIN vResults = 1..params.nQueries
  BY <1>4
<1>6. vResults = [j \in DOMAIN vResults |-> FriValue(n, QueryIndex(i, j))]
  BY <1>4, <1>5
<1>7. VGo("accepted", vChannel)
  BY <1>2, <1>3, <1>6 DEF VerifyLastLayer
<1> QED
  BY <1>7 DEF VGo, Right, Sampling

(* So does the last, and every other step.                                 *)
LEMMA RightVerifier ==
  ASSUME Inv, Honest, Right, Verifier
  PROVE  Right'
<1>1. vAt \in Reading
  BY DEF Verifier, VReadTraceCommitment, VInteraction, VCreateComposition, VReadBrokenCommitment,
         VerifyOods, VCreateBoundary, VLayer, ReadLastLayerCoefficients, VChooseQueries,
         VVerifyTrace, VVerifyLayer, VerifyLastLayer, Reading
<1>2. pAt = "done" /\ pIndex = NLayers
  BY <1>1 DEF Inv, Reading
<1>3. PICK S : IsRun(S) /\ (vAt \in Reading => \E s \in S : Reads(s))
  BY <1>2 DEF Inv
<1>4. PICK s \in S : Reads(s)
  BY <1>1, <1>3
<1>5. OnTheWay(s) /\ (s = Here \/ (~IsLast(s) /\ After(s) \in S))
  BY <1>3 DEF IsRun
<1>6. PICK here : here = Here
  OBVIOUS
<1>7. IsLast(here) /\ here[3] = pChannel
  BY <1>2, <1>6 DEF Here, IsLast
<1>8. /\ params \in Parameters /\ QueriesAre(pQueries) /\ IsChannel(pChannel)
      /\ IsList(proof) /\ IsPrefix(proof, pChannel.units)
      /\ IsList(pChannel.units) /\ IsList(pChannel.notes)
  BY <1>2, GoodIsChannel DEF Inv, IsChannel
<1>9. pConstraints = Constraints(Sampled)
  BY <1>2 DEF Honest, Committed
<1>10. CASE ~IsLast(s)
  <2>1. PICK t : t = After(s)
    OBVIOUS
  <2>2. t \in S /\ OnTheWay(t)
    BY <1>3, <1>5, <1>6, <1>7, <1>10, <2>1 DEF IsRun
  <2>3. Between(s, t)
    <3>1. /\ IsPlace(s) /\ IsChannel(s[3]) /\ ~s[3].failed /\ IsChannel(t[3]) /\ ~t[3].failed
          /\ IsPrefix(t[3].units, pChannel.units) /\ IsPrefix(t[3].notes, pChannel.notes)
      BY <1>5, <2>2, GoodIsChannel DEF OnTheWay, Grows
    <3> QED BY <3>1, <1>4, <1>8, <2>1 DEF Between
  <2> QED BY <1>9, <1>10, <2>3, RightGoesOn
<1>11. CASE IsLast(s)
  <2>1. vAt = "inner" /\ vIndex = NLayers - 1
    BY <1>1, <1>4, <1>11 DEF Reads, Stands, IsLast, Reading
  <2>2. VerifyLastLayer
    <3>1. ~VVerifyLayer
      BY <2>1, <1>8, ParametersAre DEF VVerifyLayer
    <3> QED
      BY <2>1, <3>1 DEF Verifier, VReadTraceCommitment, VInteraction, VCreateComposition,
         VReadBrokenCommitment, VerifyOods, VCreateBoundary, VLayer, ReadLastLayerCoefficients,
         VChooseQueries, VVerifyTrace
  <2>3. ~vChannel.failed
    BY <1>4, <1>5 DEF OnTheWay, Reads
  <2> QED BY <1>8, <2>2, <2>3, RightAtTheEnd
<1> QED
  BY <1>10, <1>11

LEMMA RightNext ==
  ASSUME Inv, Honest, Right, [Next]_vars
  PROVE  Right'
<1>1. CASE Prover
  <2>1. vAt = "waits" /\ vAt' = vAt
    <3>1. params \in Parameters /\ IsChannel(pChannel)
      BY GoodIsChannel DEF Inv
    <3>2. pAt \in Places /\ UNCHANGED vvars
      BY <1>1, <3>1, ProverSteps
    <3> QED BY <3>2 DEF Inv, Places, vvars
  <2> QED BY <2>1 DEF Right, Sampling
<1>2. CASE HandOver
  BY <1>2 DEF HandOver, Right, Sampling
<1>3. CASE Verifier
  BY <1>3, RightVerifier
<1>4. CASE UNCHANGED vars
  <2>1. /\ UNCHANGED <<params, proof, pChannel, pConstraints>>
        /\ UNCHANGED <<vAt, vIndex, vQueries, vConstraints, vMaskValues, vResults>>
    BY <1>4 DEF vars, pvars, vvars
  <2>2. Constraints(Sampled)' = Constraints(Sampled)
    BY <2>1, ConstraintsUnchanged
  <2>3. QueriesAre(vQueries)' <=> QueriesAre(vQueries)
    BY <2>1 DEF QueriesAre, QueryValues, NFirstIndices, Step
  <2>4. ASSUME NEW u PROVE MaskValues(u)' = MaskValues(u)
    BY <2>1 DEF MaskValues, QueriesToTrace, CosetSize, Step, OracleMask, Widths
  <2>5. ASSUME NEW j
        PROVE  FriValue(vIndex + 1, QueryIndex(vIndex, j))' = FriValue(vIndex + 1, QueryIndex(vIndex, j))
    BY <2>1 DEF FriValue, FirstLayerValue, Widths, QueryIndex, QueryShift, Step
  <2>6. [j \in 1..params.nQueries |-> FriValue(vIndex + 1, QueryIndex(vIndex, j))]'
          = [j \in 1..params.nQueries |-> FriValue(vIndex + 1, QueryIndex(vIndex, j))]
    BY <2>1, <2>5
  <2> QED BY <2>1, <2>2, <2>3, <2>4, <2>6 DEF Right
<1> QED
  BY <1>1, <1>2, <1>3, <1>4 DEF Next

(* The invariant behind the next two theorems.                             *)
LEMMA BothAreRight == Spec => [](Inv /\ Honest /\ Right)
<1>1. Init => Inv /\ Honest /\ Right
  <2>1. Init => Right
    BY DEF Init, Right, Sampling
  <2> QED BY <2>1, InvInit, HonestInit
<1>2. ASSUME Inv /\ Honest /\ Right, [Next]_vars PROVE (Inv /\ Honest /\ Right)'
  <2>1. Inv'
    BY <1>2, InvProver, InvHandOver, InvVerifier, InvStutters DEF Next
  <2> QED BY <1>2, <2>1, HonestNext, RightNext
<1> QED
  BY <1>1, <1>2, PTL DEF Spec

(* No assertion of the prover fails but that of an inner step of zero      *)
(* (fri_prover.cc:32-99, table_prover_impl.cc:122-175), and no lookup of   *)
(* the verifier misses its map (fri_verifier.cc:157-162), for all          *)
(* parameters, all queries and every place at which the proof may end.     *)
THEOREM NothingIsThrown == Spec => []NothingThrows
<1>1. ASSUME Inv /\ Honest /\ Right PROVE NothingThrows
  BY <1>1 DEF Honest, Right, Excused, NothingThrows
<1> QED
  BY <1>1, BothAreRight, PTL

(* The verifier accepts what the prover wrote, if it gets all of it: all   *)
(* that it recomputes from the values it reads, the equation out of the    *)
(* domain, the cells of every trace, each layer of FRI and the last, comes *)
(* to what the prover committed to (stark.cc, oods.cc,                     *)
(* composition_oracle.cc, fri_verifier.cc, table_verifier_impl.cc).        *)
THEOREM IntactProofsAreAccepted == Spec => []IntactIsAccepted
<1>1. ASSUME Inv /\ Honest /\ Right PROVE IntactIsAccepted
  BY <1>1 DEF Right, IntactIsAccepted
<1> QED
  BY <1>1, BothAreRight, PTL
=============================================================================
