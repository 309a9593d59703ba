----------------------------- MODULE FriQueries -----------------------------
(***************************************************************************)
(* Which cells of which table a FRI query asks for (fri/fri_details.{h,cc}) *)
(* and which cells a table transmits for them                              *)
(* (commitment_scheme/table_impl_details.cc).                              *)
(*                                                                         *)
(* Queries are indices into the second FRI layer.  A layer is committed to *)
(* as a table with one coset per row, of size 2^fri_step; below is 2 to    *)
(* the sum of the steps from the second layer to it, so that an index      *)
(* shifted right by that sum is divided by it.  A cell is <<row, column>>. *)
(***************************************************************************)
EXTENDS Naturals, Sequences

Values(s) == {s[i] : i \in DOMAIN s}

(* GetTableProverRow and GetTableProverCol *)
Row(index, size) == index \div size
Col(index, size) == index % size
RowCol(index, size) == <<Row(index, size), Col(index, size)>>

(* The cells the verifier can compute from the layer before. *)
IntegrityQueries(queries, below, size) ==
  {RowCol(q \div below, size) : q \in Values(queries)}

(* The cosets the queries are in. *)
CosetCells(queries, below, size) ==
  {<<Row(q \div below, size), col>> : q \in Values(queries), col \in 0..(size - 1)}

WholeCosets(queries, below, size) == CosetCells(queries, below, size)   \* mutant

(* The cells the prover has to send. *)
DataQueries(queries, below, size) ==
  CosetCells(queries, below, size) \ IntegrityQueries(queries, below, size)

(* SecondLayerQeuriesToFirstLayerQueries: every index of their cosets. *)
FirstLayerQueries(queries, size) ==
  [i \in 1..(Len(queries) * size) |-> queries[((i - 1) \div size) + 1] * size + ((i - 1) % size)]

AllQueryRows(data, integrity) == {cell[1] : cell \in data \union integrity}

ElementsToBeTransmitted(nColumns, rows, integrity) ==
  {<<row, col>> : row \in rows, col \in 0..(nColumns - 1)} \ integrity
=============================================================================
