------------------------- MODULE CompositionOracle -------------------------
(***************************************************************************)
(* How the composition oracle (stark/composition_oracle.cc) sees several   *)
(* committed traces as one: a mask over their concatenation is split among *)
(* them, each answers for its part, and the answers are put back in the    *)
(* order of the mask.  The values of the out of domain sampling            *)
(* (stark/oods.cc) become constraints on columns of that concatenation,    *)
(* for the boundary AIR (air/boundary/boundary_air.h).                     *)
(*                                                                         *)
(* A mask is a sequence of <<row offset, column>>, widths the sequence of  *)
(* the traces' numbers of columns.  Traces and columns count from 0.       *)
(***************************************************************************)
EXTENDS Powers, Integers, FiniteSets, SequencesExt

(* The columns of all traces, one after the other. *)
Concatenated(widths) ==
  FlattenSeq([t \in DOMAIN widths |-> [c \in 1..widths[t] |-> <<t - 1, c - 1>>]])

KeepsColumn(column, widths) ==                                          \* mutant
  <<(CHOOSE t \in DOMAIN widths : /\ column < SumOf(SubSeq(widths, 1, t))
                                  /\ column >= SumOf(SubSeq(widths, 1, t - 1))) - 1, column>>

(* The trace that a column of the concatenation is in, and its place there. *)
ColumnToTraceColumn(column, widths) ==
  LET before(t) == SumOf(SubSeq(widths, 1, t - 1))
      trace == CHOOSE t \in DOMAIN widths :
                 column >= before(t) /\ column - before(t) < widths[t]
  IN  <<trace - 1, column - before(trace)>>

TraceOf(item, widths) == ColumnToTraceColumn(item[2], widths)[1]

(* How many of the first n items of the mask are in trace t. *)
CountUpTo(t, n, mask, widths) == Cardinality({i \in 1..n : TraceOf(mask[i], widths) = t})

(* The part of the mask in each trace, in the order of the mask. *)
SplitMask(mask, widths) ==
  LET item(t, k) == mask[CHOOSE i \in DOMAIN mask : /\ TraceOf(mask[i], widths) = t
                                                    /\ CountUpTo(t, i, mask, widths) = k]
  IN  [t \in 0..(Len(widths) - 1) |->
         [k \in 1..CountUpTo(t, Len(mask), mask, widths) |->
            <<item(t, k)[1], ColumnToTraceColumn(item(t, k)[2], widths)[2]>>]]

RestartsEachQuery(values, mask, widths, query) ==                       \* mutant
  [i \in DOMAIN mask |->
     LET t == TraceOf(mask[i], widths)
     IN  values[t][CountUpTo(t, i, mask, widths)]]

(* The values of the mask, taken from those of the traces: values[t] are   *)
(* those of the split mask of trace t, query after query, and              *)
(* mask_offset_in_trace goes through them once for all queries.  The       *)
(* queries count from 0.                                                   *)
Reassembled(values, mask, widths, query) ==
  [i \in DOMAIN mask |->
     LET t == TraceOf(mask[i], widths)
     IN  values[t][query * CountUpTo(t, Len(mask), mask, widths)
                     + CountUpTo(t, i, mask, widths)]]

(* FriQueriesToEvaluationDomainQueries and QueriesToTraceQueries: the      *)
(* cells of a table that cover the mask at all queries, query by query.    *)
(* Rows are in bit reversed order within a coset.                          *)
TraceQueries(friQueries, mask, logLength) ==
  LET length == Pow2[logLength]
      cell(q, item) ==
        <<(q \div length) * length
            + BitReverse[logLength][(BitReverse[logLength][q % length] + item[1]) % length],
          item[2]>>
      n == Len(mask)
  IN  [i \in 1..(Len(friQueries) * n) |->
         cell(friQueries[((i - 1) \div n) + 1], mask[((i - 1) % n) + 1])]

-----------------------------------------------------------------------------
(* Points and values.  The powers of the point come from Pow(n_breaks),    *)
(* the rows from the generator of the trace domain.                        *)

PointAt(power, row, logLength) == <<"z", power, row % Pow2[logLength]>>
Conjugate(point) == <<"conjugate", point>>
Frobenius(value) == <<"frobenius", value>>

(* What a column of a trace evaluates to, CommittedTraceProver's           *)
(* EvalMaskAtPoint.  Traces are over the base field.                       *)
Evaluation(column, point) ==
  IF point[1] = "conjugate" THEN Frobenius(<<"eval", column, point[2]>>)
                            ELSE <<"eval", column, point>>

(* The constraint column(x) = y. *)
Constraint(column, x, y) == [column |-> column, x |-> x, y |-> y]

(* cols_seen: the first item of the mask in its column. *)
FirstInColumn(mask, i) == \A j \in 1..(i - 1) : mask[j][2] # mask[i][2]

ForgetsFrobenius(mask, i, value, extension, logLength) ==               \* mutant
  LET point == PointAt(1, mask[i][1], logLength)
      itself == << Constraint(mask[i][2], point, value) >>
  IN  IF extension /\ FirstInColumn(mask, i)
      THEN Append(itself, Constraint(mask[i][2], Conjugate(point), value))
      ELSE itself

(* The constraints of one value of the mask. *)
MaskConstraints(mask, i, value, extension, logLength) ==
  LET point == PointAt(1, mask[i][1], logLength)
      itself == << Constraint(mask[i][2], point, value) >>
  IN  IF extension /\ FirstInColumn(mask, i)
      THEN Append(itself, Constraint(mask[i][2], Conjugate(point), Frobenius(value)))
      ELSE itself

(* What ProveOods and VerifyOods return for the values they sent and read, *)
(* of the mask first, then of the broken columns, which come after the     *)
(* width columns of the traces.                                            *)
BoundaryConstraints(values, mask, width, nBreaks, extension, logLength) ==
  LET n == Len(mask)
  IN  FlattenSeq([i \in 1..n |-> MaskConstraints(mask, i, values[i], extension, logLength)])
      \o [i \in 1..nBreaks |->
            Constraint(width + i - 1, PointAt(nBreaks, 0, logLength), values[n + i])]

(* The mask of the boundary AIR: the current row of every column. *)
BoundaryMask(nColumns) == [i \in 1..nColumns |-> <<0, i - 1>>]

(* The composition polynomial of the boundary AIR at a point, given the    *)
(* columns there: one term for each constraint, in the order of the random *)
(* coefficients.  That terms with equal points share a division does not   *)
(* change the sum.                                                         *)
BoundaryTerms(constraints, neighbors) ==
  [k \in DOMAIN constraints |->
     <<neighbors[constraints[k].column + 1], constraints[k].y, constraints[k].x>>]
=============================================================================
