--------------------------- MODULE StarkProtocol ---------------------------
(***************************************************************************)
(* StarkProver::ProveStark and StarkVerifier::VerifyStark (stark/stark.cc) *)
(* with the parts they call: oods.cc, composition_oracle.cc,               *)
(* committed_trace.cc, fri_prover.cc, fri_verifier.cc and the tables.      *)
(*                                                                         *)
(* The prover runs to its end and writes a proof without any structure;    *)
(* later the verifier reads it, possibly cut short.  The two are separate  *)
(* programs that have to send and draw the same things in the same order.  *)
(*                                                                         *)
(* A committed table is known by its name and its honest contents; how the *)
(* commitment scheme shows that cells belong to a root is one unit         *)
(* ("nodes") here.  The value of FRI layer l > 0 at an index is            *)
(* <<"fri", l, index>>, that of the first layer the terms of the boundary  *)
(* constraints there: folding the right coset of a layer at the right      *)
(* place gives the right value of the next, anything else gives Wrong.     *)
(***************************************************************************)
EXTENDS Transcript, FriQueries, CompositionOracle, FiniteSets

CONSTANTS Parameters,   (* StarkParameters to choose from, records of       *)
                        (*   widths     columns of the first and, with      *)
                        (*              interaction, the second trace       *)
                        (*   nInteraction  interaction elements             *)
                        (*   mask       of the AIR, over both traces        *)
                        (*   extension  use_extension_field                 *)
                        (*   nBreaks    columns of the broken trace         *)
                        (*   logSize    of the evaluation domain            *)
                        (*   logTrace   of the trace                        *)
                        (*   friSteps   fri_step_list                       *)
                        (*   nQueries   n_queries                           *)
                        (*   powBits    proof_of_work_bits                  *)
          CutParameters (* those whose proof may lose its end               *)

(* The mask of an AIR is of its columns (composition_oracle.cc:39), and    *)
(* the steps of FRI divide the trace, which is no longer than the          *)
(* evaluation domain (stark.cc:178-187).                                   *)
ASSUME ParametersAssumption ==
  \A p \in Parameters :
     /\ p.widths \in Seq(Nat) /\ p.mask \in Seq(Nat \X Nat)
     /\ \A i \in DOMAIN p.mask : p.mask[i][2] < SumOf(p.widths)
     /\ p.nInteraction \in Nat /\ p.nBreaks \in Nat
     /\ p.logSize \in Nat /\ p.logTrace \in Nat
     /\ p.friSteps \in Seq(Nat) /\ p.friSteps # <<>>
     /\ SumOf(p.friSteps) <= p.logTrace /\ p.logTrace <= p.logSize
     /\ p.nQueries \in Nat /\ p.powBits \in Nat

VARIABLES
  params,
  pAt, pIndex, pQueries, pChannel,     \* the prover: place, loop index, queries
  pConstraints,                        \* its boundary conditions
  proof,                               \* what the verifier is given
  vAt, vIndex, vQueries, vChannel,     \* the verifier
  vConstraints,                        \* its boundary conditions
  vMaskValues,                         \* trace_mask_values
  vResults                             \* query_results_

pvars == <<pAt, pIndex, pQueries, pChannel, pConstraints>>
vvars == <<vAt, vIndex, vQueries, vChannel, vConstraints, vMaskValues, vResults>>
vars == <<params, pvars, proof, vvars>>

-----------------------------------------------------------------------------
(* Parameters *)

HasInteraction == Len(params.widths) = 2
Widths == Append(params.widths, params.nBreaks)         \* of all the traces
NTraces == Len(Widths)
NLayers == Len(params.friSteps)
Step(l) == params.friSteps[l + 1]                       \* fri_step_list[l]
CosetSize(l) == Pow2[Step(l)]
NFirstIndices == Pow2[params.logSize - Step(0)]         \* of the second layer

(* The sum of the steps from the second layer up to layer l. *)
CumulativeStep(l) == SumOf(SubSeq(params.friSteps, 2, l))

(* The cells of a set of RowCol, by row and then by column. *)
Before(c, d) == c[1] < d[1] \/ (c[1] = d[1] /\ c[2] < d[2])

InOrder(cells) ==
  [k \in 1..Cardinality(cells) |->
     CHOOSE c \in cells : Cardinality({d \in cells : Before(d, c)}) = k - 1]

(* The numbers of a sequence in order, each as often as it occurs. *)
Increasing(s) ==
  [k \in DOMAIN s |->
     CHOOSE v \in Values(s) : /\ Cardinality({i \in DOMAIN s : s[i] < v}) < k
                              /\ k <= Cardinality({i \in DOMAIN s : s[i] <= v})]

QueryValues == [1..params.nQueries -> 0..(NFirstIndices - 1)]

(* The mask of the oracle of the low degree test and its parts. *)
OracleMask == BoundaryMask(SumOf(Widths))
QueriesToTrace(t, queries) ==
  TraceQueries(FirstLayerQueries(queries, CosetSize(0)), SplitMask(OracleMask, Widths)[t],
               params.logTrace)

-----------------------------------------------------------------------------
(* Units *)

Root(table) == <<"root", table>>
Nodes(table, rows) == <<"nodes", table, rows>>
TraceCell(t, cell) == <<"trace", t, cell>>

(* The first layer is what EvalComposition of the prover computes from its *)
(* boundary constraints and the columns of all traces.                     *)
FirstLayerValue(index) ==
  LET columns == Concatenated(Widths)
  IN  BoundaryTerms(pConstraints,
                    [i \in DOMAIN columns |-> TraceCell(columns[i][1], <<index, columns[i][2]>>)])

FriValue(l, index) == IF l = 0 THEN FirstLayerValue(index) ELSE <<"fri", l, index>>
FriCell(l, cell) == FriValue(l, cell[1] * CosetSize(l) + cell[2])
Wrong == <<"wrong">>

(* What was committed to in a cell of a table. *)
Content(table, cell) ==
  IF table[1] = "trace" THEN TraceCell(table[2], cell) ELSE FriCell(table[2], cell)

-----------------------------------------------------------------------------
(* Prover *)

PGo(next, c) ==
  /\ pAt' = IF c.failed THEN "failed" ELSE next
  /\ pChannel' = c
  /\ UNCHANGED <<params, proof, vvars>>

PCommitOnTrace ==
  /\ pAt = "trace"
  /\ PGo(IF HasInteraction THEN "interaction" ELSE "composition",
         Sends(pChannel, << <<"Original/Commit on Trace">> >>, << Root(<<"trace", 0>>) >>))
  /\ UNCHANGED <<pIndex, pQueries, pConstraints>>

PInteraction ==
  /\ pAt = "interaction"
  /\ PGo("composition",
         Sends(Draws(pChannel, [i \in 1..params.nInteraction |-> <<"Interaction element", i>>]),
               << <<"Interaction/Commit on Trace">> >>, << Root(<<"trace", 1>>) >>))
  /\ UNCHANGED <<pIndex, pQueries, pConstraints>>

PCreateComposition ==
  /\ pAt = "composition"
  /\ PGo("broken", Draws(pChannel, << <<"Original: Constraint polynomial">> >>))
  /\ UNCHANGED <<pIndex, pQueries, pConstraints>>

PCommitOnBroken ==
  /\ pAt = "broken"
  /\ PGo("oods", Sends(pChannel, << <<"Out Of Domain Sampling/Commit on Trace">> >>,
                        << Root(<<"trace", NTraces - 1>>) >>))
  /\ UNCHANGED <<pIndex, pQueries, pConstraints>>

(* EvalMaskAtPoint of the prover's oracle: each trace evaluates its part.  *)
EvalMaskAtPoint ==
  LET parts == SplitMask(params.mask, params.widths)
      values == [t \in DOMAIN parts |->
                   [i \in DOMAIN parts[t] |->
                      Evaluation(<<t, parts[t][i][2]>>,
                                 PointAt(1, parts[t][i][1], params.logTrace))]]
  IN  Reassembled(values, params.mask, params.widths, 0)

(* The single row of the broken trace, at the transformed point. *)
BrokenEvaluation ==
  [i \in 1..params.nBreaks |->
     Evaluation(<<NTraces - 1, i - 1>>, PointAt(params.nBreaks, 0, params.logTrace))]

Constraints(values) ==
  BoundaryConstraints(values, params.mask, SumOf(params.widths), params.nBreaks,
                      params.extension, params.logTrace)

OodsLabels == [i \in 1..(Len(params.mask) + params.nBreaks) |-> <<"OODS values", i>>]

(* ProveOods: the mask of the trace side, then the broken side. *)
ProveOods ==
  LET values == EvalMaskAtPoint \o BrokenEvaluation
      c == Draws(pChannel, << <<"OODS values: Evaluation point">> >>)
  IN  /\ pAt = "oods"
      /\ PGo("boundary", Sends(c, OodsLabels, values))
      /\ pConstraints' = Constraints(values)
      /\ UNCHANGED <<pIndex, pQueries>>

PCreateBoundary ==
  /\ pAt = "boundary"
  /\ PGo("layer", Draws(pChannel, << <<"Out Of Domain Sampling: Constraint polynomial">> >>))
  /\ pIndex' = 1
  /\ UNCHANGED <<pQueries, pConstraints>>

(* One round of the loop of FriProver::CommitmentPhase, layer_num = l. *)
PLayer ==
  LET l == pIndex
      step == Step(l - 1)
      allowed == l = 1 \/ step # 0
      drawn == IF step = 0 THEN pChannel
               ELSE Draws(pChannel, << <<"FRI/Commitment/Layer: Evaluation point", l>> >>)
      c == IF l = NLayers THEN drawn
           ELSE Sends(drawn, << <<"FRI/Commitment/Layer: Commitment", l>> >>,
                      << Root(<<"fri", l>>) >>)
  IN  /\ pAt = "layer"
      /\ PGo(IF l = NLayers THEN "last" ELSE "layer", IF allowed THEN c ELSE Failed(pChannel))
      /\ pIndex' = l + 1
      /\ UNCHANGED <<pQueries, pConstraints>>

(* The quotients are polynomials where the constraints are true of the     *)
(* committed columns.                                                      *)
IsOfLowDegree ==
  \A k \in DOMAIN pConstraints :
     LET c == pConstraints[k]
     IN  c.y = Evaluation(Concatenated(Widths)[c.column + 1], c.x)

(* The last layer has to be of a low degree. *)
SendLastLayer ==
  /\ pAt = "last"
  /\ PGo("queries",
         IF IsOfLowDegree
         THEN Sends(pChannel, << <<"FRI/Commitment/Last Layer: Coefficients">> >>,
                    << <<"coefs">> >>)
         ELSE Failed(pChannel))
  /\ UNCHANGED <<pIndex, pQueries, pConstraints>>

QueryLabels == [i \in 1..params.nQueries |-> <<"FRI/QueryIndices", i>>]

DrawsTooEarly(c) == Works(Draws(c, QueryLabels), params.powBits, <<"POW">>)    \* mutant

(* The channel's part of ChooseQueryIndices. *)
PDrawsQueries(c) == Draws(Works(c, params.powBits, <<"POW">>), QueryLabels)

(* ChooseQueryIndices and BeginQueryPhase.  The random numbers are random. *)
PChooseQueries ==
  /\ pAt = "queries"
  /\ PGo("traces", BeginsQueryPhase(PDrawsQueries(pChannel)))
  /\ \E numbers \in QueryValues : pQueries' = Increasing(numbers)
  /\ pIndex' = 0
  /\ UNCHANGED pConstraints

(* The annotations of cells of a table. *)
CellLabels(scope, i, cells) == [k \in DOMAIN cells |-> <<scope, i, cells[k][1], cells[k][2]>>]

(* The cells of a table and the nodes, as StartDecommitmentPhase and       *)
(* Decommit of TableProverImpl send them.                                  *)
Decommits(c, scope, i, table, width, data, integrity) ==
  LET rows == AllQueryRows(data, integrity)
      cells == InOrder(ElementsToBeTransmitted(width, rows, integrity))
      elements == [k \in DOMAIN cells |-> Content(table, cells[k])]
  IN  IF data \intersect integrity # {} THEN Failed(c)
      ELSE Sends(Sends(c, CellLabels(scope, i, cells), elements),
                 << <<scope, i>> >>, << Nodes(table, rows) >>)

(* CompositionOracleProver::DecommitQueries, trace t.  A column that the   *)
(* trace does not have is refused.                                         *)
PDecommitTrace ==
  LET t == pIndex
      data == Values(QueriesToTrace(t, pQueries))
      inside == \A cell \in data : cell[2] < Widths[t + 1]
  IN  /\ pAt = "traces"
      /\ PGo(IF t + 1 < NTraces THEN "traces" ELSE "layers",
             IF inside
             THEN Decommits(pChannel, "Virtual Oracle/Trace", t, <<"trace", t>>, Widths[t + 1],
                            data, {})
             ELSE Failed(pChannel))
      /\ pIndex' = IF t + 1 < NTraces THEN t + 1 ELSE 1
      /\ UNCHANGED <<pQueries, pConstraints>>

(* FriCommittedLayerByTableProver::Decommit, layer l. *)
PDecommitLayer ==
  LET l == pIndex
      below == Pow2[CumulativeStep(l)]
      data == DataQueries(pQueries, below, CosetSize(l))
      integrity == IntegrityQueries(pQueries, below, CosetSize(l))
  IN  /\ pAt = "layers" /\ l < NLayers
      /\ PGo("layers", Decommits(pChannel, "FRI/Decommitment/Layer", l, <<"fri", l>>,
                                 CosetSize(l), data, integrity))
      /\ pIndex' = l + 1
      /\ UNCHANGED <<pQueries, pConstraints>>

(* The proof is written; the verifier gets all of it or its beginning. *)
HandOver ==
  /\ pAt = "layers" /\ pIndex = NLayers
  /\ pAt' = "done"
  /\ \E n \in 0..Len(pChannel.units) :
       /\ params \in CutParameters \/ n = Len(pChannel.units)
       /\ proof' = SubSeq(pChannel.units, 1, n)
  /\ vAt' = "trace"
  /\ UNCHANGED <<params, pIndex, pQueries, pChannel, pConstraints, vIndex, vQueries, vChannel,
                 vConstraints, vMaskValues, vResults>>

-----------------------------------------------------------------------------
(* Verifier *)

AlwaysTrue(next, c) ==                                                  \* mutant
  /\ vAt' = IF c.failed THEN "accepted" ELSE next
  /\ vChannel' = c
  /\ UNCHANGED <<params, pvars, proof>>

(* A check that fails throws, and FalseOnError makes the answer false. *)
VGo(next, c) ==
  /\ vAt' = IF c.failed THEN "rejected" ELSE next
  /\ vChannel' = c
  /\ UNCHANGED <<params, pvars, proof>>

VReadTraceCommitment ==
  /\ vAt = "trace"
  /\ VGo(IF HasInteraction THEN "interaction" ELSE "composition",
         Receives(vChannel, << <<"Original/Commit on Trace">> >>, proof))
  /\ UNCHANGED <<vIndex, vQueries, vConstraints, vMaskValues, vResults>>

VInteraction ==
  /\ vAt = "interaction"
  /\ VGo("composition",
         Receives(Draws(vChannel, [i \in 1..params.nInteraction |-> <<"Interaction element", i>>]),
                  << <<"Interaction/Commit on Trace">> >>, proof))
  /\ UNCHANGED <<vIndex, vQueries, vConstraints, vMaskValues, vResults>>

VCreateComposition ==
  /\ vAt = "composition"
  /\ VGo("broken", Draws(vChannel, << <<"Original: Constraint polynomial">> >>))
  /\ UNCHANGED <<vIndex, vQueries, vConstraints, vMaskValues, vResults>>

VReadBrokenCommitment ==
  /\ vAt = "broken"
  /\ VGo("oods", Receives(vChannel, << <<"Out Of Domain Sampling/Commit on Trace">> >>, proof))
  /\ UNCHANGED <<vIndex, vQueries, vConstraints, vMaskValues, vResults>>

BrokenFirst(values) ==                                                  \* mutant
  LET n == Len(params.mask)
  IN  SubSeq(Constraints(values), n + 1, n + params.nBreaks)
      \o SubSeq(Constraints(values), 1, n)

(* The boundary conditions of the verifier, from the values it received. *)
VConstraints(values) == Constraints(values)

(* The two sides of the equation are equal when every value is that of its *)
(* column at its point.                                                    *)
OodsHolds(values) ==
  LET columns == Concatenated(params.widths)
      expected == [i \in DOMAIN params.mask |->
                     Evaluation(columns[params.mask[i][2] + 1],
                                PointAt(1, params.mask[i][1], params.logTrace))]
  IN  values = expected \o BrokenEvaluation

VerifyOods ==
  LET c == Receives(Draws(vChannel, << <<"OODS values: Evaluation point">> >>), OodsLabels, proof)
      values == LastUnits(c, Len(OodsLabels))
  IN  /\ vAt = "oods"
      /\ VGo("boundary", Unless(c, IF OodsHolds(values) THEN c ELSE Failed(c)))
      /\ vConstraints' = IF c.failed THEN vConstraints ELSE VConstraints(values)
      /\ UNCHANGED <<vIndex, vQueries, vMaskValues, vResults>>

VCreateBoundary ==
  /\ vAt = "boundary"
  /\ VGo("layer", Draws(vChannel, << <<"Out Of Domain Sampling: Constraint polynomial">> >>))
  /\ vIndex' = 0
  /\ UNCHANGED <<vQueries, vConstraints, vMaskValues, vResults>>

AlwaysDraws(i) == TRUE                                                  \* mutant

(* Whether FriVerifier::CommitmentPhase draws a point in round i. *)
VDrawsPoint(i) == i # 0 \/ Step(0) # 0

(* One round of the loop of FriVerifier::CommitmentPhase. *)
VLayer ==
  LET i == vIndex
      drawn == IF VDrawsPoint(i)
               THEN Draws(vChannel, << <<"FRI/Commitment/Layer: Evaluation point", i + 1>> >>)
               ELSE vChannel
      c == IF i < NLayers - 1
           THEN Receives(drawn, << <<"FRI/Commitment/Layer: Commitment", i + 1>> >>, proof)
           ELSE drawn
  IN  /\ vAt = "layer"
      /\ VGo(IF i < NLayers - 1 THEN "layer" ELSE "last", c)
      /\ vIndex' = i + 1
      /\ UNCHANGED <<vQueries, vConstraints, vMaskValues, vResults>>

ReadLastLayerCoefficients ==
  /\ vAt = "last"
  /\ VGo("queries", Receives(vChannel, << <<"FRI/Commitment/Last Layer: Coefficients">> >>, proof))
  /\ UNCHANGED <<vIndex, vQueries, vConstraints, vMaskValues, vResults>>

(* The stream gives the prover's numbers where it is the prover's stream. *)
SameStream(c) ==
  \E i \in DOMAIN pChannel.notes :
     /\ pChannel.notes[i].label = <<"FRI/QueryIndices", 1>>
     /\ pChannel.notes[i].value = Random(c, 0)

VChooseQueries ==
  LET worked == ChecksWork(vChannel, params.powBits, <<"POW">>, proof)
  IN  /\ vAt = "queries"
      /\ VGo("traces", BeginsQueryPhase(Draws(worked, QueryLabels)))
      /\ \E numbers \in QueryValues :
           /\ vQueries' = Increasing(numbers)
           /\ SameStream(worked) => vQueries' = pQueries
      /\ vIndex' = 0
      /\ UNCHANGED <<vConstraints, vMaskValues, vResults>>

(* TableVerifierImpl::Query: the cells of a table, in order. *)
ReadsCells(c, scope, i, cells) ==
  Receives(c, CellLabels(scope, i, cells), proof)

(* The answers by cell. *)
Answers(c, cells) ==
  LET units == LastUnits(c, Len(cells))
  IN  [cell \in Values(cells) |-> units[CHOOSE k \in DOMAIN cells : cells[k] = cell]]

(* VerifyIntegrity of the commitment scheme: the nodes of these rows. *)
VerifiesIntegrity(c, scope, i, table, rows) ==
  LET d == Receives(c, << <<scope, i>> >>, proof)
  IN  Unless(d, IF LastUnits(d, 1) = << Nodes(table, rows) >> THEN d ELSE Failed(d))

(* TableVerifierImpl::VerifyDecommitment: whole rows, whose contents are   *)
(* those of the table that was committed to.                               *)
VerifiesDecommitment(c, scope, i, table, width, rowsData) ==
  LET rows == {cell[1] : cell \in DOMAIN rowsData}
      whole == DOMAIN rowsData = rows \X (0..(width - 1))
      authentic == \A cell \in DOMAIN rowsData : rowsData[cell] = Content(table, cell)
  IN  Unless(c, IF whole /\ authentic THEN VerifiesIntegrity(c, scope, i, table, rows)
                                      ELSE Failed(c))

(* ApplyFriLayers for layer l on the elements of one coset. *)
Fold(l, elements, first) ==
  IF elements = [k \in 0..(CosetSize(l) - 1) |-> FriValue(l, first + k)]
  THEN FriValue(l + 1, first \div CosetSize(l))
  ELSE Wrong

(* The value of the oracle at its query k, counted from 0, from the values *)
(* that the traces gave for their parts of the mask.                       *)
OracleValue(maskValues, k) ==
  BoundaryTerms(vConstraints, Reassembled(maskValues, OracleMask, Widths, k))

(* What VerifyFirstLayer gets from the virtual oracle once all traces are  *)
(* verified, folded coset by coset.                                        *)
FirstResults(maskValues) ==
  LET queries == FirstLayerQueries(vQueries, CosetSize(0))
      size == CosetSize(0)
  IN  [j \in 1..(Len(queries) \div size) |->
         LET at == (j - 1) * size
         IN  Fold(0, [k \in 0..(size - 1) |-> OracleValue(maskValues, at + k)], queries[at + 1])]

(* CompositionOracleVerifier::VerifyDecommitment, trace t. *)
VVerifyTrace ==
  LET t == vIndex
      width == Widths[t + 1]
      queries == QueriesToTrace(t, vQueries)
      cells == InOrder(ElementsToBeTransmitted(width, AllQueryRows(Values(queries), {}), {}))
      c == ReadsCells(vChannel, "Virtual Oracle/Trace", t, cells)
      last == t + 1 = NTraces
      answers == Answers(c, cells)
      maskValues == [s \in 0..t |-> IF s = t THEN [i \in DOMAIN queries |-> answers[queries[i]]]
                                             ELSE vMaskValues[s]]
  IN  /\ vAt = "traces"
      /\ VGo(IF last THEN "inner" ELSE "traces",
             Unless(c, VerifiesDecommitment(c, "Virtual Oracle/Trace", t, <<"trace", t>>, width,
                                            answers)))
      /\ vIndex' = IF last THEN 0 ELSE t + 1
      /\ vMaskValues' = IF c.failed \/ last THEN <<>> ELSE maskValues
      /\ vResults' = IF last /\ ~c.failed THEN FirstResults(maskValues) ELSE vResults
      /\ UNCHANGED <<vQueries, vConstraints>>

ShiftedByAll(i) == SumOf(SubSeq(params.friSteps, 1, i + 1))             \* mutant

(* basis_index - first_fri_step in round i of VerifyInnerLayers. *)
QueryShift(i) == SumOf(SubSeq(params.friSteps, 1, i + 1)) - Step(0)

(* The index of query j in the layer that round i reads. *)
QueryIndex(i, j) == vQueries[j] \div Pow2[QueryShift(i)]

RowItself(row, size) == row                                             \* mutant

(* The index in the layer of the first element of a row. *)
FirstElementIndex(row, size) == row * size

(* The cell of query j in the table of layer i + 1, and its coset.         *)
Location(i, j) == RowCol(QueryIndex(i, j), CosetSize(i + 1))
CosetStart(i, j) == Row(QueryIndex(i, j), CosetSize(i + 1))
InCoset(i) == 0..(CosetSize(i + 1) - 1)

(* insert() leaves what is there, so the first of equal locations counts. *)
FirstAt(i, cell) ==
  CHOOSE j \in DOMAIN vResults : /\ Location(i, j) = cell
                                 /\ \A k \in 1..(j - 1) : Location(i, k) # cell

(* to_verify in round i: the cells that were read and those that the       *)
(* results of the layer before give.                                       *)
ToVerify(i, read) ==
  LET computed == {Location(i, j) : j \in DOMAIN vResults}
  IN  [cell \in DOMAIN read \union computed |->
         IF cell \in DOMAIN read THEN read[cell] ELSE vResults[FirstAt(i, cell)]]

(* The results in the layer after, coset by coset. *)
FoldedResults(i, toVerify) ==
  [j \in DOMAIN vResults |->
     Fold(i + 1, [k \in InCoset(i) |-> toVerify[<<CosetStart(i, j), k>>]],
          FirstElementIndex(CosetStart(i, j), CosetSize(i + 1)))]

(* One round of the loop of VerifyInnerLayers, on the table of layer l. *)
VVerifyLayer ==
  LET i == vIndex
      l == i + 1
      size == CosetSize(l)
      below == Pow2[CumulativeStep(l)]
      data == DataQueries(vQueries, below, size)
      integrity == IntegrityQueries(vQueries, below, size)
      cells == InOrder(ElementsToBeTransmitted(size, AllQueryRows(data, integrity), integrity))
      c == IF data \intersect integrity # {} THEN Failed(vChannel)
           ELSE ReadsCells(vChannel, "FRI/Decommitment/Layer", l, cells)
      toVerify == ToVerify(i, Answers(c, cells))
      found == \A j \in DOMAIN vResults : \A k \in InCoset(i) :
                  <<CosetStart(i, j), k>> \in DOMAIN toVerify
  IN  /\ vAt = "inner" /\ i < NLayers - 1
      /\ IF c.failed \/ found
         THEN VGo("inner",
                  Unless(c, VerifiesDecommitment(c, "FRI/Decommitment/Layer", l, <<"fri", l>>,
                                                 size, toVerify)))
         ELSE VGo("crashed", c)           \* map::at throws something else
      /\ vResults' = IF c.failed \/ ~found THEN vResults ELSE FoldedResults(i, toVerify)
      /\ vIndex' = i + 1
      /\ UNCHANGED <<vQueries, vConstraints, vMaskValues>>

(* VerifyLastLayer: the last results are values of the last layer. *)
VerifyLastLayer ==
  LET expected == [j \in DOMAIN vResults |-> FriValue(NLayers, QueryIndex(NLayers - 1, j))]
  IN  /\ vAt = "inner" /\ vIndex = NLayers - 1
      /\ VGo("accepted", IF vResults = expected THEN vChannel ELSE Failed(vChannel))
      /\ UNCHANGED <<vIndex, vQueries, vConstraints, vMaskValues, vResults>>

-----------------------------------------------------------------------------
Init ==
  /\ params \in Parameters
  /\ pAt = "trace" /\ pIndex = 0 /\ pQueries = <<>> /\ pChannel = NewChannel
  /\ pConstraints = <<>>
  /\ proof = <<>>
  /\ vAt = "waits" /\ vIndex = 0 /\ vQueries = <<>> /\ vChannel = NewChannel
  /\ vConstraints = <<>> /\ vMaskValues = <<>> /\ vResults = <<>>

Prover == \/ PCommitOnTrace \/ PInteraction \/ PCreateComposition \/ PCommitOnBroken
          \/ ProveOods \/ PCreateBoundary \/ PLayer \/ SendLastLayer \/ PChooseQueries
          \/ PDecommitTrace \/ PDecommitLayer

Verifier == \/ VReadTraceCommitment \/ VInteraction \/ VCreateComposition
            \/ VReadBrokenCommitment \/ VerifyOods \/ VCreateBoundary \/ VLayer
            \/ ReadLastLayerCoefficients \/ VChooseQueries \/ VVerifyTrace
            \/ VVerifyLayer \/ VerifyLastLayer

Next == Prover \/ HandOver \/ Verifier

Spec == Init /\ [][Next]_vars
-----------------------------------------------------------------------------
(***************************************************************************)
(* Properties                                                              *)
(***************************************************************************)

(* The two programs are in lockstep: what the verifier reads is what the   *)
(* prover sent, under the same label, and every random value of the        *)
(* verifier is the prover's, in the same order with what is read.  The     *)
(* tests compare the annotations of one proof (stark_test.cc:151).         *)
Lockstep == IsPrefix(vChannel.notes, pChannel.notes)

(* Every random value depends on all of the proof before it, so nothing    *)
(* could be chosen knowing the randomness it is tested with: its seed is   *)
(* the units sent and received before, one by one                          *)
(* (noninteractive_prover_channel.cc:37-45).                               *)
RandomnessBindsProof ==
  \A c \in {pChannel, vChannel} : \A i \in DOMAIN c.notes :
     LET unitsUpTo(k) == {j \in 1..k : c.notes[j].dir = "P->V"}
         seed == c.notes[i].value[1]
     IN  c.notes[i].dir = "V->P" =>
           /\ Len(seed) = Cardinality(unitsUpTo(i))
           /\ \A k \in unitsUpTo(i) : seed[Cardinality(unitsUpTo(k))] = c.notes[k].value

(* The numbers of the queries come after the work, from a seed that ends   *)
(* with a nonce for the state before it (channel.h:44-53).                 *)
QueriesCostWork ==
  \A c \in {pChannel, vChannel} : \A i \in DOMAIN c.notes :
     (c.notes[i].label[1] = "FRI/QueryIndices" /\ params.powBits > 0) =>
       LET seed == c.notes[i].value[1]
       IN  /\ seed # <<>>
           /\ seed[Len(seed)] = Nonce(SubSeq(seed, 1, Len(seed) - 1))

(* The prover's assertions hold, except for parameters with an inner FRI   *)
(* step of zero, and no lookup of the verifier misses its map: that would  *)
(* be no StarkwareException, so FalseOnError would not catch it.           *)
NothingThrows ==
  /\ pAt = "failed" => \E l \in 1..(NLayers - 1) : Step(l) = 0
  /\ vAt # "crashed"

(* An honest proof that arrives as it was written is accepted. *)
IntactIsAccepted == vAt = "rejected" => proof # pChannel.units

(* A proof that was accepted was read to its end, which nothing in the     *)
(* verifier checks, and it was all of the proof.                           *)
AcceptedIsWhole == vAt = "accepted" => /\ Len(vChannel.units) = Len(proof)
                                       /\ proof = pChannel.units
=============================================================================
