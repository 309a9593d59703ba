--------------------------- MODULE CommittedTraces ---------------------------
(***************************************************************************)
(* What a proof does with the evaluations of its traces: the calls that    *)
(* StarkProver::ProveStark (stark/stark.cc), CommittedTraceProver          *)
(* (stark/committed_trace.cc) and CompositionOracleProver                  *)
(* (stark/composition_oracle.cc) make to one CachedLdeManager for each     *)
(* trace.                                                                  *)
(*                                                                         *)
(* The order of the calls is a sequence fixed by the shape of the proof;   *)
(* what they find depends on the managers.  Rows of the tables, and with   *)
(* them the queries, are numbered as in AnswerQueries.                     *)
(***************************************************************************)
EXTENDS LdeCache, SequencesExt

CONSTANTS Shapes,        \* [full, fft, widths, degree], widths those of the original traces
          TraceLength,
          RowsToFetch    \* what the tables may ask for: sequences of rows

(* Traces have columns, and tables are asked for rows they have. *)
ASSUME ShapesAssumption ==
  \A s \in Shapes : /\ {s.full, s.fft} \subseteq BOOLEAN
                    /\ s.widths \in Seq(Nat \ {0}) /\ s.widths # <<>> /\ s.degree \in Nat \ {0}

ASSUME RowsAssumption ==
  /\ TraceLength \in Nat \ {0}
  /\ \A rows \in RowsToFetch : rows \in Seq(0 .. NCosets * TraceLength - 1)

VARIABLES shape, managers, storages,
          evals,       \* what composition is to be evaluated on, trace by trace
          committed,   \* the segments given to the table of each trace
          composed,    \* what composition was evaluated on
          answered,    \* the answer to the last decommitment
          todo,        \* the calls still to be made
          failed

vars == <<shape, managers, storages, evals, committed, composed, answered, todo, failed>>

(* The trace of the broken composition polynomial comes after the original *)
(* ones and has as many columns as that polynomial has breaks.             *)
Broken == Len(shape.widths) + 1
Traces == 1..Broken
Width(t) == IF t = Broken THEN shape.degree ELSE shape.widths[t]
-----------------------------------------------------------------------------
(* The program. *)
Ops(op, t, n) == [i \in 1..n |-> [op |-> op, t |-> t, coset |-> i - 1]]

CommitOps(t, columns) ==
  Ops("add", t, columns) \o Ops("finish", t, 1) \o Ops("allocate", t, 1)
    \o Ops("commit", t, NCosets)

ForAll(op, n) == [t \in 1..n |-> [op |-> op, t |-> t, coset |-> 0]]

(* For every coset all traces, and then the composition polynomial. *)
CosetOps(n, coset) ==
  [t \in 1..n |-> [op |-> "evaluate", t |-> t, coset |-> coset]]
    \o <<[op |-> "compose", t |-> n, coset |-> coset]>>

CompositionOps(n, segments) ==
  ForAll("allocate", n) \o FlattenSeq([k \in 1..segments |-> CosetOps(n, k - 1)])

(* The boundary constraints that replace the air have the degree of one    *)
(* coset (boundary_air.h:140).                                             *)
ProveStark(widths, degree) ==
  FlattenSeq([t \in DOMAIN widths |-> CommitOps(t, widths[t])])
    \o CompositionOps(Len(widths), degree)
    \o CommitOps(Len(widths) + 1, degree)
    \o ForAll("mask", Len(widths) + 1)
    \o ForAll("finalize", Len(widths) + 1)
    \o CompositionOps(Len(widths) + 1, 1)
    \o ForAll("decommit", Len(widths) + 1)

Init ==
  /\ shape \in {s \in Shapes : s.degree <= NCosets}
  /\ managers = [t \in Traces |-> NewManager(shape.full, shape.fft)]
  /\ storages = [t \in Traces |-> Nothing]
  /\ evals = <<>>
  /\ committed = [t \in Traces |-> <<>>]
  /\ composed = {}
  /\ answered = [t |-> 1, rows |-> <<>>, value |-> <<>>]
  /\ todo = ProveStark(shape.widths, shape.degree)
  /\ failed = FALSE

Op == Head(todo)
T == Op.t

IsNext(op) == ~failed /\ todo # <<>> /\ Op.op = op /\ todo' = Tail(todo) /\ UNCHANGED shape

(* An assertion that fails ends the proof. *)
Uses(return) == /\ managers' = [managers EXCEPT ![T] = return.m]
                /\ failed' = ~return.ok
-----------------------------------------------------------------------------
Add == /\ IsNext("add")
       /\ Uses(AddEvaluation(managers[T]))
       /\ UNCHANGED <<storages, evals, committed, composed, answered>>

FinishAdding == /\ IsNext("finish")
                /\ Uses(FinalizeAdding(managers[T]))
                /\ UNCHANGED <<storages, evals, committed, composed, answered>>

Allocate == /\ IsNext("allocate")
            /\ storages' = [storages EXCEPT ![T] = AllocateStorage(managers[T])]
            /\ UNCHANGED <<managers, evals, committed, composed, answered, failed>>

CommitCoset ==
  LET return == EvalOnCoset(managers[T], Op.coset, storages[T])
  IN /\ IsNext("commit")
     /\ Uses(return)
     /\ storages' = [storages EXCEPT ![T] = return.storage]
     /\ committed' = [committed EXCEPT ![T] = Append(@, return.value)]
     /\ UNCHANGED <<evals, composed, answered>>

(* Columns in the cache are copied to be reversed and stay as they are;    *)
(* those in storage are reversed in place.                                 *)
ReversedThere(m, coset) == InCache(m, coset, BitReversed(m.cache[coset]))   \* mutant
CacheAfterReversal(m, coset) == m

EvaluateCoset ==
  LET return == EvalOnCoset(managers[T], Op.coset, storages[T])
  IN /\ IsNext("evaluate")
     /\ Uses([return EXCEPT !.m = CacheAfterReversal(@, Op.coset)])
     /\ storages' = [storages EXCEPT ![T] = BitReversed(return.storage)]
     /\ evals' = Append(evals, BitReversed(return.value))
     /\ UNCHANGED <<committed, composed, answered>>

(* EvalOnCosetBitReversedOutput is told the offset, and given the columns  *)
(* of all traces.                                                          *)
OffsetOfIndex(coset) == coset   \* mutant
OffsetTold(coset) == BitReverse[LogNCosets][coset]

Compose ==
  /\ IsNext("compose")
  /\ composed' = composed \union {[offset |-> OffsetTold(Op.coset), coset |-> Op.coset,
                                   evals |-> evals, traces |-> T]}
  /\ evals' = <<>>
  /\ UNCHANGED <<managers, storages, committed, answered, failed>>

EvalMaskAtPoint == /\ IsNext("mask")
                   /\ Uses(EvalAtPointsNotCached(managers[T]))
                   /\ UNCHANGED <<storages, evals, committed, composed, answered>>

FinalizeEval == /\ IsNext("finalize")
                /\ Uses(FinalizeEvaluations(managers[T]))
                /\ UNCHANGED <<storages, evals, committed, composed, answered>>

CosetAndPoint(row) == <<row \div TraceLength, row % TraceLength>>

DecommitQueries ==
  \E rows \in RowsToFetch :
    LET return == EvalAtPoints(managers[T], [i \in DOMAIN rows |-> CosetAndPoint(rows[i])])
    IN /\ IsNext("decommit")
       /\ Uses(return)
       /\ answered' = [t |-> T, rows |-> rows, value |-> return.value]
       /\ UNCHANGED <<storages, evals, committed, composed>>

Done == (todo = <<>> \/ failed) /\ UNCHANGED vars

Next == \/ Add \/ FinishAdding \/ Allocate \/ CommitCoset \/ EvaluateCoset \/ Compose
        \/ EvalMaskAtPoint \/ FinalizeEval \/ DecommitQueries \/ Done

Spec == Init /\ [][Next]_vars
-----------------------------------------------------------------------------
(* No call of a proof is refused: nothing is added too late, nothing is    *)
(* evaluated after its interpolation was released by FinalizeEval, and all *)
(* that is looked up was stored before.                                    *)
NoAssertionFails == ~failed

(* The segments given to the table of a trace are its evaluations on the   *)
(* cosets, each where the verifier expects it.                             *)
CommittedIsTheTrace ==
  \A t \in Traces : \A i \in DOMAIN committed[t] :
    committed[t][i] = Evaluation(Width(t), CosetOffset(i - 1))

(* The composition polynomial is evaluated on all traces of its oracle on  *)
(* the very coset whose offset it is told, in bit-reversed order, before   *)
(* and after the interpolations are released, with and without a cache.    *)
CompositionSeesTheCoset ==
  \A c \in composed :
    c.evals = [t \in 1..c.traces |-> BitReversed(Evaluation(Width(t), c.offset))]

(* The rows a decommitment is answered with are the rows committed to long *)
(* before, although they are looked up or computed anew, and other code    *)
(* has used and reversed what the cache holds.                             *)
DecommittedIsCommitted ==
  \A i \in DOMAIN answered.rows :
    LET row == answered.rows[i]
    IN answered.value[i]
         = Answer(committed[answered.t][row \div TraceLength + 1], row % TraceLength)
=============================================================================
