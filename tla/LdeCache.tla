------------------------------ MODULE LdeCache ------------------------------
(***************************************************************************)
(* CachedLdeManager (algebra/lde/cached_lde_manager.{h,cc}): evaluations   *)
(* of the columns of a trace on cosets, stored or computed again.          *)
(*                                                                         *)
(* The manager is a record and each of its methods an operator that gives  *)
(* the record after the call, the caller's storage after it, what is       *)
(* returned, and whether an assertion has failed on the way.  A vector of  *)
(* columns is the coset whose evaluation it holds, and in which order.     *)
(***************************************************************************)
EXTENDS Powers, Integers, Sequences

CONSTANT LogNCosets
ASSUME LogNCosetsAssumption == LogNCosets \in Nat

NCosets == Pow2[LogNCosets]
Cosets == 0 .. NCosets - 1

(* CreateLdeManager gives the offsets in bit-reversed order.  An offset is *)
(* its exponent, so that factors are added and removed like numbers.       *)
CosetOffset(coset) == BitReverse[LogNCosets][coset]
-----------------------------------------------------------------------------
Nothing == [columns |-> 0, offset |-> -1, order |-> "none"]
Memory(columns) == [columns |-> columns, offset |-> -1, order |-> "uninitialised"]
Evaluation(columns, offset) == [columns |-> columns, offset |-> offset, order |-> "natural"]

BitReversed(entry) ==
  [entry EXCEPT !.order = CASE @ = "natural" -> "reversed" [] @ = "reversed" -> "natural"
                            [] OTHER -> @]

NewManager(storeFullLde, useFftForEval) ==
  [full |-> storeFullLde, fft |-> useFftForEval, done_adding |-> FALSE, columns |-> 0,
   has_lde |-> TRUE, cache |-> [coset \in Cosets |-> Nothing],
   previous |-> CosetOffset(0), twiddles |-> 0]

Returns(m, storage, value) == [m |-> m, storage |-> storage, value |-> value, ok |-> TRUE]
Fails(m, storage) == [m |-> m, storage |-> storage, value |-> Nothing, ok |-> FALSE]

InitializeEntry(m) == Memory(m.columns)

AllocateStorage(m) == IF m.full THEN Nothing ELSE InitializeEntry(m)

AddEvaluation(m) ==
  IF m.done_adding THEN Fails(m, Nothing)
                   ELSE Returns([m EXCEPT !.columns = @ + 1], Nothing, Nothing)

(* The first twiddle factors are those of the first offset. *)
FinalizeAdding(m) ==
  IF m.done_adding THEN Fails(m, Nothing)
  ELSE Returns([m EXCEPT !.done_adding = TRUE, !.twiddles = CosetOffset(0)], Nothing, Nothing)

ReleasesAlways(m) == Returns([m EXCEPT !.has_lde = FALSE], Nothing, Nothing)   \* mutant

FinalizeEvaluations(m) ==
  IF ~m.done_adding THEN Fails(m, Nothing)
                    ELSE Returns([m EXCEPT !.has_lde = @ /\ ~m.full], Nothing, Nothing)
-----------------------------------------------------------------------------
(* Twiddle factors are not computed for an offset: the ones there are, are *)
(* multiplied by the quotient of the offset and the one before.            *)
ForgetsTheOffset(m, offset) == [m EXCEPT !.twiddles = @ + offset - m.previous]   \* mutant
ShiftTwiddleFactors(m, offset) == [m EXCEPT !.twiddles = @ + offset - m.previous,
                                            !.previous = offset]

InCache(m, coset, entry) == IF m.full THEN [m EXCEPT !.cache[coset] = entry] ELSE m

(* LdeManagerTmpl::EvalOnCoset evaluates where its twiddle factors are. *)
Compute(m, coset, target, storage) ==
  LET value == Evaluation(target.columns, m.twiddles)
  IN IF target = Nothing \/ ~m.has_lde \/ target.columns # m.columns
     THEN Fails(InCache(m, coset, target), storage)
     ELSE Returns(InCache(m, coset, value), IF m.full THEN storage ELSE value, value)

Hit(m, coset) == m.cache[coset] # Nothing

EvalOnCoset(m, coset, storage) ==
  IF ~m.done_adding \/ coset \notin Cosets THEN Fails(m, storage)
  ELSE IF Hit(m, coset) THEN Returns(m, storage, m.cache[coset])
  ELSE Compute(ShiftTwiddleFactors(m, CosetOffset(coset)), coset,
               IF m.full THEN InitializeEntry(m) ELSE storage, storage)
-----------------------------------------------------------------------------
(* EvalAtPoints.  A query is a coset and a point of it; the answer to it   *)
(* says where the value it is given comes from.                            *)
Answer(entry, point) == [offset |-> entry.offset, order |-> entry.order, point |-> point]
RightAnswer(query) == Answer(Evaluation(1, CosetOffset(query[1])), query[2])

LookedUp(m, queries) ==
  IF \E i \in DOMAIN queries : ~Hit(m, queries[i][1]) THEN Fails(m, Nothing)
  ELSE Returns(m, Nothing,
               [i \in DOMAIN queries |-> Answer(m.cache[queries[i][1]], queries[i][2])])

AllQueries(queries, coset) == DOMAIN queries   \* mutant

QueriesOfCoset(queries, coset) == {i \in DOMAIN queries : queries[i][1] = coset}

(* One step of the loop over coset_to_query_index. *)
WithCoset(result, queries, coset) ==
  LET asked == QueriesOfCoset(queries, coset)
      call == EvalOnCoset(result.m, coset, result.storage)
  IN IF asked = {} THEN result
     ELSE IF ~result.ok \/ ~call.ok THEN Fails(call.m, Nothing)
     ELSE Returns(call.m, call.storage,
                  [i \in DOMAIN queries |-> IF i \in asked THEN Answer(call.value, queries[i][2])
                                            ELSE result.value[i]])

(* One entry serves all cosets, in ascending order. *)
Recomputed(m, queries) ==
  LET after[n \in 0..NCosets] ==
        IF n = 0 THEN Returns(m, InitializeEntry(m),
                              [i \in DOMAIN queries |-> Answer(Nothing, queries[i][2])])
        ELSE WithCoset(after[n - 1], queries, n - 1)
  IN after[NCosets]

PointByPoint(m, queries) ==
  IF ~m.has_lde THEN Fails(m, Nothing)
  ELSE Returns(m, Nothing, [i \in DOMAIN queries |-> RightAnswer(queries[i])])

EvalAtPoints(m, queries) ==
  IF ~m.done_adding THEN Fails(m, Nothing)
  ELSE IF m.full THEN LookedUp(m, queries)
  ELSE IF m.fft THEN Recomputed(m, queries) ELSE PointByPoint(m, queries)

EvalAtPointsNotCached(m) == IF m.has_lde THEN Returns(m, Nothing, Nothing) ELSE Fails(m, Nothing)
=============================================================================
