------------------------ MODULE CompositionEvaluation ------------------------
(***************************************************************************)
(* The evaluation of the composition polynomial on one coset, as the       *)
(* composition oracle has it done: the columns of the trace are brought    *)
(* into natural order (BitReverseInPlace, BitReverseVector), the periodic  *)
(* columns are evaluated on the coset (PeriodicColumn::GetCoset) and all   *)
(* constraints at every point (EvalOnCosetBitReversedOutput), each a call  *)
(* of ParallelFor whose functions run at the same time on shared vectors.  *)
(*                                                                         *)
(* The point of index i on the coset is offset * generator^i, and stands   *)
(* for itself by its index; a value of a column there is <<column, i>>,    *)
(* that of a periodic column i modulo its period.  The value of the        *)
(* constraints is the record of what they were evaluated on.               *)
(***************************************************************************)
EXTENDS TaskPartition, Powers

CONSTANTS Jobs,          \* what is to be evaluated (see JobsAssumption)
          MinWorkChunk   \* 1024, least work of a task of simple loops

ASSUME JobsAssumption ==
  /\ MinWorkChunk \in Words \ {0}
  /\ \A j \in Jobs :
       /\ j.log_coset_size \in Nat /\ j.task_size \in Words \ {0} /\ j.threads \in Words \ {0}
       /\ Pow2[j.log_coset_size] + j.task_size <= WordSize      \* both in memory
       /\ j.columns \in Seq(Nat) \ {<<>>}
       /\ j.cached \subseteq DOMAIN j.columns     \* columns that are copied to be reversed
       /\ j.mask \in Seq(Nat \X DOMAIN j.columns)
       /\ j.periodic \in Seq([column_step : Words \ {0}, n_values : Words \ {0}])
       /\ \A i \in DOMAIN j.periodic : j.periodic[i].column_step + kTaskRedudencyFactor * j.threads <= WordSize
       /\ j.domain_evals \in Seq(Nat \ {0})     \* sizes, powers of two

VARIABLES job,
          calls,         \* the calls of ParallelFor still to come, each with its function
          column,        \* the columns of the trace
          natural,       \* the storage for reversed copies of cached columns
          period_on_coset,
          worker_mem,    \* of every worker
          local,         \* the local variables of the function each worker runs
          out_evaluation

data == <<column, natural, period_on_coset, worker_mem, local, out_evaluation>>
evaluation_vars == <<vars, job, calls, data>>

coset_size == Pow2[job.log_coset_size]
Points == 0 .. (coset_size - 1)

Reversed(k) == BitReverse[job.log_coset_size][k]

Unset == "uninitialized"

ConstraintValue(neighbors, evals, point) ==
  [neighbors |-> neighbors, periodic |-> evals.periodic, domain |-> evals.domain, point |-> point]
NoValue == ConstraintValue(<<>>, [periodic |-> <<>>, domain |-> <<>>], -1)

period_in_trace(p) == p.column_step * p.n_values
-----------------------------------------------------------------------------
(* The calls of ParallelFor. *)
Call(func, i, end, chunk, work) ==
  [func |-> func, i |-> i,
   args |-> [start |-> 0, end |-> end, chunk |-> chunk, work |-> work,
             threads |-> job.threads, throwing |-> {}]]

Reversal(c) == Call(IF c \in job.cached THEN "BitReverseVector" ELSE "BitReverseInPlace",
                    c, coset_size, coset_size, MinWorkChunk)

GetCoset(i) == LET p == job.periodic[i]
               IN Call("GetCoset", i, p.column_step, p.column_step, MinWorkChunk \div p.n_values)

Evaluate == Call("EvalOnCoset", 0, DivCeil(coset_size, job.task_size), 1, 1)

CallsOfJob == [c \in DOMAIN job.columns |-> Reversal(c)]
                \o [i \in DOMAIN job.periodic |-> GetCoset(i)] \o <<Evaluate>>

EvaluationInit ==
  /\ job \in Jobs
  /\ column = [c \in DOMAIN job.columns |-> [k \in Points |-> <<c, Reversed(k)>>]]
  /\ natural = [c \in job.cached |-> [k \in Points |-> Unset]]
  /\ period_on_coset = [i \in DOMAIN job.periodic |-> <<>>]
  /\ worker_mem = [w \in 0 .. (job.threads - 1) |->
                     [periodic_columns_iter |-> <<>>, evals |-> <<>>, batch_inverse |-> <<>>]]
  /\ local = [w \in 0 .. (job.threads - 1) |-> <<>>]
  /\ out_evaluation = [k \in Points |-> NoValue]
  /\ calls = CallsOfJob
  /\ args = Head(calls).args /\ Called

Starts(call) ==
  /\ args' = call
  /\ at' = "called"
  /\ task_idx' = call.start
  /\ tasks' = <<>>
  /\ task' = [w \in 0 .. (call.threads - 1) |-> None]
  /\ info' = [w \in 0 .. (call.threads - 1) |-> None]
  /\ ran' = {} /\ skipped' = {}

Func == Head(calls).func
I == Head(calls).i

(* The worker is in the given function, at the given place of it. *)
In(w, func, pc) == calls # <<>> /\ Func = func /\ info[w] # None /\ local[w] # <<>> /\ local[w].pc = pc

Finished(w) == /\ local' = [local EXCEPT ![w] = <<>>]
               /\ InlineReturns \/ FunctionReturns(w)

Goes(w, record) == local' = [local EXCEPT ![w] = record] /\ UNCHANGED vars

(* ParallelFor goes on; a function begins at its first item. *)
Parallel ==
  /\ calls # <<>> /\ Proceeds
  /\ local' = [w \in Workers |-> IF info'[w] # info[w] THEN [pc |-> "begin", k |-> info'[w][1]]
                                                       ELSE local[w]]
  /\ UNCHANGED <<job, calls, column, natural, period_on_coset, worker_mem, out_evaluation>>

NextCall ==
  /\ at = "returned" /\ Len(calls) > 1
  /\ calls' = Tail(calls)
  /\ Starts(Head(calls').args)
  /\ period_on_coset' =
       IF Head(calls').func # "GetCoset" THEN period_on_coset
       ELSE [period_on_coset EXCEPT ![Head(calls').i] =
               [k \in 0 .. (period_in_trace(job.periodic[Head(calls').i]) - 1) |-> Unset]]
  /\ UNCHANGED <<job, column, natural, worker_mem, local, out_evaluation>>
-----------------------------------------------------------------------------
(* The loops of utils/bit_reversal. *)
SwapsAll(k) == TRUE                                               \* mutant
Swaps(k) == k < Reversed(k)

LoopEnds(w) ==
  /\ \E func \in {"BitReverseInPlace", "BitReverseVector", "GetCoset"} : In(w, func, "begin")
  /\ local[w].k = info[w][2]
  /\ Finished(w)
  /\ UNCHANGED <<job, calls, column, natural, period_on_coset, worker_mem, out_evaluation>>

(* std::swap: both are read, and then both written. *)
ReadPair(w) ==
  LET k == local[w].k
  IN /\ In(w, "BitReverseInPlace", "begin") /\ k < info[w][2]
     /\ Goes(w, IF Swaps(k) THEN [pc |-> "swap", k |-> k, read |-> <<column[I][k], column[I][Reversed(k)]>>]
                            ELSE [pc |-> "begin", k |-> k + 1])
     /\ UNCHANGED <<job, calls, column, natural, period_on_coset, worker_mem, out_evaluation>>

WritePair(w) ==
  LET k == local[w].k
  IN /\ In(w, "BitReverseInPlace", "swap")
     /\ column' = [column EXCEPT ![I][k] = local[w].read[2], ![I][Reversed(k)] = local[w].read[1]]
     /\ Goes(w, [pc |-> "begin", k |-> k + 1])
     /\ UNCHANGED <<job, calls, natural, period_on_coset, worker_mem, out_evaluation>>

BitReverseVector(w) ==
  LET k == local[w].k
  IN /\ In(w, "BitReverseVector", "begin") /\ k < info[w][2]
     /\ natural' = [natural EXCEPT ![I][Reversed(k)] = column[I][k]]
     /\ Goes(w, [pc |-> "begin", k |-> k + 1])
     /\ UNCHANGED <<job, calls, column, period_on_coset, worker_mem, out_evaluation>>

(* The interpolant of the period on the coset whose offset has the index   *)
(* k; the loop multiplies the offset it began with for every k.            *)
GetCosetStep(w) ==
  LET k == local[w].k
      p == job.periodic[I]
  IN /\ In(w, "GetCoset", "begin") /\ k < info[w][2]
     /\ period_on_coset' = [period_on_coset EXCEPT ![I] =
          [x \in DOMAIN @ |-> IF x % p.column_step = k
                              THEN k + (x \div p.column_step) * p.column_step ELSE @[x]]]
     /\ Goes(w, [pc |-> "begin", k |-> k + 1])
     /\ UNCHANGED <<job, calls, column, natural, worker_mem, out_evaluation>>
-----------------------------------------------------------------------------
(* The lambda of EvalOnCosetBitReversedOutput. *)
MemoryOfCaller(w) == 0                                            \* mutant
(* TaskManager::GetWorkerId *)
WorkerMemory(w) == w

wm(w) == worker_mem[WorkerMemory(w)]

Begin(w) ==
  /\ In(w, "EvalOnCoset", "begin")
  /\ LET initial_point_idx == job.task_size * info[w][1]
         actual == IF job.task_size < coset_size - initial_point_idx
                   THEN job.task_size ELSE coset_size - initial_point_idx
     IN /\ worker_mem' = [worker_mem EXCEPT ![WorkerMemory(w)].periodic_columns_iter =
             [i \in DOMAIN job.periodic |-> initial_point_idx % period_in_trace(job.periodic[i])]]
        /\ Goes(w, [pc |-> "columns", initial |-> initial_point_idx, end |-> initial_point_idx + actual,
                    idx |-> initial_point_idx, point |-> initial_point_idx])
  /\ UNCHANGED <<job, calls, column, natural, period_on_coset, out_evaluation>>

(* *neighbors_iter: the cells of the mask around the row, in natural order. *)
Neighbors(idx) ==
  [m \in DOMAIN job.mask |->
     LET c   == job.mask[m][2]
         row == (idx + job.mask[m][1]) % coset_size
     IN IF c \in job.cached THEN natural[c][row] ELSE column[c][row]]

(* The periodic columns and the domain evaluations go to the memory of the *)
(* worker, and the iterators there advance.                                *)
Columns(w) ==
  LET iter == wm(w).periodic_columns_iter
  IN /\ In(w, "EvalOnCoset", "columns") /\ local[w].idx < local[w].end
     /\ worker_mem' = [worker_mem EXCEPT
          ![WorkerMemory(w)].evals =
             [periodic |-> [i \in DOMAIN job.periodic |-> period_on_coset[i][iter[i]]],
              domain   |-> [i \in DOMAIN job.domain_evals |-> local[w].idx % job.domain_evals[i]]],
          ![WorkerMemory(w)].periodic_columns_iter =
             [i \in DOMAIN job.periodic |-> (iter[i] + 1) % period_in_trace(job.periodic[i])]]
     /\ Goes(w, [local[w] EXCEPT !.pc = "constraints"])
     /\ UNCHANGED <<job, calls, column, natural, period_on_coset, out_evaluation>>

ConstraintsEval(w) ==
  /\ In(w, "EvalOnCoset", "constraints")
  /\ worker_mem' = [worker_mem EXCEPT ![WorkerMemory(w)].batch_inverse =
       [k \in DOMAIN @ \union {local[w].idx - local[w].initial} |->
          IF k = local[w].idx - local[w].initial
          THEN ConstraintValue(Neighbors(local[w].idx), wm(w).evals, local[w].point) ELSE @[k]]]
  /\ Goes(w, [local[w] EXCEPT !.pc = "columns", !.idx = @ + 1, !.point = @ + 1])
  /\ UNCHANGED <<job, calls, column, natural, period_on_coset, out_evaluation>>

(* BatchToBaseFieldElement, in the same memory. *)
BatchInverse(w) ==
  /\ In(w, "EvalOnCoset", "columns") /\ local[w].idx = local[w].end
  /\ Goes(w, [local[w] EXCEPT !.pc = "output", !.idx = local[w].initial])
  /\ UNCHANGED <<job, calls, column, natural, period_on_coset, worker_mem, out_evaluation>>

Output(w) ==
  /\ In(w, "EvalOnCoset", "output") /\ local[w].idx < local[w].end
  /\ out_evaluation' = [out_evaluation EXCEPT ![Reversed(local[w].idx)] =
                          wm(w).batch_inverse[local[w].idx - local[w].initial]]
  /\ Goes(w, [local[w] EXCEPT !.idx = @ + 1])
  /\ UNCHANGED <<job, calls, column, natural, period_on_coset, worker_mem>>

LambdaEnds(w) ==
  /\ In(w, "EvalOnCoset", "output") /\ local[w].idx = local[w].end
  /\ Finished(w)
  /\ UNCHANGED <<job, calls, column, natural, period_on_coset, worker_mem, out_evaluation>>

LastCallReturned == at = "returned" /\ Len(calls) = 1 /\ UNCHANGED evaluation_vars

EvaluationNext ==
  \/ Parallel \/ NextCall \/ LastCallReturned
  \/ \E w \in Workers : \/ LoopEnds(w) \/ ReadPair(w) \/ WritePair(w) \/ BitReverseVector(w)
                        \/ GetCosetStep(w) \/ Begin(w) \/ Columns(w) \/ ConstraintsEval(w)
                        \/ BatchInverse(w) \/ Output(w) \/ LambdaEnds(w)

(* A call of ParallelFor by other code, with any function. *)
OtherInit == /\ Init
             /\ job = [log_coset_size |-> 0, task_size |-> 1, threads |-> args.threads, columns |-> <<>>,
                       cached |-> {}, mask |-> <<>>, periodic |-> <<>>, domain_evals |-> <<>>]
             /\ calls = <<>>
             /\ column = <<>> /\ natural = <<>> /\ period_on_coset = <<>> /\ worker_mem = <<>>
             /\ local = <<>> /\ out_evaluation = <<>>

OtherCall == calls = <<>> /\ Next /\ UNCHANGED <<job, calls, data>>

EvaluationSpec == (EvaluationInit \/ OtherInit) /\ [][EvaluationNext \/ OtherCall]_evaluation_vars
-----------------------------------------------------------------------------
(* When the composition polynomial has been evaluated on the coset, the    *)
(* output holds at every point, in bit-reversed order, the value of the    *)
(* constraints on the rows of the mask around that very point, on the      *)
(* periodic columns and the domain evaluations there: whichever workers    *)
(* ran the tasks, in memory of their own that every task leaves as it is,  *)
(* and with a last task that is shorter (composition_polynomial.inl,       *)
(* EvalOnCosetBitReversedOutput, periodic_column.inl, bit_reversal.cc).    *)
EveryPointHasItsValue ==
  calls # <<>> =>
    \A p \in Points :
      \/ out_evaluation[Reversed(p)] =
           [neighbors |-> [m \in DOMAIN job.mask |->
                             <<job.mask[m][2], (p + job.mask[m][1]) % coset_size>>],
            periodic  |-> [i \in DOMAIN job.periodic |-> p % period_in_trace(job.periodic[i])],
            domain    |-> [i \in DOMAIN job.domain_evals |-> p % job.domain_evals[i]],
            point     |-> p]
      \/ out_evaluation[Reversed(p)] = NoValue /\ (Len(calls) > 1 \/ at # "returned")
=============================================================================
