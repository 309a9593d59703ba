--------------------------- MODULE TaskPartition ---------------------------
(***************************************************************************)
(* How TaskManager::ParallelFor (src/starkware/utils/task_manager.cc) cuts *)
(* a range of items into tasks, and each task its range into chunks for    *)
(* the function, in integers modulo the size of a word, and how the        *)
(* workers go through them.                                                *)
(*                                                                         *)
(* The function is called and returns in steps of their own, so that what  *)
(* it does can happen in between (CompositionEvaluation).  Sleeping,       *)
(* waking and nested calls are in TaskManager; here a task is simply       *)
(* there or not.                                                           *)
(***************************************************************************)
EXTENDS Integers, Sequences

CONSTANTS WordSize,    \* 2^64
          Calls        \* the calls of ParallelFor: start_idx, end_idx,
                       \* max_chunk_size_for_lambda, min_work_chunk, the number
                       \* of threads, and the items whose handling throws

Words == 0..(WordSize - 1)
kTaskRedudencyFactor == 4

(* With no minimal work the number of items has to leave room for rounding *)
(* up, or the size of a task would be 0; the one caller without, GetCoset, *)
(* splits a range of column_step_ items.                                   *)
IsCall(c) ==
  /\ c.start \in Words /\ c.end \in Words /\ c.start <= c.end
  /\ c.chunk \in Words \ {0} /\ c.work \in Words
  /\ c.threads \in Words \ {0} /\ c.throwing \subseteq Words
  /\ c.work = 0 => c.end - c.start + kTaskRedudencyFactor * c.threads <= WordSize

ASSUME CallsAssumption == WordSize \in Nat \ {0} /\ \A c \in Calls : IsCall(c)

VARIABLES args,        \* the call
          at,          \* "called", "splits", "runs", "inline", "returned"
          task_idx,
          tasks,       \* ranges <<from, to>> of the tasks in the queue
          task,        \* for every worker the rest of the range of its task
          info,        \* for every worker the range its function handles now
          ran,         \* items given to the function so far
          skipped      \* items of a task left out because its function threw

vars == <<args, at, task_idx, tasks, task, info, ran, skipped>>

None == <<0, 0>>
ItemsOf(range) == range[1] .. (range[2] - 1)

(* The caller is worker 0. *)
Workers == 0 .. (args.threads - 1)

Larger(a, b) == IF a < b THEN b ELSE a

DivCeil(n, d) == ((n + d - 1) % WordSize) \div d

split_size == Larger(args.work, DivCeil(args.end - args.start, kTaskRedudencyFactor * args.threads))

NoOverflowCheck(start, size, end) ==                              \* mutant
  IF (start + size) % WordSize > end THEN end ELSE (start + size) % WordSize

(* min(start + size, end), although the sum may wrap around. *)
GetTaskEndIdx(start, size, end) ==
  LET res == (start + size) % WordSize
  IN  IF res < start \/ res > end THEN end ELSE res

Called ==
  /\ at = "called"
  /\ task_idx = args.start
  /\ tasks = <<>>
  /\ task = [w \in Workers |-> None]
  /\ info = [w \in Workers |-> None]
  /\ ran = {} /\ skipped = {}

Init == args \in Calls /\ Called

(* A single item is handled in place. *)
CallInline ==
  /\ at = "called" /\ (args.start + 1) % WordSize = args.end
  /\ info' = [info EXCEPT ![0] = <<args.start, args.end>>]
  /\ ran' = ItemsOf(<<args.start, args.end>>)
  /\ at' = "inline"
  /\ UNCHANGED <<args, task_idx, tasks, task, skipped>>

InlineReturns ==
  /\ at = "inline"
  /\ info' = [info EXCEPT ![0] = None]
  /\ at' = "returned"
  /\ UNCHANGED <<args, task_idx, tasks, task, ran, skipped>>

Splits ==
  /\ at = "called" /\ (args.start + 1) % WordSize # args.end
  /\ at' = "splits"
  /\ UNCHANGED <<args, task_idx, tasks, task, info, ran, skipped>>

(* All tasks are queued under one lock. *)
QueueTask ==
  /\ at = "splits" /\ task_idx < args.end
  /\ task_idx' = GetTaskEndIdx(task_idx, split_size, args.end)
  /\ tasks' = Append(tasks, <<task_idx, task_idx'>>)
  /\ UNCHANGED <<args, at, task, info, ran, skipped>>

AllQueued ==
  /\ at = "splits" /\ task_idx >= args.end
  /\ at' = "runs"
  /\ UNCHANGED <<args, task_idx, tasks, task, info, ran, skipped>>

TakeTask(w) ==
  /\ at = "runs" /\ tasks # <<>> /\ task[w] = None
  /\ task' = [task EXCEPT ![w] = tasks[Len(tasks)]]
  /\ tasks' = SubSeq(tasks, 1, Len(tasks) - 1)
  /\ UNCHANGED <<args, at, task_idx, info, ran, skipped>>

OnlyWholeChunks(from, to) == from + args.chunk <= to              \* mutant

(* The loop of a task goes on. *)
HasChunk(from, to) == from < to

InTask(w) == task[w] # None /\ info[w] = None

CallFunction(w) ==
  /\ InTask(w) /\ HasChunk(task[w][1], task[w][2])
  /\ LET chunk == <<task[w][1], GetTaskEndIdx(task[w][1], args.chunk, task[w][2])>>
     IN  /\ info' = [info EXCEPT ![w] = chunk]
         /\ ran' = ran \union ItemsOf(chunk)
  /\ UNCHANGED <<args, at, task_idx, tasks, task, skipped>>

Throws(range) == ItemsOf(range) \intersect args.throwing # {}

FunctionReturns(w) ==
  /\ at = "runs" /\ info[w] # None /\ ~Throws(info[w])
  /\ task' = [task EXCEPT ![w] = <<info[w][2], @[2]>>]
  /\ info' = [info EXCEPT ![w] = None]
  /\ UNCHANGED <<args, at, task_idx, tasks, ran, skipped>>

(* The rest of the task is left out. *)
FunctionThrows(w) ==
  /\ at = "runs" /\ info[w] # None /\ Throws(info[w])
  /\ skipped' = skipped \union (info[w][2] .. (task[w][2] - 1))
  /\ task' = [task EXCEPT ![w] = None]
  /\ info' = [info EXCEPT ![w] = None]
  /\ UNCHANGED <<args, at, task_idx, tasks, ran>>

TaskEnds(w) ==
  /\ InTask(w) /\ ~HasChunk(task[w][1], task[w][2])
  /\ task' = [task EXCEPT ![w] = None]
  /\ UNCHANGED <<args, at, task_idx, tasks, info, ran, skipped>>

(* No sibling is left. *)
Return ==
  /\ at = "runs" /\ tasks = <<>> /\ \A w \in Workers : task[w] = None
  /\ at' = "returned"
  /\ UNCHANGED <<args, task_idx, tasks, task, info, ran, skipped>>

Returned == at = "returned" /\ UNCHANGED vars

Proceeds == \/ CallInline \/ Splits \/ QueueTask \/ AllQueued
            \/ \E w \in Workers : TakeTask(w) \/ CallFunction(w) \/ TaskEnds(w)
            \/ Return

Next == \/ Proceeds \/ InlineReturns
        \/ \E w \in Workers : FunctionReturns(w) \/ FunctionThrows(w)
        \/ Returned

Spec == Init /\ [][Next]_vars
-----------------------------------------------------------------------------
(* No item is given to the function twice, none outside the range of the   *)
(* call is, and no chunk is empty or larger than the caller allows, also   *)
(* where start + size does not fit into a word, with any number of workers *)
(* (task_manager.cc:109-161).                                              *)
ItemsRunOnce ==
  [][\A w \in Workers :
       info'[w] # info[w] /\ info'[w] # None =>
         LET chunk == info'[w]
         IN /\ args.start <= chunk[1] /\ chunk[1] < chunk[2] /\ chunk[2] <= args.end
            /\ at' # "inline" => chunk[2] - chunk[1] <= args.chunk
            /\ ItemsOf(chunk) \intersect ran = {}]_vars

(* When the call returns every item was given to the function, except      *)
(* those that came after a chunk of the same task that threw, and no       *)
(* worker is in the function any more.                                     *)
AllItemsRun ==
  at = "returned" => /\ args.start .. (args.end - 1) = ran \union skipped
                     /\ \A w \in Workers : info[w] = None
=============================================================================
