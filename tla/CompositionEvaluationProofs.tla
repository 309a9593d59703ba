-------------------- MODULE CompositionEvaluationProofs --------------------
(***************************************************************************)
(* ParallelFor gives every item of its range to the function once, for     *)
(* words of any size, any call and any number of workers, and the          *)
(* composition polynomial that is evaluated by such calls has the right    *)
(* value at every point.                                                   *)
(***************************************************************************)
EXTENDS CompositionEvaluation, Foundations

(* The tasks in the queue are the items below Bound: they are queued from  *)
(* the lowest on and taken from the highest on.                            *)
Bound == IF tasks = <<>> THEN args.start ELSE tasks[Len(tasks)][2]

(* Items of the task of a worker that it has not yet given to the function.*)
FreshFrom(w) == IF info[w] = None THEN task[w][1] ELSE info[w][2]
Fresh(w) == FreshFrom(w) .. (task[w][2] - 1)

TypeInv == /\ IsCall(args)
           /\ at \in {"called", "splits", "runs", "inline", "returned"}
           /\ task_idx \in Nat
           /\ tasks \in Seq(Nat \X Nat)
           /\ task \in [Workers -> Nat \X Nat] /\ info \in [Workers -> Nat \X Nat]
           /\ ran \subseteq Nat /\ skipped \subseteq Nat

QueueInv ==
  \A k \in 1 .. Len(tasks) :
    /\ args.start <= tasks[k][1] /\ tasks[k][1] < tasks[k][2] /\ tasks[k][2] <= args.end
    /\ tasks[k][1] = IF k = 1 THEN args.start ELSE tasks[k - 1][2]

IdleInv ==
  /\ at \in {"called", "splits"} =>
       /\ ran = {} /\ skipped = {} /\ task_idx = Bound
       /\ \A w \in Workers : task[w] = None /\ info[w] = None
  /\ at = "called" => tasks = <<>>
  /\ at \in {"inline", "returned"} => \A w \in Workers : task[w] = None
  /\ at = "inline" => /\ ran = args.start .. (args.end - 1) /\ skipped = {}
                      /\ \A w \in Workers : w # 0 => info[w] = None
  /\ AllItemsRun

TaskInv ==
  \A w \in Workers :
    /\ at = "runs" /\ task[w] = None => info[w] = None
    /\ task[w] # None =>
         /\ Bound <= task[w][1] /\ task[w][1] <= task[w][2] /\ task[w][2] <= args.end
         /\ info[w] # None => task[w][1] < info[w][2] /\ info[w][2] <= task[w][2]

DisjointInv ==
  at = "runs" => /\ \A w \in Workers : Fresh(w) \intersect ran = {}
                 /\ \A v, w \in Workers : v # w => Fresh(v) \intersect Fresh(w) = {}

CoverInv ==
  at = "runs" => /\ ran \subseteq Bound .. (args.end - 1)
                 /\ skipped \subseteq args.start .. (args.end - 1)
                 /\ \A x \in Bound .. (args.end - 1) :
                      x \in ran \/ x \in skipped \/ \E w \in Workers : x \in Fresh(w)

IInv == TypeInv /\ QueueInv /\ IdleInv /\ TaskInv /\ DisjointInv /\ CoverInv
-----------------------------------------------------------------------------
LEMMA ArgsType ==
  ASSUME NEW c, IsCall(c)
  PROVE  /\ WordSize \in Nat \ {0}
         /\ c.start \in Nat /\ c.end \in Nat /\ c.start <= c.end /\ c.end < WordSize
         /\ c.chunk \in Nat /\ c.chunk >= 1 /\ c.chunk < WordSize
         /\ c.work \in Nat /\ c.work < WordSize
         /\ c.threads \in Nat /\ c.threads >= 1
         /\ c.work = 0 => c.end - c.start + 4 * c.threads <= WordSize
BY CallsAssumption DEF IsCall, Words, kTaskRedudencyFactor

(* Addition in words. *)
LEMMA ModIs ==
  ASSUME NEW W \in Nat \ {0}, NEW n \in Nat
  PROVE  /\ n % W \in Nat
         /\ n < W => n % W = n
         /\ W <= n /\ n < 2 * W => n % W = n - W
<1>1. CASE n < W
  BY <1>1
<1>2. CASE W <= n /\ n < 2 * W
  <2>1. n % W = (n - W) % W
    BY <1>2
  <2>. QED BY <1>2, <2>1
<1>. QED BY <1>1, <1>2

LEMMA DivAtLeastOne ==
  ASSUME NEW n \in Nat, NEW d \in Nat \ {0}
  PROVE  /\ n \div d \in Nat /\ n \div d <= n
         /\ d <= n => n \div d >= 1
OBVIOUS

(* The end of a task or chunk lies behind its start, within the range, and *)
(* no further than asked for, also when the sum wraps around.              *)
LEMMA TaskEndIs ==
  ASSUME WordSize \in Nat \ {0},
         NEW start \in Nat, NEW size \in Nat, NEW end \in Nat,
         start < end, end < WordSize, 1 <= size, size < WordSize
  PROVE  /\ GetTaskEndIdx(start, size, end) \in Nat
         /\ start < GetTaskEndIdx(start, size, end)
         /\ GetTaskEndIdx(start, size, end) <= end
         /\ GetTaskEndIdx(start, size, end) - start <= size
<1> DEFINE sum == start + size
           res == sum % WordSize
<1>1. sum \in Nat /\ res \in Nat
  BY ModIs
<1>2. CASE sum < WordSize
  <2>1. res = sum
    <3> HIDE DEF sum
    <3>. QED BY <1>1, <1>2, ModIs
  <2>. QED BY <2>1 DEF GetTaskEndIdx
<1>3. CASE WordSize <= sum
  <2>1. res = sum - WordSize
    <3>1. sum < 2 * WordSize
      OBVIOUS
    <3> HIDE DEF sum
    <3>. QED BY <1>1, <1>3, <3>1, ModIs
  <2>2. res < start
    BY <2>1
  <2>. QED BY <1>3, <2>2 DEF GetTaskEndIdx
<1>. QED BY <1>2, <1>3

(* A task is never empty. *)
LEMMA SplitSizeIs ==
  ASSUME IsCall(args), args.start < args.end
  PROVE  split_size \in Nat /\ 1 <= split_size /\ split_size < WordSize
<1> DEFINE n == args.end - args.start
           d == kTaskRedudencyFactor * args.threads
           m == (n + d - 1) % WordSize
<1>1. /\ WordSize \in Nat \ {0} /\ n \in Nat /\ n >= 1 /\ d \in Nat \ {0} /\ n + d - 1 \in Nat
      /\ args.work \in Nat /\ args.work < WordSize
      /\ args.work = 0 => n + d <= WordSize
  BY ArgsType DEF kTaskRedudencyFactor
<1>2. split_size = Larger(args.work, m \div d)
  BY DEF split_size, DivCeil
<1> HIDE DEF n, d
<1>3. m \in Nat /\ m < WordSize
  BY <1>1
<1>4. m \div d \in Nat /\ m \div d <= m
  BY <1>1, <1>3, DivAtLeastOne
<1>5. args.work = 0 => m \div d >= 1
  <2>1. ASSUME args.work = 0 PROVE m = n + d - 1
    BY <1>1, <2>1, ModIs
  <2>2. ASSUME args.work = 0 PROVE d <= m
    BY <1>1, <2>1, <2>2
  <2>. QED BY <1>1, <1>3, <2>2, DivAtLeastOne
<1> HIDE DEF m
<1>. QED BY <1>1, <1>2, <1>3, <1>4, <1>5 DEF Larger
-----------------------------------------------------------------------------
LEMMA ArgsFacts ==
  ASSUME TypeInv
  PROVE  /\ WordSize \in Nat \ {0}
         /\ args.start \in Nat /\ args.end \in Nat /\ args.start <= args.end /\ args.end < WordSize
         /\ args.chunk \in Nat /\ args.chunk >= 1 /\ args.chunk < WordSize
         /\ 0 \in Workers
BY ArgsType DEF TypeInv, Workers

LEMMA WorkerFacts ==
  ASSUME TypeInv, NEW w \in Workers
  PROVE  /\ task[w] \in Nat \X Nat /\ info[w] \in Nat \X Nat
         /\ task[w][1] \in Nat /\ task[w][2] \in Nat
         /\ info[w][1] \in Nat /\ info[w][2] \in Nat
         /\ FreshFrom(w) \in Nat
BY DEF TypeInv, FreshFrom

LEMMA BoundFacts ==
  ASSUME TypeInv, QueueInv
  PROVE  Bound \in Nat /\ args.start <= Bound /\ Bound <= args.end
<1>1. CASE tasks = <<>>
  BY <1>1, ArgsFacts DEF Bound
<1>2. CASE tasks # <<>>
  <2>1. Len(tasks) \in 1 .. Len(tasks) /\ tasks[Len(tasks)] \in Nat \X Nat
    BY <1>2 DEF TypeInv
  <2>2. args.start <= tasks[Len(tasks)][1] /\ tasks[Len(tasks)][1] < tasks[Len(tasks)][2]
        /\ tasks[Len(tasks)][2] <= args.end
    BY <2>1 DEF QueueInv
  <2>. QED BY <1>2, <2>1, <2>2, ArgsFacts DEF Bound
<1>. QED BY <1>1, <1>2

LEMMA CalledIInv == IsCall(args) /\ Called => IInv
<1> SUFFICES ASSUME IsCall(args), Called PROVE IInv
  OBVIOUS
<1>1. /\ IsCall(args) /\ at = "called" /\ task_idx = args.start /\ tasks = <<>>
      /\ task = [w \in Workers |-> None] /\ info = [w \in Workers |-> None]
      /\ ran = {} /\ skipped = {}
  BY DEF Called
<1>2. TypeInv
  BY <1>1, ArgsType DEF TypeInv, None
<1>3. Bound = args.start /\ QueueInv
  BY <1>1 DEF Bound, QueueInv
<1>4. IdleInv /\ TaskInv /\ DisjointInv /\ CoverInv
  BY <1>1, <1>3 DEF IdleInv, TaskInv, DisjointInv, CoverInv, AllItemsRun
<1>. QED BY <1>2, <1>3, <1>4 DEF IInv
-----------------------------------------------------------------------------
(* What a call does before its tasks run.                                  *)
LEMMA CallInlineStep ==
  ASSUME IInv, CallInline PROVE IInv'
<1>1. /\ TypeInv /\ at = "called" /\ at' = "inline" /\ tasks = <<>>
      /\ skipped = {} /\ \A w \in Workers : task[w] = None /\ info[w] = None
      /\ info' = [info EXCEPT ![0] = <<args.start, args.end>>]
      /\ ran' = args.start .. (args.end - 1)
      /\ UNCHANGED <<args, task_idx, tasks, task, skipped>>
  BY DEF IInv, IdleInv, CallInline, ItemsOf
<1>2. TypeInv'
  BY <1>1, ArgsFacts DEF TypeInv, Workers
<1>3. \A w \in Workers : w # 0 => info'[w] = None
  BY <1>1, ArgsFacts DEF TypeInv
<1>4. QueueInv'
  BY <1>1 DEF QueueInv
<1>5. IdleInv' /\ TaskInv' /\ DisjointInv' /\ CoverInv'
  BY <1>1, <1>3 DEF IdleInv, TaskInv, DisjointInv, CoverInv, AllItemsRun, Workers
<1>. QED BY <1>2, <1>4, <1>5 DEF IInv

LEMMA InlineReturnsStep ==
  ASSUME IInv, InlineReturns PROVE IInv'
<1>1. /\ TypeInv /\ QueueInv /\ at = "inline" /\ at' = "returned"
      /\ ran = args.start .. (args.end - 1) /\ skipped = {}
      /\ \A w \in Workers : task[w] = None
      /\ \A w \in Workers : w # 0 => info[w] = None
      /\ info' = [info EXCEPT ![0] = None]
      /\ UNCHANGED <<args, task_idx, tasks, task, ran, skipped>>
  BY DEF IInv, IdleInv, InlineReturns
<1>2. TypeInv'
  BY <1>1, ArgsFacts DEF TypeInv, Workers, None
<1>3. \A w \in Workers : info'[w] = None
  BY <1>1, ArgsFacts DEF TypeInv
<1>4. QueueInv'
  BY <1>1 DEF QueueInv
<1>5. IdleInv' /\ TaskInv' /\ DisjointInv' /\ CoverInv'
  BY <1>1, <1>3 DEF IdleInv, TaskInv, DisjointInv, CoverInv, AllItemsRun, Workers
<1>. QED BY <1>2, <1>4, <1>5 DEF IInv

LEMMA SplitsStep ==
  ASSUME IInv, Splits PROVE IInv'
<1>1. /\ TypeInv /\ QueueInv /\ at = "called" /\ at' = "splits" /\ task_idx = Bound
      /\ ran = {} /\ skipped = {}
      /\ \A w \in Workers : task[w] = None /\ info[w] = None
      /\ UNCHANGED <<args, task_idx, tasks, task, info, ran, skipped>>
  BY DEF IInv, IdleInv, Splits
<1>2. TypeInv' /\ QueueInv'
  BY <1>1 DEF TypeInv, QueueInv, Workers
<1>3. Bound' = Bound /\ Workers' = Workers
  BY <1>1 DEF Bound, Workers
<1>. QED BY <1>1, <1>2, <1>3 DEF IInv, IdleInv, TaskInv, DisjointInv, CoverInv, AllItemsRun

LEMMA QueueTaskStep ==
  ASSUME IInv, QueueTask PROVE IInv'
<1> DEFINE e == GetTaskEndIdx(task_idx, split_size, args.end)
<1>1. /\ TypeInv /\ QueueInv /\ at = "splits" /\ at' = at /\ task_idx = Bound
      /\ task_idx < args.end
      /\ ran = {} /\ skipped = {}
      /\ \A w \in Workers : task[w] = None /\ info[w] = None
      /\ task_idx' = e /\ tasks' = Append(tasks, <<task_idx, e>>)
      /\ UNCHANGED <<args, task, info, ran, skipped>>
  BY DEF IInv, IdleInv, QueueTask
<1>2. task_idx \in Nat /\ args.start <= task_idx /\ IsCall(args) /\ tasks \in Seq(Nat \X Nat)
  BY <1>1, BoundFacts DEF TypeInv
<1>3. e \in Nat /\ task_idx < e /\ e <= args.end
  <2>1. split_size \in Nat /\ 1 <= split_size /\ split_size < WordSize
    BY <1>1, <1>2, ArgsFacts, SplitSizeIs
  <2>. QED BY <2>1, <1>1, <1>2, ArgsFacts, TaskEndIs
<1> HIDE DEF e
<1>4. tasks' \in Seq(Nat \X Nat) /\ Len(tasks') = Len(tasks) + 1
      /\ tasks'[Len(tasks) + 1] = <<task_idx, e>>
      /\ \A k \in 1 .. Len(tasks) : tasks'[k] = tasks[k]
  BY <1>1, <1>2, <1>3
<1>5. Len(tasks) \in Nat /\ tasks' # <<>>
  BY <1>2, <1>4
<1>6. Bound' = e
  BY <1>4, <1>5 DEF Bound
<1>7. TypeInv'
  BY <1>1, <1>3, <1>4 DEF TypeInv, Workers
<1>8. QueueInv'
  <2>1. ASSUME NEW k \in 1 .. Len(tasks')
        PROVE  /\ args.start <= tasks'[k][1] /\ tasks'[k][1] < tasks'[k][2] /\ tasks'[k][2] <= args.end
               /\ tasks'[k][1] = IF k = 1 THEN args.start ELSE tasks'[k - 1][2]
    <3>1. CASE k \in 1 .. Len(tasks)
      <4>1. tasks'[k] = tasks[k]
        BY <3>1, <1>4
      <4>3. k # 1 => k - 1 \in 1 .. Len(tasks)
        BY <3>1, <1>5
      <4>2. k # 1 => tasks'[k - 1] = tasks[k - 1]
        BY <4>3, <1>4
      <4>. QED BY <1>1, <3>1, <4>1, <4>2 DEF QueueInv
    <3>2. CASE k = Len(tasks) + 1
      <4>1. tasks'[k] = <<task_idx, e>>
        BY <1>4, <3>2
      <4>2. k = 1 => task_idx = args.start
        BY <1>1, <1>5, <3>2 DEF Bound
      <4>3. k # 1 => task_idx = tasks'[k - 1][2]
        <5>1. ASSUME k # 1 PROVE tasks # <<>> /\ k - 1 = Len(tasks) /\ k - 1 \in 1 .. Len(tasks)
          BY <1>2, <1>5, <3>2, <5>1
        <5>. QED BY <5>1, <1>1, <1>4 DEF Bound
      <4>. QED BY <1>2, <1>3, <4>1, <4>2, <4>3
    <3>. QED BY <1>4, <1>5, <3>1, <3>2
  <2>. QED BY <1>1, <2>1 DEF QueueInv
<1>9. Workers' = Workers
  BY <1>1 DEF Workers
<1>. QED BY <1>1, <1>6, <1>7, <1>8, <1>9 DEF IInv, IdleInv, TaskInv, DisjointInv, CoverInv, AllItemsRun

LEMMA AllQueuedStep ==
  ASSUME IInv, AllQueued PROVE IInv'
<1>1. /\ TypeInv /\ QueueInv /\ at = "splits" /\ at' = "runs" /\ task_idx = Bound
      /\ task_idx >= args.end
      /\ ran = {} /\ skipped = {}
      /\ \A w \in Workers : task[w] = None /\ info[w] = None
      /\ UNCHANGED <<args, task_idx, tasks, task, info, ran, skipped>>
  BY DEF IInv, IdleInv, AllQueued
<1>2. TypeInv' /\ QueueInv'
  BY <1>1 DEF TypeInv, QueueInv, Workers
<1>3. Bound' = Bound /\ Workers' = Workers /\ Bound = args.end /\ args.end \in Nat
  BY <1>1, BoundFacts, ArgsFacts DEF Bound, Workers
<1>4. \A w \in Workers : Fresh(w)' = {}
  BY <1>1 DEF Fresh, FreshFrom, None
<1>5. IdleInv' /\ TaskInv'
  BY <1>1, <1>3 DEF IdleInv, TaskInv, AllItemsRun
<1>6. DisjointInv' /\ CoverInv'
  BY <1>1, <1>3, <1>4 DEF DisjointInv, CoverInv
<1>. QED BY <1>2, <1>5, <1>6 DEF IInv
-----------------------------------------------------------------------------
(* What workers do while the tasks run.  The task taken is the highest in  *)
(* the queue, below everything that workers have.                          *)
LEMMA TakeTaskStep ==
  ASSUME IInv, NEW w \in Workers, TakeTask(w) PROVE IInv'
<1> DEFINE n == Len(tasks)
           a == tasks[n][1]
           b == tasks[n][2]
<1>1. /\ TypeInv /\ QueueInv /\ TaskInv /\ DisjointInv /\ CoverInv
      /\ at = "runs" /\ at' = at /\ tasks # <<>>
      /\ task[w] = None /\ info[w] = None
      /\ task' = [task EXCEPT ![w] = tasks[n]]
      /\ tasks' = SubSeq(tasks, 1, n - 1)
      /\ UNCHANGED <<args, task_idx, info, ran, skipped>>
  BY DEF IInv, TaskInv, TakeTask
<1>2. n \in Nat /\ n >= 1 /\ n \in 1 .. n /\ tasks[n] \in Nat \X Nat /\ tasks \in Seq(Nat \X Nat)
  BY <1>1 DEF TypeInv
<1>3. /\ a \in Nat /\ b \in Nat /\ tasks[n] = <<a, b>> /\ Bound = b
      /\ args.start <= a /\ a < b /\ b <= args.end
      /\ a = IF n = 1 THEN args.start ELSE tasks[n - 1][2]
  <2>1. a \in Nat /\ b \in Nat /\ tasks[n] = <<a, b>>
    BY <1>2
  <2>2. Bound = b
    BY <1>1 DEF Bound
  <2>3. args.start <= a /\ a < b /\ b <= args.end
        /\ a = IF n = 1 THEN args.start ELSE tasks[n - 1][2]
    BY <1>1, <1>2 DEF QueueInv
  <2>. QED BY <2>1, <2>2, <2>3
<1>4. /\ tasks' \in Seq(Nat \X Nat) /\ Len(tasks') = n - 1
      /\ \A k \in 1 .. (n - 1) : tasks'[k] = tasks[k]
  <2>1. n - 1 \in Nat /\ n - 1 <= Len(tasks) /\ 1 .. (n - 1) \subseteq 1 .. n
    BY <1>2
  <2>2. SubSeq(tasks, 1, n - 1) = [k \in 1 .. (n - 1) |-> tasks[k]]
    BY <1>2, <2>1
  <2>3. \A k \in 1 .. (n - 1) : tasks[k] \in Nat \X Nat
    BY <1>2, <2>1
  <2>4. tasks' = [k \in 1 .. (n - 1) |-> tasks[k]]
    BY <1>1, <2>2
  <2> HIDE DEF n
  <2>5. tasks' \in Seq(Nat \X Nat)
    BY <2>1, <2>3, <2>4
  <2>6. Len(tasks') = n - 1
    BY <2>1, <2>4
  <2>. QED BY <2>4, <2>5, <2>6
<1>5. Bound' = a
  <2>1. CASE n = 1
    BY <1>1, <1>3, <1>4, <2>1 DEF Bound
  <2>2. CASE n # 1
    <3>1. n - 1 \in 1 .. (n - 1) /\ tasks' # <<>>
      BY <1>2, <1>4, <2>2
    <3>. QED BY <1>3, <1>4, <2>2, <3>1 DEF Bound
  <2>. QED BY <2>1, <2>2
<1>6. TypeInv'
  BY <1>1, <1>2, <1>4 DEF TypeInv, Workers
<1>7. QueueInv'
  <2>1. ASSUME NEW k \in 1 .. (n - 1)
        PROVE  /\ args.start <= tasks'[k][1] /\ tasks'[k][1] < tasks'[k][2] /\ tasks'[k][2] <= args.end
               /\ tasks'[k][1] = IF k = 1 THEN args.start ELSE tasks'[k - 1][2]
    <3>1. k \in 1 .. n /\ (k # 1 => k - 1 \in 1 .. (n - 1))
      BY <1>2
    <3>. QED BY <1>1, <1>4, <3>1 DEF QueueInv
  <2>. QED BY <1>1, <1>4, <2>1 DEF QueueInv
<1> HIDE DEF n, a, b
<1>8. Workers' = Workers /\ args.end \in Nat
  BY <1>1, ArgsFacts DEF Workers
<1>9. /\ task'[w] = <<a, b>> /\ info'[w] = None
      /\ \A v \in Workers : v # w => task'[v] = task[v] /\ info'[v] = info[v]
  BY <1>1, <1>3 DEF TypeInv
<1>10. /\ Fresh(w)' = a .. (b - 1)
       /\ \A v \in Workers : v # w => Fresh(v)' = Fresh(v)
  BY <1>1, <1>9 DEF Fresh, FreshFrom
<1>11. TaskInv'
  <2>1. ASSUME NEW v \in Workers, v # w
        PROVE  /\ task[v] = None => info[v] = None
               /\ task[v] # None =>
                   /\ a <= task[v][1] /\ task[v][1] <= task[v][2] /\ task[v][2] <= args.end
                   /\ info[v] # None => task[v][1] < info[v][2] /\ info[v][2] <= task[v][2]
    BY <1>1, <1>3, WorkerFacts DEF TaskInv
  <2>2. <<a, b>> # None
    BY <1>3 DEF None
  <2>. QED BY <1>1, <1>3, <1>5, <1>8, <1>9, <2>1, <2>2 DEF TaskInv
<1>12. ASSUME NEW x \in a .. (b - 1)
       PROVE  x \notin ran /\ \A v \in Workers : v # w => x \notin Fresh(v)
  <2>1. x \in Nat /\ x < Bound
    BY <1>3
  <2>2. x \notin ran
    BY <1>1, <1>3, <2>1 DEF CoverInv
  <2>3. ASSUME NEW v \in Workers, x \in Fresh(v) PROVE FALSE
    <3>1. CASE task[v] = None
      BY <1>1, <2>1, <2>3, <3>1 DEF TaskInv, Fresh, FreshFrom, None
    <3>2. CASE task[v] # None
      <4>1. Bound <= FreshFrom(v) /\ FreshFrom(v) \in Nat
        BY <1>1, <1>3, <3>2, WorkerFacts DEF TaskInv, FreshFrom
      <4>. QED BY <1>3, <2>1, <2>3, <4>1, WorkerFacts, <1>1 DEF Fresh
    <3>. QED BY <3>1, <3>2
  <2>. QED BY <2>2, <2>3
<1>13. DisjointInv'
  <2>1. \A v \in Workers : Fresh(v)' \intersect ran = {}
    BY <1>1, <1>10, <1>12 DEF DisjointInv
  <2>2. ASSUME NEW u \in Workers, NEW v \in Workers, u # v
        PROVE  Fresh(u)' \intersect Fresh(v)' = {}
    <3>1. CASE u = w
      BY <1>10, <1>12, <2>2, <3>1
    <3>2. CASE v = w
      BY <1>10, <1>12, <2>2, <3>2
    <3>3. CASE u # w /\ v # w
      BY <1>1, <1>10, <2>2, <3>3 DEF DisjointInv
    <3>. QED BY <3>1, <3>2, <3>3
  <2>. QED BY <1>1, <1>8, <2>1, <2>2 DEF DisjointInv
<1>14. CoverInv'
  <2>1. ran \subseteq a .. (args.end - 1)
    BY <1>1, <1>3, <1>8 DEF CoverInv
  <2>2. ASSUME NEW x \in a .. (args.end - 1)
        PROVE  x \in ran \/ x \in skipped \/ \E v \in Workers : x \in Fresh(v)'
    <3>1. CASE x < b
      <4>1. x \in a .. (b - 1)
        BY <1>3, <3>1
      <4>. QED BY <1>10, <4>1
    <3>2. CASE b <= x
      <4>1. x \in Bound .. (args.end - 1)
        BY <1>3, <1>8, <3>2
      <4>2. x \in ran \/ x \in skipped \/ \E v \in Workers : x \in Fresh(v)
        BY <1>1, <4>1 DEF CoverInv
      <4>3. Fresh(w) = {}
        BY <1>1 DEF Fresh, FreshFrom, None
      <4>. QED BY <1>10, <4>2, <4>3
    <3>3. x \in Int
      BY <1>3, <1>8
    <3>. QED BY <1>3, <3>1, <3>2, <3>3
  <2>. QED BY <1>1, <1>5, <1>8, <2>1, <2>2 DEF CoverInv
<1>. QED BY <1>1, <1>6, <1>7, <1>11, <1>13, <1>14 DEF IInv, IdleInv, AllItemsRun

LEMMA CallFunctionIs ==
  ASSUME IInv, NEW w \in Workers, CallFunction(w)
  PROVE  \E e \in Nat :
           /\ task[w][1] < e /\ e <= task[w][2] /\ e - task[w][1] <= args.chunk
           /\ info' = [info EXCEPT ![w] = <<task[w][1], e>>]
           /\ ran' = ran \union (task[w][1] .. (e - 1))
<1> DEFINE from == task[w][1]
           to == task[w][2]
           e == GetTaskEndIdx(from, args.chunk, to)
<1>1. /\ TypeInv /\ QueueInv /\ TaskInv /\ task[w] # None /\ from < to
      /\ info' = [info EXCEPT ![w] = <<from, e>>]
      /\ ran' = ran \union (from .. (e - 1))
  BY DEF IInv, CallFunction, InTask, HasChunk, ItemsOf
<1>2. /\ from \in Nat /\ to \in Nat /\ to < WordSize /\ WordSize \in Nat \ {0}
      /\ args.chunk \in Nat /\ 1 <= args.chunk /\ args.chunk < WordSize
  <2>1. from \in Nat /\ to \in Nat
    BY <1>1, WorkerFacts
  <2>2. to <= args.end
    BY <1>1 DEF TaskInv
  <2>. QED BY <1>1, <2>1, <2>2, ArgsFacts
<1>3. e \in Nat /\ from < e /\ e <= to /\ e - from <= args.chunk
  <2> HIDE DEF from, to
  <2>. QED BY <1>1, <1>2, TaskEndIs
<1>. QED BY <1>1, <1>3

LEMMA CallFunctionStep ==
  ASSUME IInv, NEW w \in Workers, CallFunction(w) PROVE IInv'
<1>1. /\ TypeInv /\ QueueInv /\ TaskInv /\ DisjointInv /\ CoverInv /\ IdleInv
      /\ at' = at /\ task[w] # None /\ info[w] = None
      /\ UNCHANGED <<args, task_idx, tasks, task, skipped>>
  BY DEF IInv, CallFunction, InTask
<1>2. at = "runs"
  BY <1>1 DEF IdleInv, TypeInv
<1>3. PICK e \in Nat :
           /\ task[w][1] < e /\ e <= task[w][2]
           /\ info' = [info EXCEPT ![w] = <<task[w][1], e>>]
           /\ ran' = ran \union (task[w][1] .. (e - 1))
  BY CallFunctionIs
<1> DEFINE from == task[w][1]
           to == task[w][2]
<1>4. /\ from \in Nat /\ to \in Nat /\ Bound \in Nat /\ args.end \in Nat
      /\ Bound <= from /\ to <= args.end
  BY <1>1, WorkerFacts, BoundFacts, ArgsFacts DEF TaskInv
<1>5. /\ info'[w] = <<from, e>> /\ <<from, e>> # None
      /\ \A v \in Workers : v # w => info'[v] = info[v]
  BY <1>1, <1>3, <1>4 DEF TypeInv, None
<1>6. Workers' = Workers /\ Bound' = Bound
  BY <1>1 DEF Workers, Bound
<1>7. /\ Fresh(w) = from .. (to - 1) /\ Fresh(w)' = e .. (to - 1)
      /\ \A v \in Workers : v # w => Fresh(v)' = Fresh(v)
  BY <1>1, <1>5 DEF Fresh, FreshFrom
<1>8. TypeInv' /\ QueueInv'
  <2>1. <<from, e>> \in Nat \X Nat /\ from .. (e - 1) \subseteq Nat
    BY <1>4
  <2>2. info' \in [Workers -> Nat \X Nat] /\ ran' \subseteq Nat
    BY <1>1, <1>3, <2>1 DEF TypeInv
  <2>. QED BY <1>1, <1>6, <2>2 DEF TypeInv, QueueInv
<1>9. TaskInv'
  <2>1. ASSUME NEW v \in Workers, task[v] # None, info'[v] # None
        PROVE  task[v][1] < info'[v][2] /\ info'[v][2] <= task[v][2]
    <3>1. CASE v = w
      BY <1>3, <1>5, <3>1
    <3>2. CASE v # w
      BY <1>1, <1>5, <2>1, <3>2 DEF TaskInv
    <3>. QED BY <3>1, <3>2
  <2>2. ASSUME NEW v \in Workers, task[v] = None PROVE info'[v] = None
    BY <1>1, <1>2, <1>5, <2>2 DEF TaskInv
  <2>3. ASSUME NEW v \in Workers, task[v] # None
        PROVE  Bound <= task[v][1] /\ task[v][1] <= task[v][2] /\ task[v][2] <= args.end
    BY <1>1, <2>3 DEF TaskInv
  <2>. QED BY <1>1, <1>6, <2>1, <2>2, <2>3 DEF TaskInv
<1>10. /\ Fresh(w)' \subseteq Fresh(w) /\ from .. (e - 1) \subseteq Fresh(w)
       /\ Fresh(w) \subseteq Fresh(w)' \union (from .. (e - 1))
       /\ Fresh(w)' \intersect (from .. (e - 1)) = {}
  BY <1>3, <1>4, <1>7
<1> HIDE DEF from, to
<1>11. DisjointInv'
  <2>1. ASSUME NEW v \in Workers PROVE Fresh(v)' \intersect ran' = {}
    <3>1. Fresh(v) \intersect ran = {} /\ (v # w => Fresh(v) \intersect Fresh(w) = {})
      BY <1>1, <1>2 DEF DisjointInv
    <3>2. ran' = ran \union (from .. (e - 1))
      BY <1>3 DEF from
    <3>. QED BY <1>7, <1>10, <3>1, <3>2
  <2>2. ASSUME NEW u \in Workers, NEW v \in Workers, u # v
        PROVE  Fresh(u)' \intersect Fresh(v)' = {}
    <3>1. Fresh(u) \intersect Fresh(v) = {}
      BY <1>1, <1>2, <2>2 DEF DisjointInv
    <3>2. Fresh(u)' \subseteq Fresh(u) /\ Fresh(v)' \subseteq Fresh(v)
      BY <1>7, <1>10
    <3>. QED BY <3>1, <3>2
  <2>. QED BY <1>6, <2>1, <2>2 DEF DisjointInv
<1>12. CoverInv'
  <2>1. ran' = ran \union (from .. (e - 1))
    BY <1>3 DEF from
  <2>2. from .. (e - 1) \subseteq Bound .. (args.end - 1)
    BY <1>3, <1>4 DEF from, to
  <2>3. ran' \subseteq Bound .. (args.end - 1) /\ skipped \subseteq args.start .. (args.end - 1)
    BY <1>1, <1>2, <2>1, <2>2 DEF CoverInv
  <2>4. ASSUME NEW x \in Bound .. (args.end - 1)
        PROVE  x \in ran' \/ x \in skipped \/ \E v \in Workers : x \in Fresh(v)'
    <3>1. x \in ran \/ x \in skipped \/ \E v \in Workers : x \in Fresh(v)
      BY <1>1, <1>2 DEF CoverInv
    <3>. QED BY <1>7, <1>10, <2>1, <3>1
  <2>. QED BY <1>1, <1>6, <2>3, <2>4 DEF CoverInv
<1>. QED BY <1>1, <1>2, <1>8, <1>9, <1>11, <1>12 DEF IInv, IdleInv, AllItemsRun

LEMMA FunctionReturnsStep ==
  ASSUME IInv, NEW w \in Workers, FunctionReturns(w) PROVE IInv'
<1>1. /\ TypeInv /\ QueueInv /\ TaskInv /\ DisjointInv /\ CoverInv
      /\ at = "runs" /\ at' = at /\ info[w] # None /\ task[w] # None
      /\ task' = [task EXCEPT ![w] = <<info[w][2], task[w][2]>>]
      /\ info' = [info EXCEPT ![w] = None]
      /\ UNCHANGED <<args, task_idx, tasks, ran, skipped>>
  BY DEF IInv, FunctionReturns, TaskInv
<1> DEFINE e == info[w][2]
           to == task[w][2]
<1>2. /\ e \in Nat /\ to \in Nat /\ task[w][1] \in Nat /\ Bound \in Nat
      /\ Bound <= task[w][1] /\ task[w][1] < e /\ e <= to /\ to <= args.end
  BY <1>1, WorkerFacts, BoundFacts DEF TaskInv
<1>3. /\ task'[w] = <<e, to>> /\ <<e, to>> # None /\ info'[w] = None
      /\ \A v \in Workers : v # w => task'[v] = task[v] /\ info'[v] = info[v]
  BY <1>1, <1>2 DEF TypeInv, None
<1>4. Workers' = Workers /\ Bound' = Bound
  BY <1>1 DEF Workers, Bound
<1>5. \A v \in Workers : Fresh(v)' = Fresh(v)
  <2>1. Fresh(w)' = Fresh(w)
    BY <1>1, <1>3 DEF Fresh, FreshFrom
  <2>2. ASSUME NEW v \in Workers, v # w PROVE Fresh(v)' = Fresh(v)
    BY <1>3, <2>2 DEF Fresh, FreshFrom
  <2>. QED BY <2>1, <2>2
<1>6. TypeInv' /\ QueueInv'
  BY <1>1, <1>2, <1>4 DEF TypeInv, QueueInv, None
<1>7. TaskInv'
  <2>1. ASSUME NEW v \in Workers, v # w
        PROVE  /\ task'[v] = None => info'[v] = None
               /\ task'[v] # None =>
                    /\ Bound <= task'[v][1] /\ task'[v][1] <= task'[v][2] /\ task'[v][2] <= args.end
                    /\ info'[v] # None => task'[v][1] < info'[v][2] /\ info'[v][2] <= task'[v][2]
    BY <1>1, <1>3, <2>1 DEF TaskInv
  <2>2. Bound <= task'[w][1] /\ task'[w][1] <= task'[w][2] /\ task'[w][2] <= args.end
    BY <1>2, <1>3
  <2>. QED BY <1>1, <1>3, <1>4, <2>1, <2>2 DEF TaskInv
<1>8. DisjointInv'
  BY <1>1, <1>4, <1>5 DEF DisjointInv
<1>9. CoverInv'
  BY <1>1, <1>4, <1>5 DEF CoverInv
<1>. QED BY <1>1, <1>6, <1>7, <1>8, <1>9 DEF IInv, IdleInv, AllItemsRun

LEMMA FunctionThrowsStep ==
  ASSUME IInv, NEW w \in Workers, FunctionThrows(w) PROVE IInv'
<1>1. /\ TypeInv /\ QueueInv /\ TaskInv /\ DisjointInv /\ CoverInv
      /\ at = "runs" /\ at' = at /\ info[w] # None /\ task[w] # None
      /\ task' = [task EXCEPT ![w] = None]
      /\ info' = [info EXCEPT ![w] = None]
      /\ skipped' = skipped \union Fresh(w)
      /\ UNCHANGED <<args, task_idx, tasks, ran>>
  BY DEF IInv, FunctionThrows, TaskInv, Fresh, FreshFrom
<1>2. /\ task'[w] = None /\ info'[w] = None
      /\ \A v \in Workers : v # w => task'[v] = task[v] /\ info'[v] = info[v]
  BY <1>1 DEF TypeInv
<1>3. Workers' = Workers /\ Bound' = Bound
  BY <1>1 DEF Workers, Bound
<1>4. Fresh(w)' = {} /\ \A v \in Workers : v # w => Fresh(v)' = Fresh(v)
  BY <1>2 DEF Fresh, FreshFrom, None
<1>5. Fresh(w) \subseteq args.start .. (args.end - 1) /\ Fresh(w) \subseteq Nat
  <2>1. /\ task[w][1] \in Nat /\ info[w][2] \in Nat /\ task[w][2] \in Nat /\ Bound \in Nat
        /\ args.start \in Nat /\ args.end \in Nat /\ args.start <= Bound
        /\ Bound <= task[w][1] /\ task[w][1] < info[w][2] /\ task[w][2] <= args.end
    BY <1>1, WorkerFacts, BoundFacts, ArgsFacts DEF TaskInv
  <2>. QED BY <1>1, <2>1 DEF Fresh, FreshFrom
<1>6. TypeInv' /\ QueueInv'
  BY <1>1, <1>3, <1>5 DEF TypeInv, QueueInv, None
<1>7. TaskInv'
  BY <1>1, <1>2, <1>3 DEF TaskInv
<1>8. DisjointInv'
  BY <1>1, <1>3, <1>4 DEF DisjointInv
<1>9. CoverInv'
  <2>1. ASSUME NEW x \in Bound .. (args.end - 1)
        PROVE  x \in ran \/ x \in skipped' \/ \E v \in Workers : x \in Fresh(v)'
    <3>1. x \in ran \/ x \in skipped \/ \E v \in Workers : x \in Fresh(v)
      BY <1>1 DEF CoverInv
    <3>. QED BY <1>1, <1>4, <3>1
  <2>. QED BY <1>1, <1>3, <1>5, <2>1 DEF CoverInv
<1>. QED BY <1>1, <1>6, <1>7, <1>8, <1>9 DEF IInv, IdleInv, AllItemsRun

LEMMA TaskEndsStep ==
  ASSUME IInv, NEW w \in Workers, TaskEnds(w) PROVE IInv'
<1>1. /\ TypeInv /\ QueueInv /\ IdleInv /\ TaskInv /\ DisjointInv /\ CoverInv
      /\ at' = at /\ task[w] # None /\ info[w] = None /\ ~ (task[w][1] < task[w][2])
      /\ task' = [task EXCEPT ![w] = None]
      /\ UNCHANGED <<args, task_idx, tasks, info, ran, skipped>>
  BY DEF IInv, TaskEnds, InTask, HasChunk
<1>2. at = "runs"
  BY <1>1 DEF IdleInv, TypeInv
<1>3. task'[w] = None /\ \A v \in Workers : v # w => task'[v] = task[v]
  BY <1>1 DEF TypeInv
<1>4. Workers' = Workers /\ Bound' = Bound
  BY <1>1 DEF Workers, Bound
<1>5. \A v \in Workers : Fresh(v)' = Fresh(v)
  <2>1. Fresh(w) = {}
    BY <1>1, WorkerFacts DEF Fresh, FreshFrom
  <2>2. Fresh(w)' = {}
    BY <1>1, <1>3 DEF Fresh, FreshFrom, None
  <2>3. ASSUME NEW v \in Workers, v # w PROVE Fresh(v)' = Fresh(v)
    BY <1>1, <1>3, <2>3 DEF Fresh, FreshFrom
  <2>. QED BY <2>1, <2>2, <2>3
<1>6. TypeInv' /\ QueueInv'
  BY <1>1, <1>4 DEF TypeInv, QueueInv, None
<1>7. TaskInv'
  BY <1>1, <1>3, <1>4 DEF TaskInv
<1>8. DisjointInv' /\ CoverInv'
  BY <1>1, <1>4, <1>5 DEF DisjointInv, CoverInv
<1>. QED BY <1>1, <1>2, <1>6, <1>7, <1>8 DEF IInv, IdleInv, AllItemsRun

(* With no task left Bound is the start of the range and nothing is fresh. *)
LEMMA ReturnStep ==
  ASSUME IInv, Return PROVE IInv'
<1>1. /\ TypeInv /\ TaskInv /\ CoverInv /\ at = "runs" /\ at' = "returned"
      /\ tasks = <<>> /\ \A w \in Workers : task[w] = None
      /\ UNCHANGED <<args, task_idx, tasks, task, info, ran, skipped>>
  BY DEF IInv, Return
<1>2. \A w \in Workers : info[w] = None
  BY <1>1 DEF TaskInv
<1>3. \A w \in Workers : Fresh(w) = {}
  BY <1>1, <1>2 DEF Fresh, FreshFrom, None
<1>4. Bound = args.start
  BY <1>1 DEF Bound
<1>5. args.start .. (args.end - 1) = ran \union skipped
  BY <1>1, <1>3, <1>4 DEF CoverInv
<1>6. TypeInv' /\ QueueInv' /\ Workers' = Workers
  BY <1>1 DEF TypeInv, QueueInv, Workers
<1>7. IdleInv' /\ TaskInv' /\ DisjointInv' /\ CoverInv'
  BY <1>1, <1>2, <1>5, <1>6 DEF IdleInv, TaskInv, DisjointInv, CoverInv, AllItemsRun
<1>. QED BY <1>6, <1>7 DEF IInv

LEMMA StutterStep ==
  ASSUME IInv, UNCHANGED vars PROVE IInv'
<1>1. UNCHANGED <<args, at, task_idx, tasks, task, info, ran, skipped>>
  BY DEF vars
<1>2. Workers' = Workers /\ Bound' = Bound /\ (\A w \in Workers : Fresh(w)' = Fresh(w))
  BY <1>1 DEF Workers, Bound, Fresh, FreshFrom
<1>3. TypeInv' /\ QueueInv' /\ IdleInv' /\ TaskInv'
  BY <1>1, <1>2 DEF IInv, TypeInv, QueueInv, IdleInv, TaskInv, AllItemsRun
<1>4. DisjointInv' /\ CoverInv'
  BY <1>1, <1>2 DEF IInv, DisjointInv, CoverInv
<1>. QED BY <1>3, <1>4 DEF IInv

LEMMA NextIInv ==
  ASSUME IInv, [Next]_vars PROVE IInv'
<1>1. CASE Proceeds
  <2>1. CASE CallInline BY <2>1, CallInlineStep
  <2>2. CASE Splits BY <2>2, SplitsStep
  <2>3. CASE QueueTask BY <2>3, QueueTaskStep
  <2>4. CASE AllQueued BY <2>4, AllQueuedStep
  <2>5. ASSUME NEW w \in Workers, TakeTask(w) PROVE IInv' BY <2>5, TakeTaskStep
  <2>6. ASSUME NEW w \in Workers, CallFunction(w) PROVE IInv' BY <2>6, CallFunctionStep
  <2>7. ASSUME NEW w \in Workers, TaskEnds(w) PROVE IInv' BY <2>7, TaskEndsStep
  <2>8. CASE Return BY <2>8, ReturnStep
  <2>. QED BY <1>1, <2>1, <2>2, <2>3, <2>4, <2>5, <2>6, <2>7, <2>8 DEF Proceeds
<1>2. CASE InlineReturns BY <1>2, InlineReturnsStep
<1>3. ASSUME NEW w \in Workers, FunctionReturns(w) PROVE IInv' BY <1>3, FunctionReturnsStep
<1>4. ASSUME NEW w \in Workers, FunctionThrows(w) PROVE IInv' BY <1>4, FunctionThrowsStep
<1>5. CASE Returned \/ UNCHANGED vars BY <1>5, StutterStep DEF Returned
<1>. QED BY <1>1, <1>2, <1>3, <1>4, <1>5 DEF Next
-----------------------------------------------------------------------------
RunsOnce ==
  \A w \in Workers :
    info'[w] # info[w] /\ info'[w] # None =>
      LET chunk == info'[w]
      IN /\ args.start <= chunk[1] /\ chunk[1] < chunk[2] /\ chunk[2] <= args.end
         /\ at' # "inline" => chunk[2] - chunk[1] <= args.chunk
         /\ ItemsOf(chunk) \intersect ran = {}

(* Only two actions give the function a chunk.                             *)
LEMMA OnlyCallsRun ==
  ASSUME IInv, [Next]_vars, NEW w \in Workers, info'[w] # info[w], info'[w] # None
  PROVE  CallInline \/ CallFunction(w)
<1>1. info \in [Workers -> Nat \X Nat]
  BY DEF IInv, TypeInv
<1>2. CASE Splits \/ QueueTask \/ AllQueued \/ Return \/ Returned \/ UNCHANGED vars
  BY <1>2 DEF Splits, QueueTask, AllQueued, Return, Returned, vars
<1>3. CASE InlineReturns
  BY <1>1, <1>3 DEF InlineReturns
<1>4. ASSUME NEW v \in Workers, FunctionReturns(v) \/ FunctionThrows(v) PROVE FALSE
  BY <1>1, <1>4 DEF FunctionReturns, FunctionThrows
<1>5. ASSUME NEW v \in Workers, TakeTask(v) \/ TaskEnds(v) PROVE FALSE
  BY <1>5 DEF TakeTask, TaskEnds
<1>6. ASSUME NEW v \in Workers, CallFunction(v), v # w PROVE FALSE
  BY <1>1, <1>6 DEF CallFunction
<1>. QED BY <1>2, <1>3, <1>4, <1>5, <1>6 DEF Next, Proceeds

LEMMA NextRunsOnce ==
  ASSUME IInv, [Next]_vars PROVE RunsOnce
<1> SUFFICES ASSUME NEW w \in Workers, info'[w] # info[w], info'[w] # None
             PROVE  /\ args.start <= info'[w][1] /\ info'[w][1] < info'[w][2]
                    /\ info'[w][2] <= args.end
                    /\ at' # "inline" => info'[w][2] - info'[w][1] <= args.chunk
                    /\ ItemsOf(info'[w]) \intersect ran = {}
  BY DEF RunsOnce
<1>1. TypeInv /\ QueueInv /\ TaskInv /\ IdleInv /\ DisjointInv
  BY DEF IInv
<1>2. CASE CallInline
  <2>1. /\ info' = [info EXCEPT ![0] = <<args.start, args.end>>]
        /\ ran = {} /\ at' = "inline" /\ (args.start + 1) % WordSize = args.end
    BY <1>1, <1>2 DEF CallInline, IdleInv
  <2>2. info'[w] = <<args.start, args.end>>
    BY <1>1, <2>1 DEF TypeInv
  <2>3. args.start < args.end
    <3>1. args.start + 1 \in Nat /\ args.start < WordSize
      BY <1>1, ArgsFacts
    <3>2. CASE args.start + 1 < WordSize
      BY <1>1, <2>1, <3>1, <3>2, ArgsFacts, ModIs
    <3>3. CASE args.start + 1 = WordSize
      <4>1. (args.start + 1) % WordSize = 0
        BY <1>1, <3>1, <3>3, ArgsFacts
      <4>2. args.start = 0 /\ args.end = 0
        BY <1>1, <2>1, <4>1, ArgsFacts
      <4>3. info'[w] = None
        BY <2>2, <4>2 DEF None
      <4>. QED BY <4>3
    <3>. QED BY <1>1, <3>1, <3>2, <3>3, ArgsFacts
  <2>. QED BY <1>1, <2>1, <2>2, <2>3, ArgsFacts
<1>3. CASE CallFunction(w)
  <2>1. /\ task[w] # None /\ info[w] = None /\ at' = at /\ at = "runs"
    BY <1>1, <1>3 DEF CallFunction, InTask, IdleInv, TypeInv
  <2>2. PICK e \in Nat :
           /\ task[w][1] < e /\ e <= task[w][2] /\ e - task[w][1] <= args.chunk
           /\ info' = [info EXCEPT ![w] = <<task[w][1], e>>]
    BY <1>3, CallFunctionIs
  <2>3. info'[w] = <<task[w][1], e>>
    BY <1>1, <2>2 DEF TypeInv
  <2>4. /\ task[w][1] \in Nat /\ task[w][2] \in Nat /\ Bound \in Nat
        /\ args.start \in Nat /\ args.end \in Nat /\ args.start <= Bound
        /\ Bound <= task[w][1] /\ task[w][2] <= args.end
    BY <1>1, <2>1, WorkerFacts, BoundFacts, ArgsFacts DEF TaskInv
  <2>5. task[w][1] .. (e - 1) \subseteq Fresh(w) /\ Fresh(w) \intersect ran = {}
    BY <1>1, <2>1, <2>2, <2>4 DEF Fresh, FreshFrom, DisjointInv
  <2>. QED BY <2>2, <2>3, <2>4, <2>5 DEF ItemsOf
<1>. QED BY <1>2, <1>3, OnlyCallsRun

-----------------------------------------------------------------------------
(* Chunks that are handled at the same time have no item in common.        *)
RunningInv ==
  /\ \A w \in Workers : info[w] # None =>
       /\ args.start <= info[w][1] /\ info[w][1] < info[w][2] /\ info[w][2] <= args.end
       /\ info[w][2] - info[w][1] <= args.chunk
       /\ ItemsOf(info[w]) \subseteq ran
  /\ \A v, w \in Workers :
       v # w /\ info[v] # None /\ info[w] # None => ItemsOf(info[v]) \intersect ItemsOf(info[w]) = {}

LEMMA ArgsStay ==
  ASSUME IInv, [Next]_vars
  PROVE  args' = args /\ Workers' = Workers /\ ran \subseteq ran'
<1>1. CASE UNCHANGED vars \/ Returned
  BY <1>1 DEF vars, Workers, Returned
<1>2. CASE Proceeds
  BY <1>2 DEF Proceeds, CallInline, Splits, QueueTask, AllQueued, TakeTask, CallFunction, TaskEnds, Return,
               Workers, IInv, IdleInv
<1>3. CASE InlineReturns
  BY <1>3 DEF InlineReturns, Workers
<1>4. ASSUME NEW w \in Workers, FunctionReturns(w) \/ FunctionThrows(w) PROVE args' = args /\ ran' = ran
  BY <1>4 DEF FunctionReturns, FunctionThrows
<1>. QED BY <1>1, <1>2, <1>3, <1>4 DEF Next, Workers

(* What is known of a chunk that the function is given.                    *)
LEMMA NewChunk ==
  ASSUME IInv, [Next]_vars, NEW w \in Workers, info'[w] # info[w], info'[w] # None
  PROVE  /\ info[w] = None
         /\ args.start <= info'[w][1] /\ info'[w][1] < info'[w][2] /\ info'[w][2] <= args.end
         /\ info'[w][2] - info'[w][1] <= args.chunk
         /\ ItemsOf(info'[w]) \intersect ran = {}
         /\ ran' = ran \union ItemsOf(info'[w])
         /\ info' = [info EXCEPT ![w] = info'[w]]
<1>1. /\ args.start <= info'[w][1] /\ info'[w][1] < info'[w][2] /\ info'[w][2] <= args.end
      /\ at' # "inline" => info'[w][2] - info'[w][1] <= args.chunk
      /\ ItemsOf(info'[w]) \intersect ran = {}
  BY NextRunsOnce DEF RunsOnce
<1>2. CASE CallInline
  <2>1. /\ info' = [info EXCEPT ![0] = <<args.start, args.end>>]
        /\ ran = {} /\ ran' = ItemsOf(<<args.start, args.end>>) /\ info[w] = None
        /\ (args.start + 1) % WordSize = args.end
    BY <1>2 DEF CallInline, IInv, IdleInv
  <2>2. w = 0 /\ info'[w] = <<args.start, args.end>>
    BY <2>1 DEF IInv, TypeInv
  <2>3. args.end <= args.start + 1 /\ args.start \in Nat /\ args.end \in Nat /\ args.chunk \in Nat /\ args.chunk >= 1
    <3>1. args.start \in Nat /\ args.end \in Nat /\ args.chunk \in Nat /\ args.chunk >= 1 /\ WordSize \in Nat \ {0}
          /\ args.start < WordSize
      BY ArgsFacts DEF IInv
    <3>2. CASE args.start + 1 < WordSize
      BY <2>1, <3>1, <3>2, ModIs
    <3>3. CASE args.start + 1 = WordSize
      BY <2>1, <3>1, <3>3
    <3>. QED BY <3>1, <3>2, <3>3
  <2>4. info'[w][2] - info'[w][1] <= args.chunk
    BY <2>2, <2>3
  <2>5. ran' = ran \union ItemsOf(info'[w]) /\ info' = [info EXCEPT ![w] = info'[w]]
    BY <2>1, <2>2
  <2>. QED BY <1>1, <2>1, <2>4, <2>5
<1>3. CASE CallFunction(w)
  <2>1. PICK chunk : /\ info' = [info EXCEPT ![w] = chunk]
                     /\ ran' = ran \union ItemsOf(chunk) /\ info[w] = None /\ at' = at
    BY <1>3 DEF CallFunction, InTask
  <2>2. info'[w] = chunk
    BY <2>1 DEF IInv, TypeInv
  <2>3. at # "inline"
    BY <1>3 DEF IInv, IdleInv, CallFunction, InTask
  <2>. QED BY <1>1, <2>1, <2>2, <2>3
<1>. QED BY <1>2, <1>3, OnlyCallsRun

LEMMA RunningStep ==
  ASSUME IInv, RunningInv, [Next]_vars PROVE RunningInv'
<1> DEFINE Good(w) == /\ args.start <= info[w][1] /\ info[w][1] < info[w][2] /\ info[w][2] <= args.end
                      /\ info[w][2] - info[w][1] <= args.chunk
                      /\ ItemsOf(info[w]) \subseteq ran
<1>1. args' = args /\ Workers' = Workers /\ ran \subseteq ran'
  BY ArgsStay
<1>2. ASSUME NEW w \in Workers, info'[w] # None PROVE Good(w)'
  <2>1. CASE info'[w] = info[w]
    <3>1. Good(w)
      BY <1>2, <2>1 DEF RunningInv
    <3>2. ItemsOf(info[w])' = ItemsOf(info[w])
      BY <2>1 DEF ItemsOf
    <3>. QED BY <1>1, <2>1, <3>1, <3>2
  <2>2. CASE info'[w] # info[w]
    <3>1. /\ args.start <= info'[w][1] /\ info'[w][1] < info'[w][2] /\ info'[w][2] <= args.end
          /\ info'[w][2] - info'[w][1] <= args.chunk /\ ran' = ran \union ItemsOf(info'[w])
      BY <1>2, <2>2, NewChunk
    <3>2. ItemsOf(info[w])' = ItemsOf(info'[w])
      BY DEF ItemsOf
    <3>. QED BY <1>1, <3>1, <3>2
  <2>. QED BY <2>1, <2>2
<1>3. ASSUME NEW v \in Workers, NEW w \in Workers, v # w, info'[v] # None, info'[w] # None, info'[w] # info[w]
      PROVE  ItemsOf(info'[v]) \intersect ItemsOf(info'[w]) = {}
  <2>1. info' = [info EXCEPT ![w] = info'[w]] /\ ItemsOf(info'[w]) \intersect ran = {}
    BY <1>3, NewChunk
  <2>2. info'[v] = info[v]
    BY <1>3, <2>1 DEF IInv, TypeInv
  <2>3. ItemsOf(info'[v]) \subseteq ran
    BY <1>3, <2>2 DEF RunningInv
  <2>. QED BY <2>1, <2>3
<1>4. ASSUME NEW v \in Workers, NEW w \in Workers, v # w, info'[v] # None, info'[w] # None
      PROVE  ItemsOf(info'[v]) \intersect ItemsOf(info'[w]) = {}
  <2>1. CASE info'[w] # info[w]
    BY <1>3, <1>4, <2>1
  <2>2. CASE info'[v] # info[v]
    BY <1>3, <1>4, <2>2
  <2>3. CASE info'[v] = info[v] /\ info'[w] = info[w]
    BY <1>4, <2>3 DEF RunningInv
  <2>. QED BY <2>1, <2>2, <2>3
<1>. QED BY <1>1, <1>2, <1>4 DEF RunningInv, ItemsOf

(* ParallelFor goes on: a worker gets a chunk, or nothing changes for the  *)
(* function.                                                               *)
LEMMA ProceedsIs ==
  ASSUME IInv, Proceeds
  PROVE  /\ args' = args /\ skipped' = skipped
         /\ \A w \in Workers : info'[w] = info[w] \/ (info[w] = None /\ info'[w] # None)
         /\ \A x \in ran' : x \in ran \/ \E w \in Workers : info'[w] # info[w] /\ x \in ItemsOf(info'[w])
<1>0. info \in [Workers -> Nat \X Nat]
  BY DEF IInv, TypeInv
<1>1. CASE Splits \/ QueueTask \/ AllQueued \/ Return
  BY <1>1 DEF Splits, QueueTask, AllQueued, Return
<1>2. ASSUME NEW w \in Workers, TakeTask(w) \/ TaskEnds(w)
      PROVE  UNCHANGED <<args, info, ran, skipped>>
  BY <1>2 DEF TakeTask, TaskEnds
<1>3. CASE CallInline
  <2>1. /\ info' = [info EXCEPT ![0] = <<args.start, args.end>>] /\ UNCHANGED <<args, skipped>>
        /\ ran' = ItemsOf(<<args.start, args.end>>) /\ \A w \in Workers : info[w] = None
    BY <1>3 DEF CallInline, IInv, IdleInv
  <2>2. 0 \in Workers
    BY ArgsFacts DEF IInv
  <2>3. info'[0] = <<args.start, args.end>> /\ \A w \in Workers : w # 0 => info'[w] = info[w]
    BY <1>0, <2>1, <2>2
  <2>4. ItemsOf(None) = {}
    BY DEF ItemsOf, None
  <2>. QED BY <2>1, <2>2, <2>3, <2>4
<1>4. ASSUME NEW w \in Workers, CallFunction(w)
      PROVE  /\ args' = args /\ skipped' = skipped
             /\ \A v \in Workers : info'[v] = info[v] \/ (info[v] = None /\ info'[v] # None)
             /\ \A x \in ran' : x \in ran \/ \E v \in Workers : info'[v] # info[v] /\ x \in ItemsOf(info'[v])
  <2>1. PICK chunk : /\ info' = [info EXCEPT ![w] = chunk] /\ UNCHANGED <<args, skipped>>
                     /\ ran' = ran \union ItemsOf(chunk) /\ info[w] = None
    BY <1>4 DEF CallFunction, InTask
  <2>2. info'[w] = chunk /\ \A v \in Workers : v # w => info'[v] = info[v]
    BY <1>0, <2>1
  <2>3. ItemsOf(None) = {}
    BY DEF ItemsOf, None
  <2>. QED BY <2>1, <2>2, <2>3
<1>. QED BY <1>1, <1>2, <1>3, <1>4 DEF Proceeds

LEMMA ReturnsIs ==
  ASSUME IInv, NEW w \in Workers, info[w] # None, InlineReturns \/ FunctionReturns(w)
  PROVE  /\ args' = args /\ skipped' = skipped /\ ran' = ran
         /\ info' = [info EXCEPT ![w] = None]
<1>1. CASE InlineReturns
  <2>1. w = 0
    BY <1>1 DEF InlineReturns, IInv, IdleInv
  <2>. QED BY <1>1, <2>1 DEF InlineReturns
<1>2. CASE FunctionReturns(w)
  BY <1>2 DEF FunctionReturns
<1>. QED BY <1>1, <1>2

-----------------------------------------------------------------------------
(* What the evaluation has done so far: everything in memory follows from  *)
(* the items that have been handled and from where the workers are.        *)
NColumns == Len(job.columns)
NPeriodic == Len(job.periodic)
NCalls == NColumns + NPeriodic + 1

(* The number of the call that is made now. *)
Now == NCalls - Len(calls) + 1

CallsInv ==
  /\ job \in Jobs
  /\ IsList(calls) /\ Len(calls) \in 1..NCalls
  /\ \A i \in 1..Len(calls) : calls[i] = CallsOfJob[Now - 1 + i]
  /\ args = calls[1].args
  /\ skipped = {}

(* What a worker has left of its chunk, and what has been done for good. *)
Place(w) == IF Func = "EvalOnCoset" THEN info[w][1] ELSE local[w].k
Pending(w) == IF info[w] = None THEN {} ELSE Place(w) .. (info[w][2] - 1)
Handled == {x \in ran : \A w \in Workers : x \notin Pending(w)}

(* Items of the n-th call that have been handled. *)
Past(n) == IF n < Now THEN Nat ELSE IF n = Now THEN Handled ELSE {}

IsFunction(f, S) == f = [x \in S |-> f[x]]

Fields == {"periodic_columns_iter", "evals", "batch_inverse"}

ShapeInv ==
  /\ IsFunction(local, Workers) /\ IsFunction(worker_mem, Workers)
  /\ \A w \in Workers : IsFunction(worker_mem[w], Fields)

Value(p) ==
  [neighbors |-> [m \in DOMAIN job.mask |-> <<job.mask[m][2], (p + job.mask[m][1]) % coset_size>>],
   periodic  |-> [i \in DOMAIN job.periodic |-> p % period_in_trace(job.periodic[i])],
   domain    |-> [i \in DOMAIN job.domain_evals |-> p % job.domain_evals[i]],
   point     |-> p]

InitialPoint(w) == job.task_size * info[w][1]
EndPoint(w) == IF job.task_size < coset_size - InitialPoint(w) THEN InitialPoint(w) + job.task_size ELSE coset_size

InLoop(w) ==
  /\ local[w].k \in info[w][1] .. info[w][2]
  /\ \/ local[w] = [pc |-> "begin", k |-> local[w].k]
     \/ /\ Func = "BitReverseInPlace" /\ local[w].k < info[w][2] /\ Swaps(local[w].k)
        /\ local[w] = [pc |-> "swap", k |-> local[w].k,
                       read |-> <<<<Now, Reversed(local[w].k)>>, <<Now, local[w].k>>>>]

Frame(w, pc, idx, point) ==
  [pc |-> pc, initial |-> InitialPoint(w), end |-> EndPoint(w), idx |-> idx, point |-> point]

ValuesUpTo(w, idx) ==
  \A k \in 0 .. (idx - InitialPoint(w) - 1) :
    k \in DOMAIN worker_mem[w].batch_inverse /\ worker_mem[w].batch_inverse[k] = Value(InitialPoint(w) + k)

IteratorsAt(w, idx) ==
  worker_mem[w].periodic_columns_iter =
    [i \in DOMAIN job.periodic |-> idx % period_in_trace(job.periodic[i])]

EvalsAt(w, idx) ==
  worker_mem[w].evals =
    [periodic |-> [i \in DOMAIN job.periodic |-> idx % period_in_trace(job.periodic[i])],
     domain   |-> [i \in DOMAIN job.domain_evals |-> idx % job.domain_evals[i]]]

AtColumns(w) ==
  /\ local[w] = Frame(w, "columns", local[w].idx, local[w].idx)
  /\ local[w].idx \in InitialPoint(w) .. EndPoint(w)
  /\ ValuesUpTo(w, local[w].idx) /\ IteratorsAt(w, local[w].idx)

AtConstraints(w) ==
  /\ local[w] = Frame(w, "constraints", local[w].idx, local[w].idx)
  /\ local[w].idx \in InitialPoint(w) .. (EndPoint(w) - 1)
  /\ ValuesUpTo(w, local[w].idx) /\ IteratorsAt(w, local[w].idx + 1) /\ EvalsAt(w, local[w].idx)

AtOutput(w) ==
  /\ local[w] = Frame(w, "output", local[w].idx, EndPoint(w))
  /\ local[w].idx \in InitialPoint(w) .. EndPoint(w)
  /\ ValuesUpTo(w, EndPoint(w))

AtBegin(w) == local[w] = [pc |-> "begin", k |-> info[w][1]]

InEval(w) == AtBegin(w) \/ AtColumns(w) \/ AtConstraints(w) \/ AtOutput(w)

WorkerInv(w) == info[w] # None => IF Func = "EvalOnCoset" THEN InEval(w) ELSE InLoop(w)
LocalInv == \A w \in Workers : WorkerInv(w)

(* The index in whose turn a pair is swapped. *)
Turn(k) == IF k < Reversed(k) THEN k ELSE Reversed(k)

ColumnInv ==
  column = [c \in DOMAIN job.columns |-> [k \in Points |->
              IF c \notin job.cached /\ Turn(k) \in Past(c) THEN <<c, k>> ELSE <<c, Reversed(k)>>]]

NaturalInv ==
  natural = [c \in job.cached |-> [k \in Points |->
               IF Reversed(k) \in Past(c) THEN <<c, k>> ELSE Unset]]

PeriodicInv ==
  period_on_coset = [i \in DOMAIN job.periodic |->
    IF Now < NColumns + i THEN <<>>
    ELSE [x \in 0 .. (period_in_trace(job.periodic[i]) - 1) |->
            IF x % job.periodic[i].column_step \in Past(NColumns + i) THEN x ELSE Unset]]

(* A worker has written the value of the point. *)
WrittenBy(w, p) == /\ Func = "EvalOnCoset" /\ info[w] # None /\ local[w].pc = "output"
                   /\ InitialPoint(w) <= p /\ p < local[w].idx

Written(p) == p \div job.task_size \in Past(NCalls) \/ \E w \in Workers : WrittenBy(w, p)

OutputInv ==
  out_evaluation = [k \in Points |-> IF Written(Reversed(k)) THEN Value(Reversed(k)) ELSE NoValue]

JobInv == /\ CallsInv /\ ShapeInv /\ LocalInv
          /\ ColumnInv /\ NaturalInv /\ PeriodicInv /\ OutputInv

EInv == IInv /\ RunningInv /\ (calls # <<>> => JobInv)

-----------------------------------------------------------------------------
LEMMA JobFacts ==
  ASSUME job \in Jobs
  PROVE  /\ WordSize \in Nat \ {0} /\ MinWorkChunk \in Nat /\ MinWorkChunk < WordSize
         /\ job.log_coset_size \in Nat /\ coset_size \in Nat \ {0}
         /\ job.task_size \in Nat \ {0} /\ job.threads \in Nat \ {0} /\ job.threads < WordSize
         /\ coset_size + job.task_size <= WordSize
         /\ NColumns \in Nat \ {0} /\ DOMAIN job.columns = 1..NColumns
         /\ NPeriodic \in Nat /\ DOMAIN job.periodic = 1..NPeriodic
         /\ job.cached \subseteq 1..NColumns
<1>1. /\ MinWorkChunk \in Words \ {0}
      /\ job.log_coset_size \in Nat /\ job.task_size \in Words \ {0} /\ job.threads \in Words \ {0}
      /\ Pow2[job.log_coset_size] + job.task_size <= WordSize
      /\ job.columns \in Seq(Nat) \ {<<>>}
      /\ job.cached \subseteq DOMAIN job.columns
      /\ job.periodic \in Seq([column_step : Words \ {0}, n_values : Words \ {0}])
  BY JobsAssumption
<1>2. coset_size \in Nat \ {0}
  BY <1>1, Pow2Is DEF coset_size
<1>3. NColumns \in Nat \ {0} /\ DOMAIN job.columns = 1..NColumns
  BY <1>1 DEF NColumns
<1>4. NPeriodic \in Nat /\ DOMAIN job.periodic = 1..NPeriodic
  BY <1>1 DEF NPeriodic
<1>. QED BY <1>1, <1>2, <1>3, <1>4, CallsAssumption DEF Words, coset_size

LEMMA PeriodFacts ==
  ASSUME job \in Jobs, NEW i \in 1..NPeriodic
  PROVE  /\ job.periodic[i].column_step \in Nat \ {0} /\ job.periodic[i].n_values \in Nat \ {0}
         /\ job.periodic[i].column_step < WordSize
         /\ job.periodic[i].column_step + 4 * job.threads <= WordSize
         /\ period_in_trace(job.periodic[i]) \in Nat \ {0}
<1>1. /\ job.periodic \in Seq([column_step : Words \ {0}, n_values : Words \ {0}])
      /\ \A k \in DOMAIN job.periodic : job.periodic[k].column_step + kTaskRedudencyFactor * job.threads <= WordSize
  BY JobsAssumption
<1>2. i \in DOMAIN job.periodic
  BY JobFacts
<1>3. job.periodic[i] \in [column_step : Words \ {0}, n_values : Words \ {0}]
  <2>1. PICK R : R = [column_step : Words \ {0}, n_values : Words \ {0}]
    OBVIOUS
  <2>2. job.periodic \in Seq(R)
    BY <1>1, <2>1
  <2>3. job.periodic[i] \in R
    BY <1>2, <2>2
  <2>. QED BY <2>1, <2>3
<1>4. PICK p : p = job.periodic[i]
  OBVIOUS
<1>5. p.column_step \in Words \ {0} /\ p.n_values \in Words \ {0}
  BY <1>3, <1>4
<1>6. p.column_step \in Nat \ {0} /\ p.n_values \in Nat \ {0} /\ p.column_step < WordSize
  BY <1>5, CallsAssumption DEF Words
<1>7. period_in_trace(p) \in Nat \ {0}
  BY <1>6 DEF period_in_trace
<1>. QED BY <1>1, <1>2, <1>4, <1>6, <1>7 DEF kTaskRedudencyFactor

LEMMA MaskFacts ==
  ASSUME job \in Jobs
  PROVE  /\ \A m \in DOMAIN job.mask : job.mask[m][1] \in Nat /\ job.mask[m][2] \in 1..NColumns
         /\ \A i \in DOMAIN job.domain_evals : job.domain_evals[i] \in Nat \ {0}
<1>1. job.mask \in Seq(Nat \X DOMAIN job.columns) /\ job.domain_evals \in Seq(Nat \ {0})
  BY JobsAssumption
<1>2. DOMAIN job.columns = 1..NColumns
  BY JobFacts
<1>3. ASSUME NEW m \in DOMAIN job.mask PROVE job.mask[m] \in Nat \X (1..NColumns)
  BY <1>1, <1>2
<1>4. ASSUME NEW i \in DOMAIN job.domain_evals PROVE job.domain_evals[i] \in Nat \ {0}
  BY <1>1
<1>. QED BY <1>3, <1>4

LEMMA CallNumbers ==
  ASSUME job \in Jobs
  PROVE  /\ IsList(CallsOfJob) /\ Len(CallsOfJob) = NCalls
         /\ \A c \in 1..NColumns : CallsOfJob[c] = Reversal(c)
         /\ \A i \in 1..NPeriodic : CallsOfJob[NColumns + i] = GetCoset(i)
         /\ CallsOfJob[NCalls] = Evaluate
<1>1. PICK r, g, e : /\ r = [c \in DOMAIN job.columns |-> Reversal(c)]
                     /\ g = [i \in DOMAIN job.periodic |-> GetCoset(i)]
                     /\ e = <<Evaluate>>
  OBVIOUS
<1>2. CallsOfJob = (r \o g) \o e
  BY <1>1 DEF CallsOfJob
<1>3. NColumns \in Nat /\ DOMAIN job.columns = 1..NColumns /\ NPeriodic \in Nat /\ DOMAIN job.periodic = 1..NPeriodic
  BY JobFacts
<1>4. IsList(r) /\ Len(r) = NColumns /\ \A c \in 1..NColumns : r[c] = Reversal(c)
  <2>1. r = [c \in 1..NColumns |-> r[c]] /\ \A c \in 1..NColumns : r[c] = Reversal(c)
    BY <1>1, <1>3
  <2>. QED BY <2>1, <1>3, IndexedIsList
<1>5. IsList(g) /\ Len(g) = NPeriodic /\ \A i \in 1..NPeriodic : g[i] = GetCoset(i)
  <2>1. g = [i \in 1..NPeriodic |-> g[i]] /\ \A i \in 1..NPeriodic : g[i] = GetCoset(i)
    BY <1>1, <1>3
  <2>. QED BY <2>1, <1>3, IndexedIsList
<1>6. IsList(e) /\ Len(e) = 1 /\ e[1] = Evaluate
  BY <1>1, OneElement
<1>7. PICK rg : rg = r \o g
  OBVIOUS
<1>8. /\ IsList(rg) /\ Len(rg) = NColumns + NPeriodic
      /\ \A c \in 1..NColumns : rg[c] = r[c]
      /\ \A i \in 1..NPeriodic : rg[NColumns + i] = g[i]
  BY <1>4, <1>5, <1>7, Joined
<1>9. /\ IsList(rg \o e) /\ Len(rg \o e) = NColumns + NPeriodic + 1
      /\ \A k \in 1..(NColumns + NPeriodic) : (rg \o e)[k] = rg[k]
      /\ \A k \in 1..1 : (rg \o e)[NColumns + NPeriodic + k] = e[k]
  <2>1. /\ IsList(rg \o e) /\ Len(rg \o e) = Len(rg) + Len(e)
        /\ \A k \in 1..Len(rg) : (rg \o e)[k] = rg[k]
        /\ \A k \in 1..Len(e) : (rg \o e)[Len(rg) + k] = e[k]
    <3>1. IsList(rg) /\ IsList(e)
      BY <1>6, <1>8
    <3>. QED BY ONLY <3>1, Joined
  <2>2. PICK whole, m : whole = rg \o e /\ m = NColumns + NPeriodic
    OBVIOUS
  <2>3. /\ IsList(whole) /\ Len(whole) = m + 1
        /\ \A k \in 1..m : whole[k] = rg[k]
        /\ \A k \in 1..1 : whole[m + k] = e[k]
    BY <1>6, <1>8, <2>1, <2>2
  <2>. QED BY <2>2, <2>3
<1>10. \A c \in 1..NColumns : c \in 1..(NColumns + NPeriodic)
  BY <1>3
<1>11. \A i \in 1..NPeriodic : NColumns + i \in 1..(NColumns + NPeriodic)
  BY <1>3
<1>12. CallsOfJob[NCalls] = Evaluate
  BY <1>2, <1>6, <1>7, <1>9 DEF NCalls
<1>13. IsList(CallsOfJob) /\ Len(CallsOfJob) = NCalls
  BY <1>2, <1>7, <1>9 DEF NCalls
<1>14. \A c \in 1..NColumns : CallsOfJob[c] = Reversal(c)
  BY <1>2, <1>4, <1>7, <1>8, <1>9, <1>10
<1>15. \A i \in 1..NPeriodic : CallsOfJob[NColumns + i] = GetCoset(i)
  BY <1>2, <1>5, <1>7, <1>8, <1>9, <1>11
<1>. QED BY <1>12, <1>13, <1>14, <1>15

(* The tasks of the evaluation are as many as cover the coset.             *)
LEMMA TasksCover ==
  ASSUME WordSize \in Nat \ {0}, NEW n \in Nat \ {0}, NEW d \in Nat \ {0}, n + d <= WordSize
  PROVE  /\ DivCeil(n, d) \in Nat /\ DivCeil(n, d) <= n
         /\ \A t \in 0..(DivCeil(n, d) - 1) : d * t < n
         /\ \A p \in 0..(n - 1) : p \div d \in 0..(DivCeil(n, d) - 1)
<1>1. PICK a \in Nat : a = n + d - 1
  OBVIOUS
<1>2. a % WordSize = a
  <2>1. a < WordSize
    BY <1>1
  <2>. QED BY <2>1, ModIs
<1>3. PICK q : q = a \div d
  OBVIOUS
<1>4. DivCeil(n, d) = q
  BY <1>1, <1>2, <1>3 DEF DivCeil
<1>5. q \in Nat /\ d * q <= a /\ a < d * q + d
  BY <1>1, <1>3
<1>6. q <= n
  <2>1. d * q <= n + (d - 1)
    BY <1>1, <1>5
  <2>2. ASSUME q > n PROVE FALSE
    <3>1. q - (n + 1) \in Nat /\ d - 1 \in Nat
      BY <1>5, <2>2
    <3>2. d * q = d * (n + 1) + d * (q - (n + 1)) /\ d * (q - (n + 1)) \in Nat
      BY <1>5, <3>1
    <3>3. d * (n + 1) = d * n + d /\ d * n = n + (d - 1) * n /\ (d - 1) * n \in Nat
      BY <3>1
    <3>. QED BY <2>1, <3>2, <3>3, <1>5
  <2>. QED BY <1>5, <2>2
<1>7. ASSUME NEW t \in 0..(q - 1) PROVE d * t < n
  <2>1. (q - 1) - t \in Nat /\ t \in Nat
    BY <1>5
  <2>2. d * q = d * t + d * ((q - 1) - t) + d /\ d * ((q - 1) - t) \in Nat /\ d * t \in Nat
    BY <2>1, <1>5
  <2>. QED BY <1>1, <1>5, <2>2
<1>8. ASSUME NEW p \in 0..(n - 1) PROVE p \div d \in 0..(q - 1)
  <2>1. PICK s : s = p \div d
    OBVIOUS
  <2>2. s \in Nat /\ d * s <= p
    BY <2>1
  <2>3. ASSUME s >= q PROVE FALSE
    <3>1. s - q \in Nat
      BY <1>5, <2>2, <2>3
    <3>2. d * s = d * q + d * (s - q) /\ d * (s - q) \in Nat
      BY <1>5, <2>2, <3>1
    <3>. QED BY <1>1, <1>5, <2>2, <3>2
  <2>. QED BY <1>5, <2>1, <2>2, <2>3
<1>. QED BY <1>4, <1>5, <1>6, <1>7, <1>8

LEMMA CallIs ==
  ASSUME job \in Jobs, NEW n \in 1..NCalls
  PROVE  /\ IsCall(CallsOfJob[n].args)
         /\ CallsOfJob[n].args.start = 0 /\ CallsOfJob[n].args.threads = job.threads
         /\ n <= NColumns =>
              /\ CallsOfJob[n].func = IF n \in job.cached THEN "BitReverseVector" ELSE "BitReverseInPlace"
              /\ CallsOfJob[n].i = n
              /\ CallsOfJob[n].args.end = coset_size
         /\ NColumns < n /\ n < NCalls =>
              /\ CallsOfJob[n].func = "GetCoset"
              /\ CallsOfJob[n].i = n - NColumns /\ n - NColumns \in 1..NPeriodic
              /\ CallsOfJob[n].args.end = job.periodic[n - NColumns].column_step
         /\ n = NCalls =>
              /\ CallsOfJob[n].func = "EvalOnCoset"
              /\ CallsOfJob[n].args.end = DivCeil(coset_size, job.task_size)
              /\ CallsOfJob[n].args.chunk = 1
<1>1. /\ WordSize \in Nat \ {0} /\ MinWorkChunk \in Words \ {0}
      /\ coset_size \in Words \ {0} /\ job.threads \in Words \ {0}
      /\ NColumns \in Nat /\ NPeriodic \in Nat
  BY JobFacts, JobsAssumption DEF Words
<1>2. CASE n <= NColumns
  <2>1. CallsOfJob[n] = Reversal(n)
    BY <1>1, <1>2, CallNumbers
  <2>2. Reversal(n).args = [start |-> 0, end |-> coset_size, chunk |-> coset_size, work |-> MinWorkChunk,
                            threads |-> job.threads, throwing |-> {}]
    BY DEF Reversal, Call
  <2>3. IsCall(Reversal(n).args)
    BY <1>1, <2>2 DEF IsCall, Words
  <2>4. Reversal(n).func = (IF n \in job.cached THEN "BitReverseVector" ELSE "BitReverseInPlace")
        /\ Reversal(n).i = n
    BY DEF Reversal, Call
  <2>5. n < NCalls
    BY <1>1, <1>2 DEF NCalls
  <2>6. PICK call : call = CallsOfJob[n]
    OBVIOUS
  <2>7. /\ IsCall(call.args) /\ call.args.start = 0 /\ call.args.threads = job.threads
        /\ call.args.end = coset_size
        /\ call.func = (IF n \in job.cached THEN "BitReverseVector" ELSE "BitReverseInPlace") /\ call.i = n
    BY <2>1, <2>2, <2>3, <2>4, <2>6
  <2>. QED BY <1>1, <1>2, <2>5, <2>6, <2>7
<1>3. CASE NColumns < n /\ n < NCalls
  <2>0. PICK i \in 1..NPeriodic : i = n - NColumns /\ NColumns + i = n
    BY <1>1, <1>3 DEF NCalls
  <2>1. CallsOfJob[n] = GetCoset(i)
    BY <2>0, CallNumbers
  <2>2. PICK p : p = job.periodic[i]
    OBVIOUS
  <2>3. /\ p.column_step \in Nat \ {0} /\ p.n_values \in Nat \ {0} /\ p.column_step < WordSize
        /\ p.column_step + 4 * job.threads <= WordSize
    BY <2>2, PeriodFacts
  <2>4. PICK work : work = MinWorkChunk \div p.n_values
    OBVIOUS
  <2>5. work \in Words
    <3>1. MinWorkChunk \in Nat /\ MinWorkChunk < WordSize
      BY <1>1 DEF Words
    <3>2. work \in Nat /\ work <= MinWorkChunk
      BY <2>3, <2>4, <3>1, DivAtLeastOne
    <3>. QED BY <1>1, <3>1, <3>2 DEF Words
  <2>6. GetCoset(i) = [func |-> "GetCoset", i |-> i,
                       args |-> [start |-> 0, end |-> p.column_step, chunk |-> p.column_step, work |-> work,
                                 threads |-> job.threads, throwing |-> {}]]
    BY <2>2, <2>4 DEF GetCoset, Call
  <2>7. IsCall(GetCoset(i).args)
    BY <1>1, <2>3, <2>5, <2>6 DEF IsCall, Words, kTaskRedudencyFactor
  <2>8. PICK call : call = CallsOfJob[n]
    OBVIOUS
  <2>9. /\ IsCall(call.args) /\ call.args.start = 0 /\ call.args.threads = job.threads
        /\ call.args.end = p.column_step /\ call.func = "GetCoset" /\ call.i = i
    BY <2>1, <2>6, <2>7, <2>8
  <2>. QED BY <1>1, <1>3, <2>0, <2>2, <2>8, <2>9
<1>4. CASE n = NCalls
  <2>1. CallsOfJob[n] = Evaluate
    BY <1>4, CallNumbers
  <2>2. PICK end : end = DivCeil(coset_size, job.task_size)
    OBVIOUS
  <2>3. Evaluate = [func |-> "EvalOnCoset", i |-> 0,
                    args |-> [start |-> 0, end |-> end, chunk |-> 1, work |-> 1,
                              threads |-> job.threads, throwing |-> {}]]
    BY <2>2 DEF Evaluate, Call
  <2>4. end \in Nat /\ end <= coset_size /\ 1 < WordSize
    BY <2>2, JobFacts, TasksCover
  <2>5. IsCall(Evaluate.args)
    BY <1>1, <2>3, <2>4 DEF IsCall, Words
  <2>6. NColumns < n
    BY <1>1, <1>4 DEF NCalls
  <2>7. PICK call : call = CallsOfJob[n]
    OBVIOUS
  <2>8. /\ IsCall(call.args) /\ call.args.start = 0 /\ call.args.threads = job.threads
        /\ call.args.end = end /\ call.args.chunk = 1 /\ call.func = "EvalOnCoset"
    BY <2>1, <2>3, <2>5, <2>7
  <2>. QED BY <1>1, <1>4, <2>2, <2>6, <2>7, <2>8
<1>. QED BY <1>1, <1>2, <1>3, <1>4 DEF NCalls

LEMMA CurrentCall ==
  ASSUME CallsInv
  PROVE  /\ Now \in 1..NCalls /\ Head(calls) = CallsOfJob[Now] /\ calls # <<>>
         /\ IsCall(args) /\ args.start = 0 /\ args.threads = job.threads
         /\ Now <= NColumns =>
              /\ Func = IF Now \in job.cached THEN "BitReverseVector" ELSE "BitReverseInPlace"
              /\ I = Now /\ args.end = coset_size
         /\ NColumns < Now /\ Now < NCalls =>
              /\ Func = "GetCoset"
              /\ I = Now - NColumns /\ Now - NColumns \in 1..NPeriodic
              /\ args.end = job.periodic[Now - NColumns].column_step
         /\ Now = NCalls =>
              /\ Func = "EvalOnCoset"
              /\ args.end = DivCeil(coset_size, job.task_size) /\ args.chunk = 1
<1>1. /\ job \in Jobs /\ IsList(calls) /\ Len(calls) \in 1..NCalls
      /\ calls[1] = CallsOfJob[Now - 1 + 1] /\ args = calls[1].args
  <2>1. job \in Jobs /\ IsList(calls) /\ Len(calls) \in 1..NCalls /\ args = calls[1].args
        /\ \A i \in 1..Len(calls) : calls[i] = CallsOfJob[Now - 1 + i]
    BY DEF CallsInv
  <2>. QED BY <2>1, JobFacts DEF NCalls
<1>2. NCalls \in Nat /\ Now \in 1..NCalls /\ Now - 1 + 1 = Now
  <2>1. NColumns \in Nat \ {0} /\ NPeriodic \in Nat
    BY <1>1, JobFacts
  <2>2. NCalls \in Nat
    BY <2>1 DEF NCalls
  <2>. QED BY <1>1, <2>2 DEF Now
<1>3. calls # <<>> /\ Head(calls) = calls[1]
  BY <1>1, <1>2 DEF IsList
<1>4. calls[1] = CallsOfJob[Now]
  BY <1>1, <1>2
<1>5. Head(calls) = CallsOfJob[Now] /\ args = CallsOfJob[Now].args
  BY <1>1, <1>3, <1>4
<1>6. Func = CallsOfJob[Now].func /\ I = CallsOfJob[Now].i
  BY <1>5 DEF Func, I
<1>. QED BY <1>1, <1>2, <1>3, <1>5, <1>6, CallIs

(* Which call the function that a worker is in belongs to.                 *)
LEMMA WhichCall ==
  ASSUME CallsInv
  PROVE  /\ Func \in {"BitReverseInPlace", "BitReverseVector", "GetCoset", "EvalOnCoset"}
         /\ Func = "EvalOnCoset" <=> Now = NCalls
         /\ Func = "BitReverseInPlace" => Now \in 1..NColumns /\ Now \notin job.cached
         /\ Func = "BitReverseVector" => Now \in 1..NColumns /\ Now \in job.cached
         /\ Func = "GetCoset" => NColumns < Now /\ Now < NCalls
<1>1. Now \in 1..NCalls /\ NColumns \in Nat \ {0} /\ NCalls \in Nat /\ NColumns < NCalls
  <2>1. job \in Jobs /\ Now \in 1..NCalls
    BY CurrentCall DEF CallsInv
  <2>2. NColumns \in Nat \ {0} /\ NPeriodic \in Nat
    BY <2>1, JobFacts
  <2>. QED BY <2>1, <2>2 DEF NCalls
<1>2. Now <= NColumns \/ (NColumns < Now /\ Now < NCalls) \/ Now = NCalls
  BY <1>1
<1>. QED BY <1>1, <1>2, CurrentCall

-----------------------------------------------------------------------------
(* How the set of handled items changes.                                   *)
Base == IInv /\ RunningInv /\ CallsInv /\ ShapeInv /\ LocalInv

LEMMA ChunkFacts ==
  ASSUME Base, NEW w \in Workers, info[w] # None
  PROVE  /\ info[w][1] \in Nat /\ info[w][2] \in Nat
         /\ info[w][1] < info[w][2] /\ info[w][2] <= args.end
         /\ ItemsOf(info[w]) \subseteq ran
         /\ Place(w) \in Nat /\ info[w][1] <= Place(w) /\ Place(w) <= info[w][2]
         /\ Pending(w) = Place(w) .. (info[w][2] - 1)
         /\ Pending(w) \subseteq ItemsOf(info[w])
<1>1. info[w][1] \in Nat /\ info[w][2] \in Nat
  BY WorkerFacts DEF Base, IInv
<1>2. info[w][1] < info[w][2] /\ info[w][2] <= args.end /\ ItemsOf(info[w]) \subseteq ran
  BY DEF Base, RunningInv
<1>3. Place(w) \in Nat /\ info[w][1] <= Place(w) /\ Place(w) <= info[w][2]
  <2>1. CASE Func = "EvalOnCoset"
    BY <1>1, <1>2, <2>1 DEF Place
  <2>2. CASE Func # "EvalOnCoset"
    <3>1. local[w].k \in info[w][1] .. info[w][2]
      BY <2>2 DEF Base, LocalInv, WorkerInv, InLoop
    <3>. QED BY <1>1, <2>2, <3>1 DEF Place
  <2>. QED BY <2>1, <2>2
<1>4. Pending(w) = Place(w) .. (info[w][2] - 1)
  BY DEF Pending
<1>. QED BY <1>1, <1>2, <1>3, <1>4 DEF ItemsOf

(* What a worker has no longer before it has been handled.                 *)
LEMMA HandledGrows ==
  ASSUME Base, NEW w \in Workers, ran' = ran, args' = args,
         \A v \in Workers : v # w => Pending(v)' = Pending(v),
         Pending(w)' \subseteq Pending(w)
  PROVE  Handled' = Handled \union (Pending(w) \ Pending(w)')
<1>1. Workers' = Workers
  BY DEF Workers
<1>2. \A v \in Workers : info[v] = None => Pending(v) = {}
  BY DEF Pending
<1>3. Pending(w) \subseteq ran
  BY <1>2, ChunkFacts
<1>4. ASSUME NEW v \in Workers, v # w PROVE Pending(v) \intersect Pending(w) = {}
  <2>1. CASE info[v] # None /\ info[w] # None
    <3>1. Pending(v) \subseteq ItemsOf(info[v]) /\ Pending(w) \subseteq ItemsOf(info[w])
      BY <2>1, ChunkFacts
    <3>2. ItemsOf(info[v]) \intersect ItemsOf(info[w]) = {}
      BY <1>4, <2>1 DEF Base, RunningInv
    <3>. QED BY <3>1, <3>2
  <2>. QED BY <1>2, <2>1
<1>5. ASSUME NEW x PROVE x \in Handled' <=> x \in Handled \/ (x \in Pending(w) /\ x \notin Pending(w)')
  <2>1. x \in Handled' <=> x \in ran /\ \A v \in Workers : x \notin Pending(v)'
    BY <1>1 DEF Handled
  <2>2. x \in Handled <=> x \in ran /\ \A v \in Workers : x \notin Pending(v)
    BY DEF Handled
  <2>. QED BY <1>3, <1>4, <2>1, <2>2
<1>. QED BY <1>5

LEMMA PastGrows ==
  ASSUME CallsInv, UNCHANGED <<job, calls>>, NEW n
  PROVE  /\ n # Now => Past(n)' = Past(n)
         /\ n = Now => Past(n) = Handled /\ Past(n)' = Handled'
         /\ Handled' = Handled => Past(n)' = Past(n)
<1>1. Now' = Now
  BY DEF Now, NCalls, NColumns, NPeriodic
<1>2. ~ (Now < Now)
  <2>1. Now \in 1..NCalls
    BY CurrentCall
  <2>2. job \in Jobs
    BY DEF CallsInv
  <2>3. NColumns \in Nat /\ NPeriodic \in Nat
    BY <2>2, JobFacts
  <2>. QED BY <2>1, <2>3 DEF NCalls
<1>. QED BY <1>1, <1>2 DEF Past

(* A worker stays where it is, or one item further.                        *)
LEMMA MoveHandles ==
  ASSUME Base, NEW w \in Workers, info[w] # None, NEW record,
         local' = [local EXCEPT ![w] = record], UNCHANGED vars, UNCHANGED <<job, calls>>
  PROVE  /\ Func = "EvalOnCoset" => Handled' = Handled
         /\ Func # "EvalOnCoset" /\ record.k = local[w].k => Handled' = Handled
         /\ Func # "EvalOnCoset" /\ record.k = local[w].k + 1 /\ local[w].k < info[w][2] =>
              Handled' = Handled \union {local[w].k}
<1>0. /\ args' = args /\ ran' = ran /\ info' = info /\ Func' = Func
      /\ local'[w] = record /\ \A v \in Workers : v # w => local'[v] = local[v]
  BY DEF vars, Func, Base, ShapeInv, IsFunction
<1>1. \A v \in Workers : v # w => Pending(v)' = Pending(v)
  BY <1>0 DEF Pending, Place
<1>2. Pending(w)' = Place(w)' .. (info[w][2] - 1) /\ Pending(w) = Place(w) .. (info[w][2] - 1)
  BY <1>0 DEF Pending
<1>3. Place(w) \in Nat /\ Place(w) <= info[w][2] /\ info[w][2] \in Nat
  BY ChunkFacts
<1>4. ASSUME Func = "EvalOnCoset" PROVE Handled' = Handled
  <2>1. Place(w)' = Place(w)
    BY <1>0, <1>4 DEF Place
  <2>. QED BY <1>0, <1>1, <1>2, <2>1, HandledGrows
<1>5. ASSUME Func # "EvalOnCoset", record.k = local[w].k PROVE Handled' = Handled
  <2>1. Place(w)' = Place(w)
    BY <1>0, <1>5 DEF Place
  <2>. QED BY <1>0, <1>1, <1>2, <2>1, HandledGrows
<1>6. ASSUME Func # "EvalOnCoset", record.k = local[w].k + 1, local[w].k < info[w][2]
      PROVE  Handled' = Handled \union {local[w].k}
  <2>1. Place(w) = local[w].k /\ Place(w)' = local[w].k + 1
    BY <1>0, <1>6 DEF Place
  <2>2. Pending(w)' \subseteq Pending(w) /\ Pending(w) \ Pending(w)' = {local[w].k}
    BY <1>2, <1>3, <1>6, <2>1
  <2>. QED BY <1>0, <1>1, <2>2, HandledGrows
<1>. QED BY <1>4, <1>5, <1>6

LEMMA ReturnHandles ==
  ASSUME Base, NEW w \in Workers, info[w] # None, Finished(w), UNCHANGED <<job, calls>>
  PROVE  /\ Handled' = Handled \union Pending(w)
         /\ args' = args /\ skipped' = skipped /\ ran' = ran /\ Workers' = Workers /\ Func' = Func
         /\ local'[w] = <<>> /\ \A v \in Workers : v # w => local'[v] = local[v]
         /\ info'[w] = None /\ \A v \in Workers : v # w => info'[v] = info[v]
<1>1. /\ args' = args /\ skipped' = skipped /\ ran' = ran
      /\ info' = [info EXCEPT ![w] = None] /\ local' = [local EXCEPT ![w] = <<>>]
  BY ReturnsIs DEF Finished, Base
<1>2. /\ local'[w] = <<>> /\ \A v \in Workers : v # w => local'[v] = local[v]
      /\ info'[w] = None /\ \A v \in Workers : v # w => info'[v] = info[v]
  BY <1>1 DEF Base, ShapeInv, IsFunction, IInv, TypeInv
<1>3. Func' = Func /\ Workers' = Workers
  BY <1>1 DEF Func, Workers
<1>4. Pending(w)' = {} /\ \A v \in Workers : v # w => Pending(v)' = Pending(v)
  BY <1>2, <1>3 DEF Pending, Place
<1>. QED BY <1>1, <1>2, <1>3, <1>4, HandledGrows

LEMMA ParallelHandles ==
  ASSUME Base, Parallel
  PROVE  /\ Handled' = Handled
         /\ args' = args /\ skipped' = skipped /\ Workers' = Workers /\ Func' = Func
         /\ UNCHANGED <<job, calls, column, natural, period_on_coset, worker_mem, out_evaluation>>
         /\ \A w \in Workers :
              \/ info'[w] = info[w] /\ local'[w] = local[w]
              \/ info[w] = None /\ local'[w] = [pc |-> "begin", k |-> info'[w][1]]
         /\ IsFunction(local, Workers)'
<1>1. /\ args' = args /\ skipped' = skipped
      /\ \A w \in Workers : info'[w] = info[w] \/ (info[w] = None /\ info'[w] # None)
      /\ \A x \in ran' : x \in ran \/ \E w \in Workers : info'[w] # info[w] /\ x \in ItemsOf(info'[w])
  BY ProceedsIs DEF Parallel, Base
<1>2. /\ local' = [w \in Workers |-> IF info'[w] # info[w] THEN [pc |-> "begin", k |-> info'[w][1]]
                                                         ELSE local[w]]
      /\ UNCHANGED <<job, calls, column, natural, period_on_coset, worker_mem, out_evaluation>>
  BY DEF Parallel
<1>3. Func' = Func /\ Workers' = Workers
  BY <1>1, <1>2 DEF Func, Workers
<1>4. IInv /\ [Next]_vars
  BY DEF Parallel, Next, Base
<1>5. ran \subseteq ran'
  BY <1>4, ArgsStay
<1>6. ASSUME NEW w \in Workers, info'[w] # info[w]
      PROVE  /\ Pending(w) = {} /\ Pending(w)' = ItemsOf(info'[w])
             /\ ItemsOf(info'[w]) \intersect ran = {}
  <2>1. info[w] = None /\ info'[w] # None /\ ItemsOf(info'[w]) \intersect ran = {}
    BY <1>1, <1>4, <1>6, NewChunk
  <2>2. local'[w].k = info'[w][1]
    BY <1>2, <1>6
  <2>3. Place(w)' = info'[w][1]
    BY <2>2 DEF Place
  <2>. QED BY <2>1, <2>3 DEF Pending, ItemsOf
<1>7. ASSUME NEW w \in Workers, info'[w] = info[w] PROVE Pending(w)' = Pending(w)
  BY <1>2, <1>3, <1>7 DEF Pending, Place
<1>8. Handled' = Handled
  <2>1. ASSUME NEW x PROVE x \in Handled' <=> x \in Handled
    <3>1. x \in Handled' <=> x \in ran' /\ \A v \in Workers : x \notin Pending(v)'
      BY <1>3 DEF Handled
    <3>2. x \in Handled <=> x \in ran /\ \A v \in Workers : x \notin Pending(v)
      BY DEF Handled
    <3>3. ASSUME x \in Handled' PROVE x \in Handled
      BY <1>1, <1>6, <1>7, <3>1, <3>2, <3>3
    <3>4. ASSUME x \in Handled PROVE x \in Handled'
      BY <1>5, <1>6, <1>7, <3>1, <3>2, <3>4
    <3>. QED BY <3>3, <3>4
  <2>. QED BY <2>1
<1>9. ASSUME NEW w \in Workers
      PROVE  \/ info'[w] = info[w] /\ local'[w] = local[w]
             \/ info[w] = None /\ local'[w] = [pc |-> "begin", k |-> info'[w][1]]
  BY <1>1, <1>2
<1>10. IsFunction(local, Workers)'
  BY <1>2, <1>3 DEF IsFunction
<1>. QED BY <1>1, <1>2, <1>3, <1>8, <1>9, <1>10

-----------------------------------------------------------------------------
(* What a step leaves as it is.                                            *)
LEMMA CallsStay ==
  ASSUME CallsInv, UNCHANGED <<job, calls, args, skipped>>
  PROVE  CallsInv' /\ Func' = Func /\ Now' = Now /\ Points' = Points
<1>1. CallsOfJob' = CallsOfJob /\ NCalls' = NCalls /\ Now' = Now
  BY DEF CallsOfJob, Reversal, GetCoset, Evaluate, Call, coset_size, NCalls, NColumns, NPeriodic, Now
<1>2. Func' = Func /\ Points' = Points
  BY DEF Func, Points, coset_size
<1>. QED BY <1>1, <1>2 DEF CallsInv

LEMMA WorkerStays ==
  ASSUME CallsInv, UNCHANGED <<job, calls>>, NEW v \in Workers,
         info'[v] = info[v], local'[v] = local[v], worker_mem'[v] = worker_mem[v]
  PROVE  /\ WorkerInv(v) => WorkerInv(v)'
         /\ \A p : WrittenBy(v, p)' <=> WrittenBy(v, p)
<1>1. /\ Func' = Func /\ Now' = Now /\ coset_size' = coset_size
      /\ InitialPoint(v)' = InitialPoint(v) /\ EndPoint(v)' = EndPoint(v)
  BY DEF Func, Now, NCalls, NColumns, NPeriodic, coset_size, InitialPoint, EndPoint
<1>2. AtBegin(v)' <=> AtBegin(v)
  BY DEF AtBegin
<1>3. ASSUME NEW p PROVE Value(p)' = Value(p)
  BY <1>1 DEF Value
<1>4. \A p : ValuesUpTo(v, p)' <=> ValuesUpTo(v, p)
  BY <1>1, <1>3 DEF ValuesUpTo
<1>5. \A p : (IteratorsAt(v, p)' <=> IteratorsAt(v, p)) /\ (EvalsAt(v, p)' <=> EvalsAt(v, p))
  BY DEF IteratorsAt, EvalsAt
<1>6. \A pc, idx, point : Frame(v, pc, idx, point)' = Frame(v, pc, idx, point)
  BY <1>1 DEF Frame
<1>7. AtColumns(v) => AtColumns(v)'
  BY <1>1, <1>4, <1>5, <1>6 DEF AtColumns
<1>8. AtConstraints(v) => AtConstraints(v)'
  BY <1>1, <1>4, <1>5, <1>6 DEF AtConstraints
<1>9. AtOutput(v) => AtOutput(v)'
  BY <1>1, <1>4, <1>6 DEF AtOutput
<1>10. InLoop(v) => InLoop(v)'
  BY <1>1 DEF InLoop, Swaps, Reversed
<1>11. WorkerInv(v) => WorkerInv(v)'
  BY <1>1, <1>2, <1>7, <1>8, <1>9, <1>10 DEF WorkerInv, InEval
<1>12. \A p : WrittenBy(v, p)' <=> WrittenBy(v, p)
  BY <1>1 DEF WrittenBy
<1>. QED BY <1>11, <1>12

LEMMA ColumnStays ==
  ASSUME CallsInv, ColumnInv, UNCHANGED <<job, calls, column>>,
         Handled' = Handled \/ Func # "BitReverseInPlace"
  PROVE  ColumnInv'
<1>1. ASSUME NEW c \in DOMAIN job.columns, c \notin job.cached PROVE Past(c)' = Past(c)
  <2>1. CASE Handled' = Handled
    BY <2>1, PastGrows
  <2>2. CASE Func # "BitReverseInPlace"
    <3>1. c # Now
      <4>1. DOMAIN job.columns = 1..NColumns /\ NColumns \in Nat
        BY JobFacts DEF CallsInv
      <4>. QED BY <1>1, <2>2, <4>1, CurrentCall
    <3>. QED BY <3>1, PastGrows
  <2>. QED BY <2>1, <2>2
<1>2. Points' = Points /\ \A k : Turn(k)' = Turn(k) /\ Reversed(k)' = Reversed(k)
  BY DEF Points, coset_size, Turn, Reversed
<1>3. ASSUME NEW c \in DOMAIN job.columns
      PROVE  [k \in Points |-> IF c \notin job.cached /\ Turn(k) \in Past(c) THEN <<c, k>> ELSE <<c, Reversed(k)>>]
             = [k \in Points |-> IF c \notin job.cached /\ Turn(k)' \in Past(c)' THEN <<c, k>> ELSE <<c, Reversed(k)'>>]
  BY <1>1, <1>2
<1>. QED BY <1>2, <1>3 DEF ColumnInv

LEMMA NaturalStays ==
  ASSUME CallsInv, NaturalInv, UNCHANGED <<job, calls, natural>>,
         Handled' = Handled \/ Func # "BitReverseVector"
  PROVE  NaturalInv'
<1>1. ASSUME NEW c \in job.cached PROVE Past(c)' = Past(c)
  <2>1. CASE Handled' = Handled
    BY <2>1, PastGrows
  <2>2. CASE Func # "BitReverseVector"
    <3>1. c # Now
      <4>1. job.cached \subseteq 1..NColumns /\ NColumns \in Nat
        BY JobFacts DEF CallsInv
      <4>. QED BY <1>1, <2>2, <4>1, CurrentCall
    <3>. QED BY <3>1, PastGrows
  <2>. QED BY <2>1, <2>2
<1>2. Points' = Points /\ \A k : Reversed(k)' = Reversed(k)
  BY DEF Points, coset_size, Reversed
<1>3. ASSUME NEW c \in job.cached
      PROVE  [k \in Points |-> IF Reversed(k) \in Past(c) THEN <<c, k>> ELSE Unset]
             = [k \in Points |-> IF Reversed(k)' \in Past(c)' THEN <<c, k>> ELSE Unset]
  BY <1>1, <1>2
<1>. QED BY <1>2, <1>3 DEF NaturalInv, Unset

LEMMA PeriodicStays ==
  ASSUME CallsInv, PeriodicInv, UNCHANGED <<job, calls, period_on_coset>>,
         Handled' = Handled \/ Func # "GetCoset"
  PROVE  PeriodicInv'
<1>0. NColumns' = NColumns /\ Now' = Now
  BY DEF NColumns, NPeriodic, NCalls, Now
<1>1. ASSUME NEW i \in DOMAIN job.periodic PROVE Past(NColumns + i)' = Past(NColumns + i)
  <2>1. CASE Handled' = Handled
    BY <2>1, <1>0, PastGrows DEF Past
  <2>2. CASE Func # "GetCoset"
    <3>1. NColumns + i # Now
      <4>1. DOMAIN job.periodic = 1..NPeriodic /\ NColumns \in Nat /\ NPeriodic \in Nat
        BY JobFacts DEF CallsInv
      <4>2. NColumns < NColumns + i /\ NColumns + i < NCalls
        BY <4>1 DEF NCalls
      <4>. QED BY <1>1, <2>2, <4>2, CurrentCall
    <3>. QED BY <3>1, <1>0 DEF Past
  <2>. QED BY <2>1, <2>2
<1>3. ASSUME NEW i \in DOMAIN job.periodic
      PROVE  (IF Now < NColumns + i THEN <<>>
              ELSE [x \in 0 .. (period_in_trace(job.periodic[i]) - 1) |->
                      IF x % job.periodic[i].column_step \in Past(NColumns + i) THEN x ELSE Unset])
             = (IF Now' < NColumns' + i THEN <<>>
                ELSE [x \in 0 .. (period_in_trace(job.periodic[i]) - 1) |->
                        IF x % job.periodic[i].column_step \in Past(NColumns + i)' THEN x ELSE Unset])
  BY <1>0, <1>1
<1>. QED BY <1>3 DEF PeriodicInv, Unset, period_in_trace

LEMMA OutputStays ==
  ASSUME CallsInv, OutputInv, UNCHANGED <<job, calls, out_evaluation>>,
         \A p \in Points : Written(p)' <=> Written(p)
  PROVE  OutputInv'
<1>1. Points' = Points /\ coset_size' = coset_size /\ \A k : Reversed(k)' = Reversed(k)
  BY DEF Points, coset_size, Reversed
<1>2. \A p : Value(p)' = Value(p)
  BY <1>1 DEF Value
<1>3. \A k \in Points : Reversed(k) \in Points
  <2>1. job.log_coset_size \in Nat
    BY JobFacts DEF CallsInv
  <2>. QED BY <2>1, BitReverseRange DEF Points, coset_size, Reversed
<1>4. ASSUME NEW k \in Points
      PROVE  (IF Written(Reversed(k)) THEN Value(Reversed(k)) ELSE NoValue)
             = (IF Written(Reversed(k))' THEN Value(Reversed(k))' ELSE NoValue)
  <2>1. PICK p \in Points : p = Reversed(k)
    BY <1>3
  <2>2. Written(p)' <=> Written(p)
    BY <2>1
  <2>3. Reversed(k)' = p
    BY <1>1, <2>1
  <2>. QED BY <1>2, <2>1, <2>2, <2>3
<1>. QED BY <1>1, <1>4 DEF OutputInv, NoValue, ConstraintValue

(* Nothing is written before the last call.                                *)
LEMMA NothingWritten ==
  ASSUME CallsInv, Func # "EvalOnCoset", NEW p
  PROVE  ~ Written(p)
<1>1. Now \in 1..NCalls /\ NCalls \in Nat /\ Now # NCalls
  <2>1. NColumns \in Nat /\ NPeriodic \in Nat
    BY JobFacts DEF CallsInv
  <2>2. NCalls \in Nat
    BY <2>1 DEF NCalls
  <2>. QED BY <2>2, CurrentCall, WhichCall
<1>2. Past(NCalls) = {}
  BY <1>1 DEF Past
<1>. QED BY <1>2 DEF Written, WrittenBy

(* While the arrays other than that of the call stay, all that is known of *)
(* them stays.                                                             *)
LEMMA NothingHandled ==
  ASSUME JobInv, UNCHANGED <<job, calls, args, skipped, column, natural, period_on_coset, out_evaluation>>,
         Handled' = Handled, ShapeInv', LocalInv',
         \A p \in Points : Written(p)' <=> Written(p)
  PROVE  JobInv'
<1>1. CallsInv /\ ColumnInv /\ NaturalInv /\ PeriodicInv /\ OutputInv
  BY DEF JobInv
<1>2. ColumnInv' /\ NaturalInv' /\ PeriodicInv' /\ OutputInv'
  BY <1>1, ColumnStays, NaturalStays, PeriodicStays, OutputStays
<1>. QED BY <1>1, <1>2, CallsStay DEF JobInv

LEMMA WrittenIs ==
  ASSUME CallsInv, UNCHANGED <<job, calls, args>>, Handled' = Handled,
         NEW p, \A v \in Workers : WrittenBy(v, p)' <=> WrittenBy(v, p)
  PROVE  Written(p)' <=> Written(p)
<1>1. Workers' = Workers /\ NCalls' = NCalls
  BY DEF Workers, NCalls, NColumns, NPeriodic
<1>2. \A n : Past(n)' = Past(n)
  BY PastGrows
<1>3. Past(NCalls)' = Past(NCalls)
  BY <1>1, <1>2 DEF Past
<1>. QED BY <1>1, <1>3 DEF Written

LEMMA ParallelJob ==
  ASSUME IInv, RunningInv, JobInv, Parallel PROVE JobInv'
<1>1. Base /\ CallsInv
  BY DEF Base, JobInv
<1>2. /\ Handled' = Handled
      /\ args' = args /\ skipped' = skipped /\ Workers' = Workers /\ Func' = Func
      /\ UNCHANGED <<job, calls, column, natural, period_on_coset, worker_mem, out_evaluation>>
      /\ \A w \in Workers :
           \/ info'[w] = info[w] /\ local'[w] = local[w]
           \/ info[w] = None /\ local'[w] = [pc |-> "begin", k |-> info'[w][1]]
      /\ IsFunction(local, Workers)'
  BY <1>1, ParallelHandles
<1>3. IInv' /\ RunningInv'
  BY NextIInv, RunningStep DEF Parallel, Next
<1>4. ShapeInv'
  BY <1>1, <1>2 DEF ShapeInv, Base, IsFunction
<1>5. ASSUME NEW w \in Workers
      PROVE  WorkerInv(w)' /\ \A p : WrittenBy(w, p)' <=> WrittenBy(w, p)
  <2>1. CASE info'[w] = info[w] /\ local'[w] = local[w]
    <3>1. WorkerInv(w)
      BY <1>1 DEF Base, LocalInv
    <3>. QED BY <1>1, <1>2, <2>1, <3>1, WorkerStays
  <2>2. CASE info[w] = None /\ local'[w] = [pc |-> "begin", k |-> info'[w][1]]
    <3>1. local'[w].pc = "begin" /\ local'[w].k = info'[w][1]
      BY <2>2
    <3>2. \A p : WrittenBy(w, p)' <=> WrittenBy(w, p)
      BY <2>2, <3>1 DEF WrittenBy
    <3>3. ASSUME info'[w] # None PROVE InLoop(w)'
      <4>1. info' \in [Workers -> Nat \X Nat]
        BY <1>2, <1>3 DEF IInv, TypeInv
      <4>2. info'[w][1] \in Nat /\ info'[w][2] \in Nat
        BY <4>1
      <4>3. info'[w][1] < info'[w][2]
        BY <1>2, <1>3, <3>3 DEF RunningInv
      <4>. QED BY <2>2, <3>1, <4>2, <4>3 DEF InLoop
    <3>4. AtBegin(w)'
      BY <2>2 DEF AtBegin
    <3>. QED BY <3>2, <3>3, <3>4 DEF WorkerInv, InEval
  <2>. QED BY <1>2, <2>1, <2>2
<1>6. LocalInv'
  BY <1>2, <1>5 DEF LocalInv
<1>7. \A p : Written(p)' <=> Written(p)
  BY <1>1, <1>2, <1>5, WrittenIs
<1>. QED BY <1>2, <1>4, <1>6, <1>7, NothingHandled

(* When the call has returned all its items have been handled.             *)
LEMMA AllHandled ==
  ASSUME IInv, CallsInv, at = "returned"
  PROVE  Handled = 0 .. (args.end - 1)
<1>1. args.start .. (args.end - 1) = ran /\ \A w \in Workers : info[w] = None
  BY DEF IInv, IdleInv, AllItemsRun, CallsInv
<1>2. args.start = 0
  BY CurrentCall
<1>. QED BY <1>1, <1>2 DEF Handled, Pending

LEMMA StartsCalled ==
  ASSUME NEW call, IsCall(call), Starts(call)
  PROVE  IInv' /\ RunningInv' /\ skipped' = {} /\ ran' = {} /\ args' = call /\ (\A w \in Workers' : info'[w] = None)
<1>1. /\ args' = call /\ at' = "called" /\ task_idx' = call.start /\ tasks' = <<>>
      /\ task' = [w \in 0 .. (call.threads - 1) |-> None]
      /\ info' = [w \in 0 .. (call.threads - 1) |-> None]
      /\ ran' = {} /\ skipped' = {}
  BY DEF Starts
<1>2. Workers' = 0 .. (call.threads - 1)
  BY <1>1 DEF Workers
<1>3. Called' /\ IsCall(args)'
  BY <1>1, <1>2 DEF Called, IsCall, None
<1>4. (IsCall(args) /\ Called => IInv)'
  BY CalledIInv, PTL
<1>5. \A w \in Workers' : info'[w] = None
  BY <1>1, <1>2
<1>6. RunningInv'
  BY <1>5 DEF RunningInv, None
<1>. QED BY <1>1, <1>3, <1>4, <1>5, <1>6

LEMMA TailOfList ==
  ASSUME NEW s, IsList(s), Len(s) > 1
  PROVE  /\ IsList(Tail(s)) /\ Len(Tail(s)) = Len(s) - 1
         /\ \A i \in 1..(Len(s) - 1) : Tail(s)[i] = s[i + 1]
<1>1. PICK S : s \in Seq(S) /\ s # <<>>
  BY DEF IsList
<1>2. /\ Tail(s) \in Seq(S) /\ Len(Tail(s)) = Len(s) - 1
      /\ \A i \in 1..(Len(s) - 1) : Tail(s)[i] = s[i + 1]
  BY <1>1
<1>3. IsList(Tail(s))
  BY <1>2, ListIs
<1>. QED BY <1>2, <1>3

LEMMA NextCallJob ==
  ASSUME IInv, RunningInv, JobInv, NextCall
  PROVE  IInv' /\ RunningInv' /\ JobInv' /\ Workers' = Workers /\ \A w \in Workers : info'[w] = None
<1>1. /\ CallsInv /\ ShapeInv /\ ColumnInv /\ NaturalInv /\ PeriodicInv /\ OutputInv
  BY DEF JobInv
<1>2. /\ at = "returned" /\ Len(calls) > 1 /\ calls' = Tail(calls)
      /\ Starts(Head(calls').args)
      /\ UNCHANGED <<job, column, natural, worker_mem, local, out_evaluation>>
  BY DEF NextCall
<1>3. job \in Jobs /\ IsList(calls) /\ Len(calls) \in 1..NCalls
  BY <1>1 DEF CallsInv
<1>4. /\ NColumns \in Nat \ {0} /\ NPeriodic \in Nat /\ NCalls \in Nat
      /\ DOMAIN job.columns = 1..NColumns /\ DOMAIN job.periodic = 1..NPeriodic
      /\ job.cached \subseteq 1..NColumns
  BY <1>3, JobFacts DEF NCalls
<1>5. /\ NColumns' = NColumns /\ NPeriodic' = NPeriodic /\ NCalls' = NCalls /\ CallsOfJob' = CallsOfJob
      /\ Points' = Points /\ coset_size' = coset_size
      /\ \A k : Reversed(k)' = Reversed(k) /\ Turn(k)' = Turn(k)
  BY <1>2 DEF NColumns, NPeriodic, NCalls, CallsOfJob, Reversal, GetCoset, Evaluate, Call, coset_size, Points,
              Reversed, Turn
<1>6. /\ IsList(calls') /\ Len(calls') = Len(calls) - 1
      /\ \A i \in 1..(Len(calls) - 1) : calls'[i] = calls[i + 1]
  BY <1>2, <1>3, TailOfList
<1>7. Now \in 1..NCalls /\ Now' = Now + 1 /\ Now < NCalls
  <2>1. Now = NCalls - Len(calls) + 1 /\ Now' = NCalls - Len(calls') + 1
    BY <1>5 DEF Now
  <2>. QED BY <1>2, <1>3, <1>4, <1>6, <2>1
<1>8. ASSUME NEW i \in 1..Len(calls') PROVE calls'[i] = CallsOfJob[Now' - 1 + i]
  <2>1. i + 1 \in 1..Len(calls) /\ i \in 1..(Len(calls) - 1) /\ Now - 1 + (i + 1) = Now' - 1 + i
    BY <1>3, <1>4, <1>6, <1>7
  <2>2. calls[i + 1] = CallsOfJob[Now - 1 + (i + 1)]
    BY <1>1, <2>1 DEF CallsInv
  <2>. QED BY <1>6, <2>1, <2>2
<1>9. Head(calls') = calls'[1] /\ calls'[1] = CallsOfJob[Now + 1] /\ Len(calls') \in 1..NCalls
  <2>1. Len(calls') \in 1..NCalls /\ calls' # <<>>
    <3>1. calls' # <<>>
      <4>1. Len(calls') # 0
        BY <1>2, <1>3, <1>4, <1>6
      <4>. QED BY ONLY <4>1
    <3>2. Len(calls') \in 1..NCalls
      BY <1>2, <1>3, <1>4, <1>6
    <3>. QED BY <3>1, <3>2
  <2>2. Head(calls') = calls'[1]
    BY <1>6, <2>1 DEF IsList
  <2>3. 1 \in 1..Len(calls') /\ Now' - 1 + 1 = Now + 1
    BY <1>4, <1>7, <2>1
  <2>. QED BY <1>8, <2>1, <2>2, <2>3
<1>10. PICK call : call = CallsOfJob[Now + 1].args
  OBVIOUS
<1>11. IsCall(call) /\ Starts(call) /\ call.threads = job.threads
  <2>1. Now + 1 \in 1..NCalls
    BY <1>4, <1>7
  <2>. QED BY <1>2, <1>3, <1>9, <1>10, <2>1, CallIs
<1>12. IInv' /\ RunningInv' /\ skipped' = {} /\ ran' = {} /\ args' = call /\ \A w \in Workers' : info'[w] = None
  BY <1>11, StartsCalled
<1>13. Workers' = Workers
  BY <1>1, <1>11, <1>12, CurrentCall DEF Workers
<1>14. CallsInv'
  <2>1. args' = calls'[1].args
    BY <1>9, <1>10, <1>12
  <2>. QED BY <1>2, <1>3, <1>5, <1>6, <1>8, <1>9, <1>12, <2>1 DEF CallsInv
<1>15. ShapeInv' /\ LocalInv'
  BY <1>1, <1>2, <1>12, <1>13 DEF ShapeInv, IsFunction, LocalInv, WorkerInv
<1>16. /\ \A n \in 1..NCalls : Past(n)' = IF n <= Now THEN Nat ELSE {}
       /\ \A n \in 1..NCalls : Past(n) = IF n < Now THEN Nat ELSE IF n = Now THEN 0 .. (args.end - 1) ELSE {}
  <2>1. Handled' = {}
    BY <1>12 DEF Handled
  <2>2. Handled = 0 .. (args.end - 1)
    BY <1>1, <1>2, AllHandled
  <2>3. ASSUME NEW n \in 1..NCalls PROVE Past(n)' = IF n <= Now THEN Nat ELSE {}
    <3>1. n < Now + 1 <=> n <= Now
      BY <1>4, <1>7
    <3>. QED BY <1>7, <2>1, <3>1 DEF Past
  <2>. QED BY <2>2, <2>3 DEF Past
<1>17. ASSUME NEW c \in 1..NColumns, NEW k \in 0 .. (coset_size - 1)
       PROVE  k \in Past(c)' <=> k \in Past(c)
  <2>1. c \in 1..NCalls /\ coset_size \in Nat
    BY <1>3, <1>4, JobFacts DEF NCalls
  <2>2. c = Now => args.end = coset_size
    BY <1>1, <1>4, CurrentCall
  <2>. QED BY <1>4, <1>7, <1>16, <2>1, <2>2
<1>18. \A k \in Points : Reversed(k) \in 0 .. (coset_size - 1) /\ Turn(k) \in 0 .. (coset_size - 1)
  <2>1. ASSUME NEW k \in Points PROVE Reversed(k) \in 0 .. (coset_size - 1)
    <3>1. job.log_coset_size \in Nat
      BY <1>3, JobFacts
    <3>. QED BY <3>1, BitReverseRange DEF Points, coset_size, Reversed
  <2>. QED BY <2>1 DEF Turn, Points
<1>19. ColumnInv'
  <2>1. ASSUME NEW c \in DOMAIN job.columns
        PROVE  [k \in Points |-> IF c \notin job.cached /\ Turn(k) \in Past(c) THEN <<c, k>> ELSE <<c, Reversed(k)>>]
               = [k \in Points |-> IF c \notin job.cached /\ Turn(k)' \in Past(c)' THEN <<c, k>> ELSE <<c, Reversed(k)'>>]
    BY <1>4, <1>5, <1>17, <1>18
  <2>. QED BY <1>1, <1>2, <1>5, <2>1 DEF ColumnInv
<1>20. NaturalInv'
  <2>1. ASSUME NEW c \in job.cached
        PROVE  [k \in Points |-> IF Reversed(k) \in Past(c) THEN <<c, k>> ELSE Unset]
               = [k \in Points |-> IF Reversed(k)' \in Past(c)' THEN <<c, k>> ELSE Unset]
    BY <1>4, <1>5, <1>17, <1>18
  <2>. QED BY <1>1, <1>2, <1>5, <2>1 DEF NaturalInv, Unset
<1>21. OutputInv'
  <2>1. Now # NCalls /\ NCalls \in 1..NCalls /\ Now \in Nat
    BY <1>4, <1>7
  <2>2. Func # "EvalOnCoset"
    BY <1>1, <2>1, WhichCall
  <2>3. Past(NCalls)' = {}
    <3>1. PICK n \in 1..NCalls : n = NCalls
      BY <2>1
    <3>2. Past(n)' = {}
      BY <1>4, <1>7, <1>16, <3>1
    <3>. QED BY <1>5, <3>1, <3>2 DEF Past
  <2>4. \A p \in Points : ~ Written(p) /\ ~ Written(p)'
    <3>1. \A p \in Points : ~ Written(p)
      BY <1>1, <2>2, NothingWritten
    <3>3. \A p \in Points : ~ Written(p)'
      BY <1>12, <2>3, <1>5 DEF Written, WrittenBy, Past
    <3>. QED BY <3>1, <3>3
  <2>5. \A k \in Points : Reversed(k) \in Points
    BY <1>18 DEF Points
  <2>6. out_evaluation = [k \in Points |-> NoValue]
    <3>1. \A k \in Points : (IF Written(Reversed(k)) THEN Value(Reversed(k)) ELSE NoValue) = NoValue
      BY <2>4, <2>5
    <3>. QED BY <1>1, <3>1 DEF OutputInv
  <2>7. \A k \in Points : ~ Written(Reversed(k))'
    <3> SUFFICES ASSUME NEW k \in Points PROVE ~ Written(Reversed(k))'
      OBVIOUS
    <3>1. PICK p \in Points : p = Reversed(k)
      BY <2>5
    <3>2. ~ Written(p)' /\ Reversed(k)' = p
      BY <1>5, <2>4, <3>1
    <3>. QED BY <3>2
  <2>8. out_evaluation' = [k \in Points' |-> NoValue']
    BY <1>2, <1>5, <2>6 DEF NoValue, ConstraintValue
  <2>9. \A k \in Points' : (IF Written(Reversed(k)) THEN Value(Reversed(k)) ELSE NoValue)' = NoValue'
    BY <1>5, <2>7
  <2>. QED BY <2>8, <2>9 DEF OutputInv
<1>22. PeriodicInv'
  <2> DEFINE new(i) == [k \in 0 .. (period_in_trace(job.periodic[i]) - 1) |-> Unset]
             kept(i) == [x \in 0 .. (period_in_trace(job.periodic[i]) - 1) |->
                           IF x % job.periodic[i].column_step \in Past(NColumns + i) THEN x ELSE Unset]
  <2>1. /\ DOMAIN period_on_coset = 1..NPeriodic
        /\ \A i \in 1..NPeriodic : period_on_coset[i] = IF Now < NColumns + i THEN <<>> ELSE kept(i)
        /\ period_on_coset = [i \in 1..NPeriodic |-> period_on_coset[i]]
    BY <1>1, <1>4 DEF PeriodicInv
  <2>2. period_on_coset' = [i \in 1..NPeriodic |->
                              IF NColumns + i = Now + 1 THEN new(i) ELSE period_on_coset[i]]
    <3>0. Now + 1 \in 1..NCalls
      BY <1>4, <1>7
    <3>1. CASE NColumns < Now + 1 /\ Now + 1 < NCalls
      <4>1. Head(calls').func = "GetCoset" /\ Head(calls').i = (Now + 1) - NColumns
            /\ (Now + 1) - NColumns \in 1..NPeriodic
        BY <1>3, <1>9, <3>0, <3>1, CallIs
      <4>2. PICK j \in 1..NPeriodic : j = (Now + 1) - NColumns
        BY <4>1
      <4>3. period_on_coset' = [period_on_coset EXCEPT ![j] = new(j)]
        BY <1>2, <4>1, <4>2 DEF NextCall
      <4>4. \A i \in 1..NPeriodic : NColumns + i = Now + 1 <=> i = j
        BY <1>4, <1>7, <4>2
      <4> HIDE DEF new
      <4>. QED BY <2>1, <4>3, <4>4
    <3>2. CASE ~ (NColumns < Now + 1 /\ Now + 1 < NCalls)
      <4>1. Head(calls').func # "GetCoset"
        <5>1. Now + 1 <= NColumns \/ Now + 1 = NCalls
          BY <1>4, <1>7, <3>2
        <5>. QED BY <1>3, <1>9, <3>0, <5>1, CallIs
      <4>2. period_on_coset' = period_on_coset
        BY <4>1 DEF NextCall
      <4>3. \A i \in 1..NPeriodic : NColumns + i # Now + 1
        BY <1>4, <1>7, <3>2 DEF NCalls
      <4> HIDE DEF new
      <4>. QED BY <2>1, <4>2, <4>3
    <3>. QED BY <3>1, <3>2
  <2>3. ASSUME NEW i \in 1..NPeriodic
        PROVE  (IF NColumns + i = Now + 1 THEN new(i) ELSE period_on_coset[i])
               = IF Now + 1 < NColumns + i THEN <<>>
                 ELSE [x \in 0 .. (period_in_trace(job.periodic[i]) - 1) |->
                         IF x % job.periodic[i].column_step \in Past(NColumns + i)' THEN x ELSE Unset]
    <3>0. PICK n \in 1..NCalls : n = NColumns + i /\ n < NCalls /\ NColumns < n /\ i = n - NColumns
      BY <1>4 DEF NCalls
    <3>1. Past(n)' = Past(NColumns + i)' /\ Past(n) = Past(NColumns + i)
      BY <1>5, <3>0 DEF Past
    <3>2. job.periodic[i].column_step \in Nat \ {0} /\ period_in_trace(job.periodic[i]) \in Nat \ {0}
      BY <1>3, PeriodFacts
    <3>3. PICK step, period : step = job.periodic[i].column_step /\ period = period_in_trace(job.periodic[i])
      OBVIOUS
    <3>4. \A x \in 0 .. (period - 1) : x % step \in 0 .. (step - 1)
      BY <3>2, <3>3
    <3>5. CASE n = Now + 1
      <4>1. Past(n)' = {}
        BY <1>4, <1>7, <1>16, <3>5
      <4>2. NColumns + i = Now + 1 /\ ~ (Now + 1 < NColumns + i)
        BY <1>4, <1>7, <3>0, <3>5
      <4>3. Past(NColumns + i)' = {}
        BY <3>1, <4>1
      <4>. QED BY <4>2, <4>3
    <3>6. CASE n > Now + 1
      <4>1. NColumns + i # Now + 1 /\ Now + 1 < NColumns + i /\ Now < NColumns + i
        BY <1>7, <3>0, <3>6
      <4>. QED BY <2>1, <4>1
    <3>7. CASE n <= Now
      <4>1. NColumns + i # Now + 1 /\ ~ (Now + 1 < NColumns + i) /\ ~ (Now < NColumns + i)
        BY <1>7, <3>0, <3>7
      <4>2. n = Now => args.end = step
        BY <1>1, <3>0, <3>3, CurrentCall
      <4>3. \A x \in 0 .. (period - 1) : x % step \in Past(n) /\ x % step \in Past(n)'
        BY <1>7, <1>16, <3>2, <3>3, <3>4, <3>7, <4>2
      <4>. QED BY <2>1, <3>1, <3>3, <4>1, <4>3
    <3>. QED BY <1>7, <3>5, <3>6, <3>7
  <2>4. Unset' = Unset /\ \A i : period_in_trace(job.periodic[i])' = period_in_trace(job.periodic[i])
    BY <1>2 DEF Unset, period_in_trace
  <2> HIDE DEF new, kept
  <2>. QED BY <1>2, <1>4, <1>5, <1>7, <2>2, <2>3, <2>4 DEF PeriodicInv
<1>. QED BY <1>12, <1>13, <1>14, <1>15, <1>19, <1>20, <1>21, <1>22 DEF JobInv

-----------------------------------------------------------------------------
(* The loops that bring columns into natural order and evaluate periodic   *)
(* columns on the coset.                                                   *)
LEMMA ReversedIs ==
  ASSUME job \in Jobs, NEW k \in Points
  PROVE  /\ k \in Nat /\ Reversed(k) \in Points /\ Reversed(k) \in Nat
         /\ Reversed(Reversed(k)) = k
         /\ Turn(k) \in {k, Reversed(k)} /\ Turn(k) \in Points /\ Turn(k) <= k /\ Turn(k) <= Reversed(k)
         /\ Turn(Reversed(k)) = Turn(k)
<1>1. job.log_coset_size \in Nat /\ coset_size \in Nat
  BY JobFacts
<1>2. Reversed(k) \in Points /\ Reversed(Reversed(k)) = k
  BY <1>1, BitReverseRange, BitReverseTwice DEF Points, coset_size, Reversed
<1>3. k \in Nat /\ Reversed(k) \in Nat
  BY <1>1, <1>2 DEF Points
<1>. QED BY <1>2, <1>3 DEF Turn

(* A worker goes on to the next item of its chunk.                         *)
LEMMA LoopGoesOn ==
  ASSUME IInv, RunningInv, JobInv, NEW w \in Workers, info[w] # None,
         Func # "EvalOnCoset", local[w].k < info[w][2],
         Goes(w, [pc |-> "begin", k |-> local[w].k + 1]),
         UNCHANGED <<job, calls, worker_mem, out_evaluation>>
  PROVE  /\ CallsInv' /\ ShapeInv' /\ LocalInv' /\ OutputInv'
         /\ Handled' = Handled \union {local[w].k}
         /\ local[w].k \notin Handled /\ local[w].k \in 0 .. (args.end - 1)
<1>1. Base /\ CallsInv /\ ShapeInv /\ LocalInv /\ OutputInv
  BY DEF Base, JobInv
<1> DEFINE record == [pc |-> "begin", k |-> local[w].k + 1]
<1>2. /\ local' = [local EXCEPT ![w] = record] /\ record.k = local[w].k + 1
      /\ UNCHANGED vars
  BY DEF Goes
<1>3. Handled' = Handled \union {local[w].k}
  BY <1>1, <1>2, MoveHandles
<1>4. UNCHANGED <<args, skipped, info, ran>> /\ Workers' = Workers /\ Func' = Func
  BY <1>2 DEF vars, Workers, Func
<1>5. CallsInv'
  BY <1>1, <1>4, CallsStay
<1>6. /\ local'[w] = record /\ \A v \in Workers : v # w => local'[v] = local[v]
      /\ IsFunction(local, Workers)'
  BY <1>1, <1>2, <1>4 DEF ShapeInv, IsFunction
<1>7. ShapeInv'
  BY <1>1, <1>4, <1>6 DEF ShapeInv, IsFunction
<1>8. /\ info[w][1] \in Nat /\ info[w][2] \in Nat /\ info[w][2] <= args.end
      /\ local[w].k \in Nat /\ info[w][1] <= local[w].k /\ local[w].k \in Pending(w)
  <2>1. Place(w) = local[w].k
    BY DEF Place
  <2>. QED BY <1>1, <2>1, ChunkFacts
<1>9. LocalInv'
  <2>1. ASSUME NEW v \in Workers, v # w PROVE WorkerInv(v)'
    <3>1. WorkerInv(v)
      BY <1>1 DEF LocalInv
    <3>. QED BY <1>1, <1>4, <1>6, <2>1, <3>1, WorkerStays
  <2>2. InLoop(w)'
    BY <1>4, <1>6, <1>8 DEF InLoop
  <2>3. WorkerInv(w)'
    BY <1>4, <2>2 DEF WorkerInv
  <2>. QED BY <1>4, <2>1, <2>3 DEF LocalInv
<1>10. OutputInv'
  <2>1. \A p \in Points : ~ Written(p) /\ ~ Written(p)'
    <3>1. \A p : ~ Written(p)
      BY <1>1, NothingWritten
    <3>2. Past(NCalls)' = Past(NCalls)
      <4>1. NCalls # Now
        BY <1>1, WhichCall
      <4>2. NCalls' = NCalls /\ Now' = Now
        BY DEF NCalls, Now, NColumns, NPeriodic
      <4>3. PICK n : n = NCalls
        OBVIOUS
      <4>4. Past(n)' = Past(n)
        BY <1>1, <4>1, <4>3, PastGrows
      <4>. QED BY <4>2, <4>3, <4>4 DEF Past
    <3>3. \A p : ~ WrittenBy(w, p)' /\ \A v \in Workers : ~ WrittenBy(v, p)'
      BY <1>4 DEF WrittenBy
    <3>. QED BY <1>4, <3>1, <3>2, <3>3 DEF Written
  <2>. QED BY <1>1, <2>1, OutputStays
<1>11. local[w].k \notin Handled
  BY <1>8 DEF Handled
<1>12. local[w].k \in 0 .. (args.end - 1)
  <2>1. args.end \in Nat
    BY ArgsFacts DEF IInv
  <2>. QED BY <1>8, <2>1
<1>. QED BY <1>3, <1>5, <1>7, <1>9, <1>10, <1>11, <1>12

(* A worker has come to the end of its chunk.                              *)
LEMMA LoopEndsJob ==
  ASSUME IInv, RunningInv, JobInv, NEW w \in Workers, LoopEnds(w) PROVE JobInv'
<1>1. Base /\ CallsInv /\ ShapeInv /\ LocalInv
  BY DEF Base, JobInv
<1>2. /\ Func \in {"BitReverseInPlace", "BitReverseVector", "GetCoset"}
      /\ info[w] # None /\ local[w].k = info[w][2] /\ Finished(w)
      /\ UNCHANGED <<job, calls, column, natural, period_on_coset, worker_mem, out_evaluation>>
  BY DEF LoopEnds, In
<1>3. /\ Handled' = Handled \union Pending(w)
      /\ args' = args /\ skipped' = skipped /\ ran' = ran /\ Workers' = Workers /\ Func' = Func
      /\ local'[w] = <<>> /\ \A v \in Workers : v # w => local'[v] = local[v]
      /\ info'[w] = None /\ \A v \in Workers : v # w => info'[v] = info[v]
  BY <1>1, <1>2, ReturnHandles
<1>4. Handled' = Handled
  <2>1. Pending(w) = {}
    BY <1>1, <1>2, ChunkFacts DEF Place
  <2>. QED BY <1>3, <2>1
<1>5. ShapeInv'
  BY <1>1, <1>2, <1>3 DEF ShapeInv, IsFunction, Finished
<1>6. ASSUME NEW v \in Workers
      PROVE  WorkerInv(v)' /\ \A p : WrittenBy(v, p)' <=> WrittenBy(v, p)
  <2>1. CASE v = w
    BY <1>2, <1>3, <2>1 DEF WorkerInv, WrittenBy
  <2>2. CASE v # w
    <3>1. WorkerInv(v)
      BY <1>1 DEF LocalInv
    <3>. QED BY <1>1, <1>2, <1>3, <2>2, <3>1, WorkerStays
  <2>. QED BY <2>1, <2>2
<1>7. LocalInv'
  BY <1>3, <1>6 DEF LocalInv
<1>8. \A p : Written(p)' <=> Written(p)
  BY <1>1, <1>2, <1>3, <1>4, <1>6, WrittenIs
<1>. QED BY <1>2, <1>3, <1>4, <1>5, <1>7, <1>8, NothingHandled

(* The column that is reversed in place, as far as it has been.            *)
LEMMA ColumnIs ==
  ASSUME CallsInv, ColumnInv, Func = "BitReverseInPlace"
  PROVE  /\ Now \in 1..NColumns /\ Now \notin job.cached /\ I = Now /\ args.end = coset_size
         /\ column[Now] = [k \in Points |-> IF Turn(k) \in Handled THEN <<Now, k>> ELSE <<Now, Reversed(k)>>]
<1>1. Now \in 1..NColumns /\ Now \notin job.cached /\ I = Now /\ args.end = coset_size
  <2>1. Now \in 1..NColumns /\ Now \notin job.cached
    BY WhichCall
  <2>2. NColumns \in Nat
    BY JobFacts DEF CallsInv
  <2>. QED BY <2>1, <2>2, CurrentCall
<1>2. PICK c : c = Now
  OBVIOUS
<1>3. c \in DOMAIN job.columns /\ c \notin job.cached
  BY <1>1, <1>2, JobFacts DEF CallsInv
<1>4. Past(c) = Handled
  BY <1>2, <1>1, JobFacts DEF Past, CallsInv
<1>5. column[c] = [k \in Points |-> IF c \notin job.cached /\ Turn(k) \in Past(c) THEN <<c, k>> ELSE <<c, Reversed(k)>>]
  BY <1>3 DEF ColumnInv
<1>. QED BY <1>1, <1>2, <1>3, <1>4, <1>5

LEMMA ReadPairJob ==
  ASSUME IInv, RunningInv, JobInv, NEW w \in Workers, ReadPair(w) PROVE JobInv'
<1>1. Base /\ CallsInv /\ ShapeInv /\ LocalInv /\ ColumnInv /\ NaturalInv /\ PeriodicInv /\ OutputInv /\ job \in Jobs
  BY DEF Base, JobInv, CallsInv
<1> DEFINE k == local[w].k
<1>2. /\ Func = "BitReverseInPlace" /\ info[w] # None /\ k < info[w][2] /\ local[w].pc = "begin"
      /\ Goes(w, IF Swaps(k) THEN [pc |-> "swap", k |-> k, read |-> <<column[I][k], column[I][Reversed(k)]>>]
                             ELSE [pc |-> "begin", k |-> k + 1])
      /\ UNCHANGED <<job, calls, column, natural, period_on_coset, worker_mem, out_evaluation>>
  BY DEF ReadPair, In
<1>3. /\ Now \in 1..NColumns /\ Now \notin job.cached /\ I = Now /\ args.end = coset_size
      /\ column[Now] = [j \in Points |-> IF Turn(j) \in Handled THEN <<Now, j>> ELSE <<Now, Reversed(j)>>]
  BY <1>1, <1>2, ColumnIs
<1>4. /\ info[w][1] \in Nat /\ info[w][2] \in Nat /\ info[w][2] <= args.end
      /\ k \in Nat /\ info[w][1] <= k /\ k \in Pending(w) /\ k \in Points
  <2>1. Place(w) = k
    BY <1>2 DEF Place
  <2>2. coset_size \in Nat
    BY <1>1, JobFacts
  <2>3. /\ info[w][1] \in Nat /\ info[w][2] \in Nat /\ info[w][2] <= args.end
        /\ k \in Nat /\ info[w][1] <= k /\ Pending(w) = k..(info[w][2] - 1)
    BY <1>1, <1>2, <2>1, ChunkFacts
  <2>4. k < info[w][2] /\ args.end = coset_size
    BY <1>2, <1>3
  <2>5. k \in Pending(w)
    BY <2>3, <2>4
  <2>6. k \in Points
    BY <2>2, <2>3, <2>4 DEF Points
  <2>. QED BY <2>3, <2>5, <2>6
<1>5. k \notin Handled
  BY <1>4 DEF Handled
<1>6. CASE Swaps(k)
  <2> DEFINE record == [pc |-> "swap", k |-> k, read |-> <<column[I][k], column[I][Reversed(k)]>>]
  <2>1. /\ local' = [local EXCEPT ![w] = record] /\ record.k = local[w].k /\ record.pc = "swap"
        /\ UNCHANGED vars
    BY <1>2, <1>6 DEF Goes
  <2>2. Handled' = Handled
    BY <1>1, <1>2, <2>1, MoveHandles
  <2>3. UNCHANGED <<args, skipped, info, ran>> /\ Workers' = Workers /\ Func' = Func /\ Now' = Now
        /\ Reversed(k)' = Reversed(local'[w].k)
    BY <2>1, <1>1, <1>2, CallsStay DEF vars, Workers, Reversed
  <2>4. /\ local'[w] = record /\ \A v \in Workers : v # w => local'[v] = local[v]
        /\ IsFunction(local, Workers)'
    BY <1>1, <2>1, <2>3 DEF ShapeInv, IsFunction
  <2>5. ShapeInv'
    BY <1>1, <1>2, <2>3, <2>4 DEF ShapeInv, IsFunction
  <2>6. record.read = <<<<Now, Reversed(k)>>, <<Now, k>>>>
    <3>1. k < Reversed(k) /\ Turn(k) = k /\ Turn(Reversed(k)) = k /\ Reversed(k) \in Points /\ Reversed(Reversed(k)) = k
      BY <1>1, <1>4, <1>6, ReversedIs DEF Swaps, Turn
    <3>2. column[Now][k] = <<Now, Reversed(k)>> /\ column[Now][Reversed(k)] = <<Now, k>>
      BY <1>3, <1>4, <1>5, <3>1
    <3>. QED BY <1>3, <3>2
  <2>7. InLoop(w)'
    <3>1. /\ local'[w].k = k /\ local'[w] = [pc |-> "swap", k |-> k, read |-> <<<<Now, Reversed(k)>>, <<Now, k>>>>]
      BY <2>4, <2>6
    <3>2. Reversed(k)' = Reversed(k) /\ Swaps(local[w].k)' /\ Reversed(local[w].k)' = Reversed(k)
      BY <1>2, <1>6, <3>1 DEF Swaps, Reversed
    <3>. QED BY <1>2, <1>4, <2>3, <3>1, <3>2 DEF InLoop
  <2>8. ASSUME NEW v \in Workers
        PROVE  WorkerInv(v)' /\ \A p : WrittenBy(v, p)' <=> WrittenBy(v, p)
    <3>1. CASE v = w
      BY <1>2, <2>3, <2>7, <3>1 DEF WorkerInv, WrittenBy
    <3>2. CASE v # w
      <4>1. WorkerInv(v)
        BY <1>1 DEF LocalInv
      <4>. QED BY <1>1, <1>2, <2>3, <2>4, <3>2, <4>1, WorkerStays
    <3>. QED BY <3>1, <3>2
  <2>9. LocalInv'
    BY <2>3, <2>8 DEF LocalInv
  <2>10. \A p : Written(p)' <=> Written(p)
    BY <1>1, <1>2, <2>2, <2>3, <2>8, WrittenIs
  <2>. QED BY <1>2, <2>2, <2>3, <2>5, <2>9, <2>10, NothingHandled
<1>7. CASE ~ Swaps(k)
  <2>1. Goes(w, [pc |-> "begin", k |-> local[w].k + 1])
    BY <1>2, <1>7
  <2>2. /\ CallsInv' /\ ShapeInv' /\ LocalInv' /\ OutputInv' /\ Handled' = Handled \union {k}
    BY <1>2, <2>1, LoopGoesOn
  <2>3. NaturalInv' /\ PeriodicInv'
    BY <1>1, <1>2, NaturalStays, PeriodicStays
  <2>4. ColumnInv'
    <3>1. Points' = Points /\ \A j : Turn(j)' = Turn(j) /\ Reversed(j)' = Reversed(j)
      BY <1>2 DEF Points, coset_size, Turn, Reversed
    <3>2. k = Reversed(k) \/ Turn(k) # k
      BY <1>1, <1>4, <1>7, ReversedIs DEF Swaps
    <3>3. ASSUME NEW c \in DOMAIN job.columns, c \notin job.cached, NEW j \in Points
          PROVE  (IF Turn(j) \in Past(c)' THEN <<c, j>> ELSE <<c, Reversed(j)>>)
                 = IF Turn(j) \in Past(c) THEN <<c, j>> ELSE <<c, Reversed(j)>>
      <4>1. CASE c # Now
        <5>1. Past(c)' = Past(c)
          BY <1>1, <1>2, <4>1, PastGrows
        <5>. QED BY <5>1
      <4>2. CASE c = Now
        <5>1. Past(c) = Handled /\ Past(c)' = Handled \union {k}
          BY <1>1, <1>2, <2>2, <4>2, PastGrows
        <5>2. CASE Turn(j) = k
          <6>1. j = k \/ Reversed(j) = k
            BY <1>1, <5>2, ReversedIs
          <6>2. Turn(k) = k
            BY <1>1, <1>4, <5>2, <6>1, ReversedIs
          <6>3. k = Reversed(k)
            BY <3>2, <6>2
          <6>4. j = k /\ Reversed(j) = j
            BY <1>1, <1>4, <6>1, <6>3, ReversedIs
          <6>. QED BY <6>4
        <5>3. CASE Turn(j) # k
          BY <5>1, <5>3
        <5>. QED BY <5>2, <5>3
      <4>. QED BY <4>1, <4>2
    <3>4. ASSUME NEW c \in DOMAIN job.columns
          PROVE  [j \in Points |-> IF c \notin job.cached /\ Turn(j) \in Past(c) THEN <<c, j>> ELSE <<c, Reversed(j)>>]
                 = [j \in Points |-> IF c \notin job.cached /\ Turn(j)' \in Past(c)' THEN <<c, j>> ELSE <<c, Reversed(j)'>>]
      BY <3>1, <3>3
    <3>. QED BY <1>1, <1>2, <3>1, <3>4 DEF ColumnInv
  <2>. QED BY <2>2, <2>3, <2>4 DEF JobInv
<1>. QED BY <1>6, <1>7

LEMMA WritePairJob ==
  ASSUME IInv, RunningInv, JobInv, NEW w \in Workers, WritePair(w) PROVE JobInv'
<1>1. Base /\ CallsInv /\ ShapeInv /\ LocalInv /\ ColumnInv /\ NaturalInv /\ PeriodicInv /\ OutputInv /\ job \in Jobs
  BY DEF Base, JobInv, CallsInv
<1>2. PICK k : k = local[w].k
  OBVIOUS
<1>3. /\ Func = "BitReverseInPlace" /\ info[w] # None /\ local[w].pc = "swap"
      /\ column' = [column EXCEPT ![I][k] = local[w].read[2], ![I][Reversed(k)] = local[w].read[1]]
      /\ Goes(w, [pc |-> "begin", k |-> k + 1])
      /\ UNCHANGED <<job, calls, natural, period_on_coset, worker_mem, out_evaluation>>
  BY <1>2 DEF WritePair, In
<1>4. /\ Now \in 1..NColumns /\ Now \notin job.cached /\ I = Now /\ args.end = coset_size
      /\ column[Now] = [j \in Points |-> IF Turn(j) \in Handled THEN <<Now, j>> ELSE <<Now, Reversed(j)>>]
  BY <1>1, <1>3, ColumnIs
<1>5. /\ k < info[w][2] /\ k < Reversed(k)
      /\ local[w].read = <<<<Now, Reversed(k)>>, <<Now, k>>>>
  <2>1. InLoop(w)
    BY <1>1, <1>3 DEF LocalInv, WorkerInv
  <2>2. local[w] # [pc |-> "begin", k |-> local[w].k]
    BY <1>3
  <2>. QED BY <1>2, <2>1, <2>2 DEF InLoop, Swaps
<1>6. /\ CallsInv' /\ ShapeInv' /\ LocalInv' /\ OutputInv' /\ Handled' = Handled \union {k}
      /\ k \in 0 .. (args.end - 1)
  BY <1>2, <1>3, <1>5, LoopGoesOn
<1>7. NaturalInv' /\ PeriodicInv'
  BY <1>1, <1>3, NaturalStays, PeriodicStays
<1>8. k \in Points /\ Reversed(k) \in Points /\ Turn(k) = k /\ Turn(Reversed(k)) = k
  <2>1. k \in Points
    BY <1>4, <1>6 DEF Points
  <2>2. Turn(k) = k
    BY <1>5 DEF Turn
  <2>. QED BY <1>1, <2>1, <2>2, ReversedIs
<1>9. DOMAIN job.columns = 1..NColumns /\ column = [c \in 1..NColumns |-> column[c]]
  BY <1>1, JobFacts DEF ColumnInv
<1>10. column' = [column EXCEPT ![Now] = [column[Now] EXCEPT ![k] = <<Now, k>>, ![Reversed(k)] = <<Now, Reversed(k)>>]]
  <2>1. column' = [column EXCEPT ![Now][k] = <<Now, k>>, ![Now][Reversed(k)] = <<Now, Reversed(k)>>]
    BY <1>3, <1>4, <1>5
  <2>. QED BY <1>4, <1>9, <2>1
<1>11. Points' = Points /\ \A j : Turn(j)' = Turn(j) /\ Reversed(j)' = Reversed(j)
  BY <1>3 DEF Points, coset_size, Turn, Reversed
<1>12. ASSUME NEW j \in Points
       PROVE  [column[Now] EXCEPT ![k] = <<Now, k>>, ![Reversed(k)] = <<Now, Reversed(k)>>][j]
              = IF Turn(j) \in Handled \union {k} THEN <<Now, j>> ELSE <<Now, Reversed(j)>>
  <2>1. CASE Turn(j) = k
    <3>1. j = k \/ j = Reversed(k)
      BY <1>1, <1>8, <2>1, ReversedIs
    <3>. QED BY <1>4, <1>5, <1>8, <2>1, <3>1
  <2>2. CASE Turn(j) # k
    <3>1. j # k /\ j # Reversed(k)
      BY <1>8, <2>2
    <3>. QED BY <1>4, <2>2, <3>1
  <2>. QED BY <2>1, <2>2
<1>13. ASSUME NEW c \in 1..NColumns
       PROVE  column'[c] = [j \in Points |-> IF c \notin job.cached /\ Turn(j) \in Past(c)' THEN <<c, j>> ELSE <<c, Reversed(j)>>]
  <2>1. CASE c # Now
    <3>1. Past(c)' = Past(c)
      BY <1>1, <1>3, <2>1, PastGrows
    <3>2. column'[c] = column[c]
      BY <1>4, <1>9, <1>10, <2>1
    <3>. QED BY <1>1, <1>9, <3>1, <3>2 DEF ColumnInv
  <2>2. CASE c = Now
    <3>1. Past(c)' = Handled \union {k}
      BY <1>1, <1>3, <1>6, <2>2, PastGrows
    <3>2. column'[c] = [column[Now] EXCEPT ![k] = <<Now, k>>, ![Reversed(k)] = <<Now, Reversed(k)>>]
      BY <1>4, <1>9, <1>10, <2>2
    <3>3. column'[c] = [j \in Points |-> column'[c][j]]
      BY <1>4, <3>2
    <3>. QED BY <1>4, <1>12, <2>2, <3>1, <3>2, <3>3
  <2>. QED BY <2>1, <2>2
<1>14. column' = [c \in 1..NColumns |-> column'[c]]
  BY <1>9, <1>10
<1>15. ColumnInv'
  BY <1>3, <1>9, <1>11, <1>13, <1>14, ZenonT(30) DEF ColumnInv
<1>. QED BY <1>6, <1>7, <1>15 DEF JobInv

LEMMA BitReverseVectorJob ==
  ASSUME IInv, RunningInv, JobInv, NEW w \in Workers, BitReverseVector(w) PROVE JobInv'
<1>1. Base /\ CallsInv /\ ShapeInv /\ LocalInv /\ ColumnInv /\ NaturalInv /\ PeriodicInv /\ OutputInv /\ job \in Jobs
  BY DEF Base, JobInv, CallsInv
<1>2. PICK k : k = local[w].k
  OBVIOUS
<1>3. /\ Func = "BitReverseVector" /\ info[w] # None /\ local[w].pc = "begin" /\ k < info[w][2]
      /\ natural' = [natural EXCEPT ![I][Reversed(k)] = column[I][k]]
      /\ Goes(w, [pc |-> "begin", k |-> k + 1])
      /\ UNCHANGED <<job, calls, column, period_on_coset, worker_mem, out_evaluation>>
  BY <1>2 DEF BitReverseVector, In
<1>4. /\ Now \in 1..NColumns /\ Now \in job.cached /\ I = Now /\ args.end = coset_size
      /\ DOMAIN job.columns = 1..NColumns
  <2>1. Now \in 1..NColumns /\ Now \in job.cached
    BY <1>1, <1>3, WhichCall
  <2>. QED BY <1>1, <2>1, CurrentCall, JobFacts
<1>5. /\ CallsInv' /\ ShapeInv' /\ LocalInv' /\ OutputInv' /\ Handled' = Handled \union {k}
      /\ k \in 0 .. (args.end - 1)
  BY <1>2, <1>3, LoopGoesOn
<1>6. ColumnInv' /\ PeriodicInv'
  BY <1>1, <1>3, ColumnStays, PeriodicStays
<1>7. k \in Points /\ Reversed(k) \in Points
  <2>1. k \in Points
    BY <1>4, <1>5 DEF Points
  <2>. QED BY <1>1, <2>1, ReversedIs
<1>8. column[I][k] = <<Now, Reversed(k)>>
  BY <1>1, <1>4, <1>7 DEF ColumnInv
<1>9. natural = [c \in job.cached |-> natural[c]]
      /\ \A c \in job.cached : natural[c] = [j \in Points |-> IF Reversed(j) \in Past(c) THEN <<c, j>> ELSE Unset]
  BY <1>1 DEF NaturalInv
<1>10. natural' = [natural EXCEPT ![Now] = [natural[Now] EXCEPT ![Reversed(k)] = <<Now, Reversed(k)>>]]
  BY <1>3, <1>4, <1>8, <1>9
<1>11. Points' = Points /\ \A j : Reversed(j)' = Reversed(j)
  BY <1>3 DEF Points, coset_size, Reversed
<1>12. ASSUME NEW c \in job.cached
       PROVE  natural'[c] = [j \in Points |-> IF Reversed(j) \in Past(c)' THEN <<c, j>> ELSE Unset]
  <2>1. CASE c # Now
    <3>1. Past(c)' = Past(c)
      BY <1>1, <1>3, <2>1, PastGrows
    <3>2. natural'[c] = natural[c]
      BY <1>4, <1>9, <1>10, <2>1
    <3>. QED BY <1>9, <3>1, <3>2
  <2>2. CASE c = Now
    <3>1. Past(c)' = Handled \union {k} /\ Past(c) = Handled
      BY <1>1, <1>3, <1>5, <2>2, PastGrows
    <3>2. natural'[c] = [natural[Now] EXCEPT ![Reversed(k)] = <<Now, Reversed(k)>>]
      BY <1>4, <1>9, <1>10, <2>2
    <3>3. natural[Now] = [j \in Points |-> IF Reversed(j) \in Handled THEN <<Now, j>> ELSE Unset]
      <4>1. natural[c] = [j \in Points |-> IF Reversed(j) \in Past(c) THEN <<c, j>> ELSE Unset]
        BY <1>9
      <4>. QED BY <2>2, <3>1, <4>1
    <3>4. ASSUME NEW j \in Points
          PROVE  [natural[Now] EXCEPT ![Reversed(k)] = <<Now, Reversed(k)>>][j]
                 = IF Reversed(j) \in Handled \union {k} THEN <<Now, j>> ELSE Unset
      <4>1. Reversed(j) = k <=> j = Reversed(k)
        BY <1>1, <1>7, ReversedIs
      <4>. QED BY <1>7, <3>3, <4>1
    <3>5. natural'[c] = [j \in Points |-> natural'[c][j]]
      BY <3>2, <3>3
    <3>. QED BY <2>2, <3>1, <3>2, <3>4, <3>5
  <2>. QED BY <2>1, <2>2
<1>13. natural' = [c \in job.cached |-> natural'[c]]
  BY <1>9, <1>10
<1>14. NaturalInv'
  BY <1>3, <1>11, <1>12, <1>13 DEF NaturalInv, Unset
<1>. QED BY <1>5, <1>6, <1>14 DEF JobInv

LEMMA GetCosetStepJob ==
  ASSUME IInv, RunningInv, JobInv, NEW w \in Workers, GetCosetStep(w) PROVE JobInv'
<1>1. Base /\ CallsInv /\ ShapeInv /\ LocalInv /\ ColumnInv /\ NaturalInv /\ PeriodicInv /\ OutputInv /\ job \in Jobs
  BY DEF Base, JobInv, CallsInv
<1>2. PICK k : k = local[w].k
  OBVIOUS
<1>2a. PICK step : step = job.periodic[I].column_step
  OBVIOUS
<1>3. /\ Func = "GetCoset" /\ info[w] # None /\ local[w].pc = "begin" /\ k < info[w][2]
      /\ period_on_coset' = [period_on_coset EXCEPT ![I] =
           [x \in DOMAIN period_on_coset[I] |->
              IF x % step = k THEN k + (x \div step) * step ELSE period_on_coset[I][x]]]
      /\ Goes(w, [pc |-> "begin", k |-> k + 1])
      /\ UNCHANGED <<job, calls, column, natural, worker_mem, out_evaluation>>
  BY <1>2, <1>2a DEF GetCosetStep, In
<1>4. /\ NColumns \in Nat /\ NPeriodic \in Nat /\ DOMAIN job.periodic = 1..NPeriodic
      /\ I \in 1..NPeriodic /\ NColumns + I = Now /\ args.end = step
  <2>1. NColumns < Now /\ Now < NCalls /\ Now \in 1..NCalls
    BY <1>1, <1>3, WhichCall, CurrentCall
  <2>2. I = Now - NColumns /\ I \in 1..NPeriodic /\ args.end = job.periodic[Now - NColumns].column_step
    BY <1>1, <2>1, CurrentCall
  <2>3. NColumns \in Nat /\ NPeriodic \in Nat /\ DOMAIN job.periodic = 1..NPeriodic
    BY <1>1, JobFacts
  <2>. QED BY <1>2a, <2>1, <2>2, <2>3 DEF NCalls
<1>5. /\ CallsInv' /\ ShapeInv' /\ LocalInv' /\ OutputInv' /\ Handled' = Handled \union {k}
      /\ k \in 0 .. (args.end - 1)
  BY <1>2, <1>3, LoopGoesOn
<1>6. ColumnInv' /\ NaturalInv'
  BY <1>1, <1>3, ColumnStays, NaturalStays
<1>7. step \in Nat \ {0}
  BY <1>1, <1>2a, <1>4, PeriodFacts
<1>8. /\ period_on_coset = [i \in 1..NPeriodic |-> period_on_coset[i]]
      /\ \A i \in 1..NPeriodic :
           period_on_coset[i] =
             IF Now < NColumns + i THEN <<>>
             ELSE [x \in 0 .. (period_in_trace(job.periodic[i]) - 1) |->
                     IF x % job.periodic[i].column_step \in Past(NColumns + i) THEN x ELSE Unset]
  BY <1>1, <1>4 DEF PeriodicInv
<1>9. NColumns' = NColumns /\ Now' = Now
  BY <1>1, <1>3 DEF NColumns, NPeriodic, NCalls, Now
<1>10. ASSUME NEW i \in 1..NPeriodic
       PROVE  period_on_coset'[i] =
                IF Now < NColumns + i THEN <<>>
                ELSE [x \in 0 .. (period_in_trace(job.periodic[i]) - 1) |->
                        IF x % job.periodic[i].column_step \in Past(NColumns + i)' THEN x ELSE Unset]
  <2>0. PICK n : n = NColumns + i
    OBVIOUS
  <2>1. Past(n)' = Past(NColumns + i)' /\ Past(n) = Past(NColumns + i)
    BY <1>9, <2>0 DEF Past
  <2>2. CASE i # I
    <3>1. n # Now
      BY <1>4, <2>0, <2>2
    <3>2. Past(n)' = Past(n)
      BY <1>1, <1>3, <3>1, PastGrows
    <3>3. period_on_coset'[i] = period_on_coset[i]
      BY <1>3, <1>4, <1>8, <2>2
    <3>. QED BY <1>8, <2>1, <3>2, <3>3
  <2>3. CASE i = I
    <3>1. n = Now /\ Past(n) = Handled /\ Past(n)' = Handled \union {k}
      BY <1>1, <1>3, <1>4, <1>5, <2>0, <2>3, PastGrows
    <3>2. ~ (Now < NColumns + i)
      BY <1>4, <2>3
    <3>3. PICK period : period = period_in_trace(job.periodic[i])
      OBVIOUS
    <3>4. period_on_coset[i] = [x \in 0 .. (period - 1) |-> IF x % step \in Handled THEN x ELSE Unset]
      BY <1>2a, <1>8, <2>1, <2>3, <3>1, <3>2, <3>3
    <3>5. period_on_coset'[i] = [x \in 0 .. (period - 1) |->
                                   IF x % step = k THEN k + (x \div step) * step ELSE period_on_coset[i][x]]
      BY <1>3, <1>4, <1>8, <2>3, <3>4
    <3>6. ASSUME NEW x \in 0 .. (period - 1), x % step = k PROVE k + (x \div step) * step = x
      <4>1. x \in Nat
        BY <1>1, <3>3, PeriodFacts
      <4>2. PICK q, r : q = x \div step /\ r = x % step
        OBVIOUS
      <4>3. q \in Nat /\ r \in Nat /\ x = step * q + r
        BY <1>7, <4>1, <4>2
      <4>. QED BY <1>7, <3>6, <4>2, <4>3
    <3>7. ASSUME NEW x \in 0 .. (period - 1)
          PROVE  (IF x % step = k THEN k + (x \div step) * step ELSE period_on_coset[i][x])
                 = IF x % step \in Handled \union {k} THEN x ELSE Unset
      <4>1. CASE x % step = k
        BY <3>6, <4>1
      <4>2. CASE x % step # k
        BY <3>4, <4>2
      <4>. QED BY <4>1, <4>2
    <3>8. period_on_coset'[i] = [x \in 0 .. (period - 1) |-> IF x % step \in Handled \union {k} THEN x ELSE Unset]
      BY <3>5, <3>7
    <3>. QED BY <1>2a, <2>1, <2>3, <3>1, <3>2, <3>3, <3>8
  <2>. QED BY <2>2, <2>3
<1>11. period_on_coset' = [i \in 1..NPeriodic |-> period_on_coset'[i]]
  BY <1>3, <1>8
<1>12. PeriodicInv'
  BY <1>3, <1>4, <1>9, <1>10, <1>11, ZenonT(30) DEF PeriodicInv, Unset, period_in_trace
<1>. QED BY <1>5, <1>6, <1>12 DEF JobInv

-----------------------------------------------------------------------------
(* The evaluation of the constraints, after everything it reads is there.  *)
LEMMA TaskOfPoint ==
  ASSUME NEW n \in Nat, NEW d \in Nat \ {0}, NEW t \in Nat, NEW from \in Nat, from = d * t, from < n,
         NEW e, e = IF d < n - from THEN from + d ELSE n, NEW p \in 0 .. (n - 1)
  PROVE  from <= p /\ p < e <=> p \div d = t
<1>1. PICK q \in Nat : q = p \div d
  OBVIOUS
<1>2. PICK a \in Nat : a = d * q /\ a <= p /\ p < a + d
  BY <1>1
<1>3. from < n /\ (e = from + d \/ e = n) /\ e <= from + d /\ p < n /\ p \in Nat
  BY <1>1
<1>4. CASE q = t
  <2>1. a = from
    BY <1>1, <1>2, <1>4
  <2>. QED BY <1>1, <1>2, <1>3, <1>4, <2>1
<1>5. CASE q > t
  <2>1. PICK r \in Nat : q = t + 1 + r
    <3>1. q - t - 1 \in Nat /\ q = t + 1 + (q - t - 1)
      BY <1>5
    <3>. QED BY <3>1
  <2>2. d * (t + 1 + r) = d * t + d + d * r /\ d * r \in Nat
    OBVIOUS
  <2>3. PICK x \in Nat : a = from + d + x
    BY <1>1, <1>2, <2>1, <2>2
  <2>. QED BY <1>1, <1>2, <1>3, <1>5, <2>3
<1>6. CASE q < t
  <2>1. PICK r \in Nat : t = q + 1 + r
    <3>1. t - q - 1 \in Nat /\ t = q + 1 + (t - q - 1)
      BY <1>6
    <3>. QED BY <3>1
  <2>2. d * (q + 1 + r) = d * q + d + d * r /\ d * r \in Nat
    OBVIOUS
  <2>3. PICK x \in Nat : from = a + d + x
    BY <1>1, <1>2, <2>1, <2>2
  <2>. QED BY <1>1, <1>2, <1>3, <1>6, <2>3
<1>. QED BY <1>4, <1>5, <1>6

LEMMA EvalFacts ==
  ASSUME IInv, RunningInv, JobInv, Func = "EvalOnCoset", NEW w \in Workers, info[w] # None
  PROVE  /\ Now = NCalls
         /\ info[w][1] \in Nat /\ info[w][2] = info[w][1] + 1 /\ Pending(w) = {info[w][1]}
         /\ InitialPoint(w) \in Nat /\ EndPoint(w) \in Nat
         /\ InitialPoint(w) < EndPoint(w) /\ EndPoint(w) <= coset_size
         /\ \A p \in Points :
              InitialPoint(w) <= p /\ p < EndPoint(w) <=> p \div job.task_size = info[w][1]
<1>1. Base /\ CallsInv /\ job \in Jobs
  BY DEF Base, JobInv, CallsInv
<1>2. Now = NCalls /\ args.end = DivCeil(coset_size, job.task_size) /\ args.chunk = 1
  BY <1>1, WhichCall, CurrentCall
<1>3. PICK t : t = info[w][1]
  OBVIOUS
<1>4. /\ t \in Nat /\ info[w][2] \in Nat /\ t < info[w][2] /\ info[w][2] <= args.end
      /\ Pending(w) = t .. (info[w][2] - 1)
  BY <1>1, <1>3, ChunkFacts DEF Place
<1>5. info[w][2] - t <= 1
  BY <1>2, <1>3 DEF RunningInv
<1>6. info[w][2] = t + 1 /\ Pending(w) = {t}
  BY <1>4, <1>5
<1>7. PICK d, n : d = job.task_size /\ n = coset_size
  OBVIOUS
<1>8. d \in Nat \ {0} /\ n \in Nat \ {0} /\ WordSize \in Nat \ {0} /\ n + d <= WordSize
  BY <1>1, <1>7, JobFacts
<1>9. args.end = DivCeil(n, d) /\ args.end \in Nat /\ \A u \in 0..(args.end - 1) : d * u < n
  BY <1>2, <1>7, <1>8, TasksCover
<1>10. d * t \in Nat /\ d * t < n
  <2>1. t \in 0..(args.end - 1)
    BY <1>4, <1>6, <1>9
  <2>. QED BY <1>4, <1>8, <1>9, <2>1
<1>11. PICK from \in Nat : from = d * t
  BY <1>10
<1>12. InitialPoint(w) = from /\ EndPoint(w) = IF d < n - from THEN from + d ELSE n
  BY <1>3, <1>7, <1>11 DEF InitialPoint, EndPoint
<1>13. from < n
  BY <1>10, <1>11
<1>14. EndPoint(w) \in Nat /\ from < EndPoint(w) /\ EndPoint(w) <= n /\ EndPoint(w) <= from + d
       /\ (EndPoint(w) = from + d \/ EndPoint(w) = n)
  BY <1>8, <1>12, <1>13
<1>15. ASSUME NEW p \in 0 .. (n - 1)
       PROVE  from <= p /\ p < EndPoint(w) <=> p \div d = t
  <2>1. PICK e : e = EndPoint(w)
    OBVIOUS
  <2>2. from \in Nat /\ from = d * t /\ from < n /\ e = IF d < n - from THEN from + d ELSE n
    BY <1>11, <1>12, <1>13, <2>1
  <2>3. n \in Nat /\ d \in Nat \ {0} /\ t \in Nat /\ p \in 0 .. (n - 1)
    BY <1>4, <1>8
  <2>4. from <= p /\ p < e <=> p \div d = t
    BY ONLY <2>2, <2>3, TaskOfPoint
  <2>. QED BY <2>1, <2>4
<1>. QED BY <1>2, <1>3, <1>4, <1>6, <1>7, <1>12, <1>14, <1>15 DEF Points

LEMMA ArraysAreThere ==
  ASSUME JobInv, Func = "EvalOnCoset"
  PROVE  /\ \A c \in 1..NColumns : \A k \in Points :
              (IF c \in job.cached THEN natural[c][k] ELSE column[c][k]) = <<c, k>>
         /\ \A i \in 1..NPeriodic : \A x \in 0 .. (period_in_trace(job.periodic[i]) - 1) :
              period_on_coset[i][x] = x
<1>1. CallsInv /\ ColumnInv /\ NaturalInv /\ PeriodicInv /\ job \in Jobs
  BY DEF JobInv, CallsInv
<1>2. /\ Now = NCalls /\ NColumns \in Nat /\ NPeriodic \in Nat
      /\ DOMAIN job.columns = 1..NColumns /\ DOMAIN job.periodic = 1..NPeriodic
  BY <1>1, WhichCall, JobFacts
<1>3. \A n \in 1 .. (NColumns + NPeriodic) : Past(n) = Nat
  BY <1>2 DEF Past, NCalls
<1>4. ASSUME NEW c \in 1..NColumns, NEW k \in Points
      PROVE  (IF c \in job.cached THEN natural[c][k] ELSE column[c][k]) = <<c, k>>
  <2>1. Past(c) = Nat
    BY <1>2, <1>3
  <2>2. Reversed(k) \in Nat /\ Turn(k) \in Nat
    BY <1>1, ReversedIs
  <2>3. ASSUME c \in job.cached PROVE natural[c][k] = <<c, k>>
    BY <1>1, <2>1, <2>2, <2>3 DEF NaturalInv
  <2>4. ASSUME c \notin job.cached PROVE column[c][k] = <<c, k>>
    BY <1>1, <1>2, <2>1, <2>2, <2>4 DEF ColumnInv
  <2>. QED BY <2>3, <2>4
<1>5. ASSUME NEW i \in 1..NPeriodic, NEW x \in 0 .. (period_in_trace(job.periodic[i]) - 1)
      PROVE  period_on_coset[i][x] = x
  <2>1. PICK n : n = NColumns + i
    OBVIOUS
  <2>2. n \in 1 .. (NColumns + NPeriodic) /\ ~ (Now < n)
    BY <1>2, <2>1 DEF NCalls
  <2>3. Past(NColumns + i) = Nat
    BY <1>3, <2>1, <2>2
  <2>4. PICK step, period : step = job.periodic[i].column_step /\ period = period_in_trace(job.periodic[i])
    OBVIOUS
  <2>5. step \in Nat \ {0} /\ period \in Nat
    BY <1>1, <2>4, PeriodFacts
  <2>6. x % step \in Nat /\ x \in 0 .. (period - 1)
    BY <2>4, <2>5
  <2>7. period_on_coset[i] = [y \in 0 .. (period - 1) |-> IF y % step \in Nat THEN y ELSE Unset]
    BY <1>1, <1>2, <2>1, <2>2, <2>3, <2>4 DEF PeriodicInv
  <2>. QED BY <2>6, <2>7
<1>. QED BY <1>4, <1>5

LEMMA NeighborsAre ==
  ASSUME JobInv, Func = "EvalOnCoset", NEW idx \in Nat
  PROVE  Neighbors(idx) = [m \in DOMAIN job.mask |-> <<job.mask[m][2], (idx + job.mask[m][1]) % coset_size>>]
<1>1. job \in Jobs
  BY DEF JobInv, CallsInv
<1>2. ASSUME NEW m \in DOMAIN job.mask
      PROVE  (LET c   == job.mask[m][2]
                  row == (idx + job.mask[m][1]) % coset_size
              IN IF c \in job.cached THEN natural[c][row] ELSE column[c][row])
             = <<job.mask[m][2], (idx + job.mask[m][1]) % coset_size>>
  <2>1. job.mask[m][1] \in Nat /\ job.mask[m][2] \in 1..NColumns
    BY <1>1, MaskFacts
  <2>2. coset_size \in Nat \ {0}
    BY <1>1, JobFacts
  <2>3. (idx + job.mask[m][1]) % coset_size \in Points
    BY <2>1, <2>2 DEF Points
  <2>. QED BY <2>1, <2>3, ArraysAreThere
<1>. QED BY <1>2 DEF Neighbors

LEMMA NextModulo ==
  ASSUME NEW n \in Nat, NEW d \in Nat \ {0}
  PROVE  ((n % d) + 1) % d = (n + 1) % d
<1>1. PICK q, r : q = n \div d /\ r = n % d
  OBVIOUS
<1>2. q \in Nat /\ r \in Nat /\ r < d /\ n = d * q + r
  BY <1>1
<1>3. CASE r + 1 < d
  <2>1. n + 1 = d * q + (r + 1)
    BY <1>2
  <2>2. (n + 1) % d = r + 1
    BY <1>2, <1>3, <2>1
  <2>. QED BY <1>1, <1>2, <1>3, <2>2, ModIs
<1>4. CASE r + 1 = d
  <2>1. n + 1 = d * (q + 1)
    BY <1>2, <1>4
  <2>2. (n + 1) % d = 0 /\ d % d = 0
    BY <1>2, <2>1
  <2>. QED BY <1>1, <1>4, <2>2
<1>. QED BY <1>2, <1>3, <1>4

(* The local variables of the lambda, and what its steps make of them.     *)
Places == {"pc", "initial", "end", "idx", "point"}
FrameOf(a, b, c, d, e) == [pc |-> a, initial |-> b, end |-> c, idx |-> d, point |-> e]

IsFrame(r, a, b, c, d, e) ==
  r = [f \in Places |-> r[f]] /\ r.pc = a /\ r.initial = b /\ r.end = c /\ r.idx = d /\ r.point = e

LEMMA FrameIs ==
  ASSUME NEW r, NEW a, NEW b, NEW c, NEW d, NEW e
  PROVE  IsFrame(r, a, b, c, d, e) <=> r = FrameOf(a, b, c, d, e)
BY DEF IsFrame, FrameOf, Places

(* A worker in the lambda takes a step, in its own memory.                 *)
LEMMA EvalGoesOn ==
  ASSUME IInv, RunningInv, JobInv, Func = "EvalOnCoset", NEW w \in Workers, info[w] # None,
         NEW record, NEW mem, Goes(w, record),
         IsFunction(mem, Fields), worker_mem' = [worker_mem EXCEPT ![w] = mem],
         UNCHANGED <<job, calls, column, natural, period_on_coset>>
  PROVE  /\ CallsInv' /\ ShapeInv' /\ ColumnInv' /\ NaturalInv' /\ PeriodicInv'
         /\ UNCHANGED <<args, skipped, info, ran>> /\ Workers' = Workers /\ Func' = Func /\ Handled' = Handled
         /\ coset_size' = coset_size /\ \A p : Value(p)' = Value(p)
         /\ InitialPoint(w)' = InitialPoint(w) /\ EndPoint(w)' = EndPoint(w)
         /\ local'[w] = record /\ worker_mem'[w] = mem
         /\ InEval(w)' => LocalInv'
         /\ \A v \in Workers : v # w => \A p : WrittenBy(v, p)' <=> WrittenBy(v, p)
<1>1. Base /\ CallsInv /\ ShapeInv /\ LocalInv /\ ColumnInv /\ NaturalInv /\ PeriodicInv
  BY DEF Base, JobInv
<1>2. local' = [local EXCEPT ![w] = record] /\ UNCHANGED vars
  BY DEF Goes
<1>3. UNCHANGED <<args, skipped, info, ran>> /\ Workers' = Workers /\ Func' = Func /\ coset_size' = coset_size
  BY <1>2 DEF vars, Workers, Func, coset_size
<1>4. Handled' = Handled
  BY <1>1, <1>2, MoveHandles
<1>5. CallsInv' /\ ColumnInv' /\ NaturalInv' /\ PeriodicInv'
  BY <1>1, <1>3, <1>4, CallsStay, ColumnStays, NaturalStays, PeriodicStays
<1>6. /\ local'[w] = record /\ \A v \in Workers : v # w => local'[v] = local[v]
      /\ IsFunction(local, Workers)'
  BY <1>1, <1>2, <1>3 DEF ShapeInv, IsFunction
<1>7. /\ worker_mem'[w] = mem /\ \A v \in Workers : v # w => worker_mem'[v] = worker_mem[v]
      /\ IsFunction(worker_mem, Workers)'
  BY <1>1, <1>3 DEF ShapeInv, IsFunction
<1>8. ShapeInv'
  <2>1. ASSUME NEW v \in Workers PROVE IsFunction(worker_mem[v], Fields)'
    <3>1. CASE v = w
      BY <1>7, <3>1 DEF IsFunction, Fields
    <3>2. CASE v # w
      BY <1>1, <1>7, <3>2 DEF ShapeInv, IsFunction, Fields
    <3>. QED BY <3>1, <3>2
  <2>. QED BY <1>3, <1>6, <1>7, <2>1 DEF ShapeInv
<1>9. ASSUME NEW v \in Workers, v # w
      PROVE  WorkerInv(v)' /\ \A p : WrittenBy(v, p)' <=> WrittenBy(v, p)
  <2>1. WorkerInv(v)
    BY <1>1 DEF LocalInv
  <2>. QED BY <1>1, <1>3, <1>6, <1>7, <1>9, <2>1, WorkerStays
<1>10. ASSUME InEval(w)' PROVE LocalInv'
  <2>1. WorkerInv(w)'
    BY <1>3, <1>10 DEF WorkerInv
  <2>. QED BY <1>3, <1>9, <2>1 DEF LocalInv
<1>11. ASSUME NEW p PROVE Value(p)' = Value(p)
  BY <1>3 DEF Value
<1>12. InitialPoint(w)' = InitialPoint(w) /\ EndPoint(w)' = EndPoint(w)
  BY <1>3 DEF InitialPoint, EndPoint
<1>. QED BY <1>3, <1>4, <1>5, <1>6, <1>7, <1>8, <1>9, <1>10, <1>11, <1>12

(* When it neither writes to the output nor ends, that is all.             *)
LEMMA EvalJob ==
  ASSUME CallsInv, OutputInv, UNCHANGED <<job, calls, args, out_evaluation>>, Handled' = Handled,
         CallsInv', ShapeInv', LocalInv', ColumnInv', NaturalInv', PeriodicInv',
         \A v \in Workers : \A p \in Points : WrittenBy(v, p)' <=> WrittenBy(v, p)
  PROVE  JobInv'
<1>1. \A p \in Points : Written(p)' <=> Written(p)
  BY WrittenIs
<1>. QED BY <1>1, OutputStays DEF JobInv

LEMMA MemoryIs ==
  ASSUME ShapeInv, NEW w \in Workers, NEW x, NEW y
  PROVE  /\ [worker_mem EXCEPT ![w].periodic_columns_iter = x] =
              [worker_mem EXCEPT ![w] = [worker_mem[w] EXCEPT !.periodic_columns_iter = x]]
         /\ [worker_mem EXCEPT ![w].batch_inverse = x] =
              [worker_mem EXCEPT ![w] = [worker_mem[w] EXCEPT !.batch_inverse = x]]
         /\ [worker_mem EXCEPT ![w].evals = x, ![w].periodic_columns_iter = y] =
              [worker_mem EXCEPT ![w] = [worker_mem[w] EXCEPT !.evals = x, !.periodic_columns_iter = y]]
         /\ worker_mem = [worker_mem EXCEPT ![w] = worker_mem[w]]
<1>1. worker_mem = [v \in Workers |-> worker_mem[v]]
  BY DEF ShapeInv, IsFunction
<1>2. [worker_mem EXCEPT ![w].evals = x, ![w].periodic_columns_iter = y] =
              [worker_mem EXCEPT ![w] = [worker_mem[w] EXCEPT !.evals = x, !.periodic_columns_iter = y]]
  BY <1>1
<1>. QED BY <1>1, <1>2

(* Where a worker is in the lambda.                                        *)
LEMMA EvalPlace ==
  ASSUME LocalInv, Func = "EvalOnCoset", NEW w \in Workers, info[w] # None
  PROVE  /\ local[w].pc = "begin" => AtBegin(w)
         /\ local[w].pc = "columns" => AtColumns(w)
         /\ local[w].pc = "constraints" => AtConstraints(w)
         /\ local[w].pc = "output" => AtOutput(w)
<1>1. InEval(w)
  BY DEF LocalInv, WorkerInv
<1>2. AtBegin(w) => local[w].pc = "begin"
  BY DEF AtBegin
<1>3. AtColumns(w) => local[w].pc = "columns"
  BY DEF AtColumns, Frame
<1>4. AtConstraints(w) => local[w].pc = "constraints"
  BY DEF AtConstraints, Frame
<1>5. AtOutput(w) => local[w].pc = "output"
  BY DEF AtOutput, Frame
<1>. QED BY <1>1, <1>2, <1>3, <1>4, <1>5 DEF InEval

LEMMA BeginJob ==
  ASSUME IInv, RunningInv, JobInv, NEW w \in Workers, Begin(w) PROVE JobInv'
<1>1. CallsInv /\ ShapeInv /\ LocalInv /\ OutputInv
  BY DEF JobInv
<1>2. Func = "EvalOnCoset" /\ info[w] # None /\ local[w].pc = "begin"
  BY DEF Begin, In
<1>3. PICK from, to : from = InitialPoint(w) /\ to = EndPoint(w)
  OBVIOUS
<1>4. from \in Nat /\ to \in Nat /\ from < to /\ to <= coset_size /\ coset_size \in Nat
  BY <1>1, <1>2, <1>3, EvalFacts, JobFacts DEF CallsInv
<1>5. PICK iters : iters = [i \in DOMAIN job.periodic |-> from % period_in_trace(job.periodic[i])]
  OBVIOUS
<1>6. PICK mem : mem = [worker_mem[w] EXCEPT !.periodic_columns_iter = iters]
  OBVIOUS
<1>7. worker_mem' = [worker_mem EXCEPT ![w] = mem] /\ IsFunction(mem, Fields) /\ mem.periodic_columns_iter = iters
  <2>1. worker_mem' = [worker_mem EXCEPT ![w].periodic_columns_iter = iters]
    BY <1>3, <1>5 DEF Begin, WorkerMemory, InitialPoint
  <2>2. IsFunction(worker_mem[w], Fields)
    BY <1>1 DEF ShapeInv
  <2>. QED BY <1>1, <1>6, <2>1, <2>2, MemoryIs DEF IsFunction, Fields
<1>8. Goes(w, FrameOf("columns", from, to, from, from))
  <2>1. to = from + (IF job.task_size < coset_size - from THEN job.task_size ELSE coset_size - from)
    BY <1>3, <1>4 DEF EndPoint
  <2>. QED BY <1>3, <2>1 DEF Begin, InitialPoint, FrameOf
<1>9. UNCHANGED <<job, calls, column, natural, period_on_coset, out_evaluation>>
  BY DEF Begin
<1>10. /\ CallsInv' /\ ShapeInv' /\ ColumnInv' /\ NaturalInv' /\ PeriodicInv'
       /\ UNCHANGED <<args, skipped, info, ran>> /\ Handled' = Handled
       /\ InitialPoint(w)' = from /\ EndPoint(w)' = to
       /\ local'[w] = FrameOf("columns", from, to, from, from) /\ worker_mem'[w] = mem
       /\ InEval(w)' => LocalInv'
       /\ \A v \in Workers : v # w => \A p : WrittenBy(v, p)' <=> WrittenBy(v, p)
  BY <1>2, <1>3, <1>7, <1>8, <1>9, EvalGoesOn
<1>11. local'[w].idx = from /\ local'[w].pc = "columns"
  BY <1>10 DEF FrameOf
<1>12. AtColumns(w)'
  <2>1. local'[w] = Frame(w, "columns", local[w].idx, local[w].idx)'
    BY <1>10, <1>11 DEF Frame, FrameOf
  <2>2. ValuesUpTo(w, local[w].idx)'
    BY <1>4, <1>10, <1>11 DEF ValuesUpTo
  <2>3. IteratorsAt(w, local[w].idx)'
    BY <1>5, <1>7, <1>9, <1>10, <1>11 DEF IteratorsAt, period_in_trace
  <2>. QED BY <1>4, <1>10, <1>11, <2>1, <2>2, <2>3 DEF AtColumns
<1>13. \A v \in Workers : \A p : WrittenBy(v, p)' <=> WrittenBy(v, p)
  BY <1>2, <1>10, <1>11 DEF WrittenBy
<1>14. LocalInv'
  BY <1>10, <1>12 DEF InEval
<1>. QED BY <1>1, <1>9, <1>10, <1>13, <1>14, EvalJob

LEMMA ColumnsJob ==
  ASSUME IInv, RunningInv, JobInv, NEW w \in Workers, Columns(w) PROVE JobInv'
<1>1. CallsInv /\ ShapeInv /\ LocalInv /\ OutputInv /\ job \in Jobs
  BY DEF JobInv, CallsInv
<1>2. Func = "EvalOnCoset" /\ info[w] # None /\ local[w].pc = "columns" /\ local[w].idx < local[w].end
  BY DEF Columns, In
<1>3. PICK from, to, i : from = InitialPoint(w) /\ to = EndPoint(w) /\ i = local[w].idx
  OBVIOUS
<1>4. from \in Nat /\ to \in Nat /\ from < to /\ to <= coset_size /\ coset_size \in Nat
  BY <1>1, <1>2, <1>3, EvalFacts, JobFacts
<1>5. /\ local[w] = FrameOf("columns", from, to, i, i) /\ i \in from .. to
      /\ ValuesUpTo(w, i) /\ IteratorsAt(w, i)
  BY <1>1, <1>2, <1>3, EvalPlace DEF AtColumns, Frame, FrameOf
<1>6. i \in Nat /\ from <= i /\ i < to /\ i <= to - 1
  <2>1. local[w].end = to
    BY <1>5 DEF FrameOf
  <2>. QED BY <1>2, <1>3, <1>4, <1>5, <2>1
<1>7. PICK iters : iters = [k \in DOMAIN job.periodic |-> (i + 1) % period_in_trace(job.periodic[k])]
  OBVIOUS
<1>8. PICK evals : evals = [periodic |-> [k \in DOMAIN job.periodic |-> i % period_in_trace(job.periodic[k])],
                            domain   |-> [k \in DOMAIN job.domain_evals |-> i % job.domain_evals[k]]]
  OBVIOUS
<1>9. PICK mem : mem = [worker_mem[w] EXCEPT !.evals = evals, !.periodic_columns_iter = iters]
  OBVIOUS
<1>10. worker_mem' = [worker_mem EXCEPT ![w].evals = evals, ![w].periodic_columns_iter = iters]
  <2>1. PICK iter : iter = worker_mem[w].periodic_columns_iter
    OBVIOUS
  <2>2. iter = [k \in DOMAIN job.periodic |-> i % period_in_trace(job.periodic[k])]
    BY <1>5, <2>1 DEF IteratorsAt
  <2>3. worker_mem' = [worker_mem EXCEPT
           ![w].evals = [periodic |-> [k \in DOMAIN job.periodic |-> period_on_coset[k][iter[k]]],
                         domain   |-> [k \in DOMAIN job.domain_evals |-> i % job.domain_evals[k]]],
           ![w].periodic_columns_iter = [k \in DOMAIN job.periodic |-> (iter[k] + 1) % period_in_trace(job.periodic[k])]]
    BY <1>3, <2>1 DEF Columns, WorkerMemory, wm
  <2>4. ASSUME NEW k \in DOMAIN job.periodic
        PROVE  /\ period_on_coset[k][iter[k]] = i % period_in_trace(job.periodic[k])
               /\ (iter[k] + 1) % period_in_trace(job.periodic[k]) = (i + 1) % period_in_trace(job.periodic[k])
    <3>1. k \in 1..NPeriodic
      BY <1>1, <2>4, JobFacts
    <3>2. PICK period : period = period_in_trace(job.periodic[k])
      OBVIOUS
    <3>3. period \in Nat \ {0}
      BY <1>1, <3>1, <3>2, PeriodFacts
    <3>4. iter[k] = i % period /\ i % period \in 0 .. (period - 1)
      BY <1>6, <2>2, <3>2, <3>3
    <3>5. period_on_coset[k][i % period] = i % period
      BY <1>2, <3>1, <3>2, <3>4, ArraysAreThere
    <3>6. ((i % period) + 1) % period = (i + 1) % period
      BY <1>6, <3>3, NextModulo
    <3>. QED BY <3>2, <3>4, <3>5, <3>6
  <2>5. [k \in DOMAIN job.periodic |-> period_on_coset[k][iter[k]]]
          = [k \in DOMAIN job.periodic |-> i % period_in_trace(job.periodic[k])]
    BY <2>4
  <2>6. [k \in DOMAIN job.periodic |-> (iter[k] + 1) % period_in_trace(job.periodic[k])] = iters
    BY <1>7, <2>4
  <2>. QED BY <1>8, <2>3, <2>5, <2>6
<1>11. /\ worker_mem' = [worker_mem EXCEPT ![w] = mem] /\ IsFunction(mem, Fields)
       /\ mem.periodic_columns_iter = iters /\ mem.evals = evals
       /\ mem.batch_inverse = worker_mem[w].batch_inverse
  <2>1. IsFunction(worker_mem[w], Fields)
    BY <1>1 DEF ShapeInv
  <2>2. worker_mem' = [worker_mem EXCEPT ![w] = mem]
    BY <1>1, <1>9, <1>10, MemoryIs
  <2>. QED BY <1>9, <2>1, <2>2 DEF IsFunction, Fields
<1>12. Goes(w, FrameOf("constraints", from, to, i, i))
  <2>1. [local[w] EXCEPT !.pc = "constraints"] = FrameOf("constraints", from, to, i, i)
    <3>1. PICK r : r = local[w]
      OBVIOUS
    <3>2. IsFrame(r, "columns", from, to, i, i)
      BY <1>5, <3>1, FrameIs
    <3>3. PICK t : t = [r EXCEPT !.pc = "constraints"]
      OBVIOUS
    <3>4. IsFrame(t, "constraints", from, to, i, i)
      BY <3>2, <3>3 DEF IsFrame, Places
    <3>. QED BY <3>1, <3>3, <3>4, FrameIs
  <2>. QED BY <2>1 DEF Columns
<1>13. UNCHANGED <<job, calls, column, natural, period_on_coset, out_evaluation>>
  BY DEF Columns
<1>14. /\ CallsInv' /\ ShapeInv' /\ ColumnInv' /\ NaturalInv' /\ PeriodicInv'
       /\ UNCHANGED <<args, skipped, info, ran>> /\ Handled' = Handled
       /\ \A p : Value(p)' = Value(p)
       /\ InitialPoint(w)' = from /\ EndPoint(w)' = to
       /\ local'[w] = FrameOf("constraints", from, to, i, i) /\ worker_mem'[w] = mem
       /\ InEval(w)' => LocalInv'
       /\ \A v \in Workers : v # w => \A p : WrittenBy(v, p)' <=> WrittenBy(v, p)
  BY <1>2, <1>3, <1>11, <1>12, <1>13, EvalGoesOn
<1>15. local'[w].idx = i /\ local'[w].pc = "constraints"
  BY <1>14 DEF FrameOf
<1>16. AtConstraints(w)'
  <2>1. local'[w] = Frame(w, "constraints", local[w].idx, local[w].idx)'
    BY <1>14, <1>15 DEF Frame, FrameOf
  <2>2. ValuesUpTo(w, local[w].idx)'
    BY <1>3, <1>5, <1>11, <1>14, <1>15 DEF ValuesUpTo
  <2>3. IteratorsAt(w, local[w].idx + 1)'
    BY <1>7, <1>11, <1>13, <1>14, <1>15 DEF IteratorsAt, period_in_trace
  <2>4. EvalsAt(w, local[w].idx)'
    BY <1>8, <1>11, <1>13, <1>14, <1>15 DEF EvalsAt, period_in_trace
  <2>5. i \in from .. (to - 1)
    BY <1>4, <1>6
  <2>. QED BY <1>14, <1>15, <2>1, <2>2, <2>3, <2>4, <2>5 DEF AtConstraints
<1>17. \A v \in Workers : \A p : WrittenBy(v, p)' <=> WrittenBy(v, p)
  BY <1>2, <1>14, <1>15 DEF WrittenBy
<1>18. LocalInv'
  BY <1>14, <1>16 DEF InEval
<1>. QED BY <1>1, <1>13, <1>14, <1>17, <1>18, EvalJob

LEMMA ConstraintsEvalJob ==
  ASSUME IInv, RunningInv, JobInv, NEW w \in Workers, ConstraintsEval(w) PROVE JobInv'
<1>1. CallsInv /\ ShapeInv /\ LocalInv /\ OutputInv /\ job \in Jobs
  BY DEF JobInv, CallsInv
<1>2. Func = "EvalOnCoset" /\ info[w] # None /\ local[w].pc = "constraints"
  BY DEF ConstraintsEval, In
<1>3. PICK from, to, i : from = InitialPoint(w) /\ to = EndPoint(w) /\ i = local[w].idx
  OBVIOUS
<1>4. from \in Nat /\ to \in Nat /\ from < to /\ to <= coset_size /\ coset_size \in Nat
  BY <1>1, <1>2, <1>3, EvalFacts, JobFacts
<1>5. /\ local[w] = FrameOf("constraints", from, to, i, i) /\ i \in from .. (to - 1)
      /\ ValuesUpTo(w, i) /\ IteratorsAt(w, i + 1) /\ EvalsAt(w, i)
  BY <1>1, <1>2, <1>3, EvalPlace DEF AtConstraints, Frame, FrameOf
<1>6. i \in Nat /\ from <= i /\ i < to /\ i + 1 <= to /\ i + 1 \in from .. to
  BY <1>4, <1>5
<1>7. PICK old : old = worker_mem[w].batch_inverse
  OBVIOUS
<1>8. PICK inverse : inverse = [k \in DOMAIN old \union {i - from} |-> IF k = i - from THEN Value(i) ELSE old[k]]
  OBVIOUS
<1>9. PICK mem : mem = [worker_mem[w] EXCEPT !.batch_inverse = inverse]
  OBVIOUS
<1>10. worker_mem' = [worker_mem EXCEPT ![w].batch_inverse = inverse]
  <2>1. local[w].initial = from /\ local[w].point = i
    BY <1>5 DEF FrameOf
  <2>2. ConstraintValue(Neighbors(i), worker_mem[w].evals, i) = Value(i)
    <3>1. PICK evals : evals = worker_mem[w].evals
      OBVIOUS
    <3>2. /\ evals.periodic = [k \in DOMAIN job.periodic |-> i % period_in_trace(job.periodic[k])]
          /\ evals.domain = [k \in DOMAIN job.domain_evals |-> i % job.domain_evals[k]]
      BY <1>5, <3>1 DEF EvalsAt
    <3>3. Neighbors(i) = [m \in DOMAIN job.mask |-> <<job.mask[m][2], (i + job.mask[m][1]) % coset_size>>]
      BY <1>2, <1>6, NeighborsAre
    <3>. QED BY <3>1, <3>2, <3>3 DEF ConstraintValue, Value
  <2>3. worker_mem' = [worker_mem EXCEPT ![w].batch_inverse =
                         [k \in DOMAIN old \union {i - from} |->
                            IF k = i - from THEN ConstraintValue(Neighbors(i), worker_mem[w].evals, i) ELSE old[k]]]
    BY <1>3, <1>7, <2>1 DEF ConstraintsEval, WorkerMemory, wm
  <2>. QED BY <1>8, <2>2, <2>3
<1>11. /\ worker_mem' = [worker_mem EXCEPT ![w] = mem] /\ IsFunction(mem, Fields)
       /\ mem.periodic_columns_iter = worker_mem[w].periodic_columns_iter /\ mem.batch_inverse = inverse
  <2>1. IsFunction(worker_mem[w], Fields)
    BY <1>1 DEF ShapeInv
  <2>2. worker_mem' = [worker_mem EXCEPT ![w] = mem]
    BY <1>1, <1>9, <1>10, MemoryIs
  <2>. QED BY <1>9, <2>1, <2>2 DEF IsFunction, Fields
<1>12. Goes(w, FrameOf("columns", from, to, i + 1, i + 1))
  <2>1. PICK r : r = local[w]
    OBVIOUS
  <2>2. IsFrame(r, "constraints", from, to, i, i)
    BY <1>5, <2>1, FrameIs
  <2>3. PICK t : t = [r EXCEPT !.pc = "columns", !.idx = @ + 1, !.point = @ + 1]
    OBVIOUS
  <2>4. IsFrame(t, "columns", from, to, i + 1, i + 1)
    BY <2>2, <2>3 DEF IsFrame, Places
  <2>5. t = FrameOf("columns", from, to, i + 1, i + 1)
    BY <2>4, FrameIs
  <2>. QED BY <2>1, <2>3, <2>5 DEF ConstraintsEval
<1>13. UNCHANGED <<job, calls, column, natural, period_on_coset, out_evaluation>>
  BY DEF ConstraintsEval
<1>14. /\ CallsInv' /\ ShapeInv' /\ ColumnInv' /\ NaturalInv' /\ PeriodicInv'
       /\ UNCHANGED <<args, skipped, info, ran>> /\ Handled' = Handled
       /\ \A p : Value(p)' = Value(p)
       /\ InitialPoint(w)' = from /\ EndPoint(w)' = to
       /\ local'[w] = FrameOf("columns", from, to, i + 1, i + 1) /\ worker_mem'[w] = mem
       /\ InEval(w)' => LocalInv'
       /\ \A v \in Workers : v # w => \A p : WrittenBy(v, p)' <=> WrittenBy(v, p)
  BY <1>2, <1>3, <1>11, <1>12, <1>13, EvalGoesOn
<1>15. local'[w].idx = i + 1 /\ local'[w].pc = "columns"
  BY <1>14 DEF FrameOf
<1>16. AtColumns(w)'
  <2>1. local'[w] = Frame(w, "columns", local[w].idx, local[w].idx)'
    BY <1>14, <1>15 DEF Frame, FrameOf
  <2>2. ValuesUpTo(w, local[w].idx)'
    <3>1. ASSUME NEW k \in 0 .. (i - from)
          PROVE  k \in DOMAIN inverse /\ inverse[k] = Value(from + k)
      <4>1. CASE k = i - from
        BY <1>4, <1>6, <1>8, <4>1
      <4>2. CASE k # i - from
        <5>1. k \in 0 .. (i - from - 1)
          BY <1>4, <1>6, <4>2
        <5>2. k \in DOMAIN old /\ old[k] = Value(from + k)
          BY <1>3, <1>5, <1>7, <5>1 DEF ValuesUpTo
        <5>. QED BY <1>8, <4>2, <5>2
      <4>. QED BY <4>1, <4>2
    <3>2. 0 .. ((i + 1) - from - 1) = 0 .. (i - from)
      BY <1>4, <1>6
    <3>. QED BY <1>11, <1>14, <1>15, <3>1, <3>2 DEF ValuesUpTo
  <2>3. IteratorsAt(w, local[w].idx)'
    BY <1>5, <1>11, <1>13, <1>14, <1>15 DEF IteratorsAt, period_in_trace
  <2>. QED BY <1>6, <1>14, <1>15, <2>1, <2>2, <2>3 DEF AtColumns
<1>17. \A v \in Workers : \A p : WrittenBy(v, p)' <=> WrittenBy(v, p)
  BY <1>2, <1>14, <1>15 DEF WrittenBy
<1>18. LocalInv'
  BY <1>14, <1>16 DEF InEval
<1>. QED BY <1>1, <1>13, <1>14, <1>17, <1>18, EvalJob

LEMMA BatchInverseJob ==
  ASSUME IInv, RunningInv, JobInv, NEW w \in Workers, BatchInverse(w) PROVE JobInv'
<1>1. CallsInv /\ ShapeInv /\ LocalInv /\ OutputInv /\ job \in Jobs
  BY DEF JobInv, CallsInv
<1>2. Func = "EvalOnCoset" /\ info[w] # None /\ local[w].pc = "columns" /\ local[w].idx = local[w].end
  BY DEF BatchInverse, In
<1>3. PICK from, to : from = InitialPoint(w) /\ to = EndPoint(w)
  OBVIOUS
<1>4. from \in Nat /\ to \in Nat /\ from < to
  BY <1>1, <1>2, <1>3, EvalFacts
<1>5. local[w] = FrameOf("columns", from, to, to, to) /\ ValuesUpTo(w, to)
  <2>1. AtColumns(w)
    BY <1>1, <1>2, EvalPlace
  <2>2. local[w].end = to
    BY <1>3, <2>1 DEF AtColumns, Frame
  <2>. QED BY <1>2, <1>3, <2>1, <2>2 DEF AtColumns, Frame, FrameOf
<1>6. UNCHANGED <<job, calls, column, natural, period_on_coset, worker_mem, out_evaluation>>
  BY DEF BatchInverse
<1>7. PICK mem : mem = worker_mem[w]
  OBVIOUS
<1>8. worker_mem' = [worker_mem EXCEPT ![w] = mem] /\ IsFunction(mem, Fields)
  BY <1>1, <1>6, <1>7, MemoryIs DEF ShapeInv
<1>9. Goes(w, FrameOf("output", from, to, from, to))
  <2>1. PICK r : r = local[w]
    OBVIOUS
  <2>2. IsFrame(r, "columns", from, to, to, to)
    BY <1>5, <2>1, FrameIs
  <2>3. PICK t : t = [r EXCEPT !.pc = "output", !.idx = r.initial]
    OBVIOUS
  <2>4. IsFrame(t, "output", from, to, from, to)
    BY <2>2, <2>3 DEF IsFrame, Places
  <2>5. t = FrameOf("output", from, to, from, to)
    BY <2>4, FrameIs
  <2>. QED BY <2>1, <2>3, <2>5 DEF BatchInverse
<1>10. /\ CallsInv' /\ ShapeInv' /\ ColumnInv' /\ NaturalInv' /\ PeriodicInv'
       /\ UNCHANGED <<args, skipped, info, ran>> /\ Handled' = Handled
       /\ \A p : Value(p)' = Value(p)
       /\ InitialPoint(w)' = from /\ EndPoint(w)' = to
       /\ local'[w] = FrameOf("output", from, to, from, to)
       /\ InEval(w)' => LocalInv'
       /\ \A v \in Workers : v # w => \A p : WrittenBy(v, p)' <=> WrittenBy(v, p)
  BY <1>2, <1>3, <1>6, <1>8, <1>9, EvalGoesOn
<1>11. local'[w].idx = from /\ local'[w].pc = "output"
  BY <1>10 DEF FrameOf
<1>12. AtOutput(w)'
  <2>1. local'[w] = Frame(w, "output", local[w].idx, EndPoint(w))'
    BY <1>10, <1>11 DEF Frame, FrameOf
  <2>2. ValuesUpTo(w, EndPoint(w))'
    BY <1>3, <1>5, <1>6, <1>10 DEF ValuesUpTo
  <2>. QED BY <1>4, <1>10, <1>11, <2>1, <2>2 DEF AtOutput
<1>13. \A v \in Workers : \A p \in Points : WrittenBy(v, p)' <=> WrittenBy(v, p)
  <2>1. ASSUME NEW p \in Points PROVE ~ WrittenBy(w, p) /\ ~ WrittenBy(w, p)'
    <3>1. ~ WrittenBy(w, p)
      BY <1>2 DEF WrittenBy
    <3>2. ASSUME WrittenBy(w, p)' PROVE FALSE
      <4>1. from <= p /\ p < from
        BY <1>10, <1>11, <3>2 DEF WrittenBy
      <4>2. p \in Nat
        BY <1>1, JobFacts DEF Points
      <4>. QED BY <1>4, <4>1, <4>2
    <3>. QED BY <3>1, <3>2
  <2>. QED BY <1>10, <2>1
<1>14. LocalInv'
  BY <1>10, <1>12 DEF InEval
<1>. QED BY <1>1, <1>6, <1>10, <1>13, <1>14, EvalJob

LEMMA OutputJob ==
  ASSUME IInv, RunningInv, JobInv, NEW w \in Workers, Output(w) PROVE JobInv'
<1>1. CallsInv /\ ShapeInv /\ LocalInv /\ OutputInv /\ job \in Jobs
  BY DEF JobInv, CallsInv
<1>2. Func = "EvalOnCoset" /\ info[w] # None /\ local[w].pc = "output" /\ local[w].idx < local[w].end
  BY DEF Output, In
<1>3. PICK from, to, i : from = InitialPoint(w) /\ to = EndPoint(w) /\ i = local[w].idx
  OBVIOUS
<1>4. from \in Nat /\ to \in Nat /\ from < to /\ to <= coset_size /\ coset_size \in Nat
  BY <1>1, <1>2, <1>3, EvalFacts, JobFacts
<1>5. local[w] = FrameOf("output", from, to, i, to) /\ i \in from .. to /\ ValuesUpTo(w, to)
  BY <1>1, <1>2, <1>3, EvalPlace DEF AtOutput, Frame, FrameOf
<1>6. i \in Nat /\ from <= i /\ i < to /\ i + 1 \in from .. to /\ i \in Points
  <2>1. local[w].end = to
    BY <1>5 DEF FrameOf
  <2>2. i < to
    BY <1>2, <1>3, <2>1
  <2>. QED BY <1>4, <1>5, <2>2 DEF Points
<1>7. UNCHANGED <<job, calls, column, natural, period_on_coset, worker_mem>>
  BY DEF Output
<1>8. PICK mem : mem = worker_mem[w]
  OBVIOUS
<1>9. worker_mem' = [worker_mem EXCEPT ![w] = mem] /\ IsFunction(mem, Fields)
  BY <1>1, <1>7, <1>8, MemoryIs DEF ShapeInv
<1>10. Goes(w, FrameOf("output", from, to, i + 1, to))
  <2>1. PICK r : r = local[w]
    OBVIOUS
  <2>2. IsFrame(r, "output", from, to, i, to)
    BY <1>5, <2>1, FrameIs
  <2>3. PICK t : t = [r EXCEPT !.idx = @ + 1]
    OBVIOUS
  <2>4. IsFrame(t, "output", from, to, i + 1, to)
    BY <2>2, <2>3 DEF IsFrame, Places
  <2>5. t = FrameOf("output", from, to, i + 1, to)
    BY <2>4, FrameIs
  <2>. QED BY <2>1, <2>3, <2>5 DEF Output
<1>11. /\ CallsInv' /\ ShapeInv' /\ ColumnInv' /\ NaturalInv' /\ PeriodicInv'
       /\ UNCHANGED <<args, skipped, info, ran>> /\ Workers' = Workers /\ Func' = Func /\ Handled' = Handled
       /\ coset_size' = coset_size /\ \A p : Value(p)' = Value(p)
       /\ InitialPoint(w)' = from /\ EndPoint(w)' = to
       /\ local'[w] = FrameOf("output", from, to, i + 1, to)
       /\ InEval(w)' => LocalInv'
       /\ \A v \in Workers : v # w => \A p : WrittenBy(v, p)' <=> WrittenBy(v, p)
  BY <1>2, <1>3, <1>7, <1>9, <1>10, EvalGoesOn
<1>12. local'[w].idx = i + 1 /\ local'[w].pc = "output"
  BY <1>11 DEF FrameOf
<1>13. AtOutput(w)'
  <2>1. local'[w] = Frame(w, "output", local[w].idx, EndPoint(w))'
    BY <1>11, <1>12 DEF Frame, FrameOf
  <2>2. ValuesUpTo(w, EndPoint(w))'
    BY <1>3, <1>5, <1>7, <1>11 DEF ValuesUpTo
  <2>. QED BY <1>6, <1>11, <1>12, <2>1, <2>2 DEF AtOutput
<1>14. LocalInv'
  BY <1>11, <1>13 DEF InEval
<1>15. ASSUME NEW p \in Points PROVE Written(p)' <=> Written(p) \/ p = i
  <2>1. p \in Nat
    BY <1>1, JobFacts DEF Points
  <2>2. WrittenBy(w, p) <=> from <= p /\ p < i
    BY <1>2, <1>3 DEF WrittenBy
  <2>3. WrittenBy(w, p)' <=> from <= p /\ p < i + 1
    BY <1>2, <1>11, <1>12 DEF WrittenBy
  <2>4. WrittenBy(w, p)' <=> WrittenBy(w, p) \/ p = i
    BY <1>4, <1>6, <2>1, <2>2, <2>3
  <2>5. NCalls' = NCalls /\ \A n : Past(n)' = Past(n)
    BY <1>1, <1>7, <1>11, PastGrows DEF NCalls, NColumns, NPeriodic
  <2>6. Past(NCalls)' = Past(NCalls) /\ job.task_size' = job.task_size
    BY <1>7, <2>5 DEF Past
  <2>. QED BY <1>11, <2>4, <2>6 DEF Written
<1>16. OutputInv'
  <2>1. Reversed(i) \in Points /\ Reversed(Reversed(i)) = i
    BY <1>1, <1>6, ReversedIs
  <2>2. out_evaluation' = [out_evaluation EXCEPT ![Reversed(i)] = Value(i)]
    <3>1. i - from \in 0 .. (to - from - 1) /\ from + (i - from) = i
      BY <1>4, <1>6
    <3>2. worker_mem[w].batch_inverse[i - from] = Value(i)
      <4>1. PICK k : k = i - from
        OBVIOUS
      <4>2. k \in 0 .. (to - from - 1) /\ from + k = i
        BY <3>1, <4>1
      <4>3. worker_mem[w].batch_inverse[k] = Value(from + k)
        BY <1>3, <1>5, <4>2 DEF ValuesUpTo
      <4>. QED BY <4>1, <4>2, <4>3
    <3>3. local[w].initial = from
      BY <1>5 DEF FrameOf
    <3>4. out_evaluation' = [out_evaluation EXCEPT ![Reversed(i)] = worker_mem[w].batch_inverse[i - from]]
      BY <1>3, <3>3 DEF Output, WorkerMemory, wm
    <3>. QED BY <3>2, <3>4
  <2>3. Points' = Points /\ \A k : Reversed(k)' = Reversed(k)
    BY <1>7, <1>11 DEF Points, Reversed
  <2>4. NoValue' = NoValue
    BY DEF NoValue, ConstraintValue
  <2>5. ASSUME NEW k \in Points
        PROVE  [out_evaluation EXCEPT ![Reversed(i)] = Value(i)][k]
               = IF Written(Reversed(k))' THEN Value(Reversed(k)) ELSE NoValue
    <3>1. PICK p : p = Reversed(k)
      OBVIOUS
    <3>2. p \in Points /\ Reversed(p) = k
      BY <1>1, <3>1, ReversedIs
    <3>3. out_evaluation[k] = (IF Written(p) THEN Value(p) ELSE NoValue) /\ k \in DOMAIN out_evaluation
      BY <1>1, <3>1 DEF OutputInv
    <3>4. Written(p)' <=> Written(p) \/ p = i
      BY <1>15, <3>2
    <3>5. k = Reversed(i) <=> p = i
      BY <2>1, <3>1, <3>2
    <3>6. [out_evaluation EXCEPT ![Reversed(i)] = Value(i)][k] = IF Written(p)' THEN Value(p) ELSE NoValue
      <4>1. CASE p = i
        BY <3>3, <3>4, <3>5, <4>1
      <4>2. CASE p # i
        BY <3>3, <3>4, <3>5, <4>2
      <4>. QED BY <4>1, <4>2
    <3>7. Reversed(k)' = p
      BY <2>3, <3>1
    <3>. QED BY <3>1, <3>6, <3>7
  <2>6. [out_evaluation EXCEPT ![Reversed(i)] = Value(i)]
          = [k \in Points |-> IF Written(Reversed(k))' THEN Value(Reversed(k)) ELSE NoValue]
    <3>1. out_evaluation = [k \in Points |-> out_evaluation[k]]
      BY <1>1 DEF OutputInv
    <3>2. PICK out : out = [out_evaluation EXCEPT ![Reversed(i)] = Value(i)]
      OBVIOUS
    <3>3. out = [k \in Points |-> out[k]]
      BY <3>1, <3>2
    <3>. QED BY <2>5, <3>2, <3>3
  <2>7. \A k \in Points : Value(Reversed(k))' = Value(Reversed(k))
    <3> SUFFICES ASSUME NEW k \in Points PROVE Value(Reversed(k))' = Value(Reversed(k))
      OBVIOUS
    <3>1. PICK p : p = Reversed(k)
      OBVIOUS
    <3>2. Value(p)' = Value(p) /\ Reversed(k)' = p
      BY <1>11, <2>3, <3>1
    <3>. QED BY <1>7, <1>11, <3>1, <3>2 DEF Value, period_in_trace
  <2>. QED BY <2>2, <2>3, <2>4, <2>6, <2>7 DEF OutputInv
<1>. QED BY <1>11, <1>14, <1>16 DEF JobInv

LEMMA LambdaEndsJob ==
  ASSUME IInv, RunningInv, JobInv, NEW w \in Workers, LambdaEnds(w) PROVE JobInv'
<1>1. /\ Base /\ CallsInv /\ ShapeInv /\ LocalInv /\ job \in Jobs
      /\ ColumnInv /\ NaturalInv /\ PeriodicInv /\ OutputInv
  BY DEF Base, JobInv, CallsInv
<1>2. /\ Func = "EvalOnCoset" /\ info[w] # None /\ local[w].pc = "output" /\ local[w].idx = local[w].end
      /\ Finished(w)
      /\ UNCHANGED <<job, calls, column, natural, period_on_coset, worker_mem, out_evaluation>>
  BY DEF LambdaEnds, In
<1>3. local[w].idx = EndPoint(w)
  <2>1. AtOutput(w)
    BY <1>1, <1>2, EvalPlace
  <2>2. local[w].end = EndPoint(w)
    BY <2>1 DEF AtOutput, Frame
  <2>. QED BY <1>2, <2>2
<1>4. PICK t : t = info[w][1]
  OBVIOUS
<1>5. /\ Now = NCalls /\ Pending(w) = {t}
      /\ \A p \in Points : InitialPoint(w) <= p /\ p < EndPoint(w) <=> p \div job.task_size = t
  BY <1>1, <1>2, <1>4, EvalFacts
<1>6. /\ Handled' = Handled \union {t}
      /\ args' = args /\ skipped' = skipped /\ ran' = ran /\ Workers' = Workers /\ Func' = Func
      /\ local'[w] = <<>> /\ \A v \in Workers : v # w => local'[v] = local[v]
      /\ info'[w] = None /\ \A v \in Workers : v # w => info'[v] = info[v]
  BY <1>1, <1>2, <1>5, ReturnHandles
<1>7. ShapeInv'
  BY <1>1, <1>2, <1>6 DEF ShapeInv, IsFunction, Finished
<1>8. ASSUME NEW v \in Workers
      PROVE  WorkerInv(v)' /\ (v # w => \A p : WrittenBy(v, p)' <=> WrittenBy(v, p))
  <2>1. CASE v = w
    BY <1>6, <2>1 DEF WorkerInv
  <2>2. CASE v # w
    <3>1. WorkerInv(v)
      BY <1>1 DEF LocalInv
    <3>. QED BY <1>1, <1>2, <1>6, <2>2, <3>1, WorkerStays
  <2>. QED BY <2>1, <2>2
<1>9. LocalInv'
  BY <1>6, <1>8 DEF LocalInv
<1>10. ASSUME NEW p \in Points PROVE Written(p)' <=> Written(p)
  <2>1. Past(NCalls) = Handled /\ Past(NCalls)' = Handled \union {t}
    <3>1. PICK n : n = NCalls
      OBVIOUS
    <3>2. NCalls' = n
      BY <1>2, <3>1 DEF NCalls, NColumns, NPeriodic
    <3>3. Past(n) = Handled /\ Past(n)' = Handled'
      BY <1>1, <1>2, <1>5, <3>1, PastGrows
    <3>. QED BY <1>6, <3>1, <3>2, <3>3 DEF Past
  <2>2. WrittenBy(w, p) <=> p \div job.task_size = t
    BY <1>2, <1>3, <1>5 DEF WrittenBy
  <2>3. ~ WrittenBy(w, p)'
    BY <1>6 DEF WrittenBy
  <2>4. job' = job
    BY <1>2
  <2>. QED BY <1>6, <1>8, <2>1, <2>2, <2>3, <2>4 DEF Written
<1>11. CallsInv' /\ ColumnInv' /\ NaturalInv' /\ PeriodicInv' /\ OutputInv'
  BY <1>1, <1>2, <1>6, <1>10, CallsStay, ColumnStays, NaturalStays, PeriodicStays, OutputStays
<1>. QED BY <1>7, <1>9, <1>11 DEF JobInv

-----------------------------------------------------------------------------
(* The invariant holds in the beginning and every step preserves it.       *)
LEMMA NothingRuns == ASSUME Called PROVE RunningInv
BY DEF Called, RunningInv

LEMMA EvaluationInitInv ==
  ASSUME EvaluationInit PROVE EInv
<1>1. /\ job \in Jobs /\ calls = CallsOfJob /\ args = Head(calls).args /\ Called
      /\ column = [c \in DOMAIN job.columns |-> [k \in Points |-> <<c, Reversed(k)>>]]
      /\ natural = [c \in job.cached |-> [k \in Points |-> Unset]]
      /\ period_on_coset = [i \in DOMAIN job.periodic |-> <<>>]
      /\ worker_mem = [w \in 0 .. (job.threads - 1) |->
                         [periodic_columns_iter |-> <<>>, evals |-> <<>>, batch_inverse |-> <<>>]]
      /\ local = [w \in 0 .. (job.threads - 1) |-> <<>>]
      /\ out_evaluation = [k \in Points |-> NoValue]
  BY DEF EvaluationInit
<1>2. /\ NColumns \in Nat \ {0} /\ NPeriodic \in Nat /\ NCalls \in Nat /\ NColumns < NCalls
      /\ DOMAIN job.columns = 1..NColumns /\ DOMAIN job.periodic = 1..NPeriodic
      /\ job.cached \subseteq 1..NColumns
  BY <1>1, JobFacts DEF NCalls
<1>3. IsList(calls) /\ Len(calls) = NCalls /\ Now = 1
  <2>1. IsList(calls) /\ Len(calls) = NCalls
    BY <1>1, CallNumbers
  <2>. QED BY <1>2, <2>1 DEF Now
<1>4. Head(calls) = CallsOfJob[1] /\ calls[1] = CallsOfJob[1]
  <2>1. calls # <<>>
    BY <1>2, <1>3
  <2>. QED BY <1>1, <1>3, <2>1 DEF IsList
<1>5. IsCall(args) /\ args.threads = job.threads
  <2>1. 1 \in 1..NCalls
    BY <1>2
  <2>2. PICK n \in 1..NCalls : n = 1
    BY <2>1
  <2>3. IsCall(CallsOfJob[n].args) /\ CallsOfJob[n].args.threads = job.threads
    BY <1>1, CallIs
  <2>. QED BY <1>1, <1>4, <2>2, <2>3
<1>6. IInv /\ RunningInv
  BY <1>1, <1>5, CalledIInv, NothingRuns
<1>7. Workers = 0 .. (job.threads - 1) /\ ran = {} /\ skipped = {} /\ \A w \in Workers : info[w] = None
  BY <1>1, <1>5 DEF Workers, Called
<1>8. CallsInv
  <2>1. \A i \in 1..Len(calls) : Now - 1 + i = i
    BY <1>2, <1>3
  <2>. QED BY <1>1, <1>2, <1>3, <1>4, <1>7, <2>1 DEF CallsInv
<1>9. ShapeInv
  <2>1. IsFunction(local, Workers) /\ IsFunction(worker_mem, Workers)
    BY <1>1, <1>7 DEF IsFunction
  <2>2. ASSUME NEW w \in Workers PROVE IsFunction(worker_mem[w], Fields)
    <3>1. worker_mem[w] = [periodic_columns_iter |-> <<>>, evals |-> <<>>, batch_inverse |-> <<>>]
      BY <1>1, <1>7
    <3>. QED BY <3>1 DEF IsFunction, Fields
  <2>. QED BY <2>1, <2>2 DEF ShapeInv
<1>10. LocalInv
  BY <1>7 DEF LocalInv, WorkerInv
<1>11. \A n \in 1..NCalls : Past(n) = {}
  BY <1>3, <1>7 DEF Past, Handled
<1>12. ColumnInv
  <2>1. \A c \in DOMAIN job.columns : Past(c) = {}
    BY <1>2, <1>11
  <2>. QED BY <1>1, <2>1 DEF ColumnInv
<1>13. NaturalInv
  <2>1. \A c \in job.cached : Past(c) = {}
    BY <1>2, <1>11
  <2>. QED BY <1>1, <2>1 DEF NaturalInv
<1>14. PeriodicInv
  <2>1. \A i \in DOMAIN job.periodic : Now < NColumns + i
    BY <1>2, <1>3
  <2>. QED BY <1>1, <2>1 DEF PeriodicInv
<1>15. OutputInv
  <2>1. Past(NCalls) = {}
    BY <1>2, <1>11
  <2>2. \A p : ~ Written(p)
    BY <1>7, <2>1 DEF Written, WrittenBy
  <2>. QED BY <1>1, <2>2 DEF OutputInv
<1>. QED BY <1>6, <1>8, <1>9, <1>10, <1>12, <1>13, <1>14, <1>15 DEF EInv, JobInv

LEMMA OtherInitInv ==
  ASSUME OtherInit PROVE EInv
<1>1. args \in Calls /\ Called /\ calls = <<>>
  BY DEF OtherInit, Init
<1>2. IInv /\ RunningInv
  BY <1>1, CallsAssumption, CalledIInv, NothingRuns
<1>. QED BY <1>1, <1>2 DEF EInv

LEMMA StutterJob ==
  ASSUME CallsInv, JobInv, UNCHANGED evaluation_vars PROVE JobInv'
<1>1. /\ UNCHANGED <<args, info, ran, skipped, job, calls>>
      /\ UNCHANGED <<column, natural, period_on_coset, worker_mem, local, out_evaluation>>
  BY DEF evaluation_vars, vars, data
<1>2. Workers' = Workers /\ Func' = Func
  BY <1>1 DEF Workers, Func
<1>3. Handled' = Handled
  <2>1. \A w \in Workers : Pending(w)' = Pending(w)
    BY <1>1, <1>2 DEF Pending, Place
  <2>. QED BY <1>1, <1>2, <2>1 DEF Handled
<1>4. ShapeInv'
  BY <1>1, <1>2 DEF JobInv, ShapeInv, IsFunction
<1>5. \A v \in Workers : WorkerInv(v)' /\ \A p : WrittenBy(v, p)' <=> WrittenBy(v, p)
  BY <1>1, WorkerStays DEF JobInv, LocalInv
<1>6. LocalInv'
  BY <1>2, <1>5 DEF LocalInv
<1>7. \A p \in Points : Written(p)' <=> Written(p)
  BY <1>1, <1>3, <1>5, WrittenIs
<1>. QED BY <1>1, <1>3, <1>4, <1>6, <1>7, NothingHandled

(* The steps of the functions.                                             *)
FunctionStep(w) ==
  \/ LoopEnds(w) \/ ReadPair(w) \/ WritePair(w) \/ BitReverseVector(w) \/ GetCosetStep(w)
  \/ Begin(w) \/ Columns(w) \/ ConstraintsEval(w) \/ BatchInverse(w) \/ Output(w) \/ LambdaEnds(w)

LEMMA FunctionStepIs ==
  ASSUME NEW w \in Workers, FunctionStep(w)
  PROVE  calls # <<>> /\ calls' = calls /\ [Next]_vars
<1>1. CASE LoopEnds(w) \/ LambdaEnds(w)
  BY <1>1 DEF LoopEnds, LambdaEnds, In, Finished, Next
<1>2. CASE ReadPair(w) \/ WritePair(w) \/ BitReverseVector(w) \/ GetCosetStep(w)
  BY <1>2 DEF ReadPair, WritePair, BitReverseVector, GetCosetStep, In, Goes
<1>3. CASE Begin(w) \/ Columns(w) \/ ConstraintsEval(w) \/ BatchInverse(w) \/ Output(w)
  BY <1>3 DEF Begin, Columns, ConstraintsEval, BatchInverse, Output, In, Goes
<1>. QED BY <1>1, <1>2, <1>3 DEF FunctionStep

LEMMA FunctionStepJob ==
  ASSUME IInv, RunningInv, JobInv, NEW w \in Workers, FunctionStep(w) PROVE JobInv'
BY LoopEndsJob, ReadPairJob, WritePairJob, BitReverseVectorJob, GetCosetStepJob, BeginJob, ColumnsJob,
   ConstraintsEvalJob, BatchInverseJob, OutputJob, LambdaEndsJob DEF FunctionStep

LEMMA EvaluationStep ==
  ASSUME EInv, [EvaluationNext \/ OtherCall]_evaluation_vars
  PROVE  EInv' /\ [RunsOnce]_vars
<1>0. IInv /\ RunningInv /\ (calls # <<>> => JobInv)
  BY DEF EInv
<1>1. ASSUME [Next]_vars PROVE IInv' /\ RunningInv' /\ RunsOnce
  BY <1>0, <1>1, NextIInv, RunningStep, NextRunsOnce
<1>2. CASE UNCHANGED evaluation_vars
  <2>1. UNCHANGED vars /\ calls' = calls
    BY <1>2 DEF evaluation_vars
  <2>2. calls # <<>> => JobInv'
    BY <1>0, <1>2, StutterJob DEF JobInv
  <2>. QED BY <1>1, <2>1, <2>2 DEF EInv
<1>3. CASE OtherCall
  <2>1. calls = <<>> /\ calls' = <<>> /\ Next
    BY <1>3 DEF OtherCall
  <2>. QED BY <1>1, <2>1 DEF EInv
<1>4. CASE Parallel
  <2>1. calls # <<>> /\ Next
    BY <1>4 DEF Parallel, Next
  <2>2. JobInv'
    BY <1>0, <1>4, <2>1, ParallelJob
  <2>. QED BY <1>1, <2>1, <2>2 DEF EInv
<1>5. CASE NextCall
  <2>1. calls # <<>>
    BY <1>5 DEF NextCall
  <2>2. IInv' /\ RunningInv' /\ JobInv' /\ \A w \in Workers : info'[w] = None
    BY <1>0, <1>5, <2>1, NextCallJob
  <2>3. RunsOnce
    BY <2>2 DEF RunsOnce
  <2>. QED BY <2>2, <2>3 DEF EInv
<1>6. ASSUME NEW w \in Workers, FunctionStep(w) PROVE EInv' /\ [RunsOnce]_vars
  <2>1. calls # <<>> /\ calls' = calls /\ [Next]_vars
    BY <1>6, FunctionStepIs
  <2>2. JobInv'
    BY <1>0, <1>6, <2>1, FunctionStepJob
  <2>. QED BY <1>1, <2>1, <2>2 DEF EInv
<1>7. CASE LastCallReturned
  BY <1>2, <1>7 DEF LastCallReturned
<1>. QED BY <1>2, <1>3, <1>4, <1>5, <1>6, <1>7 DEF EvaluationNext, FunctionStep

LEMMA InvariantHolds == EvaluationSpec => []EInv
<1>1. EvaluationInit \/ OtherInit => EInv
  BY EvaluationInitInv, OtherInitInv
<1>2. EInv /\ [EvaluationNext \/ OtherCall]_evaluation_vars => EInv'
  BY EvaluationStep
<1>. QED BY <1>1, <1>2, PTL DEF EvaluationSpec

-----------------------------------------------------------------------------
(* A call that has returned has given every item of its range to the       *)
(* function, except those that a throwing function left out                *)
(* (task_manager.cc:120-181).                                              *)
THEOREM AllItemsAreRun == EvaluationSpec => []AllItemsRun
<1>1. EInv => AllItemsRun
  BY DEF EInv, IInv, IdleInv
<1>. QED BY <1>1, InvariantHolds, PTL

(* No item is given to the function twice and no chunk is empty, too large *)
(* or outside the range, whatever wraps around (task_manager.cc:109-161).  *)
THEOREM ItemsAreRunOnce == EvaluationSpec => ItemsRunOnce
<1>1. EInv /\ [EvaluationNext \/ OtherCall]_evaluation_vars => [RunsOnce]_vars
  BY EvaluationStep
<1>2. ItemsRunOnce <=> [][RunsOnce]_vars
  BY PTL DEF ItemsRunOnce, RunsOnce
<1>. QED BY <1>1, <1>2, InvariantHolds, PTL DEF EvaluationSpec

(* The evaluation of the composition polynomial on a coset, whatever its   *)
(* size, the columns, the periodic columns, the mask, the size of a task   *)
(* and the number of threads: where the output has been written it holds   *)
(* the value of that very point, and once the last call of ParallelFor has *)
(* returned it has been written everywhere (composition_polynomial.inl,    *)
(* EvalOnCosetBitReversedOutput, bit_reversal.cc, periodic_column.inl).    *)
THEOREM EveryPointIsRight == EvaluationSpec => []EveryPointHasItsValue
<1>1. EInv => EveryPointHasItsValue
  <2> SUFFICES ASSUME EInv, calls # <<>>, NEW p \in Points
               PROVE  \/ out_evaluation[Reversed(p)] = Value(p)
                      \/ out_evaluation[Reversed(p)] = NoValue /\ (Len(calls) > 1 \/ at # "returned")
    BY DEF EveryPointHasItsValue, Value
  <2>1. IInv /\ CallsInv /\ OutputInv /\ job \in Jobs
    BY DEF EInv, JobInv, CallsInv
  <2>2. Reversed(p) \in Points /\ Reversed(Reversed(p)) = p
    BY <2>1, ReversedIs
  <2>3. out_evaluation[Reversed(p)] = IF Written(p) THEN Value(p) ELSE NoValue
    <3>1. PICK k \in Points : k = Reversed(p) /\ Reversed(k) = p
      BY <2>2
    <3>. QED BY <2>1, <3>1 DEF OutputInv
  <2>4. ASSUME at = "returned", ~ (Len(calls) > 1) PROVE Written(p)
    <3>1. Len(calls) \in 1..NCalls /\ NCalls \in Nat
      BY <2>1, JobFacts DEF CallsInv, NCalls
    <3>2. Now = NCalls
      BY <2>4, <3>1 DEF Now
    <3>3. Handled = 0 .. (args.end - 1) /\ args.end = DivCeil(coset_size, job.task_size)
      BY <2>1, <2>4, <3>2, AllHandled, CurrentCall
    <3>4. p \div job.task_size \in Handled
      <4>1. PICK n, d : n = coset_size /\ d = job.task_size
        OBVIOUS
      <4>2. WordSize \in Nat \ {0} /\ n \in Nat \ {0} /\ d \in Nat \ {0} /\ n + d <= WordSize
        BY <2>1, <4>1, JobFacts
      <4>3. p \div d \in 0 .. (DivCeil(n, d) - 1)
        BY <4>1, <4>2, TasksCover DEF Points
      <4>. QED BY <3>3, <4>1, <4>3
    <3>5. Past(NCalls) = Handled
      <4>1. ~ (NCalls < NCalls)
        BY <3>1
      <4>. QED BY <3>2, <4>1 DEF Past
    <3>. QED BY <3>4, <3>5 DEF Written
  <2>. QED BY <2>3, <2>4
<1>. QED BY <1>1, InvariantHolds, PTL
=============================================================================
