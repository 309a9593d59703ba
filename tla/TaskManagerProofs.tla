------------------------- MODULE TaskManagerProofs -------------------------
(***************************************************************************)
(* Nested ParallelFor calls, for any number of threads and any tree of     *)
(* calls: siblings_counter is exact, no task outlives the stack frame it   *)
(* points into, no wakeup is lost, and the pool implements ForkJoin.       *)
(***************************************************************************)
EXTENDS TaskManager, FiniteSetTheorems, SequenceTheorems, TLAPS

(***************************************************************************)
(* The inductive invariant.                                                *)
(***************************************************************************)

(* A task that is queued sits at exactly one place of tasks_. *)
QueueInv ==
  /\ \A i \in 1..Len(tasks) : status[tasks[i]] = "queued"
  /\ \A i, j \in 1..Len(tasks) : tasks[i] = tasks[j] => i = j
  /\ \A k \in Tasks : status[k] = "queued" =>
       /\ GroupOf[k] \notin Inline
       /\ \E i \in 1..Len(tasks) : tasks[i] = k

(* What a thread does tells the kind of its innermost frame. *)
FrameInv ==
  \A t \in Threads :
    /\ pc[t] \in {"main", "joining", "exited"} => frame[t] = Base
    /\ pc[t] \in {"func", "done"} <=> frame[t] \in Tasks
    /\ pc[t] = "returning" => frame[t] \in Groups

(* Every frame that is below another one is alive. *)
AliveInv ==
  /\ \A t \in Threads : /\ frame[t] \in Tasks => status[frame[t]] = "running"
                        /\ frame[t] \in Groups => call[frame[t]] = "active"
  /\ \A k \in Tasks : status[k] = "running" =>
       /\ runner[k] \in Groups => call[runner[k]] = "active"
       /\ GroupOf[k] \in Inline => runner[k] = GroupOf[k]
  /\ \A g \in Groups : call[g] = "active" /\ Caller[g] \in Tasks =>
       status[Caller[g]] = "running"

(* Nothing is directly above a frame twice: a call in progress has one     *)
(* frame above it or is the innermost one of one thread, and so has a task.*)
StackInv ==
  /\ \A t, u \in Threads : frame[t] = frame[u] /\ frame[t] # Base => t = u
  /\ \A k \in Tasks : status[k] = "running" /\ runner[k] \in Groups =>
       /\ \A t \in Threads : frame[t] # runner[k]
       /\ \A j \in Tasks : status[j] = "running" /\ runner[j] = runner[k] => j = k
  /\ \A g \in Groups : call[g] = "active" /\ Caller[g] \in Tasks =>
       /\ \A t \in Threads : frame[t] # Caller[g]
       /\ \A h \in Groups : call[h] = "active" /\ Caller[h] = Caller[g] => h = g

(* The tasks of a call live between its beginning and its end. *)
LifeInv ==
  /\ \A k \in Tasks : /\ call[GroupOf[k]] = "idle" <=> status[k] = "idle"
                      /\ call[GroupOf[k]] = "returned" => status[k] = "finished"
  /\ \A t \in Threads : pc[t] = "returning" =>
       \A k \in Tasks : GroupOf[k] = frame[t] => status[k] = "finished"

IInv == /\ TypeOK /\ QueueInv /\ FrameInv /\ AliveInv /\ StackInv /\ LifeInv
        /\ SiblingsCount
-----------------------------------------------------------------------------
(* The calls partition the tasks. *)
LEMMA GroupOfTask ==
  /\ GroupOf \in [Tasks -> Groups]
  /\ \A k \in Tasks, g \in Groups : k \in TasksOf(g) <=> GroupOf[k] = g
  /\ \A g \in Groups : TasksOf(g) \subseteq Tasks
<1>1. ASSUME NEW k \in Tasks
      PROVE  /\ GroupOf[k] \in Groups
             /\ \A g \in Groups : k \in TasksOf(g) <=> GroupOf[k] = g
  <2>1. \E g \in Groups : k \in TasksOf(g)
    <3>1. PICK g \in Groups : \E i \in 1..Len(Split[g]) : k = Split[g][i]
      BY ONLY SplitAssumption, k \in Tasks
    <3>2. k \in TasksOf(g)
      BY <3>1 DEF TasksOf
    <3>. QED BY <3>2
  <2>2. ASSUME NEW g \in Groups, NEW h \in Groups, k \in TasksOf(g), k \in TasksOf(h)
        PROVE  g = h
    <3>1. PICK i \in 1..Len(Split[g]) : k = Split[g][i]
      BY <2>2, Zenon DEF TasksOf
    <3>2. PICK j \in 1..Len(Split[h]) : k = Split[h][j]
      BY <2>2, Zenon DEF TasksOf
    <3>3. \A a \in 1..Len(Split[g]), b \in 1..Len(Split[h]) :
            Split[g][a] = Split[h][b] => g = h
      BY SplitAssumption, Zenon
    <3>. QED BY <3>1, <3>2, <3>3, Zenon
  <2>3. GroupOf[k] = CHOOSE g \in Groups : k \in TasksOf(g)
    BY DEF GroupOf
  <2>. QED BY <2>1, <2>2, <2>3
<1>2. GroupOf \in [Tasks -> Groups]
  BY <1>1 DEF GroupOf
<1>3. \A g \in Groups : TasksOf(g) \subseteq Tasks
  BY SplitAssumption DEF TasksOf
<1>. QED BY <1>1, <1>2, <1>3

(* A call over several items has as many tasks as it queues. *)
LEMMA CountTasks ==
  ASSUME NEW g \in Groups
  PROVE  /\ IsFiniteSet(TasksOf(g))
         /\ Cardinality(TasksOf(g)) = Len(Split[g])
<1>1. Len(Split[g]) \in Nat /\ Split[g] \in Seq(Tasks)
  BY SplitAssumption
<1>2. Split[g] \in Bijection(1..Len(Split[g]), TasksOf(g))
  <2>1. Split[g] \in [1..Len(Split[g]) -> TasksOf(g)]
    BY <1>1 DEF TasksOf
  <2>2. IsInjective(Split[g])
    <3>1. DOMAIN Split[g] = 1..Len(Split[g])
      BY <2>1
    <3>2. \A i, j \in 1..Len(Split[g]) : Split[g][i] = Split[g][j] => i = j
      BY SplitAssumption
    <3>. QED BY <3>1, <3>2 DEF IsInjective
  <2>3. \A k \in TasksOf(g) : \E i \in 1..Len(Split[g]) : Split[g][i] = k
    BY DEF TasksOf
  <2>. QED BY <2>1, <2>2, <2>3 DEF Bijection, Injection, Surjection
<1>3. ExistsBijection(1..Len(Split[g]), TasksOf(g))
  BY <1>2 DEF ExistsBijection
<1>. QED BY <1>1, <1>3, FS_CountingElements, FS_Subset, FramesAssumption, GroupOfTask

LEMMA UnfinishedTasks ==
  ASSUME NEW g \in Groups
  PROVE  /\ IsFiniteSet(Unfinished(g))
         /\ Cardinality(Unfinished(g)) \in Nat
         /\ Cardinality(Unfinished(g)) = 0 <=> Unfinished(g) = {}
<1>1. Unfinished(g) \in SUBSET TasksOf(g)
  BY DEF Unfinished
<1>. QED BY <1>1, CountTasks, FS_Subset, FS_CardinalityType, FS_EmptySet

-----------------------------------------------------------------------------
LEMMA InitInv == Init => IInv
<1> SUFFICES ASSUME Init PROVE IInv
  OBVIOUS
<1>1. TypeOK
  BY DEF Init, TypeOK, PCs
<1>2. QueueInv /\ FrameInv /\ AliveInv /\ StackInv /\ LifeInv
  BY GroupOfTask, FramesAssumption
     DEF Init, Threads, QueueInv, FrameInv, AliveInv, StackInv, LifeInv
<1>3. SiblingsCount
  BY DEF Init, SiblingsCount
<1>. QED BY <1>1, <1>2, <1>3 DEF IInv

(* A task that is queued or running is counted. *)
LEMMA Counts ==
  ASSUME IInv, NEW k \in Tasks, status[k] \in {"queued", "running"}
  PROVE  /\ call[GroupOf[k]] = "active"
         /\ k \in Unfinished(GroupOf[k])
         /\ GroupOf[k] \notin Inline => siblings[GroupOf[k]] \in Nat \ {0}
<1>1. GroupOf[k] \in Groups /\ k \in TasksOf(GroupOf[k])
  BY GroupOfTask
<1>2. call[GroupOf[k]] = "active"
  BY <1>1 DEF IInv, LifeInv, TypeOK
<1>3. k \in Unfinished(GroupOf[k])
  BY <1>1 DEF Unfinished
<1>4. GroupOf[k] \notin Inline => siblings[GroupOf[k]] \in Nat \ {0}
  BY <1>1, <1>2, <1>3, UnfinishedTasks DEF IInv, SiblingsCount
<1>. QED BY <1>2, <1>3, <1>4

(* The task a TaskRunner takes. *)
LEMMA Taken ==
  ASSUME IInv, tasks # <<>>
  PROVE  /\ tasks[Len(tasks)] \in Tasks
         /\ status[tasks[Len(tasks)]] = "queued"
         /\ SubSeq(tasks, 1, Len(tasks) - 1) \in Seq(Tasks)
         /\ Len(SubSeq(tasks, 1, Len(tasks) - 1)) = Len(tasks) - 1
         /\ \A i \in 1..(Len(tasks) - 1) : SubSeq(tasks, 1, Len(tasks) - 1)[i] = tasks[i]
         /\ \A i \in 1..(Len(tasks) - 1) : tasks[i] # tasks[Len(tasks)]
<1>1. tasks \in Seq(Tasks) /\ Len(tasks) \in Nat \ {0}
  BY DEF IInv, TypeOK
<1>2. Len(tasks) \in 1..Len(tasks)
  BY <1>1
<1>3. tasks[Len(tasks)] \in Tasks /\ status[tasks[Len(tasks)]] = "queued"
  BY <1>1, <1>2 DEF IInv, QueueInv
<1>4. \A i \in 1..(Len(tasks) - 1) : i \in 1..Len(tasks) /\ i # Len(tasks)
  BY <1>1
<1>5. \A i \in 1..(Len(tasks) - 1) : tasks[i] # tasks[Len(tasks)]
  BY <1>2, <1>4 DEF IInv, QueueInv
<1>6. Len(tasks) - 1 \in 0..Len(tasks)
  BY <1>1
<1>7. /\ SubSeq(tasks, 1, Len(tasks) - 1) \in Seq(Tasks)
      /\ Len(SubSeq(tasks, 1, Len(tasks) - 1)) = Len(tasks) - 1
      /\ \A i \in 1..(Len(tasks) - 1) : SubSeq(tasks, 1, Len(tasks) - 1)[i] = tasks[i]
  <2>1. \A i \in 1..(Len(tasks) - 1) : tasks[i] \in Tasks
    BY <1>1, <1>4
  <2>2. 1 \in Int /\ Len(tasks) - 1 \in Int /\ Len(tasks) - 1 - 1 + 1 = Len(tasks) - 1
    BY <1>1
  <2>3. \A i \in 1..(Len(tasks) - 1) : 1 + i - 1 = i
    OBVIOUS
  <2>. QED BY <1>1, <2>1, <2>2, <2>3, SubSeqProperties
<1>. QED BY <1>3, <1>5, <1>7

(* Type correctness. *)
LEMMA TypeStep == IInv /\ [Next]_vars => TypeOK'
<1> SUFFICES ASSUME IInv, [Next]_vars PROVE TypeOK'
  OBVIOUS
<1>0. TypeOK /\ FrameInv
  BY DEF IInv
<1>1. ASSUME NEW t \in Threads, RunnerWait(t) PROVE TypeOK'
  BY <1>0, <1>1 DEF RunnerWait, TypeOK, PCs
<1>2. ASSUME NEW t \in Threads, RunnerReturn(t) PROVE TypeOK'
  BY <1>0, <1>2 DEF RunnerReturn, TypeOK, PCs
<1>3. ASSUME NEW t \in Threads, RunnerPop(t) PROVE TypeOK'
  <2>1. frame[t] \in Groups \union {Base}
    BY <1>0, <1>3 DEF RunnerPop, InRunner, FrameInv, TypeOK
  <2>2. pc' \in [Threads -> PCs]
    BY <1>0, <1>3 DEF RunnerPop, Notified, TypeOK, PCs
  <2>3. tasks' \in Seq(Tasks)
    BY <1>3, Taken DEF RunnerPop
  <2>. QED BY <1>0, <1>3, <2>1, <2>2, <2>3, Taken DEF RunnerPop, TypeOK
<1>4. ASSUME NEW t \in Threads, SpuriousWake(t) PROVE TypeOK'
  BY <1>0, <1>4 DEF SpuriousWake, TypeOK, PCs
<1>5. ASSUME NEW t \in Threads, Destroy(t) PROVE TypeOK'
  BY <1>0, <1>5 DEF Destroy, Notified, TypeOK, PCs
<1>6. ASSUME NEW t \in Threads, Join(t) PROVE TypeOK'
  BY <1>0, <1>6 DEF Join, TypeOK, PCs
<1>7. ASSUME NEW t \in Threads, FuncEnds(t) PROVE TypeOK'
  BY <1>0, <1>7 DEF FuncEnds, FrameInv, TypeOK, PCs
<1>8. ASSUME NEW t \in Threads, TaskEnds(t) PROVE TypeOK'
  <2>1. frame[t] \in Tasks /\ status[frame[t]] = "running"
    BY <1>0, <1>8 DEF TaskEnds, FrameInv, IInv, AliveInv
  <2>2. siblings' \in [Groups -> Nat]
    <3>1. GroupOf[frame[t]] \notin Inline /\ siblings[GroupOf[frame[t]]] \in Nat \ {0}
      BY <1>8, <2>1, Counts DEF TaskEnds
    <3>2. siblings[GroupOf[frame[t]]] - 1 \in Nat
      BY <3>1
    <3>. QED BY <1>0, <1>8, <3>2 DEF TaskEnds, TypeOK
  <2>3. pc' \in [Threads -> PCs]
    BY <1>0, <1>8 DEF TaskEnds, Notified, TypeOK, PCs
  <2>4. eptr' \in [Groups -> Tasks \union {None}]
    BY <1>0, <1>8, <2>1, GroupOfTask DEF TaskEnds, Kept, TypeOK
  <2>. QED BY <1>0, <1>8, <2>1, <2>2, <2>3, <2>4 DEF TaskEnds, TypeOK
<1>9. ASSUME NEW t \in Threads, InlineEnds(t) PROVE TypeOK'
  <2>1. frame[t] \in Tasks /\ GroupOf[frame[t]] \in Groups
    BY <1>0, <1>9, GroupOfTask DEF InlineEnds, FrameInv
  <2>. QED BY <1>0, <1>9, <2>1 DEF InlineEnds, TypeOK, PCs
<1>10. ASSUME NEW t \in Threads, Return(t) PROVE TypeOK'
  <2>1. frame[t] \in Groups /\ Caller[frame[t]] \in Tasks \union {Base}
    BY <1>0, <1>10, CallAssumption DEF Return, FrameInv
  <2>. QED BY <1>0, <1>10, <2>1 DEF Return, TypeOK, PCs
<1>11. ASSUME NEW t \in Threads, NEW g \in Groups, CallParallel(t, g) PROVE TypeOK'
  <2>1. Split[g] \in Seq(Tasks) /\ Len(Split[g]) \in Nat
    BY SplitAssumption
  <2>2. tasks' \in Seq(Tasks)
    BY <1>0, <1>11, <2>1 DEF CallParallel, TypeOK
  <2>. QED BY <1>0, <1>11, <2>1, <2>2 DEF CallParallel, Counted, TypeOK, PCs
<1>12. ASSUME NEW t \in Threads, NEW g \in Groups, CallInline(t, g) PROVE TypeOK'
  <2>1. Split[g][1] \in Tasks
    BY <1>12, CallAssumption, SplitAssumption DEF CallInline
  <2>. QED BY <1>0, <1>12, <2>1 DEF CallInline, TypeOK, PCs
<1>13. CASE UNCHANGED vars
  BY <1>0, <1>13 DEF vars, TypeOK
<1>. QED
  BY <1>1, <1>2, <1>3, <1>4, <1>5, <1>6, <1>7, <1>8, <1>9, <1>10, <1>11, <1>12, <1>13
     DEF Next, Step, Terminated

(* The queue holds the tasks that are queued. *)
LEMMA QueueStep == IInv /\ [Next]_vars => QueueInv'
<1> SUFFICES ASSUME IInv, [Next]_vars PROVE QueueInv'
  OBVIOUS
<1>0. TypeOK /\ FrameInv /\ QueueInv /\ AliveInv /\ LifeInv
  BY DEF IInv
<1>1. ASSUME NEW t \in Threads, RunnerPop(t) PROVE QueueInv'
  <2> DEFINE k == tasks[Len(tasks)]
  <2>1. /\ tasks' = SubSeq(tasks, 1, Len(tasks) - 1)
        /\ status' = [status EXCEPT ![k] = "running"]
        /\ tasks # <<>>
    BY <1>1 DEF RunnerPop
  <2>2. Len(tasks) \in Nat /\ k \in Tasks
    BY <1>0, <2>1, Taken DEF TypeOK
  <2>3. \A i \in 1..Len(tasks') : i \in 1..Len(tasks) /\ tasks'[i] = tasks[i] /\ tasks[i] # k
    BY <2>1, <2>2, Taken
  <2>4. \A i \in 1..Len(tasks') : status'[tasks'[i]] = "queued"
    BY <1>0, <2>1, <2>2, <2>3 DEF QueueInv, TypeOK
  <2>5. \A i, j \in 1..Len(tasks') : tasks'[i] = tasks'[j] => i = j
    BY <1>0, <2>3 DEF QueueInv
  <2>6. ASSUME NEW j \in Tasks, status'[j] = "queued"
        PROVE  GroupOf[j] \notin Inline /\ \E i \in 1..Len(tasks') : tasks'[i] = j
    <3>1. status[j] = "queued" /\ j # k
      BY <1>0, <2>1, <2>2, <2>6 DEF TypeOK
    <3>2. PICK i \in 1..Len(tasks) : tasks[i] = j
      BY <1>0, <3>1 DEF QueueInv
    <3>3. i \in 1..Len(tasks')
      BY <2>1, <2>2, <3>1, <3>2, Taken
    <3>. QED BY <1>0, <2>3, <3>1, <3>2, <3>3 DEF QueueInv
  <2>. QED BY <2>4, <2>5, <2>6 DEF QueueInv
<1>2. ASSUME NEW t \in Threads, TaskEnds(t) \/ InlineEnds(t) PROVE QueueInv'
  <2>1. frame[t] \in Tasks /\ status[frame[t]] = "running"
    BY <1>0, <1>2 DEF TaskEnds, InlineEnds, FrameInv, AliveInv
  <2>2. tasks' = tasks /\ status' = [status EXCEPT ![frame[t]] = "finished"]
    BY <1>2 DEF TaskEnds, InlineEnds
  <2>3. \A i \in 1..Len(tasks) : tasks[i] \in Tasks /\ tasks[i] # frame[t]
    <3>1. \A i \in 1..Len(tasks) : tasks[i] \in Tasks
      BY <1>0 DEF TypeOK
    <3>2. \A i \in 1..Len(tasks) : status[tasks[i]] = "queued"
      BY <1>0 DEF QueueInv
    <3>3. \A i \in 1..Len(tasks) : tasks[i] # frame[t]
      BY <2>1, <3>2
    <3>. QED BY <3>1, <3>3
  <2>. QED BY <1>0, <2>1, <2>2, <2>3 DEF QueueInv, TypeOK
<1>3. ASSUME NEW t \in Threads, NEW g \in Groups, CallInline(t, g) PROVE QueueInv'
  <2> DEFINE k == Split[g][1]
  <2>1. /\ tasks' = tasks /\ status' = [status EXCEPT ![k] = "running"]
        /\ call[g] = "idle" /\ g \in Inline
    BY <1>3 DEF CallInline, MayCall
  <2>2. k \in Tasks /\ GroupOf[k] = g
    <3>1. 1 \in 1..Len(Split[g]) /\ Split[g] \in Seq(Tasks)
      BY <2>1, CallAssumption, SplitAssumption
    <3>2. k \in TasksOf(g)
      BY <3>1 DEF TasksOf
    <3>. QED BY <3>1, <3>2, GroupOfTask
  <2>3. status[k] = "idle"
    BY <1>0, <2>1, <2>2 DEF LifeInv
  <2>4. \A i \in 1..Len(tasks) : tasks[i] \in Tasks /\ tasks[i] # k
    BY <1>0, <2>3 DEF QueueInv, TypeOK
  <2>. QED BY <1>0, <2>1, <2>2, <2>4 DEF QueueInv, TypeOK
<1>4. ASSUME NEW t \in Threads, NEW g \in Groups, CallParallel(t, g) PROVE QueueInv'
  <2> DEFINE s == Split[g]
  <2>1. /\ tasks' = tasks \o s
        /\ status' = [k \in Tasks |-> IF k \in TasksOf(g) THEN "queued" ELSE status[k]]
        /\ call[g] = "idle" /\ g \notin Inline
    BY <1>4 DEF CallParallel, MayCall
  <2>2. tasks \in Seq(Tasks) /\ s \in Seq(Tasks) /\ Len(tasks) \in Nat /\ Len(s) \in Nat
    BY <1>0, SplitAssumption DEF TypeOK
  <2>3. \A i \in 1..Len(s) : s[i] \in TasksOf(g) /\ s[i] \in Tasks /\ status[s[i]] = "idle"
    <3>1. \A i \in 1..Len(s) : s[i] \in TasksOf(g) /\ s[i] \in Tasks
      BY <2>2 DEF TasksOf
    <3>2. \A k \in TasksOf(g) : status[k] = "idle"
      BY <1>0, <2>1, GroupOfTask DEF LifeInv
    <3>. QED BY <3>1, <3>2
  <2>4. /\ Len(tasks') = Len(tasks) + Len(s)
        /\ \A i \in 1..Len(tasks') :
             tasks'[i] = IF i <= Len(tasks) THEN tasks[i] ELSE s[i - Len(tasks)]
    BY <2>1, <2>2
  <2>5. \A i \in 1..Len(tasks) : tasks[i] \in Tasks /\ status[tasks[i]] = "queued"
    BY <1>0, <2>2 DEF QueueInv
  <2>6. \A i \in 1..Len(tasks') : \/ i \in 1..Len(tasks) /\ tasks'[i] = tasks[i]
                                  \/ i - Len(tasks) \in 1..Len(s) /\ tasks'[i] = s[i - Len(tasks)]
    BY <2>2, <2>4
  <2>7. \A i \in 1..Len(tasks') : status'[tasks'[i]] = "queued"
    BY <2>1, <2>3, <2>5, <2>6
  <2>8. \A i, j \in 1..Len(s) : s[i] = s[j] => i = j
    BY SplitAssumption
  <2>9. ASSUME NEW i \in 1..Len(tasks'), NEW j \in 1..Len(tasks'), tasks'[i] = tasks'[j]
        PROVE  i = j
    <3>1. CASE i \in 1..Len(tasks) /\ tasks'[i] = tasks[i]
      <4>1. j \in 1..Len(tasks) /\ tasks'[j] = tasks[j]
        BY <2>3, <2>5, <2>6, <2>9, <3>1
      <4>. QED BY <1>0, <2>9, <3>1, <4>1 DEF QueueInv
    <3>2. CASE i - Len(tasks) \in 1..Len(s) /\ tasks'[i] = s[i - Len(tasks)]
      <4>1. j - Len(tasks) \in 1..Len(s) /\ tasks'[j] = s[j - Len(tasks)]
        BY <2>3, <2>5, <2>6, <2>9, <3>2
      <4>2. i - Len(tasks) = j - Len(tasks)
        BY <2>8, <2>9, <3>2, <4>1
      <4>. QED BY <2>2, <2>4, <4>2
    <3>. QED BY <2>6, <3>1, <3>2
  <2>10. ASSUME NEW k \in Tasks, status'[k] = "queued"
         PROVE  GroupOf[k] \notin Inline /\ \E i \in 1..Len(tasks') : tasks'[i] = k
    <3>1. CASE k \in TasksOf(g)
      <4>1. PICK i \in 1..Len(s) : s[i] = k
        BY <3>1 DEF TasksOf
      <4>2. i + Len(tasks) \in 1..Len(tasks') /\ tasks'[i + Len(tasks)] = k
        BY <2>2, <2>4, <4>1
      <4>. QED BY <2>1, <3>1, <4>2, GroupOfTask
    <3>2. CASE k \notin TasksOf(g)
      <4>1. status[k] = "queued"
        BY <2>1, <2>10, <3>2
      <4>2. PICK i \in 1..Len(tasks) : tasks[i] = k
        BY <1>0, <4>1 DEF QueueInv
      <4>3. i \in 1..Len(tasks') /\ tasks'[i] = k
        BY <2>2, <2>4, <4>2
      <4>. QED BY <1>0, <4>1, <4>3 DEF QueueInv
    <3>. QED BY <3>1, <3>2
  <2>. QED BY <2>7, <2>9, <2>10 DEF QueueInv
<1>5. CASE UNCHANGED <<tasks, status>>
  BY <1>0, <1>5 DEF QueueInv
<1>6. ASSUME NEW t \in Threads,
             \/ RunnerWait(t) \/ RunnerReturn(t) \/ SpuriousWake(t) \/ Destroy(t)
             \/ Join(t) \/ FuncEnds(t) \/ Return(t)
      PROVE  UNCHANGED <<tasks, status>>
  BY <1>6 DEF RunnerWait, RunnerReturn, SpuriousWake, Destroy, Join, FuncEnds, Return
<1>. QED
  BY <1>1, <1>2, <1>3, <1>4, <1>5, <1>6 DEF Next, Step, Terminated, vars

(* A notification changes nothing but the pc of threads that are asleep. *)
LEMMA NotifiedOnly ==
  ASSUME NEW woken, woken \subseteq {t \in Threads : pc[t] = "asleep"}
  PROVE  \A t \in Threads : \/ Notified(woken, pc)[t] = pc[t]
                            \/ pc[t] = "asleep" /\ Notified(woken, pc)[t] = "notified"
BY DEF Notified

(* What a TaskRunner that takes a task does to the stack. *)
LEMMA PopEffect ==
  ASSUME IInv, NEW t \in Threads, RunnerPop(t)
  PROVE  LET k == tasks[Len(tasks)]
         IN  /\ k \in Tasks /\ status[k] = "queued"
             /\ frame[t] \in Groups \union {Base}
             /\ frame' = [frame EXCEPT ![t] = k]
             /\ status' = [status EXCEPT ![k] = "running"]
             /\ runner' = [runner EXCEPT ![k] = frame[t]]
             /\ pc'[t] = "func"
             /\ \A u \in Threads \ {t} : \/ pc'[u] = pc[u]
                                         \/ pc[u] = "asleep" /\ pc'[u] = "notified"
             /\ UNCHANGED <<thrown, continue, call, siblings, eptr, raised>>
<1>1. tasks # <<>>
  BY DEF RunnerPop
<1>2. frame[t] \in Groups \union {Base}
  BY DEF RunnerPop, InRunner, IInv, FrameInv, TypeOK
<1>3. PICK woken \in SUBSET {u \in Threads : pc[u] = "asleep"} :
        pc' = [Notified(woken, pc) EXCEPT ![t] = "func"]
  BY DEF RunnerPop, Wakes, Asleep
<1>4. pc'[t] = "func"
  BY <1>3 DEF Notified
<1>5. \A u \in Threads \ {t} : \/ pc'[u] = pc[u]
                               \/ pc[u] = "asleep" /\ pc'[u] = "notified"
  BY <1>3 DEF Notified
<1>. QED BY <1>1, <1>2, <1>4, <1>5, Taken DEF RunnerPop

(* The same for the end of a queued task. *)
LEMMA TaskEndsEffect ==
  ASSUME IInv, NEW t \in Threads, TaskEnds(t)
  PROVE  LET k == frame[t]
         IN  /\ k \in Tasks /\ status[k] = "running"
             /\ GroupOf[k] \in Groups \ Inline
             /\ frame' = [frame EXCEPT ![t] = runner[k]]
             /\ status' = [status EXCEPT ![k] = "finished"]
             /\ siblings' = [siblings EXCEPT ![GroupOf[k]] = @ - 1]
             /\ eptr' = [eptr EXCEPT ![GroupOf[k]] = Kept(k)]
             /\ pc'[t] = "ready"
             /\ \A u \in Threads \ {t} : \/ pc'[u] = pc[u]
                                         \/ pc[u] = "asleep" /\ pc'[u] = "notified"
             /\ UNCHANGED <<runner, thrown, tasks, continue, call, raised>>
<1>1. frame[t] \in Tasks /\ status[frame[t]] = "running"
  BY DEF TaskEnds, IInv, FrameInv, AliveInv
<1>2. WokenByLast(GroupOf[frame[t]]) \subseteq {u \in Threads : pc[u] = "asleep"}
  BY DEF WokenByLast, Asleep
<1>3. pc' = [Notified(WokenByLast(GroupOf[frame[t]]), pc) EXCEPT ![t] = "ready"]
  BY DEF TaskEnds
<1>4. pc'[t] = "ready"
  BY <1>3 DEF Notified
<1>5. \A u \in Threads \ {t} : \/ pc'[u] = pc[u]
                               \/ pc[u] = "asleep" /\ pc'[u] = "notified"
  BY <1>2, <1>3 DEF Notified
<1>. QED BY <1>1, <1>4, <1>5, GroupOfTask DEF TaskEnds

(* The task of a single-item call is its first and only one. *)
LEMMA InlineTask ==
  ASSUME NEW g \in Inline
  PROVE  /\ g \in Groups /\ Split[g][1] \in Tasks
         /\ GroupOf[Split[g][1]] = g /\ TasksOf(g) = {Split[g][1]}
<1>1. g \in Groups /\ Len(Split[g]) = 1 /\ Split[g] \in Seq(Tasks)
  BY CallAssumption, SplitAssumption
<1>2. Split[g][1] \in Tasks /\ TasksOf(g) = {Split[g][1]}
  BY <1>1 DEF TasksOf
<1>. QED BY <1>1, <1>2, GroupOfTask

(* What a thread does tells the kind of its frame. *)
LEMMA FrameStep == IInv /\ [Next]_vars => FrameInv'
<1> SUFFICES ASSUME IInv, [Next]_vars PROVE FrameInv'
  OBVIOUS
<1>0. TypeOK /\ FrameInv /\ AliveInv
  BY DEF IInv
<1>1. ASSUME NEW t \in Threads, RunnerPop(t) PROVE FrameInv'
  <2>1. frame'[t] \in Tasks /\ pc'[t] = "func"
    BY <1>0, <1>1, PopEffect DEF TypeOK
  <2>2. \A u \in Threads \ {t} : /\ frame'[u] = frame[u]
                                  /\ \/ pc'[u] = pc[u]
                                     \/ pc[u] = "asleep" /\ pc'[u] = "notified"
    BY <1>0, <1>1, PopEffect DEF TypeOK
  <2>. QED BY <1>0, <2>1, <2>2, FramesAssumption DEF FrameInv
<1>2. ASSUME NEW t \in Threads, TaskEnds(t) PROVE FrameInv'
  <2>1. frame'[t] \in Groups \union {Base} /\ pc'[t] = "ready"
    BY <1>0, <1>2, TaskEndsEffect DEF TypeOK
  <2>2. \A u \in Threads \ {t} : /\ frame'[u] = frame[u]
                                  /\ \/ pc'[u] = pc[u]
                                     \/ pc[u] = "asleep" /\ pc'[u] = "notified"
    BY <1>0, <1>2, TaskEndsEffect DEF TypeOK
  <2>. QED BY <1>0, <2>1, <2>2, FramesAssumption DEF FrameInv
<1>3. ASSUME NEW t \in Threads, InlineEnds(t) PROVE FrameInv'
  <2>1. GroupOf[frame[t]] \in Groups
    BY <1>0, <1>3, GroupOfTask DEF InlineEnds, FrameInv
  <2>2. frame'[t] \in Groups /\ pc'[t] = "returning"
    BY <1>0, <1>3, <2>1 DEF InlineEnds, TypeOK
  <2>3. \A u \in Threads \ {t} : frame'[u] = frame[u] /\ pc'[u] = pc[u]
    BY <1>0, <1>3 DEF InlineEnds, TypeOK
  <2>. QED BY <1>0, <2>2, <2>3, FramesAssumption DEF FrameInv
<1>4. ASSUME NEW t \in Threads, Return(t) PROVE FrameInv'
  <2>1. frame[t] \in Groups /\ Caller[frame[t]] \in Tasks \union {Base}
    BY <1>0, <1>4, CallAssumption DEF Return, FrameInv
  <2>2. frame' = [frame EXCEPT ![t] = Caller[frame[t]]]
    BY <1>4 DEF Return
  <2>3. \A u \in Threads \ {t} : frame'[u] = frame[u] /\ pc'[u] = pc[u]
    BY <1>0, <1>4, <2>2 DEF Return, TypeOK
  <2>4. /\ frame'[t] = Base => pc'[t] = "main"
        /\ frame'[t] # Base => pc'[t] \in {"func", "done"}
    BY <1>0, <1>4, <2>2 DEF Return, TypeOK
  <2>5. frame'[t] \in Tasks \union {Base}
    BY <1>0, <2>1, <2>2 DEF TypeOK
  <2>. QED BY <1>0, <2>3, <2>4, <2>5, FramesAssumption DEF FrameInv
<1>5. ASSUME NEW t \in Threads, NEW g \in Groups, CallParallel(t, g) PROVE FrameInv'
  BY <1>0, <1>5, FramesAssumption DEF CallParallel, FrameInv, TypeOK
<1>6. ASSUME NEW t \in Threads, NEW g \in Groups, CallInline(t, g) PROVE FrameInv'
  BY <1>0, <1>6, InlineTask, FramesAssumption DEF CallInline, FrameInv, TypeOK
<1>7. ASSUME NEW t \in Threads, RunnerWait(t) \/ SpuriousWake(t) PROVE FrameInv'
  BY <1>0, <1>7 DEF RunnerWait, InRunner, SpuriousWake, FrameInv, TypeOK
<1>8. ASSUME NEW t \in Threads, RunnerReturn(t) PROVE FrameInv'
  BY <1>0, <1>8 DEF RunnerReturn, InRunner, FrameInv, TypeOK
<1>9. ASSUME NEW t \in Threads, Destroy(t) PROVE FrameInv'
  <2>1. WokenByDestructor \subseteq {u \in Threads : pc[u] = "asleep"}
    BY DEF WokenByDestructor, Asleep
  <2>. QED BY <1>0, <1>9, <2>1 DEF Destroy, Notified, FrameInv, TypeOK
<1>10. ASSUME NEW t \in Threads, Join(t) \/ FuncEnds(t) PROVE FrameInv'
  BY <1>0, <1>10 DEF Join, FuncEnds, FrameInv, TypeOK
<1>11. CASE UNCHANGED vars
  BY <1>0, <1>11 DEF vars, FrameInv
<1>. QED
  BY <1>1, <1>2, <1>3, <1>4, <1>5, <1>6, <1>7, <1>8, <1>9, <1>10, <1>11
     DEF Next, Step, Terminated

(* The actions that leave the stacks alone. *)
LEMMA QuietSteps ==
  ASSUME NEW t \in Threads,
         \/ RunnerWait(t) \/ RunnerReturn(t) \/ SpuriousWake(t) \/ Destroy(t)
         \/ Join(t) \/ FuncEnds(t)
  PROVE  UNCHANGED <<frame, runner, status, tasks, call, siblings, eptr>>
BY DEF RunnerWait, RunnerReturn, SpuriousWake, Destroy, Join, FuncEnds

(* What the two forms of a call do to the tasks: those of the call were    *)
(* idle, the others are left alone.                                        *)
LEMMA CallEffect ==
  ASSUME IInv, NEW t \in Threads, NEW g \in Groups,
         CallParallel(t, g) \/ CallInline(t, g)
  PROVE  /\ call[g] = "idle" /\ frame[t] = Caller[g]
         /\ pc[t] \in {"main", "func"}
         /\ call' = [call EXCEPT ![g] = "active"]
         /\ \A k \in Tasks :
              IF GroupOf[k] = g
              THEN /\ status[k] = "idle"
                   /\ status'[k] = IF g \in Inline THEN "running" ELSE "queued"
              ELSE status'[k] = status[k]
         /\ UNCHANGED <<thrown, continue, eptr, raised>>
<1>0. TypeOK /\ LifeInv
  BY DEF IInv
<1>1. /\ call[g] = "idle" /\ frame[t] = Caller[g]
      /\ pc[t] \in {"main", "func"}
      /\ call' = [call EXCEPT ![g] = "active"]
      /\ UNCHANGED <<thrown, continue, eptr, raised>>
  BY DEF CallParallel, CallInline, MayCall
<1>2. \A k \in Tasks : GroupOf[k] = g => status[k] = "idle"
  BY <1>0, <1>1, GroupOfTask DEF LifeInv
<1>3. CASE CallParallel(t, g)
  BY <1>1, <1>2, <1>3, GroupOfTask DEF CallParallel
<1>4. CASE CallInline(t, g)
  <2>1. g \in Inline /\ status' = [status EXCEPT ![Split[g][1]] = "running"]
    BY <1>4 DEF CallInline
  <2>2. \A k \in Tasks : GroupOf[k] = g <=> k = Split[g][1]
    BY <2>1, InlineTask, GroupOfTask
  <2>. QED BY <1>0, <1>1, <1>2, <2>1, <2>2 DEF TypeOK
<1>. QED BY <1>3, <1>4

(* Frames below others are alive. *)
LEMMA AliveStep == IInv /\ [Next]_vars => AliveInv'
<1> SUFFICES ASSUME IInv, [Next]_vars PROVE AliveInv'
  OBVIOUS
<1>0. TypeOK /\ QueueInv /\ FrameInv /\ AliveInv /\ StackInv /\ LifeInv
  BY DEF IInv
<1>1. ASSUME NEW t \in Threads, RunnerPop(t) PROVE AliveInv'
  <2> DEFINE k == tasks[Len(tasks)]
  <2>1. k \in Tasks /\ status[k] = "queued" /\ GroupOf[k] \notin Inline /\ call' = call
    BY <1>0, <1>1, PopEffect DEF QueueInv
  <2>2. \A u \in Threads : frame'[u] = IF u = t THEN k ELSE frame[u]
    BY <1>0, <1>1, PopEffect DEF TypeOK
  <2>3. \A j \in Tasks : status'[j] = IF j = k THEN "running" ELSE status[j]
    BY <1>0, <1>1, PopEffect DEF TypeOK
  <2>4. \A j \in Tasks : runner'[j] = IF j = k THEN frame[t] ELSE runner[j]
    BY <1>0, <1>1, PopEffect DEF TypeOK
  <2>. QED BY <1>0, <2>1, <2>2, <2>3, <2>4, FramesAssumption DEF AliveInv
<1>2. ASSUME NEW t \in Threads, TaskEnds(t) PROVE AliveInv'
  <2>1. \A u \in Threads \ {t} : frame'[u] = frame[u] /\ frame[u] # frame[t]
    BY <1>0, <1>2, TaskEndsEffect, FramesAssumption DEF StackInv, TypeOK
  <2>2. \A k \in Tasks : status'[k] = IF k = frame[t] THEN "finished" ELSE status[k]
    BY <1>0, <1>2, TaskEndsEffect DEF TypeOK
  <2>3. frame'[t] = runner[frame[t]] /\ runner[frame[t]] \in Groups \union {Base}
    BY <1>0, <1>2, TaskEndsEffect DEF TypeOK
  <2>4. frame'[t] \in Groups => call[frame'[t]] = "active"
    BY <1>0, <1>2, <2>3, TaskEndsEffect DEF AliveInv
  <2>5. \A g \in Groups : call[g] = "active" => Caller[g] # frame[t]
    BY <1>0, <1>2, TaskEndsEffect DEF StackInv
  <2>6. call' = call /\ runner' = runner
    BY <1>2, TaskEndsEffect
  <2>. QED BY <1>0, <2>1, <2>2, <2>3, <2>4, <2>5, <2>6, FramesAssumption DEF AliveInv
<1>3. ASSUME NEW t \in Threads, InlineEnds(t) PROVE AliveInv'
  <2> DEFINE k == frame[t]
  <2>1. /\ k \in Tasks /\ status[k] = "running" /\ GroupOf[k] \in Groups
        /\ frame' = [frame EXCEPT ![t] = GroupOf[k]]
        /\ status' = [status EXCEPT ![k] = "finished"]
        /\ call' = call /\ runner' = runner /\ GroupOf[k] \in Inline
    BY <1>0, <1>3, GroupOfTask DEF InlineEnds, FrameInv, AliveInv
  <2>2. \A u \in Threads \ {t} : frame'[u] = frame[u] /\ frame[u] # k
    BY <1>0, <2>1, FramesAssumption DEF StackInv, TypeOK
  <2>3. call[GroupOf[k]] = "active"
    BY <1>0, <2>1 DEF AliveInv
  <2>4. \A g \in Groups : call[g] = "active" => Caller[g] # k
    BY <1>0, <2>1 DEF StackInv
  <2>5. frame'[t] = GroupOf[k]
    BY <1>0, <2>1 DEF TypeOK
  <2>6. \A j \in Tasks : status'[j] = IF j = k THEN "finished" ELSE status[j]
    BY <1>0, <2>1 DEF TypeOK
  <2>. QED BY <1>0, <2>1, <2>2, <2>3, <2>4, <2>5, <2>6, FramesAssumption DEF AliveInv
<1>4. ASSUME NEW t \in Threads, Return(t) PROVE AliveInv'
  <2> DEFINE g == frame[t]
  <2>1. /\ g \in Groups /\ call[g] = "active"
        /\ Caller[g] \in Tasks \union {Base}
        /\ frame' = [frame EXCEPT ![t] = Caller[g]]
        /\ call' = [call EXCEPT ![g] = "returned"]
        /\ status' = status /\ runner' = runner
    BY <1>0, <1>4, CallAssumption DEF Return, FrameInv, AliveInv
  <2>2. \A u \in Threads \ {t} : frame'[u] = frame[u] /\ frame[u] # g
    BY <1>0, <2>1, FramesAssumption DEF StackInv, TypeOK
  <2>3. Caller[g] \in Tasks => status[Caller[g]] = "running"
    BY <1>0, <2>1 DEF AliveInv
  <2>4. \A k \in Tasks : status[k] = "running" => runner[k] # g
    BY <1>0, <2>1 DEF StackInv
  <2>5. frame'[t] = Caller[g] /\ \A h \in Groups : call'[h] = IF h = g THEN "returned" ELSE call[h]
    BY <1>0, <2>1 DEF TypeOK
  <2>. QED BY <1>0, <2>1, <2>2, <2>3, <2>4, <2>5, FramesAssumption DEF AliveInv
<1>5. ASSUME NEW t \in Threads, NEW g \in Groups, CallParallel(t, g) PROVE AliveInv'
  <2>1. frame' = [frame EXCEPT ![t] = g] /\ runner' = runner /\ g \notin Inline
    BY <1>5 DEF CallParallel
  <2>2. frame[t] \in Tasks => status[frame[t]] = "running"
    BY <1>0 DEF AliveInv
  <2>3. \A k \in Tasks : status[k] = "running" <=> status'[k] = "running"
    BY <1>5, <2>1, CallEffect
  <2>4. \A h \in Groups : call'[h] = IF h = g THEN "active" ELSE call[h]
    BY <1>0, <1>5, CallEffect DEF TypeOK
  <2>5. \A u \in Threads : frame'[u] = IF u = t THEN g ELSE frame[u]
    BY <1>0, <2>1 DEF TypeOK
  <2>6. frame[t] = Caller[g]
    BY <1>5, CallEffect
  <2>. QED BY <1>0, <2>1, <2>2, <2>3, <2>4, <2>5, <2>6, FramesAssumption DEF AliveInv
<1>6. ASSUME NEW t \in Threads, NEW g \in Groups, CallInline(t, g) PROVE AliveInv'
  <2> DEFINE k == Split[g][1]
  <2>1. /\ g \in Inline /\ k \in Tasks /\ GroupOf[k] = g
        /\ frame' = [frame EXCEPT ![t] = k]
        /\ runner' = [runner EXCEPT ![k] = g]
    BY <1>6, InlineTask DEF CallInline
  <2>2. frame[t] = Caller[g] /\ frame[t] \in Tasks => status[frame[t]] = "running"
    BY <1>0 DEF AliveInv
  <2>3. \A j \in Tasks : IF j = k THEN status'[j] = "running" ELSE status'[j] = status[j]
    BY <1>6, <2>1, CallEffect, InlineTask, GroupOfTask
  <2>4. \A h \in Groups : call'[h] = IF h = g THEN "active" ELSE call[h]
    BY <1>0, <1>6, CallEffect DEF TypeOK
  <2>5. \A u \in Threads : frame'[u] = IF u = t THEN k ELSE frame[u]
    BY <1>0, <2>1 DEF TypeOK
  <2>6. \A j \in Tasks : runner'[j] = IF j = k THEN g ELSE runner[j]
    BY <1>0, <2>1 DEF TypeOK
  <2>7. frame[t] = Caller[g]
    BY <1>6, CallEffect
  <2>. QED BY <1>0, <2>1, <2>2, <2>3, <2>4, <2>5, <2>6, <2>7, FramesAssumption DEF AliveInv
<1>7. CASE UNCHANGED <<frame, runner, status, tasks, call, siblings, eptr>>
  BY <1>0, <1>7 DEF AliveInv
<1>. QED
  BY <1>1, <1>2, <1>3, <1>4, <1>5, <1>6, <1>7, QuietSteps DEF Next, Step, Terminated, vars

(* A frame has at most one frame directly above it. *)
LEMMA StackStep == IInv /\ [Next]_vars => StackInv'
<1> SUFFICES ASSUME IInv, [Next]_vars PROVE StackInv'
  OBVIOUS
<1>0. TypeOK /\ QueueInv /\ FrameInv /\ AliveInv /\ StackInv /\ LifeInv
  BY DEF IInv
<1>1. ASSUME NEW t \in Threads, RunnerPop(t) PROVE StackInv'
  <2> DEFINE k == tasks[Len(tasks)]
  <2>1. /\ k \in Tasks /\ status[k] = "queued" /\ call' = call
        /\ frame[t] \in Groups \union {Base}
    BY <1>0, <1>1, PopEffect
  <2>2. \A u \in Threads : frame'[u] = IF u = t THEN k ELSE frame[u]
    BY <1>0, <1>1, PopEffect DEF TypeOK
  <2>3. \A j \in Tasks : status'[j] = IF j = k THEN "running" ELSE status[j]
    BY <1>0, <1>1, PopEffect DEF TypeOK
  <2>4. \A j \in Tasks : runner'[j] = IF j = k THEN frame[t] ELSE runner[j]
    BY <1>0, <1>1, PopEffect DEF TypeOK
  <2>5. \A u \in Threads : frame[u] # k
    BY <1>0, <2>1 DEF AliveInv
  <2>6. \A g \in Groups : call[g] = "active" => Caller[g] # k
    BY <1>0, <2>1 DEF AliveInv
  <2>. QED BY <1>0, <2>1, <2>2, <2>3, <2>4, <2>5, <2>6, FramesAssumption DEF StackInv
<1>2. ASSUME NEW t \in Threads, TaskEnds(t) \/ InlineEnds(t) PROVE StackInv'
  <2> DEFINE k == frame[t]
  <2>1. /\ k \in Tasks /\ status[k] = "running" /\ runner[k] \in Groups \union {Base}
        /\ frame' = [frame EXCEPT ![t] = runner[k]]
        /\ status' = [status EXCEPT ![k] = "finished"]
        /\ runner' = runner /\ call' = call
    BY <1>0, <1>2, TaskEndsEffect DEF InlineEnds, FrameInv, AliveInv, TypeOK
  <2>2. \A u \in Threads : frame'[u] = IF u = t THEN runner[k] ELSE frame[u]
    BY <1>0, <2>1 DEF TypeOK
  <2>3. \A j \in Tasks : status'[j] = IF j = k THEN "finished" ELSE status[j]
    BY <1>0, <2>1 DEF TypeOK
  <2>4. runner[k] \in Groups =>
          /\ \A u \in Threads : frame[u] # runner[k]
          /\ \A j \in Tasks \ {k} : status[j] = "running" => runner[j] # runner[k]
    BY <1>0, <2>1 DEF StackInv
  <2>. QED BY <1>0, <2>1, <2>2, <2>3, <2>4, FramesAssumption DEF StackInv
<1>3. ASSUME NEW t \in Threads, Return(t) PROVE StackInv'
  <2> DEFINE g == frame[t]
  <2>1. /\ g \in Groups /\ call[g] = "active"
        /\ Caller[g] \in Tasks \union {Base}
        /\ frame' = [frame EXCEPT ![t] = Caller[g]]
        /\ call' = [call EXCEPT ![g] = "returned"]
        /\ status' = status /\ runner' = runner
    BY <1>0, <1>3, CallAssumption DEF Return, FrameInv, AliveInv
  <2>2. \A u \in Threads : frame'[u] = IF u = t THEN Caller[g] ELSE frame[u]
    BY <1>0, <2>1 DEF TypeOK
  <2>3. \A h \in Groups : call'[h] = IF h = g THEN "returned" ELSE call[h]
    BY <1>0, <2>1 DEF TypeOK
  <2>4. Caller[g] \in Tasks =>
          /\ \A u \in Threads : frame[u] # Caller[g]
          /\ \A h \in Groups \ {g} : call[h] = "active" => Caller[h] # Caller[g]
    BY <1>0, <2>1 DEF StackInv
  <2>. QED BY <1>0, <2>1, <2>2, <2>3, <2>4, FramesAssumption DEF StackInv
<1>4. ASSUME NEW t \in Threads, NEW g \in Groups, CallParallel(t, g) PROVE StackInv'
  <2>1. frame' = [frame EXCEPT ![t] = g] /\ runner' = runner /\ g \notin Inline
    BY <1>4 DEF CallParallel
  <2>2. call[g] = "idle" /\ frame[t] = Caller[g] /\ pc[t] \in {"main", "func"}
    BY <1>4, CallEffect
  <2>3. \A k \in Tasks : status[k] = "running" <=> status'[k] = "running"
    BY <1>4, <2>1, CallEffect
  <2>4. \A h \in Groups : call'[h] = IF h = g THEN "active" ELSE call[h]
    BY <1>0, <1>4, CallEffect DEF TypeOK
  <2>5. \A u \in Threads : frame'[u] = IF u = t THEN g ELSE frame[u]
    BY <1>0, <2>1 DEF TypeOK
  <2>6. /\ \A u \in Threads : frame[u] # g
        /\ \A k \in Tasks : status[k] = "running" => runner[k] # g
    BY <1>0, <2>2 DEF AliveInv
  <2>7. Caller[g] \in Tasks =>
          /\ \A u \in Threads \ {t} : frame[u] # Caller[g]
          /\ \A h \in Groups : call[h] = "active" => Caller[h] # Caller[g]
    BY <1>0, <2>2, FramesAssumption DEF StackInv
  <2>. QED BY <1>0, <2>1, <2>2, <2>3, <2>4, <2>5, <2>6, <2>7, FramesAssumption DEF StackInv
<1>5. ASSUME NEW t \in Threads, NEW g \in Groups, CallInline(t, g) PROVE StackInv'
  <2> DEFINE k == Split[g][1]
  <2>1. /\ g \in Inline /\ k \in Tasks /\ GroupOf[k] = g
        /\ frame' = [frame EXCEPT ![t] = k]
        /\ runner' = [runner EXCEPT ![k] = g]
    BY <1>5, InlineTask DEF CallInline
  <2>2. /\ call[g] = "idle" /\ frame[t] = Caller[g] /\ pc[t] \in {"main", "func"}
        /\ status[k] = "idle"
    BY <1>5, <2>1, CallEffect
  <2>3. \A j \in Tasks : IF j = k THEN status'[j] = "running" ELSE status'[j] = status[j]
    BY <1>5, <2>1, CallEffect, InlineTask, GroupOfTask
  <2>4. \A h \in Groups : call'[h] = IF h = g THEN "active" ELSE call[h]
    BY <1>0, <1>5, CallEffect DEF TypeOK
  <2>5. \A u \in Threads : frame'[u] = IF u = t THEN k ELSE frame[u]
    BY <1>0, <2>1 DEF TypeOK
  <2>6. \A j \in Tasks : runner'[j] = IF j = k THEN g ELSE runner[j]
    BY <1>0, <2>1 DEF TypeOK
  <2>7. /\ \A u \in Threads : frame[u] # g /\ frame[u] # k
        /\ \A j \in Tasks : status[j] = "running" => runner[j] # g
        /\ \A h \in Groups : call[h] = "active" => Caller[h] # k
    BY <1>0, <2>1, <2>2, CallAssumption DEF AliveInv
  <2>8. Caller[g] \in Tasks =>
          /\ \A u \in Threads \ {t} : frame[u] # Caller[g]
          /\ \A h \in Groups : call[h] = "active" => Caller[h] # Caller[g]
    BY <1>0, <2>2, FramesAssumption DEF StackInv
  <2>9. Caller[g] # k
    BY <1>0, <2>1, <2>2, <2>7
  <2>10. g \in Groups /\ g \notin Tasks /\ k \notin Groups /\ k # Base /\ g # Base
    BY <2>1, FramesAssumption, CallAssumption
  <2>11. \A u, v \in Threads : frame'[u] = frame'[v] /\ frame'[u] # Base => u = v
    BY <1>0, <2>5, <2>7 DEF StackInv
  <2>12. \A j \in Tasks : status'[j] = "running" /\ runner'[j] \in Groups =>
           /\ \A u \in Threads : frame'[u] # runner'[j]
           /\ \A i \in Tasks : status'[i] = "running" /\ runner'[i] = runner'[j] => i = j
    BY <1>0, <2>3, <2>5, <2>6, <2>7, <2>10 DEF StackInv
  <2>13. \A h \in Groups : call'[h] = "active" /\ Caller[h] \in Tasks =>
           /\ \A u \in Threads : frame'[u] # Caller[h]
           /\ \A i \in Groups : call'[i] = "active" /\ Caller[i] = Caller[h] => i = h
    BY <1>0, <2>4, <2>5, <2>7, <2>8, <2>9 DEF StackInv
  <2>. QED BY <2>11, <2>12, <2>13 DEF StackInv
<1>6. CASE UNCHANGED <<frame, runner, status, tasks, call, siblings, eptr>>
  BY <1>0, <1>6 DEF StackInv
<1>. QED
  BY <1>1, <1>2, <1>3, <1>4, <1>5, <1>6, QuietSteps DEF Next, Step, Terminated, vars

(* Tasks live while their call does. *)
LEMMA LifeStep == IInv /\ [Next]_vars => LifeInv'
<1> SUFFICES ASSUME IInv, [Next]_vars PROVE LifeInv'
  OBVIOUS
<1>0. TypeOK /\ QueueInv /\ FrameInv /\ AliveInv /\ StackInv /\ LifeInv /\ SiblingsCount
  BY DEF IInv
<1> USE GroupOfTask
<1>1. ASSUME NEW t \in Threads, RunnerPop(t) PROVE LifeInv'
  <2>1. \A u \in Threads : /\ pc'[u] = "returning" => pc[u] = "returning"
                           /\ u # t => frame'[u] = frame[u]
                           /\ u = t => pc'[u] = "func"
    BY <1>0, <1>1, PopEffect DEF TypeOK
  <2>2. tasks[Len(tasks)] \in Tasks /\ status[tasks[Len(tasks)]] = "queued" /\ call' = call
    BY <1>0, <1>1, PopEffect
  <2>3. \A j \in Tasks : status'[j] = IF j = tasks[Len(tasks)] THEN "running" ELSE status[j]
    BY <1>0, <1>1, PopEffect DEF TypeOK
  <2>. QED BY <1>0, <2>1, <2>2, <2>3 DEF LifeInv
<1>2. ASSUME NEW t \in Threads, TaskEnds(t) PROVE LifeInv'
  <2>1. \A u \in Threads : /\ pc'[u] = "returning" => pc[u] = "returning"
                           /\ u # t => frame'[u] = frame[u]
                           /\ u = t => pc'[u] = "ready"
    BY <1>0, <1>2, TaskEndsEffect DEF TypeOK
  <2>2. frame[t] \in Tasks /\ status[frame[t]] = "running" /\ call' = call
    BY <1>0, <1>2, TaskEndsEffect
  <2>3. \A j \in Tasks : status'[j] = IF j = frame[t] THEN "finished" ELSE status[j]
    BY <1>0, <1>2, TaskEndsEffect DEF TypeOK
  <2>. QED BY <1>0, <2>1, <2>2, <2>3 DEF LifeInv
<1>3. ASSUME NEW t \in Threads, InlineEnds(t) PROVE LifeInv'
  <2> DEFINE k == frame[t]
  <2>1. /\ k \in Tasks /\ status[k] = "running"
        /\ frame' = [frame EXCEPT ![t] = GroupOf[k]]
        /\ pc' = [pc EXCEPT ![t] = "returning"]
        /\ status' = [status EXCEPT ![k] = "finished"]
        /\ call' = call /\ GroupOf[k] \in Inline
    BY <1>0, <1>3 DEF InlineEnds, FrameInv, AliveInv
  <2>2. \A j \in Tasks : GroupOf[j] = GroupOf[k] => j = k
    BY <2>1, InlineTask
  <2>3. \A j \in Tasks : status'[j] = IF j = k THEN "finished" ELSE status[j]
    BY <1>0, <2>1 DEF TypeOK
  <2>4. \A u \in Threads : /\ frame'[u] = IF u = t THEN GroupOf[k] ELSE frame[u]
                           /\ u # t => pc'[u] = pc[u]
    BY <1>0, <2>1 DEF TypeOK
  <2>. QED BY <1>0, <2>1, <2>2, <2>3, <2>4 DEF LifeInv
<1>4. ASSUME NEW t \in Threads, Return(t) PROVE LifeInv'
  <2> DEFINE g == frame[t]
  <2>1. /\ g \in Groups /\ call[g] = "active" /\ pc[t] = "returning"
        /\ call' = [call EXCEPT ![g] = "returned"]
        /\ status' = status
    BY <1>0, <1>4 DEF Return, FrameInv, AliveInv
  <2>2. \A k \in Tasks : GroupOf[k] = g => status[k] = "finished"
    BY <1>0, <2>1 DEF LifeInv
  <2>3. \A u \in Threads : pc'[u] = "returning" => pc[u] = "returning" /\ frame'[u] = frame[u]
    BY <1>0, <1>4 DEF Return, TypeOK
  <2>4. \A h \in Groups : call'[h] = IF h = g THEN "returned" ELSE call[h]
    BY <1>0, <2>1 DEF TypeOK
  <2>. QED BY <1>0, <2>1, <2>2, <2>3, <2>4 DEF LifeInv
<1>5. ASSUME NEW t \in Threads, NEW g \in Groups, CallParallel(t, g) \/ CallInline(t, g)
      PROVE  LifeInv'
  <2>1. \A u \in Threads : pc'[u] = "returning" => pc[u] = "returning" /\ frame'[u] = frame[u]
    <3>1. \/ pc' = [pc EXCEPT ![t] = "ready"] /\ frame' = [frame EXCEPT ![t] = g]
          \/ pc' = [pc EXCEPT ![t] = "func"] /\ frame' = [frame EXCEPT ![t] = Split[g][1]]
      BY <1>5 DEF CallParallel, CallInline
    <3>. QED BY <1>0, <3>1 DEF TypeOK
  <2>2. \A u \in Threads : pc[u] = "returning" => call[frame[u]] = "active"
    BY <1>0 DEF FrameInv, AliveInv
  <2>3. \A h \in Groups : call'[h] = IF h = g THEN "active" ELSE call[h]
    BY <1>0, <1>5, CallEffect DEF TypeOK
  <2>. QED BY <1>0, <1>5, <2>1, <2>2, <2>3, CallEffect DEF LifeInv
<1>6. ASSUME NEW t \in Threads, RunnerReturn(t) PROVE LifeInv'
  <2>1. UNCHANGED <<frame, status, call>> /\ pc' = [pc EXCEPT
          ![t] = IF frame[t] \in Groups THEN "returning" ELSE "exited"]
    BY <1>6 DEF RunnerReturn
  <2>2. ASSUME frame[t] \in Groups
        PROVE  \A k \in Tasks : GroupOf[k] = frame[t] => status[k] = "finished"
    <3>1. siblings[frame[t]] = 0 /\ call[frame[t]] = "active"
      BY <1>0, <1>6, <2>2 DEF RunnerReturn, Reached, AliveInv
    <3>2. ASSUME NEW k \in Tasks, GroupOf[k] = frame[t] PROVE status[k] # "queued"
      BY <3>1, <3>2, <1>0, Counts DEF QueueInv
    <3>3. ASSUME NEW k \in Tasks, GroupOf[k] = frame[t] PROVE status[k] # "running"
      <4>1. CASE GroupOf[k] \in Inline
        BY <1>0, <3>3, <4>1 DEF AliveInv, StackInv
      <4>2. CASE GroupOf[k] \notin Inline
        BY <3>1, <3>3, <4>2, Counts
      <4>. QED BY <4>1, <4>2
    <3>4. \A k \in Tasks : GroupOf[k] = frame[t] => status[k] # "idle"
      BY <1>0, <3>1 DEF LifeInv
    <3>. QED BY <1>0, <3>2, <3>3, <3>4 DEF TypeOK
  <2>. QED BY <1>0, <2>1, <2>2 DEF LifeInv, TypeOK
<1>7. ASSUME NEW t \in Threads,
             RunnerWait(t) \/ SpuriousWake(t) \/ Destroy(t) \/ Join(t) \/ FuncEnds(t)
      PROVE  LifeInv'
  <2>1. UNCHANGED <<frame, status, call>>
    BY <1>7, QuietSteps
  <2>2. \A u \in Threads : pc'[u] = "returning" => pc[u] = "returning"
    <3>1. CASE Destroy(t)
      BY <1>0, <3>1 DEF Destroy, Notified, TypeOK
    <3>2. CASE RunnerWait(t) \/ SpuriousWake(t) \/ Join(t) \/ FuncEnds(t)
      <4>1. PICK p \in {"asleep", "notified", "exited", "done"} : pc' = [pc EXCEPT ![t] = p]
        BY <3>2 DEF RunnerWait, SpuriousWake, Join, FuncEnds
      <4>. QED BY <1>0, <4>1 DEF TypeOK
    <3>. QED BY <1>7, <3>1, <3>2
  <2>. QED BY <1>0, <2>1, <2>2 DEF LifeInv
<1>8. CASE UNCHANGED vars
  BY <1>0, <1>8 DEF LifeInv, vars
<1>. QED
  BY <1>1, <1>2, <1>3, <1>4, <1>5, <1>6, <1>7, <1>8 DEF Next, Step, Terminated

(* The counter of a call is right. *)
LEMMA CountStep == IInv /\ [Next]_vars => SiblingsCount'
<1> SUFFICES ASSUME IInv, [Next]_vars,
                    NEW g \in Groups \ Inline
             PROVE  siblings'[g] = IF call'[g] = "active" THEN Cardinality(Unfinished(g)') ELSE 0
  BY DEF SiblingsCount
<1>0. /\ TypeOK /\ QueueInv /\ FrameInv /\ AliveInv /\ StackInv /\ LifeInv
      /\ siblings[g] = IF call[g] = "active" THEN Cardinality(Unfinished(g)) ELSE 0
  BY DEF IInv, SiblingsCount
<1>1. ASSUME NEW t \in Threads, RunnerPop(t)
      PROVE  call' = call /\ siblings' = siblings /\ Unfinished(g)' = Unfinished(g)
  <2>1. status[tasks[Len(tasks)]] = "queued" /\ tasks[Len(tasks)] \in Tasks
    BY <1>1, PopEffect
  <2>2. \A j \in Tasks : status'[j] \in {"queued", "running"} <=> status[j] \in {"queued", "running"}
    BY <1>0, <1>1, <2>1, PopEffect DEF TypeOK
  <2>. QED BY <1>1, <2>2, PopEffect, GroupOfTask DEF Unfinished
<1>2. ASSUME NEW t \in Threads, TaskEnds(t)
      PROVE  siblings'[g] = IF call'[g] = "active" THEN Cardinality(Unfinished(g)') ELSE 0
  <2> DEFINE k == frame[t]
  <2>1. k \in Tasks /\ status[k] = "running" /\ call' = call
    BY <1>2, TaskEndsEffect
  <2>2. \A j \in Tasks : status'[j] = IF j = k THEN "finished" ELSE status[j]
    BY <1>0, <1>2, TaskEndsEffect DEF TypeOK
  <2>3. siblings' = [siblings EXCEPT ![GroupOf[k]] = @ - 1]
    BY <1>2, TaskEndsEffect
  <2>4. Unfinished(g)' = Unfinished(g) \ {k}
    BY <2>1, <2>2, GroupOfTask DEF Unfinished
  <2>5. CASE GroupOf[k] = g
    <3>1. k \in Unfinished(g) /\ call[g] = "active"
      BY <2>1, <2>5, Counts
    <3>2. Cardinality(Unfinished(g)') = Cardinality(Unfinished(g)) - 1
      <4>1. IsFiniteSet(Unfinished(g))
        BY UnfinishedTasks
      <4>2. Cardinality(Unfinished(g) \ {k}) = Cardinality(Unfinished(g)) - 1
        BY ONLY <3>1, <4>1, FS_RemoveElement
      <4>. QED BY <2>4, <4>2
    <3>. QED BY <1>0, <2>1, <2>3, <2>5, <3>1, <3>2 DEF TypeOK
  <2>6. CASE GroupOf[k] # g
    <3>1. k \notin Unfinished(g)
      BY <2>1, <2>6, GroupOfTask DEF Unfinished
    <3>2. Unfinished(g)' = Unfinished(g)
      BY <2>4, <3>1
    <3>. QED BY <1>0, <2>1, <2>3, <2>6, <3>2 DEF TypeOK
  <2>. QED BY <2>5, <2>6
<1>3. ASSUME NEW t \in Threads, InlineEnds(t)
      PROVE  call' = call /\ siblings' = siblings /\ Unfinished(g)' = Unfinished(g)
  <2>1. /\ frame[t] \in Tasks /\ GroupOf[frame[t]] \in Inline
        /\ status' = [status EXCEPT ![frame[t]] = "finished"]
        /\ call' = call /\ siblings' = siblings
    BY <1>0, <1>3 DEF InlineEnds, FrameInv
  <2>2. frame[t] \notin TasksOf(g)
    BY <2>1, GroupOfTask
  <2>. QED BY <1>0, <2>1, <2>2, GroupOfTask DEF Unfinished, TypeOK
<1>4. ASSUME NEW t \in Threads, Return(t)
      PROVE  siblings'[g] = IF call'[g] = "active" THEN Cardinality(Unfinished(g)') ELSE 0
  <2>1. /\ call' = [call EXCEPT ![frame[t]] = "returned"]
        /\ siblings' = siblings /\ status' = status
        /\ frame[t] \in Groups /\ pc[t] = "returning" /\ call[frame[t]] = "active"
    BY <1>0, <1>4 DEF Return, FrameInv, AliveInv
  <2>2. Unfinished(g)' = Unfinished(g)
    BY <2>1 DEF Unfinished
  <2>3. CASE frame[t] = g
    <3>1. Unfinished(g) = {}
      BY <1>0, <2>1, <2>3, GroupOfTask DEF LifeInv, Unfinished
    <3>2. siblings[g] = 0
      BY <1>0, <2>1, <2>3, <3>1, UnfinishedTasks
    <3>. QED BY <1>0, <2>1, <2>3, <3>2 DEF TypeOK
  <2>4. CASE frame[t] # g
    BY <1>0, <2>1, <2>2, <2>4 DEF TypeOK
  <2>. QED BY <2>3, <2>4
<1>5. ASSUME NEW t \in Threads, NEW h \in Groups, CallParallel(t, h)
      PROVE  siblings'[g] = IF call'[g] = "active" THEN Cardinality(Unfinished(g)') ELSE 0
  <2>1. /\ siblings' = [siblings EXCEPT ![h] = Len(Split[h])] /\ h \notin Inline
    BY <1>5 DEF CallParallel, Counted
  <2>2. /\ call' = [call EXCEPT ![h] = "active"]
        /\ \A k \in Tasks : IF GroupOf[k] = h THEN status'[k] = "queued"
                                              ELSE status'[k] = status[k]
    BY <1>5, <2>1, CallEffect
  <2>3. CASE h = g
    <3>1. Unfinished(g)' = TasksOf(g)
      BY <2>2, <2>3, GroupOfTask DEF Unfinished
    <3>. QED BY <1>0, <2>1, <2>2, <2>3, <3>1, CountTasks DEF TypeOK
  <2>4. CASE h # g
    <3>1. Unfinished(g)' = Unfinished(g)
      BY <2>2, <2>4, GroupOfTask DEF Unfinished
    <3>. QED BY <1>0, <2>1, <2>2, <2>4, <3>1 DEF TypeOK
  <2>. QED BY <2>3, <2>4
<1>6. ASSUME NEW t \in Threads, NEW h \in Groups, CallInline(t, h)
      PROVE  siblings'[g] = IF call'[g] = "active" THEN Cardinality(Unfinished(g)') ELSE 0
  <2>1. siblings' = siblings /\ h \in Inline
    BY <1>6 DEF CallInline
  <2>2. /\ call' = [call EXCEPT ![h] = "active"]
        /\ \A k \in Tasks : GroupOf[k] # h => status'[k] = status[k]
    BY <1>6, CallEffect
  <2>3. Unfinished(g)' = Unfinished(g)
    BY <2>1, <2>2, GroupOfTask DEF Unfinished
  <2>. QED BY <1>0, <2>1, <2>2, <2>3 DEF TypeOK
<1>7. ASSUME UNCHANGED <<frame, runner, status, tasks, call, siblings, eptr>>
      PROVE  call' = call /\ siblings' = siblings /\ Unfinished(g)' = Unfinished(g)
  BY <1>7 DEF Unfinished
<1>8. UNCHANGED vars => UNCHANGED <<frame, runner, status, tasks, call, siblings, eptr>>
  BY DEF vars
<1>. QED
  BY <1>0, <1>1, <1>2, <1>3, <1>4, <1>5, <1>6, <1>7, <1>8, QuietSteps
     DEF Next, Step, Terminated
-----------------------------------------------------------------------------
LEMMA Inductive == Spec => []IInv
<1>1. IInv /\ [Next]_vars => IInv'
  BY TypeStep, QueueStep, FrameStep, AliveStep, StackStep, LifeStep, CountStep DEF IInv
<1>. QED BY InitInv, <1>1, PTL DEF Spec

(* Every variable keeps to its type, the queue, the stacks and the         *)
(* counters included.                                                      *)
THEOREM TypeCorrect == Spec => []TypeOK
<1>1. IInv => TypeOK
  BY DEF IInv
<1>. QED BY <1>1, Inductive, PTL

(* siblings_counter of a call that is in progress is the number of its     *)
(* tasks that are queued or running, for any tree of calls and any number  *)
(* of threads (task_manager.cc:140-171).                                   *)
THEOREM CountersAreExact == Spec => []SiblingsCount
<1>1. IInv => SiblingsCount
  BY DEF IInv
<1>. QED BY <1>1, Inductive, PTL

(* No task that is queued or running refers to the frame of a call that    *)
(* has left TaskRunner, so reading eptr without a lock is safe             *)
(* (task_manager.cc:178-182).                                              *)
THEOREM NoTaskOutlivesItsFrame == Spec => []NoDanglingTask
<1>1. ASSUME IInv PROVE NoDanglingTask
  <2>1. ASSUME NEW k \in Tasks, status[k] \in {"queued", "running"}
        PROVE  /\ call[GroupOf[k]] = "active"
               /\ \A t \in Threads : pc[t] = "returning" => frame[t] # GroupOf[k]
    BY <1>1, <2>1, Counts DEF IInv, LifeInv
  <2>. QED BY <2>1 DEF NoDanglingTask
<1>. QED BY <1>1, Inductive, PTL

(* A step that puts no caller to sleep, and takes no counter of a sleeping *)
(* one to zero, keeps NoLostWakeup.                                        *)
LEMMA StillAwaited ==
  ASSUME NoLostWakeup,
         \A u \in Threads : pc'[u] = "asleep" /\ frame'[u] \in Groups =>
           /\ pc[u] = "asleep" /\ frame'[u] = frame[u]
           /\ siblings'[frame[u]] > 0
           /\ \A k \in TasksOf(frame[u]) : status'[k] = "queued" => status[k] = "queued"
  PROVE  NoLostWakeup'
BY DEF NoLostWakeup, TasksOf

LEMMA WakeStep == IInv /\ NoLostWakeup /\ [Next]_vars => NoLostWakeup'
<1> SUFFICES ASSUME IInv, NoLostWakeup, [Next]_vars PROVE NoLostWakeup'
  OBVIOUS
<1>0. TypeOK /\ QueueInv /\ AliveInv
  BY DEF IInv
<1>1. ASSUME NEW t \in Threads, RunnerWait(t) PROVE NoLostWakeup'
  <2>1. /\ UNCHANGED <<frame, status, siblings>> /\ pc' = [pc EXCEPT ![t] = "asleep"]
        /\ frame[t] \in Groups => siblings[frame[t]] # 0
        /\ tasks = <<>>
    BY <1>1 DEF RunnerWait, Reached
  <2>2. frame[t] \in Groups => siblings[frame[t]] > 0
    BY <1>0, <2>1 DEF TypeOK
  <2>3. \A k \in Tasks : status[k] # "queued"
    BY <1>0, <2>1 DEF QueueInv
  <2>4. ASSUME NEW u \in Threads, pc'[u] = "asleep", frame'[u] \in Groups
        PROVE  siblings'[frame'[u]] > 0
    <3>1. CASE u = t
      BY <2>1, <2>2, <2>4, <3>1
    <3>2. CASE u # t
      BY <1>0, <2>1, <2>4, <3>2 DEF NoLostWakeup, TypeOK
    <3>. QED BY <3>1, <3>2
  <2>. QED BY <2>1, <2>3, <2>4, GroupOfTask DEF NoLostWakeup, TasksOf
<1>2. ASSUME NEW t \in Threads, RunnerPop(t) PROVE NoLostWakeup'
  <2>1. \A u \in Threads : pc'[u] = "asleep" => pc[u] = "asleep" /\ frame'[u] = frame[u]
    BY <1>0, <1>2, PopEffect DEF TypeOK
  <2>2. siblings' = siblings /\ \A k \in Tasks : status'[k] = "queued" => status[k] = "queued"
    BY <1>0, <1>2, PopEffect DEF TypeOK
  <2>. QED BY <2>1, <2>2, StillAwaited, GroupOfTask DEF NoLostWakeup
<1>3. ASSUME NEW t \in Threads, TaskEnds(t) PROVE NoLostWakeup'
  <2> DEFINE h == GroupOf[frame[t]]
  <2>1. \A u \in Threads : pc'[u] = "asleep" => pc[u] = "asleep" /\ frame'[u] = frame[u]
    BY <1>0, <1>3, TaskEndsEffect DEF TypeOK
  <2>2. /\ h \in Groups /\ siblings' = [siblings EXCEPT ![h] = @ - 1]
        /\ \A k \in Tasks : status'[k] = "queued" => status[k] = "queued"
    BY <1>0, <1>3, TaskEndsEffect DEF TypeOK
  <2>3. ASSUME NEW u \in Threads, pc'[u] = "asleep", frame'[u] \in Groups
        PROVE  siblings'[frame[u]] > 0
    <3>1. pc[u] = "asleep" /\ frame[u] \in Groups /\ siblings[frame[u]] > 0
          /\ siblings[frame[u]] \in Nat
      BY <1>0, <2>1, <2>3 DEF NoLostWakeup, TypeOK
    <3>2. CASE frame[u] = h
      <4>1. siblings[h] # 1
        <5>1. ASSUME siblings[h] = 1 PROVE FALSE
          <6>1. pc' = [Notified(Asleep(TRUE), pc) EXCEPT ![t] = "ready"]
            BY <1>3, <5>1 DEF TaskEnds, WokenByLast
          <6>2. u \in Asleep(TRUE)
            BY <3>1 DEF Asleep
          <6>3. pc'[u] \in {"notified", "ready"}
            BY <6>1, <6>2 DEF Notified
          <6>. QED BY <2>3, <6>3
        <5>. QED BY <5>1
      <4>. QED BY <1>0, <2>2, <3>1, <3>2, <4>1 DEF TypeOK
    <3>3. CASE frame[u] # h
      BY <1>0, <2>2, <3>1, <3>3 DEF TypeOK
    <3>. QED BY <3>2, <3>3
  <2>. QED BY <2>1, <2>2, <2>3, StillAwaited, GroupOfTask
<1>4. ASSUME NEW t \in Threads, NEW h \in Groups, CallParallel(t, h) PROVE NoLostWakeup'
  <2>1. /\ pc' = [pc EXCEPT ![t] = "ready"] /\ frame' = [frame EXCEPT ![t] = h]
        /\ siblings' = [siblings EXCEPT ![h] = Len(Split[h])]
    BY <1>4 DEF CallParallel, Counted
  <2>2. /\ call[h] = "idle"
        /\ \A k \in Tasks : GroupOf[k] # h => status'[k] = status[k]
    BY <1>4, CallEffect
  <2>3. \A u \in Threads : pc'[u] = "asleep" => pc[u] = "asleep" /\ frame'[u] = frame[u]
    BY <1>0, <2>1 DEF TypeOK
  <2>4. \A u \in Threads : frame[u] # h
    BY <1>0, <2>2 DEF AliveInv
  <2>5. ASSUME NEW u \in Threads, pc[u] = "asleep", frame[u] \in Groups
        PROVE  /\ siblings'[frame[u]] > 0
               /\ \A k \in TasksOf(frame[u]) : status'[k] = "queued" => status[k] = "queued"
    BY <1>0, <2>1, <2>2, <2>4, <2>5, GroupOfTask DEF NoLostWakeup, TypeOK
  <2>. QED BY <2>3, <2>5, StillAwaited
<1>5. ASSUME NEW t \in Threads, NEW h \in Groups, CallInline(t, h) PROVE NoLostWakeup'
  <2>1. \A u \in Threads : pc'[u] = "asleep" => pc[u] = "asleep" /\ frame'[u] = frame[u]
    BY <1>0, <1>5 DEF CallInline, TypeOK
  <2>2. siblings' = siblings /\ \A k \in Tasks : status'[k] = "queued" => status[k] = "queued"
    BY <1>0, <1>5 DEF CallInline, TypeOK
  <2>. QED BY <2>1, <2>2, StillAwaited, GroupOfTask DEF NoLostWakeup
<1>6. ASSUME NEW t \in Threads, InlineEnds(t) \/ Return(t) PROVE NoLostWakeup'
  <2>0. \E f : frame' = [frame EXCEPT ![t] = f]
    BY <1>6 DEF InlineEnds, Return
  <2>1. PICK p \in PCs \ {"asleep"} : pc' = [pc EXCEPT ![t] = p]
    BY <1>6 DEF InlineEnds, Return, PCs
  <2>2. siblings' = siblings /\ \A k \in Tasks : status'[k] = "queued" => status[k] = "queued"
    BY <1>0, <1>6 DEF InlineEnds, Return, TypeOK
  <2>3. \A u \in Threads : pc'[u] = "asleep" => pc[u] = "asleep" /\ frame'[u] = frame[u]
    BY <1>0, <2>0, <2>1 DEF TypeOK
  <2>. QED BY <2>2, <2>3, StillAwaited, GroupOfTask DEF NoLostWakeup
<1>7. ASSUME NEW t \in Threads,
             RunnerReturn(t) \/ SpuriousWake(t) \/ Destroy(t) \/ Join(t) \/ FuncEnds(t)
      PROVE  NoLostWakeup'
  <2>1. \A u \in Threads : pc'[u] = "asleep" => pc[u] = "asleep"
    BY <1>0, <1>7 DEF RunnerReturn, SpuriousWake, Destroy, Notified, Join, FuncEnds, TypeOK
  <2>2. UNCHANGED <<frame, status, siblings>>
    BY <1>7, QuietSteps
  <2>. QED BY <2>1, <2>2, StillAwaited DEF NoLostWakeup
<1>8. CASE UNCHANGED vars
  BY <1>8 DEF NoLostWakeup, vars, TasksOf
<1>. QED
  BY <1>1, <1>2, <1>3, <1>4, <1>5, <1>6, <1>7, <1>8 DEF Next, Step, Terminated

(* A caller that sleeps waits for a task some thread has taken, and the    *)
(* end of the last one wakes it, for any tree of calls and any number of   *)
(* threads (task_manager.cc:77-100).                                       *)
THEOREM NoWakeupIsLost == Spec => []NoLostWakeup
<1>1. Init => NoLostWakeup
  BY DEF Init, NoLostWakeup
<1>. QED BY <1>1, WakeStep, Inductive, PTL DEF Spec

-----------------------------------------------------------------------------
(***************************************************************************)
(* The thread pool does what ForkJoin promises the callers of ParallelFor: *)
(* every step of TaskManager is a step of ForkJoin or changes nothing      *)
(* ForkJoin speaks of.  That the promised steps come is liveness, which is *)
(* model-checked.                                                          *)
(***************************************************************************)

(***************************************************************************)
(* What IInv does not say: on which thread a frame is, that a frame which  *)
(* runs is on top of a stack or waits for a call, and whose exception is   *)
(* where.                                                                  *)
(***************************************************************************)

(* o[f] is the thread on whose stack the frame f is.  The stacks of workers*)
(* end in a task their TaskRunner took, that of the main thread in a call. *)
IsOwner(o) ==
  /\ o \in [Tasks \union Groups -> Threads]
  /\ \A t \in Threads : frame[t] # Base => o[frame[t]] = t
  /\ \A k \in Tasks : status[k] = "running" =>
       IF runner[k] = Base THEN o[k] # Main ELSE o[runner[k]] = o[k]
  /\ \A g \in Groups : call[g] = "active" =>
       IF Caller[g] = Base THEN o[g] = Main ELSE o[Caller[g]] = o[g]

OwnerInv == \E o \in [Tasks \union Groups -> Threads] : IsOwner(o)

MainInv ==
  /\ \A t \in Threads : pc[t] \in {"main", "joining"} => t = Main
  /\ frame[Main] = Base => pc[Main] \in {"main", "joining", "exited"}

(* The main thread is in one outermost call at most. *)
BaseInv ==
  /\ \A g, h \in Groups :
       call[g] = "active" /\ call[h] = "active" /\ Caller[g] = Base /\ Caller[h] = Base => g = h
  /\ frame[Main] = Base => \A g \in Groups : call[g] = "active" => Caller[g] # Base

TopInv ==
  \A k \in Tasks : status[k] = "running" =>
    \/ \E t \in Threads : frame[t] = k
    \/ \E g \in Groups : call[g] = "active" /\ Caller[g] = k

(* Calls are made by tasks that run, and have raised nothing before they   *)
(* return.                                                                 *)
CallsInv ==
  \A g \in Groups :
    /\ call[g] # "returned" => raised[g] = None
    /\ call[g] = "idle" => eptr[g] = None
    /\ Caller[g] \in Tasks /\ status[Caller[g]] \in {"idle", "queued"} => call[g] = "idle"

Received(k) == {raised[g] : g \in {h \in Groups : Caller[h] = k}} \ {None}

(* A function that goes on has received no exception; one that has ended   *)
(* ends with one it received, if there is one.                             *)
ThrownAt(k) ==
  /\ status[k] \in {"idle", "queued"} => thrown[k] = None
  /\ \A t \in Threads : frame[t] = k =>
       /\ pc[t] = "func" => thrown[k] = None /\ Received(k) = {}
       /\ pc[t] = "done" => thrown[k] \in IF Received(k) = {} THEN {None, k} ELSE Received(k)
  /\ \A g \in Groups : call[g] = "active" /\ Caller[g] = k =>
       thrown[k] = None /\ Received(k) = {}

ThrownInv == \A k \in Tasks : ThrownAt(k)

Outcome(k) == IF status[k] = "finished" THEN thrown[k] ELSE None

Thrown(g) == {Outcome(k) : k \in TasksOf(g)} \ {None}

(* eptr is an exception of one of the tasks that have ended. *)
EptrInv ==
  \A g \in Groups : call[g] = "active" => eptr[g] \in IF Thrown(g) = {} THEN {None} ELSE Thrown(g)

RInv == OwnerInv /\ MainInv /\ BaseInv /\ TopInv /\ CallsInv /\ ThrownInv /\ EptrInv
-----------------------------------------------------------------------------
(* It holds at the beginning, and every step keeps each part of it. *)
LEMMA InitRInv == Init => RInv
<1> SUFFICES ASSUME Init PROVE RInv
  OBVIOUS
<1>1. OwnerInv
  <2> DEFINE o == [f \in Tasks \union Groups |-> Main]
  <2>1. o \in [Tasks \union Groups -> Threads]
    BY DEF Threads
  <2>2. IsOwner(o)
    BY <2>1 DEF Init, IsOwner
  <2>. QED BY <2>1, <2>2 DEF OwnerInv
<1>2. MainInv
  <2>1. /\ \A t \in Threads : pc[t] = IF t = Main THEN "main" ELSE "ready"
        /\ Main \in Threads
    BY DEF Init, Threads
  <2>2. pc[Main] = "main"
    BY <2>1
  <2>3. ASSUME NEW t \in Threads, t # Main PROVE pc[t] \notin {"main", "joining"}
    BY <2>1, <2>3
  <2>. QED BY <2>2, <2>3 DEF MainInv
<1>5. BaseInv /\ TopInv
  BY DEF Init, BaseInv, TopInv
<1>3. CallsInv /\ EptrInv
  BY DEF Init, CallsInv, EptrInv
<1>4. ThrownInv
  BY FramesAssumption DEF Init, ThrownInv, ThrownAt
<1>. QED BY <1>1, <1>2, <1>3, <1>4, <1>5 DEF RInv

(* What the end of a function that was called in place does. *)
LEMMA InlineEndsEffect ==
  ASSUME IInv, NEW t \in Threads, InlineEnds(t)
  PROVE  LET k == frame[t]
             g == GroupOf[k]
         IN  /\ k \in Tasks /\ status[k] = "running" /\ g \in Groups
             /\ TasksOf(g) = {k} /\ runner[k] = g /\ call[g] = "active"
             /\ pc[t] = "done" /\ pc' = [pc EXCEPT ![t] = "returning"]
             /\ frame' = [frame EXCEPT ![t] = g]
             /\ status' = [status EXCEPT ![k] = "finished"]
             /\ eptr' = [eptr EXCEPT ![g] = thrown[k]]
             /\ UNCHANGED <<runner, thrown, call, raised>>
<1>1. frame[t] \in Tasks /\ status[frame[t]] = "running" /\ GroupOf[frame[t]] \in Inline
  BY DEF InlineEnds, IInv, FrameInv, AliveInv
<1>2. /\ GroupOf[frame[t]] \in Groups /\ runner[frame[t]] = GroupOf[frame[t]]
      /\ frame[t] \in TasksOf(GroupOf[frame[t]])
  BY <1>1, GroupOfTask DEF IInv, AliveInv
<1>3. TasksOf(GroupOf[frame[t]]) = {frame[t]}
  BY <1>1, <1>2, InlineTask
<1>4. call[GroupOf[frame[t]]] = "active"
  BY <1>1, Counts
<1>. QED BY <1>1, <1>2, <1>3, <1>4 DEF InlineEnds

LEMMA ReturnEffect ==
  ASSUME IInv, NEW t \in Threads, Return(t)
  PROVE  LET g == frame[t]
             below == Caller[g]
         IN  /\ g \in Groups /\ call[g] = "active" /\ below \in Tasks \union {Base}
             /\ pc[t] = "returning" /\ \A k \in TasksOf(g) : status[k] = "finished"
             /\ below \in Tasks => status[below] = "running"
             /\ call' = [call EXCEPT ![g] = "returned"]
             /\ raised' = [raised EXCEPT ![g] = eptr[g]]
             /\ frame' = [frame EXCEPT ![t] = below]
             /\ thrown' = IF below \in Tasks THEN [thrown EXCEPT ![below] = eptr[g]] ELSE thrown
             /\ pc' = [pc EXCEPT ![t] = IF below = Base THEN "main"
                                        ELSE IF eptr[g] = None THEN "func" ELSE "done"]
             /\ UNCHANGED <<runner, status, eptr>>
<1>1. frame[t] \in Groups /\ pc[t] = "returning"
  BY DEF Return, IInv, FrameInv
<1>2. call[frame[t]] = "active" /\ Caller[frame[t]] \in Tasks \union {Base}
  BY <1>1, CallAssumption DEF IInv, AliveInv
<1>3. \A k \in TasksOf(frame[t]) : status[k] = "finished"
  BY <1>1, GroupOfTask DEF IInv, LifeInv
<1>4. Caller[frame[t]] \in Tasks => status[Caller[frame[t]]] = "running"
  BY <1>1, <1>2 DEF IInv, AliveInv
<1>. QED BY <1>1, <1>2, <1>3, <1>4 DEF Return

(* What a call does to the thread that makes it. *)
LEMMA CallStackEffect ==
  ASSUME IInv, NEW t \in Threads, NEW g \in Groups,
         CallParallel(t, g) \/ CallInline(t, g)
  PROVE  /\ \A u \in Threads \ {t} : frame'[u] = frame[u] /\ pc'[u] = pc[u]
         /\ IF g \in Inline
            THEN /\ frame'[t] = Split[g][1] /\ pc'[t] = "func"
                 /\ runner' = [runner EXCEPT ![Split[g][1]] = g]
            ELSE frame'[t] = g /\ pc'[t] = "ready" /\ runner' = runner
         /\ frame[t] = Base => pc[t] = "main"
         /\ frame[t] \in Tasks => pc[t] = "func"
<1>1. TypeOK /\ FrameInv
  BY DEF IInv
<1>2. CASE CallParallel(t, g)
  BY <1>1, <1>2, FramesAssumption DEF CallParallel, MayCall, FrameInv, TypeOK
<1>3. CASE CallInline(t, g)
  BY <1>1, <1>3, FramesAssumption DEF CallInline, MayCall, FrameInv, TypeOK
<1>. QED BY <1>2, <1>3
-----------------------------------------------------------------------------
(* Frames stay on the stack of their thread. *)
LEMMA OwnerStep == IInv /\ RInv /\ [Next]_vars => OwnerInv'
<1> SUFFICES ASSUME IInv, RInv, [Next]_vars PROVE OwnerInv'
  OBVIOUS
<1>0. TypeOK /\ FrameInv /\ AliveInv /\ MainInv
  BY DEF IInv, RInv
<1>1. PICK o \in [Tasks \union Groups -> Threads] : IsOwner(o)
  BY DEF RInv, OwnerInv
<1>2. Main \in Threads /\ Base \notin Tasks \union Groups
  BY FramesAssumption DEF Threads
<1>3. ASSUME NEW t \in Threads, RunnerPop(t) PROVE OwnerInv'
  <2> DEFINE k == tasks[Len(tasks)]
             p == [o EXCEPT ![k] = t]
  <2>1. /\ k \in Tasks /\ status[k] = "queued" /\ frame[t] \in Groups \union {Base}
        /\ frame' = [frame EXCEPT ![t] = k]
        /\ status' = [status EXCEPT ![k] = "running"]
        /\ runner' = [runner EXCEPT ![k] = frame[t]]
        /\ call' = call
    BY <1>3, PopEffect
  <2> HIDE DEF k
  <2>2. p \in [Tasks \union Groups -> Threads] /\ p[k] = t
        /\ \A f \in (Tasks \union Groups) \ {k} : p[f] = o[f]
    BY <2>1
  <2> HIDE DEF p
  <2>3. \A u \in Threads : frame'[u] # Base => p[frame'[u]] = u
    <3>1. \A u \in Threads : frame[u] # k
      BY <1>0, <2>1 DEF AliveInv
    <3>. QED BY <1>0, <1>1, <2>1, <2>2, <3>1 DEF IsOwner, TypeOK
  <2>4. frame[t] = Base => t # Main
    BY <1>0, <1>3 DEF MainInv, RunnerPop, InRunner
  <2>5. ASSUME NEW j \in Tasks, status'[j] = "running"
        PROVE  IF runner'[j] = Base THEN p[j] # Main ELSE p[runner'[j]] = p[j]
    <3>1. CASE j = k
      <4>1. runner'[j] = frame[t]
        BY <1>0, <2>1, <3>1 DEF TypeOK
      <4>2. frame[t] # Base => frame[t] \in Groups /\ frame[t] # k /\ o[frame[t]] = t
        BY <1>1, <2>1, FramesAssumption DEF IsOwner
      <4>. QED BY <2>1, <2>2, <2>4, <3>1, <4>1, <4>2
    <3>2. CASE j # k
      <4>1. status[j] = "running" /\ runner'[j] = runner[j] /\ runner[j] \in Groups \union {Base}
        BY <1>0, <2>1, <2>5, <3>2 DEF TypeOK
      <4>2. runner[j] # k
        BY <2>1, <4>1, FramesAssumption
      <4>. QED BY <1>1, <2>2, <3>2, <4>1, <4>2 DEF IsOwner
    <3>. QED BY <3>1, <3>2
  <2>6. ASSUME NEW g \in Groups, call'[g] = "active"
        PROVE  IF Caller[g] = Base THEN p[g] = Main ELSE p[Caller[g]] = p[g]
    <3>1. g # k /\ Caller[g] # k /\ Caller[g] \in Tasks \union {Base}
      BY <1>0, <2>1, <2>6, FramesAssumption, CallAssumption DEF AliveInv
    <3>. QED BY <1>1, <2>1, <2>2, <2>6, <3>1 DEF IsOwner
  <2>. QED BY <2>2, <2>3, <2>5, <2>6 DEF OwnerInv, IsOwner
<1>4. ASSUME NEW t \in Threads, TaskEnds(t) PROVE OwnerInv'
  <2>1. /\ frame[t] \in Tasks /\ status[frame[t]] = "running"
        /\ frame' = [frame EXCEPT ![t] = runner[frame[t]]]
        /\ status' = [status EXCEPT ![frame[t]] = "finished"]
        /\ runner' = runner /\ call' = call
    BY <1>4, TaskEndsEffect
  <2>2. \A u \in Threads : frame'[u] # Base => o[frame'[u]] = u
    BY <1>0, <1>1, <1>2, <2>1 DEF IsOwner, TypeOK
  <2>3. \A j \in Tasks : status'[j] = "running" => status[j] = "running"
    BY <1>0, <2>1 DEF TypeOK
  <2>. QED BY <1>1, <2>1, <2>2, <2>3 DEF OwnerInv, IsOwner
<1>5. ASSUME NEW t \in Threads, InlineEnds(t) PROVE OwnerInv'
  <2>1. /\ frame[t] \in Tasks /\ status[frame[t]] = "running"
        /\ runner[frame[t]] = GroupOf[frame[t]] /\ GroupOf[frame[t]] \in Groups
        /\ frame' = [frame EXCEPT ![t] = GroupOf[frame[t]]]
        /\ status' = [status EXCEPT ![frame[t]] = "finished"]
        /\ runner' = runner /\ call' = call
    BY <1>5, InlineEndsEffect
  <2>2. \A u \in Threads : frame'[u] # Base => o[frame'[u]] = u
    BY <1>0, <1>1, <1>2, <2>1 DEF IsOwner, TypeOK
  <2>3. \A j \in Tasks : status'[j] = "running" => status[j] = "running"
    BY <1>0, <2>1 DEF TypeOK
  <2>. QED BY <1>1, <2>1, <2>2, <2>3 DEF OwnerInv, IsOwner
<1>6. ASSUME NEW t \in Threads, Return(t) PROVE OwnerInv'
  <2>1. /\ frame[t] \in Groups /\ call[frame[t]] = "active"
        /\ frame' = [frame EXCEPT ![t] = Caller[frame[t]]]
        /\ call' = [call EXCEPT ![frame[t]] = "returned"]
        /\ runner' = runner /\ status' = status
    BY <1>6, ReturnEffect
  <2>2. \A u \in Threads : frame'[u] # Base => o[frame'[u]] = u
    BY <1>0, <1>1, <1>2, <2>1 DEF IsOwner, TypeOK
  <2>3. \A g \in Groups : call'[g] = "active" => call[g] = "active"
    BY <1>0, <2>1 DEF TypeOK
  <2>. QED BY <1>1, <2>1, <2>2, <2>3 DEF OwnerInv, IsOwner
<1>7. ASSUME NEW t \in Threads, NEW g \in Groups, CallParallel(t, g) \/ CallInline(t, g)
      PROVE  OwnerInv'
  <2> DEFINE New == IF g \in Inline THEN {g, Split[g][1]} ELSE {g}
             p == [f \in Tasks \union Groups |-> IF f \in New THEN t ELSE o[f]]
  <2>1. /\ call[g] = "idle" /\ frame[t] = Caller[g]
        /\ call' = [call EXCEPT ![g] = "active"]
        /\ \A k \in Tasks : GroupOf[k] # g => status'[k] = status[k]
        /\ \A k \in Tasks : GroupOf[k] = g =>
             /\ status[k] = "idle"
             /\ status'[k] = IF g \in Inline THEN "running" ELSE "queued"
    BY <1>7, CallEffect
  <2>2. /\ \A u \in Threads \ {t} : frame'[u] = frame[u]
        /\ IF g \in Inline THEN frame'[t] = Split[g][1] /\ runner' = [runner EXCEPT ![Split[g][1]] = g]
                           ELSE frame'[t] = g /\ runner' = runner
        /\ frame[t] = Base => pc[t] = "main"
    BY <1>7, CallStackEffect
  <2>3. g \in Inline => /\ Split[g][1] \in Tasks
                        /\ \A k \in Tasks : GroupOf[k] = g <=> k = Split[g][1]
    BY InlineTask, GroupOfTask
  <2>4. /\ New \subseteq Tasks \union Groups /\ g \in New /\ frame'[t] \in New
        /\ \A k \in Tasks \intersect New : status[k] = "idle"
        /\ \A h \in Groups \intersect New : call[h] = "idle"
    BY <2>1, <2>2, <2>3, FramesAssumption
  <2>5. /\ p \in [Tasks \union Groups -> Threads]
        /\ \A f \in New : p[f] = t
        /\ \A f \in (Tasks \union Groups) \ New : p[f] = o[f]
    BY <2>4
  <2> HIDE DEF p
  <2>6. \A u \in Threads : frame'[u] # Base => p[frame'[u]] = u
    <3>1. ASSUME NEW u \in Threads \ {t}, frame'[u] # Base PROVE p[frame'[u]] = u
      <4>1. frame'[u] = frame[u] /\ frame[u] \in Tasks \union Groups
        BY <1>0, <2>2, <3>1 DEF TypeOK
      <4>2. frame[u] \notin New
        BY <1>0, <2>4, <4>1 DEF AliveInv
      <4>. QED BY <1>1, <2>5, <3>1, <4>1, <4>2 DEF IsOwner
    <3>. QED BY <2>4, <2>5, <3>1
  <2>7. ASSUME NEW k \in Tasks, status'[k] = "running"
        PROVE  IF runner'[k] = Base THEN p[k] # Main ELSE p[runner'[k]] = p[k]
    <3>1. CASE GroupOf[k] = g
      <4>1. g \in Inline /\ k = Split[g][1]
        BY <2>1, <2>3, <2>7, <3>1
      <4>2. runner'[k] = g /\ k \in New /\ g # Base
        BY <1>0, <1>2, <2>2, <4>1 DEF TypeOK
      <4>. QED BY <2>4, <2>5, <4>2
    <3>2. CASE GroupOf[k] # g
      <4>1. status[k] = "running" /\ k \notin New
        BY <2>1, <2>3, <2>7, <3>2, FramesAssumption
      <4>2. runner'[k] = runner[k] /\ runner[k] \in Groups \union {Base}
        BY <1>0, <2>2, <2>3, <3>2 DEF TypeOK
      <4>3. runner[k] # Base => runner[k] \notin New
        BY <1>0, <2>4, <4>1, <4>2 DEF AliveInv
      <4>. QED BY <1>1, <2>5, <4>1, <4>2, <4>3 DEF IsOwner
    <3>. QED BY <3>1, <3>2
  <2>8. ASSUME NEW h \in Groups, call'[h] = "active"
        PROVE  IF Caller[h] = Base THEN p[h] = Main ELSE p[Caller[h]] = p[h]
    <3>1. CASE h = g
      <4>1. CASE Caller[g] = Base
        BY <1>0, <2>1, <2>2, <2>4, <2>5, <3>1, <4>1 DEF MainInv
      <4>2. CASE Caller[g] # Base
        <5>1. Caller[g] \in Tasks /\ status[Caller[g]] = "running" /\ o[Caller[g]] = t
          BY <1>0, <1>1, <2>1, <4>2, CallAssumption DEF AliveInv, IsOwner
        <5>. QED BY <2>4, <2>5, <3>1, <4>2, <5>1
      <4>. QED BY <4>1, <4>2
    <3>2. CASE h # g
      <4>1. call[h] = "active" /\ h \notin New
        BY <1>0, <2>1, <2>4, <2>8, <3>2 DEF TypeOK
      <4>2. Caller[h] # Base => Caller[h] \in Tasks /\ Caller[h] \notin New
        BY <1>0, <2>4, <4>1, CallAssumption DEF AliveInv
      <4>. QED BY <1>1, <2>5, <4>1, <4>2 DEF IsOwner
    <3>. QED BY <3>1, <3>2
  <2>. QED BY <2>5, <2>6, <2>7, <2>8 DEF OwnerInv, IsOwner
<1>8. ASSUME UNCHANGED <<frame, runner, status, call>> PROVE OwnerInv'
  BY <1>1, <1>8 DEF OwnerInv, IsOwner
<1>9. UNCHANGED vars => UNCHANGED <<frame, runner, status, call>>
  BY DEF vars
<1>. QED
  BY <1>3, <1>4, <1>5, <1>6, <1>7, <1>8, <1>9, QuietSteps DEF Next, Step, Terminated

(* Only the main thread is at the bottom of its stack between two calls.   *)
LEMMA MainStep == IInv /\ RInv /\ [Next]_vars => MainInv'
<1> SUFFICES ASSUME IInv, RInv, [Next]_vars PROVE MainInv'
  OBVIOUS
<1>0. TypeOK /\ FrameInv /\ AliveInv /\ MainInv
  BY DEF IInv, RInv
<1>1. PICK o \in [Tasks \union Groups -> Threads] : IsOwner(o)
  BY DEF RInv, OwnerInv
<1>2. Main \in Threads /\ Base \notin Tasks \union Groups
  BY FramesAssumption DEF Threads
<1>3. ASSUME NEW t \in Threads, RunnerPop(t) PROVE MainInv'
  <2>1. /\ frame'[t] \in Tasks /\ pc'[t] = "func"
        /\ \A u \in Threads \ {t} : /\ frame'[u] = frame[u]
                                    /\ \/ pc'[u] = pc[u]
                                       \/ pc[u] = "asleep" /\ pc'[u] = "notified"
    BY <1>0, <1>3, PopEffect DEF TypeOK
  <2>. QED BY <1>0, <1>2, <2>1 DEF MainInv
<1>4. ASSUME NEW t \in Threads, TaskEnds(t) PROVE MainInv'
  <2>1. /\ frame[t] \in Tasks /\ status[frame[t]] = "running" /\ pc'[t] = "ready"
        /\ frame'[t] = runner[frame[t]]
        /\ \A u \in Threads \ {t} : /\ frame'[u] = frame[u]
                                    /\ \/ pc'[u] = pc[u]
                                       \/ pc[u] = "asleep" /\ pc'[u] = "notified"
    BY <1>0, <1>4, TaskEndsEffect DEF TypeOK
  <2>2. frame'[t] = Base => t # Main
    BY <1>1, <1>2, <2>1 DEF IsOwner
  <2>. QED BY <1>0, <1>2, <2>1, <2>2 DEF MainInv
<1>5. ASSUME NEW t \in Threads, InlineEnds(t) PROVE MainInv'
  <2>1. /\ frame' = [frame EXCEPT ![t] = GroupOf[frame[t]]] /\ GroupOf[frame[t]] \in Groups
        /\ pc' = [pc EXCEPT ![t] = "returning"]
    BY <1>5, InlineEndsEffect
  <2>. QED BY <1>0, <1>2, <2>1 DEF MainInv, TypeOK
<1>6. ASSUME NEW t \in Threads, Return(t) PROVE MainInv'
  <2>1. /\ frame[t] \in Groups /\ call[frame[t]] = "active"
        /\ frame' = [frame EXCEPT ![t] = Caller[frame[t]]]
        /\ pc' = [pc EXCEPT ![t] = IF Caller[frame[t]] = Base THEN "main"
                                   ELSE IF eptr[frame[t]] = None THEN "func" ELSE "done"]
    BY <1>6, ReturnEffect
  <2>2. Caller[frame[t]] = Base => t = Main
    BY <1>1, <1>2, <2>1 DEF IsOwner
  <2>. QED BY <1>0, <1>2, <2>1, <2>2 DEF MainInv, TypeOK
<1>7. ASSUME NEW t \in Threads, NEW g \in Groups, CallParallel(t, g) \/ CallInline(t, g)
      PROVE  MainInv'
  <2>1. /\ \A u \in Threads \ {t} : frame'[u] = frame[u] /\ pc'[u] = pc[u]
        /\ frame'[t] # Base /\ pc'[t] \in {"func", "ready"}
    BY <1>2, <1>7, CallStackEffect, InlineTask
  <2>. QED BY <1>0, <1>2, <2>1 DEF MainInv
<1>8. ASSUME NEW t \in Threads,
             RunnerWait(t) \/ RunnerReturn(t) \/ SpuriousWake(t) \/ FuncEnds(t)
      PROVE  MainInv'
  <2>1. frame' = frame /\ pc[t] \notin {"main", "joining", "exited"}
    BY <1>8, QuietSteps DEF RunnerWait, RunnerReturn, InRunner, SpuriousWake, FuncEnds
  <2>2. PICK p \in {"asleep", "returning", "exited", "notified", "done"} : pc' = [pc EXCEPT ![t] = p]
    BY <1>8 DEF RunnerWait, RunnerReturn, SpuriousWake, FuncEnds
  <2>3. t = Main => frame[Main] # Base
    BY <1>0, <2>1 DEF MainInv
  <2>4. pc'[t] \notin {"main", "joining"} /\ \A u \in Threads \ {t} : pc'[u] = pc[u]
    BY <1>0, <2>2 DEF TypeOK
  <2>5. \A u \in Threads : pc'[u] \in {"main", "joining"} => u = Main
    BY <1>0, <2>4 DEF MainInv
  <2>6. frame'[Main] = Base => pc'[Main] \in {"main", "joining", "exited"}
    <3>1. CASE t = Main
      BY <2>1, <2>3, <3>1
    <3>2. CASE t # Main
      BY <1>0, <1>2, <2>1, <2>4, <3>2 DEF MainInv
    <3>. QED BY <3>1, <3>2
  <2>. QED BY <2>5, <2>6 DEF MainInv
<1>9. ASSUME NEW t \in Threads, Destroy(t) \/ Join(t) PROVE MainInv'
  <2>1. t = Main /\ frame' = frame
    BY <1>0, <1>9, QuietSteps DEF Destroy, Join, MainInv
  <2>2. pc'[Main] \in {"joining", "exited"}
    BY <1>0, <1>2, <1>9, <2>1 DEF Destroy, Join, Notified, TypeOK
  <2>3. \A u \in Threads \ {Main} : pc'[u] \in {pc[u], "notified"}
    BY <1>0, <1>9, <2>1 DEF Destroy, Join, Notified, TypeOK
  <2>. QED BY <1>0, <2>1, <2>2, <2>3 DEF MainInv
<1>10. CASE UNCHANGED vars
  BY <1>0, <1>10 DEF vars, MainInv
<1>. QED
  BY <1>3, <1>4, <1>5, <1>6, <1>7, <1>8, <1>9, <1>10 DEF Next, Step, Terminated

LEMMA BaseStep == IInv /\ RInv /\ [Next]_vars => BaseInv'
<1> SUFFICES ASSUME IInv, RInv, [Next]_vars PROVE BaseInv'
  OBVIOUS
<1>0. TypeOK /\ FrameInv /\ AliveInv /\ MainInv /\ BaseInv
  BY DEF IInv, RInv
<1>1. PICK o \in [Tasks \union Groups -> Threads] : IsOwner(o)
  BY DEF RInv, OwnerInv
<1>2. Main \in Threads /\ Base \notin Tasks \union Groups
  BY FramesAssumption DEF Threads
<1>3. ASSUME NEW t \in Threads, RunnerPop(t) PROVE BaseInv'
  <2>1. /\ \A u \in Threads : frame'[u] = Base => frame[u] = Base
        /\ call' = call
    BY <1>0, <1>2, <1>3, PopEffect DEF TypeOK
  <2>. QED BY <1>0, <1>2, <2>1 DEF BaseInv
<1>4. ASSUME NEW t \in Threads, TaskEnds(t) PROVE BaseInv'
  <2>1. /\ frame[t] \in Tasks /\ status[frame[t]] = "running"
        /\ frame' = [frame EXCEPT ![t] = runner[frame[t]]] /\ call' = call
    BY <1>0, <1>4, TaskEndsEffect DEF TypeOK
  <2>2. frame'[Main] = Base => frame[Main] = Base
    BY <1>0, <1>1, <1>2, <2>1 DEF IsOwner, TypeOK
  <2>. QED BY <1>0, <2>1, <2>2 DEF BaseInv
<1>5. ASSUME NEW t \in Threads, InlineEnds(t) PROVE BaseInv'
  <2>1. /\ frame' = [frame EXCEPT ![t] = GroupOf[frame[t]]] /\ GroupOf[frame[t]] \in Groups
        /\ call' = call
    BY <1>5, InlineEndsEffect
  <2>. QED BY <1>0, <1>2, <2>1 DEF BaseInv, TypeOK
<1>6. ASSUME NEW t \in Threads, Return(t) PROVE BaseInv'
  <2>1. /\ frame[t] \in Groups /\ call[frame[t]] = "active"
        /\ frame' = [frame EXCEPT ![t] = Caller[frame[t]]]
        /\ call' = [call EXCEPT ![frame[t]] = "returned"]
    BY <1>6, ReturnEffect
  <2>2. \A g \in Groups : call'[g] = "active" => call[g] = "active" /\ g # frame[t]
    BY <1>0, <2>1 DEF TypeOK
  <2>3. ASSUME frame'[Main] = Base, NEW g \in Groups, call'[g] = "active" PROVE Caller[g] # Base
    <3>1. frame[Main] = Base \/ (t = Main /\ Caller[frame[t]] = Base)
      BY <1>0, <1>2, <2>1, <2>3 DEF TypeOK
    <3>. QED BY <1>0, <2>1, <2>2, <2>3, <3>1 DEF BaseInv
  <2>4. ASSUME NEW g \in Groups, NEW h \in Groups, call'[g] = "active", call'[h] = "active",
               Caller[g] = Base, Caller[h] = Base
        PROVE  g = h
    BY <1>0, <2>2, <2>4 DEF BaseInv
  <2>. QED BY <2>3, <2>4 DEF BaseInv
<1>7. ASSUME NEW t \in Threads, NEW g \in Groups, CallParallel(t, g) \/ CallInline(t, g)
      PROVE  BaseInv'
  <2>1. /\ \A u \in Threads \ {t} : frame'[u] = frame[u]
        /\ frame'[t] # Base /\ (frame[t] = Base => pc[t] = "main")
    BY <1>2, <1>7, CallStackEffect, InlineTask
  <2>2. call' = [call EXCEPT ![g] = "active"] /\ frame[t] = Caller[g]
    BY <1>7, CallEffect
  <2>3. Caller[g] = Base => t = Main /\ \A h \in Groups : call[h] = "active" => Caller[h] # Base
    BY <1>0, <2>1, <2>2 DEF MainInv, BaseInv
  <2>4. ASSUME NEW h \in Groups, call'[h] = "active", h # g PROVE call[h] = "active"
    BY <1>0, <2>2, <2>4 DEF TypeOK
  <2>5. ASSUME frame'[Main] = Base, NEW h \in Groups, call'[h] = "active" PROVE Caller[h] # Base
    <3>1. t # Main /\ frame[Main] = Base
      BY <1>2, <2>1, <2>5
    <3>. QED BY <1>0, <2>3, <2>4, <2>5, <3>1 DEF BaseInv
  <2>6. ASSUME NEW h \in Groups, NEW i \in Groups, call'[h] = "active", call'[i] = "active",
               Caller[h] = Base, Caller[i] = Base
        PROVE  h = i
    BY <1>0, <2>3, <2>4, <2>6 DEF BaseInv
  <2>. QED BY <2>5, <2>6 DEF BaseInv
<1>8. ASSUME UNCHANGED <<frame, call>> PROVE BaseInv'
  BY <1>0, <1>8 DEF BaseInv
<1>9. UNCHANGED vars => UNCHANGED <<frame, call>>
  BY DEF vars
<1>. QED
  BY <1>3, <1>4, <1>5, <1>6, <1>7, <1>8, <1>9, QuietSteps DEF Next, Step, Terminated

(* A task that runs is on top of a stack or waits for a call it has made.  *)
LEMMA TopStep == IInv /\ RInv /\ [Next]_vars => TopInv'
<1> SUFFICES ASSUME IInv, RInv, [Next]_vars,
                    NEW k \in Tasks, status'[k] = "running"
             PROVE  \/ \E t \in Threads : frame'[t] = k
                    \/ \E g \in Groups : call'[g] = "active" /\ Caller[g] = k
  BY DEF TopInv
<1>0. TypeOK /\ FrameInv /\ AliveInv /\ TopInv /\ k \notin Groups \union {Base}
  BY FramesAssumption DEF IInv, RInv
<1>1. ASSUME NEW t \in Threads, RunnerPop(t) PROVE \/ \E u \in Threads : frame'[u] = k
                                                   \/ \E g \in Groups : call'[g] = "active" /\ Caller[g] = k
  <2>1. CASE k = tasks[Len(tasks)]
    BY <1>0, <1>1, <2>1, PopEffect DEF TypeOK
  <2>2. CASE k # tasks[Len(tasks)]
    <3>1. /\ frame[t] \in Groups \union {Base} /\ call' = call
          /\ frame' = [frame EXCEPT ![t] = tasks[Len(tasks)]]
          /\ status[k] = "running"
      BY <1>0, <1>1, <2>2, PopEffect DEF TypeOK
    <3>2. ASSUME NEW u \in Threads, frame[u] = k PROVE frame'[u] = k
      BY <1>0, <3>1, <3>2 DEF TypeOK
    <3>. QED BY <1>0, <3>1, <3>2 DEF TopInv
  <2>. QED BY <2>1, <2>2
<1>2. ASSUME NEW t \in Threads, TaskEnds(t) \/ InlineEnds(t)
      PROVE  \/ \E u \in Threads : frame'[u] = k
             \/ \E g \in Groups : call'[g] = "active" /\ Caller[g] = k
  <2>1. /\ status' = [status EXCEPT ![frame[t]] = "finished"] /\ call' = call
        /\ \A u \in Threads \ {t} : frame'[u] = frame[u]
    BY <1>0, <1>2, TaskEndsEffect, InlineEndsEffect DEF TypeOK
  <2>2. status[k] = "running" /\ frame[t] # k
    BY <1>0, <2>1 DEF TypeOK
  <2>. QED BY <1>0, <2>1, <2>2 DEF TopInv
<1>3. ASSUME NEW t \in Threads, Return(t)
      PROVE  \/ \E u \in Threads : frame'[u] = k
             \/ \E g \in Groups : call'[g] = "active" /\ Caller[g] = k
  <2>1. /\ frame[t] \in Groups /\ status' = status
        /\ frame' = [frame EXCEPT ![t] = Caller[frame[t]]]
        /\ call' = [call EXCEPT ![frame[t]] = "returned"]
    BY <1>3, ReturnEffect
  <2>2. CASE \E u \in Threads : frame[u] = k
    BY <1>0, <2>1, <2>2 DEF TypeOK
  <2>3. ASSUME NEW g \in Groups, call[g] = "active", Caller[g] = k
        PROVE  \/ \E u \in Threads : frame'[u] = k
               \/ \E h \in Groups : call'[h] = "active" /\ Caller[h] = k
    BY <1>0, <2>1, <2>3 DEF TypeOK
  <2>. QED BY <1>0, <2>1, <2>2, <2>3 DEF TopInv
<1>4. ASSUME NEW t \in Threads, NEW g \in Groups, CallParallel(t, g) \/ CallInline(t, g)
      PROVE  \/ \E u \in Threads : frame'[u] = k
             \/ \E h \in Groups : call'[h] = "active" /\ Caller[h] = k
  <2>1. /\ \A u \in Threads \ {t} : frame'[u] = frame[u]
        /\ g \in Inline => frame'[t] = Split[g][1]
    BY <1>4, CallStackEffect
  <2>2. /\ frame[t] = Caller[g] /\ call' = [call EXCEPT ![g] = "active"]
        /\ GroupOf[k] = g => g \in Inline
        /\ GroupOf[k] # g => status[k] = "running"
    BY <1>4, CallEffect
  <2>3. CASE GroupOf[k] = g
    BY <2>1, <2>2, <2>3, InlineTask, GroupOfTask
  <2>4. CASE GroupOf[k] # g
    <3>1. \A h \in Groups : call[h] = "active" => call'[h] = "active"
      BY <1>0, <2>2 DEF TypeOK
    <3>2. call'[g] = "active"
      BY <1>0, <2>2 DEF TypeOK
    <3>. QED BY <1>0, <2>1, <2>2, <2>4, <3>1, <3>2 DEF TopInv
  <2>. QED BY <2>3, <2>4
<1>5. ASSUME UNCHANGED <<frame, status, call>>
      PROVE  \/ \E u \in Threads : frame'[u] = k
             \/ \E g \in Groups : call'[g] = "active" /\ Caller[g] = k
  BY <1>0, <1>5 DEF TopInv
<1>6. UNCHANGED vars => UNCHANGED <<frame, status, call>>
  BY DEF vars
<1>. QED
  BY <1>1, <1>2, <1>3, <1>4, <1>5, <1>6, QuietSteps DEF Next, Step, Terminated

(* The steps that change no call and nothing a call has raised. *)
LEMMA RaisedUnchanged ==
  ASSUME NEW t \in Threads,
         \/ RunnerWait(t) \/ RunnerReturn(t) \/ SpuriousWake(t) \/ Destroy(t)
         \/ Join(t) \/ FuncEnds(t)
  PROVE  UNCHANGED <<call, status, raised, eptr>>
BY DEF RunnerWait, RunnerReturn, SpuriousWake, Destroy, Join, FuncEnds

LEMMA CallsStep == IInv /\ RInv /\ [Next]_vars => CallsInv'
<1> SUFFICES ASSUME IInv, RInv, [Next]_vars,
                    NEW g \in Groups
             PROVE  /\ call'[g] # "returned" => raised'[g] = None
                    /\ call'[g] = "idle" => eptr'[g] = None
                    /\ Caller[g] \in Tasks /\ status'[Caller[g]] \in {"idle", "queued"} => call'[g] = "idle"
  BY DEF CallsInv
<1>0. /\ TypeOK /\ AliveInv
      /\ call[g] # "returned" => raised[g] = None
      /\ call[g] = "idle" => eptr[g] = None
      /\ Caller[g] \in Tasks /\ status[Caller[g]] \in {"idle", "queued"} => call[g] = "idle"
  BY DEF IInv, RInv, CallsInv
<1>1. ASSUME NEW t \in Threads, RunnerPop(t)
      PROVE  /\ UNCHANGED <<call, raised, eptr>>
             /\ \A k \in Tasks : status'[k] \in {"idle", "queued"} => status[k] \in {"idle", "queued"}
  BY <1>0, <1>1, PopEffect DEF TypeOK
<1>2. ASSUME NEW t \in Threads, TaskEnds(t) \/ InlineEnds(t)
      PROVE  /\ UNCHANGED <<call, raised>> /\ (call[g] = "idle" => eptr'[g] = eptr[g])
             /\ \A k \in Tasks : status'[k] \in {"idle", "queued"} => status[k] \in {"idle", "queued"}
  <2>1. /\ UNCHANGED <<call, raised>> /\ status' = [status EXCEPT ![frame[t]] = "finished"]
        /\ frame[t] \in Tasks /\ status[frame[t]] = "running"
        /\ \A h \in Groups : h # GroupOf[frame[t]] => eptr'[h] = eptr[h]
    BY <1>0, <1>2, TaskEndsEffect, InlineEndsEffect DEF TypeOK
  <2>2. call[GroupOf[frame[t]]] = "active"
    BY <2>1, Counts
  <2>. QED BY <1>0, <2>1, <2>2 DEF TypeOK
<1>3. ASSUME NEW t \in Threads, Return(t)
      PROVE  /\ call'[g] # "returned" => raised'[g] = None
             /\ call'[g] = "idle" => eptr'[g] = None
             /\ Caller[g] \in Tasks /\ status'[Caller[g]] \in {"idle", "queued"} => call'[g] = "idle"
  <2>1. /\ frame[t] \in Groups
        /\ Caller[frame[t]] \in Tasks => status[Caller[frame[t]]] = "running"
        /\ call' = [call EXCEPT ![frame[t]] = "returned"]
        /\ raised' = [raised EXCEPT ![frame[t]] = eptr[frame[t]]]
        /\ UNCHANGED <<status, eptr>>
    BY <1>3, ReturnEffect
  <2>2. CASE g = frame[t]
    BY <1>0, <2>1, <2>2 DEF TypeOK
  <2>3. CASE g # frame[t]
    BY <1>0, <2>1, <2>3 DEF TypeOK
  <2>. QED BY <2>2, <2>3
<1>4. ASSUME NEW t \in Threads, NEW h \in Groups, CallParallel(t, h) \/ CallInline(t, h)
      PROVE  /\ call'[g] # "returned" => raised'[g] = None
             /\ call'[g] = "idle" => eptr'[g] = None
             /\ Caller[g] \in Tasks /\ status'[Caller[g]] \in {"idle", "queued"} => call'[g] = "idle"
  <2>1. /\ call[h] = "idle" /\ frame[t] = Caller[h] /\ UNCHANGED <<raised, eptr>>
        /\ call' = [call EXCEPT ![h] = "active"]
        /\ \A k \in Tasks : IF GroupOf[k] = h THEN status[k] = "idle" ELSE status'[k] = status[k]
    BY <1>4, CallEffect
  <2>2. CASE g = h
    <3>1. Caller[g] \in Tasks => status[Caller[g]] = "running"
      BY <1>0, <2>1, <2>2 DEF AliveInv
    <3>. QED BY <1>0, <2>1, <2>2, <3>1 DEF TypeOK
  <2>3. CASE g # h
    <3>1. \A k \in Tasks : status'[k] \in {"idle", "queued"} => status[k] \in {"idle", "queued"}
      BY <2>1
    <3>. QED BY <1>0, <2>1, <2>3, <3>1 DEF TypeOK
  <2>. QED BY <2>2, <2>3
<1>5. UNCHANGED vars => UNCHANGED <<call, status, raised, eptr>>
  BY DEF vars
<1>. QED
  BY <1>0, <1>1, <1>2, <1>3, <1>4, <1>5, RaisedUnchanged DEF Next, Step, Terminated

(* The outcome of a task is settled when it has ended. *)
LEMMA OutcomesKept ==
  ASSUME \A k \in Tasks : /\ status'[k] = "finished" <=> status[k] = "finished"
                          /\ status[k] = "finished" => thrown'[k] = thrown[k]
  PROVE  /\ \A k \in Tasks : Outcome(k)' = Outcome(k)
         /\ \A g \in Groups : Thrown(g)' = Thrown(g)
<1>1. \A k \in Tasks : Outcome(k)' = Outcome(k)
  BY DEF Outcome
<1>2. ASSUME NEW g \in Groups PROVE Thrown(g)' = Thrown(g)
  <2>1. \A k \in TasksOf(g) : Outcome(k)' = Outcome(k)
    BY <1>1, GroupOfTask
  <2>2. TasksOf(g)' = TasksOf(g)
    BY DEF TasksOf
  <2>. QED BY <2>1, <2>2 DEF Thrown
<1>. QED BY <1>1, <1>2
(* A step that leaves the task, its frame and what it has received alone.  *)
LEMMA ThrownKept ==
  ASSUME NEW k \in Tasks, ThrownAt(k),
         status'[k] \in {"idle", "queued"} => status[k] \in {"idle", "queued"},
         thrown'[k] = thrown[k],
         \A g \in Groups : Caller[g] = k => raised'[g] = raised[g],
         \A u \in Threads : frame'[u] = k => frame[u] = k,
         \A u \in Threads : frame'[u] = k /\ pc'[u] \in {"func", "done"} => pc'[u] = pc[u],
         \A g \in Groups : call'[g] = "active" /\ Caller[g] = k => call[g] = "active"
  PROVE  ThrownAt(k)'
<1>1. Received(k)' = Received(k)
  BY DEF Received
<1>2. status'[k] \in {"idle", "queued"} => thrown'[k] = None
  BY DEF ThrownAt
<1>3. ASSUME NEW u \in Threads, frame'[u] = k
      PROVE  /\ pc'[u] = "func" => thrown'[k] = None /\ Received(k)' = {}
             /\ pc'[u] = "done" =>
                  thrown'[k] \in IF Received(k)' = {} THEN {None, k} ELSE Received(k)'
  BY <1>1, <1>3 DEF ThrownAt
<1>4. \A g \in Groups : call'[g] = "active" /\ Caller[g] = k =>
         thrown'[k] = None /\ Received(k)' = {}
  BY <1>1 DEF ThrownAt
<1>. QED BY <1>2, <1>3, <1>4 DEF ThrownAt

(* A task that has not begun has made no call. *)
LEMMA NothingReceived ==
  ASSUME IInv, RInv, NEW k \in Tasks, status[k] \in {"idle", "queued"}
  PROVE  /\ thrown[k] = None /\ Received(k) = {}
         /\ \A g \in Groups : Caller[g] = k => call[g] = "idle" /\ raised[g] = None
         /\ \A u \in Threads : frame[u] # k
<1>1. \A g \in Groups : Caller[g] = k => call[g] = "idle" /\ raised[g] = None
  BY DEF RInv, CallsInv
<1>2. Received(k) = {}
  BY <1>1 DEF Received
<1>3. thrown[k] = None
  BY DEF RInv, ThrownInv, ThrownAt
<1>4. \A u \in Threads : frame[u] # k
  BY DEF IInv, AliveInv
<1>. QED BY <1>1, <1>2, <1>3, <1>4

LEMMA ThrownStep == IInv /\ RInv /\ [Next]_vars => ThrownInv'
<1> SUFFICES ASSUME IInv, RInv, [Next]_vars, NEW k \in Tasks PROVE ThrownAt(k)'
  BY DEF ThrownInv
<1>0. /\ TypeOK /\ FrameInv /\ AliveInv /\ StackInv /\ ThrownAt(k)
      /\ k \notin Groups \union {Base}
  BY FramesAssumption DEF IInv, RInv, ThrownInv
<1>1. ASSUME NEW t \in Threads, RunnerPop(t) PROVE ThrownAt(k)'
  <2>1. LET j == tasks[Len(tasks)]
        IN  /\ j \in Tasks /\ status[j] = "queued"
            /\ frame' = [frame EXCEPT ![t] = j]
            /\ status' = [status EXCEPT ![j] = "running"]
            /\ pc'[t] = "func"
            /\ \A u \in Threads \ {t} : \/ pc'[u] = pc[u]
                                        \/ pc[u] = "asleep" /\ pc'[u] = "notified"
            /\ UNCHANGED <<thrown, call, raised>>
    BY <1>1, PopEffect
  <2>2. CASE k = tasks[Len(tasks)]
    <3>1. /\ thrown[k] = None /\ Received(k) = {}
          /\ \A g \in Groups : Caller[g] = k => call[g] = "idle"
          /\ \A u \in Threads : frame[u] # k
      BY <2>1, <2>2, NothingReceived
    <3>2. Received(k)' = {} /\ thrown'[k] = None
      BY <2>1, <3>1 DEF Received
    <3>3. \A u \in Threads : frame'[u] = k => pc'[u] = "func"
      BY <1>0, <2>1, <3>1 DEF TypeOK
    <3>. QED BY <2>1, <3>1, <3>2, <3>3 DEF ThrownAt
  <2>3. CASE k # tasks[Len(tasks)]
    <3>1. status'[k] = status[k] /\ thrown'[k] = thrown[k]
      BY <1>0, <2>1, <2>3 DEF TypeOK
    <3>2. \A u \in Threads : frame'[u] = k => frame[u] = k /\ u # t
      BY <1>0, <2>1, <2>3 DEF TypeOK
    <3>3. \A u \in Threads : frame'[u] = k /\ pc'[u] \in {"func", "done"} => pc'[u] = pc[u]
      BY <2>1, <3>2
    <3>. QED BY <1>0, <2>1, <3>1, <3>2, <3>3, ThrownKept
  <2>. QED BY <2>2, <2>3
<1>2. ASSUME NEW t \in Threads, TaskEnds(t) \/ InlineEnds(t) PROVE ThrownAt(k)'
  <2>1. /\ status' = [status EXCEPT ![frame[t]] = "finished"]
        /\ frame'[t] \in Groups \union {Base}
        /\ \A u \in Threads \ {t} : /\ frame'[u] = frame[u]
                                    /\ \/ pc'[u] = pc[u]
                                       \/ pc[u] = "asleep" /\ pc'[u] = "notified"
        /\ UNCHANGED <<thrown, call, raised>>
    <3>1. CASE TaskEnds(t)
      BY <1>0, <3>1, TaskEndsEffect DEF TypeOK
    <3>2. CASE InlineEnds(t)
      <4>1. /\ status' = [status EXCEPT ![frame[t]] = "finished"]
            /\ frame' = [frame EXCEPT ![t] = GroupOf[frame[t]]] /\ GroupOf[frame[t]] \in Groups
            /\ pc' = [pc EXCEPT ![t] = "returning"]
            /\ UNCHANGED <<thrown, call, raised>>
        BY <3>2, InlineEndsEffect
      <4>. QED BY <1>0, <4>1 DEF TypeOK
    <3>. QED BY <1>2, <3>1, <3>2
  <2>2. status'[k] \in {"idle", "queued"} => status[k] \in {"idle", "queued"}
    BY <1>0, <2>1 DEF TypeOK
  <2>3. \A u \in Threads : frame'[u] = k => frame[u] = k /\ u # t
    BY <1>0, <2>1
  <2>4. \A u \in Threads : frame'[u] = k /\ pc'[u] \in {"func", "done"} => pc'[u] = pc[u]
    BY <2>1, <2>3
  <2>. QED BY <1>0, <2>1, <2>2, <2>3, <2>4, ThrownKept
<1>3. ASSUME NEW t \in Threads, FuncEnds(t) PROVE ThrownAt(k)'
  <2>1. /\ UNCHANGED <<frame, status, call, raised>>
        /\ pc[t] = "func" /\ pc' = [pc EXCEPT ![t] = "done"] /\ frame[t] \in Tasks
        /\ status[frame[t]] = "running"
    BY <1>0, <1>3 DEF FuncEnds, FrameInv, AliveInv
  <2>2. PICK e \in {None, frame[t]} : thrown' = [thrown EXCEPT ![frame[t]] = e]
    BY <1>3 DEF FuncEnds
  <2>3. CASE k = frame[t]
    <3>1. Received(k)' = {} /\ thrown'[k] \in {None, k}
      <4>1. Received(k) = {} /\ thrown'[k] = e
        BY <1>0, <2>1, <2>2, <2>3 DEF ThrownAt, TypeOK
      <4>2. Received(k)' = Received(k)
        BY <2>1 DEF Received
      <4>. QED BY <2>2, <2>3, <4>1, <4>2
    <3>2. \A u \in Threads : frame'[u] = k => pc'[u] = "done"
      BY <1>0, <2>1, <2>3 DEF StackInv, TypeOK
    <3>3. \A g \in Groups : call'[g] = "active" => Caller[g] # k
      BY <1>0, <2>1, <2>3 DEF StackInv
    <3>. QED BY <2>1, <2>3, <3>1, <3>2, <3>3 DEF ThrownAt
  <2>4. CASE k # frame[t]
    <3>1. thrown'[k] = thrown[k]
      BY <1>0, <2>2, <2>4 DEF TypeOK
    <3>2. \A u \in Threads : frame'[u] = k => pc'[u] = pc[u]
      BY <1>0, <2>1, <2>4 DEF TypeOK
    <3>. QED BY <1>0, <2>1, <3>1, <3>2, ThrownKept
  <2>. QED BY <2>3, <2>4
<1>4. ASSUME NEW t \in Threads, Return(t) PROVE ThrownAt(k)'
  <2> DEFINE g == frame[t]
  <2>1. /\ g \in Groups /\ call[g] = "active"
        /\ Caller[g] \in Tasks => status[Caller[g]] = "running"
        /\ call' = [call EXCEPT ![g] = "returned"]
        /\ raised' = [raised EXCEPT ![g] = eptr[g]]
        /\ frame' = [frame EXCEPT ![t] = Caller[g]]
        /\ thrown' = IF Caller[g] \in Tasks THEN [thrown EXCEPT ![Caller[g]] = eptr[g]] ELSE thrown
        /\ pc' = [pc EXCEPT ![t] = IF Caller[g] = Base THEN "main"
                                   ELSE IF eptr[g] = None THEN "func" ELSE "done"]
        /\ status' = status
    BY <1>4, ReturnEffect
  <2> HIDE DEF g
  <2>2. \A h \in Groups : h # g => raised'[h] = raised[h] /\ call'[h] = call[h]
    BY <1>0, <2>1 DEF TypeOK
  <2>3. raised'[g] = eptr[g] /\ call'[g] = "returned" /\ frame'[t] = Caller[g]
        /\ \A u \in Threads \ {t} : frame'[u] = frame[u] /\ pc'[u] = pc[u]
    BY <1>0, <2>1 DEF TypeOK
  <2>4. CASE k = Caller[g]
    <3>1. Received(k) = {} /\ thrown'[k] = eptr[g]
      BY <1>0, <2>1, <2>4 DEF ThrownAt, TypeOK
    <3>2. Received(k)' = {eptr[g]} \ {None}
      <4>1. \A h \in Groups : Caller[h] = k /\ h # g => raised'[h] = None
        BY <2>2, <3>1 DEF Received
      <4>. QED BY <2>1, <2>3, <2>4, <4>1 DEF Received
    <3>3. \A u \in Threads : frame'[u] = k => u = t
      BY <1>0, <2>1, <2>3, <2>4 DEF StackInv
    <3>4. pc'[t] = IF eptr[g] = None THEN "func" ELSE "done"
      BY <1>0, <2>1, <2>4 DEF TypeOK
    <3>5. \A h \in Groups : call'[h] = "active" => Caller[h] # k
      BY <1>0, <2>1, <2>2, <2>3, <2>4 DEF StackInv
    <3>6. status'[k] = "running"
      BY <2>1, <2>4
    <3>. QED BY <3>1, <3>2, <3>3, <3>4, <3>5, <3>6 DEF ThrownAt
  <2>5. CASE k # Caller[g]
    <3>1. thrown'[k] = thrown[k]
      BY <1>0, <2>1, <2>5 DEF TypeOK
    <3>2. \A h \in Groups : Caller[h] = k => raised'[h] = raised[h] /\ call'[h] = call[h]
      BY <2>2, <2>5
    <3>3. \A u \in Threads : frame'[u] = k => frame[u] = k /\ pc'[u] = pc[u]
      BY <2>3, <2>5
    <3>. QED BY <1>0, <2>1, <3>1, <3>2, <3>3, ThrownKept
  <2>. QED BY <2>4, <2>5
<1>5. ASSUME NEW t \in Threads, NEW g \in Groups, CallParallel(t, g) \/ CallInline(t, g)
      PROVE  ThrownAt(k)'
  <2>1. /\ \A u \in Threads \ {t} : frame'[u] = frame[u] /\ pc'[u] = pc[u]
        /\ IF g \in Inline THEN frame'[t] = Split[g][1] /\ pc'[t] = "func"
                           ELSE frame'[t] = g /\ pc'[t] = "ready"
        /\ frame[t] \in Tasks => pc[t] = "func"
    BY <1>5, CallStackEffect
  <2>2. /\ call[g] = "idle" /\ frame[t] = Caller[g] /\ UNCHANGED <<thrown, raised>>
        /\ call' = [call EXCEPT ![g] = "active"]
        /\ GroupOf[k] = g => status[k] = "idle" /\ status'[k] \in {"running", "queued"}
        /\ GroupOf[k] # g => status'[k] = status[k]
    BY <1>5, CallEffect
  <2>3. Received(k)' = Received(k)
    BY <2>2 DEF Received
  <2>4. frame'[t] = k => GroupOf[k] = g /\ pc'[t] = "func"
    BY <1>0, <2>1, InlineTask
  <2>5. CASE GroupOf[k] = g
    <3>1. /\ thrown[k] = None /\ Received(k) = {}
          /\ \A h \in Groups : Caller[h] = k => call[h] = "idle"
          /\ \A u \in Threads : frame[u] # k
      BY <2>2, <2>5, NothingReceived
    <3>2. thrown'[k] = None /\ Received(k)' = {}
      BY <2>2, <2>3, <3>1
    <3>. QED BY <3>2 DEF ThrownAt
  <2>6. CASE GroupOf[k] # g /\ k = frame[t]
    <3>1. thrown[k] = None /\ Received(k) = {}
      BY <1>0, <2>1, <2>6 DEF ThrownAt
    <3>2. thrown'[k] = None /\ Received(k)' = {}
      BY <2>2, <2>3, <3>1
    <3>. QED BY <3>2 DEF ThrownAt
  <2>7. CASE GroupOf[k] # g /\ k # frame[t]
    <3>1. \A u \in Threads : frame'[u] = k => frame[u] = k /\ pc'[u] = pc[u]
      BY <2>1, <2>4, <2>7
    <3>2. \A h \in Groups : Caller[h] = k => call'[h] = call[h]
      BY <1>0, <2>2, <2>7 DEF TypeOK
    <3>. QED BY <1>0, <2>2, <2>7, <3>1, <3>2, ThrownKept
  <2>. QED BY <2>5, <2>6, <2>7
<1>6. ASSUME NEW t \in Threads,
             \/ RunnerWait(t) \/ RunnerReturn(t) \/ SpuriousWake(t) \/ Destroy(t) \/ Join(t)
      PROVE  ThrownAt(k)'
  <2>1. UNCHANGED <<frame, status, call, thrown, raised>>
    BY <1>6 DEF RunnerWait, RunnerReturn, SpuriousWake, Destroy, Join
  <2>2. \A u \in Threads : pc'[u] \in {"func", "done"} => pc'[u] = pc[u]
    BY <1>0, <1>6 DEF RunnerWait, RunnerReturn, SpuriousWake, Destroy, Join, Notified, TypeOK
  <2>. QED BY <1>0, <2>1, <2>2, ThrownKept
<1>7. CASE UNCHANGED vars
  BY <1>0, <1>7, ThrownKept DEF vars
<1>. QED
  BY <1>1, <1>2, <1>3, <1>4, <1>5, <1>6, <1>7 DEF Next, Step, Terminated
(* A task that ends adds its outcome to its call, and to no other. *)
LEMMA OutcomeAdded ==
  ASSUME TypeOK, NEW j \in Tasks, status[j] = "running",
         status' = [status EXCEPT ![j] = "finished"], thrown' = thrown
  PROVE  /\ \A g \in Groups \ {GroupOf[j]} : Thrown(g)' = Thrown(g)
         /\ Thrown(GroupOf[j])' = Thrown(GroupOf[j]) \union ({thrown[j]} \ {None})
<1>1. /\ \A k \in Tasks \ {j} : Outcome(k)' = Outcome(k)
      /\ Outcome(j) = None /\ Outcome(j)' = thrown[j]
  BY DEF Outcome, TypeOK
<1>2. \A g \in Groups : TasksOf(g)' = TasksOf(g)
  BY DEF TasksOf
<1>3. ASSUME NEW g \in Groups \ {GroupOf[j]} PROVE Thrown(g)' = Thrown(g)
  <2>1. \A k \in TasksOf(g) : Outcome(k)' = Outcome(k)
    BY <1>1, GroupOfTask
  <2>. QED BY <1>2, <2>1 DEF Thrown
<1>4. Thrown(GroupOf[j])' = Thrown(GroupOf[j]) \union ({thrown[j]} \ {None})
  <2> DEFINE G == TasksOf(GroupOf[j])
  <2>1. j \in G /\ \A k \in G \ {j} : Outcome(k)' = Outcome(k)
    BY <1>1, GroupOfTask
  <2>2. Thrown(GroupOf[j]) = {Outcome(k) : k \in G} \ {None}
    BY DEF Thrown
  <2>3. Thrown(GroupOf[j])' = {Outcome(k)' : k \in G} \ {None}
    BY <1>2, GroupOfTask DEF Thrown
  <2> HIDE DEF G
  <2>. QED BY <1>1, <2>1, <2>2, <2>3
<1>. QED BY <1>3, <1>4

LEMMA EptrStep == IInv /\ RInv /\ [Next]_vars => EptrInv'
<1> DEFINE EptrAt(g) == eptr[g] \in IF Thrown(g) = {} THEN {None} ELSE Thrown(g)
<1> SUFFICES ASSUME IInv, RInv, [Next]_vars, NEW g \in Groups, call'[g] = "active"
             PROVE  EptrAt(g)'
  BY DEF EptrInv
<1>0. TypeOK /\ AliveInv /\ LifeInv /\ (call[g] = "active" => EptrAt(g))
  BY DEF IInv, RInv, EptrInv
<1>1. ASSUME NEW t \in Threads, RunnerPop(t) PROVE EptrAt(g)'
  <2>1. LET j == tasks[Len(tasks)]
        IN  /\ j \in Tasks /\ status[j] = "queued"
            /\ status' = [status EXCEPT ![j] = "running"]
            /\ UNCHANGED <<thrown, call, eptr>>
    BY <1>1, PopEffect
  <2>2. \A k \in Tasks : /\ status'[k] = "finished" <=> status[k] = "finished"
                         /\ status[k] = "finished" => thrown'[k] = thrown[k]
    BY <1>0, <2>1 DEF TypeOK
  <2>3. Thrown(g)' = Thrown(g)
    BY <2>2, OutcomesKept
  <2>. QED BY <1>0, <2>1, <2>3
<1>2. ASSUME NEW t \in Threads, TaskEnds(t) PROVE EptrAt(g)'
  <2> DEFINE j == frame[t]
  <2>1. /\ j \in Tasks /\ status[j] = "running" /\ GroupOf[j] \in Groups
        /\ status' = [status EXCEPT ![j] = "finished"]
        /\ eptr' = [eptr EXCEPT ![GroupOf[j]] = Kept(j)]
        /\ UNCHANGED <<thrown, call>>
    BY <1>2, TaskEndsEffect
  <2> HIDE DEF j
  <2>2. CASE g = GroupOf[j]
    <3>1. Thrown(g)' = Thrown(g) \union ({thrown[j]} \ {None})
      BY <1>0, <2>1, <2>2, OutcomeAdded
    <3>2. eptr'[g] = IF eptr[g] = None THEN thrown[j] ELSE eptr[g]
      BY <1>0, <2>1, <2>2 DEF Kept, TypeOK
    <3>3. None \notin Thrown(g)
      BY DEF Thrown
    <3>. QED BY <1>0, <2>1, <3>1, <3>2, <3>3
  <2>3. CASE g # GroupOf[j]
    <3>1. Thrown(g)' = Thrown(g)
      BY <1>0, <2>1, <2>3, OutcomeAdded
    <3>2. eptr'[g] = eptr[g]
      BY <1>0, <2>1, <2>3 DEF TypeOK
    <3>. QED BY <1>0, <2>1, <3>1, <3>2
  <2>. QED BY <2>2, <2>3
<1>3. ASSUME NEW t \in Threads, InlineEnds(t) PROVE EptrAt(g)'
  <2> DEFINE j == frame[t]
  <2>1. /\ j \in Tasks /\ status[j] = "running" /\ GroupOf[j] \in Groups
        /\ TasksOf(GroupOf[j]) = {j}
        /\ status' = [status EXCEPT ![j] = "finished"]
        /\ eptr' = [eptr EXCEPT ![GroupOf[j]] = thrown[j]]
        /\ UNCHANGED <<thrown, call>>
    BY <1>3, InlineEndsEffect
  <2> HIDE DEF j
  <2>2. CASE g = GroupOf[j]
    <3>1. Thrown(g)' = Thrown(g) \union ({thrown[j]} \ {None})
      BY <1>0, <2>1, <2>2, OutcomeAdded
    <3>2. Thrown(g) = {}
      BY <2>1, <2>2 DEF Thrown, Outcome
    <3>3. eptr'[g] = thrown[j]
      BY <1>0, <2>1, <2>2 DEF TypeOK
    <3>. QED BY <3>1, <3>2, <3>3
  <2>3. CASE g # GroupOf[j]
    <3>1. Thrown(g)' = Thrown(g)
      BY <1>0, <2>1, <2>3, OutcomeAdded
    <3>2. eptr'[g] = eptr[g]
      BY <1>0, <2>1, <2>3 DEF TypeOK
    <3>. QED BY <1>0, <2>1, <3>1, <3>2
  <2>. QED BY <2>2, <2>3
<1>4. ASSUME NEW t \in Threads, FuncEnds(t) \/ Return(t) PROVE EptrAt(g)'
  <2>1. /\ UNCHANGED <<status, eptr>>
        /\ \A k \in Tasks : status[k] = "finished" => thrown'[k] = thrown[k]
        /\ call[g] = "active"
    <3>1. CASE FuncEnds(t)
      <4>1. frame[t] \in Tasks /\ status[frame[t]] = "running"
        BY <3>1 DEF FuncEnds, IInv, FrameInv, AliveInv
      <4>. QED BY <1>0, <3>1, <4>1 DEF FuncEnds, TypeOK
    <3>2. CASE Return(t)
      <4>1. /\ frame[t] \in Groups /\ UNCHANGED <<status, eptr>>
            /\ Caller[frame[t]] \in Tasks => status[Caller[frame[t]]] = "running"
            /\ call' = [call EXCEPT ![frame[t]] = "returned"]
            /\ thrown' = IF Caller[frame[t]] \in Tasks
                         THEN [thrown EXCEPT ![Caller[frame[t]]] = eptr[frame[t]]] ELSE thrown
        BY <3>2, ReturnEffect
      <4>. QED BY <1>0, <4>1 DEF TypeOK
    <3>. QED BY <1>4, <3>1, <3>2
  <2>2. Thrown(g)' = Thrown(g)
    BY <2>1, OutcomesKept
  <2>. QED BY <1>0, <2>1, <2>2
<1>5. ASSUME NEW t \in Threads, NEW h \in Groups, CallParallel(t, h) \/ CallInline(t, h)
      PROVE  EptrAt(g)'
  <2>1. /\ call[h] = "idle" /\ UNCHANGED <<thrown, eptr>>
        /\ call' = [call EXCEPT ![h] = "active"]
        /\ \A k \in Tasks :
             IF GroupOf[k] = h
             THEN status[k] = "idle" /\ status'[k] = IF h \in Inline THEN "running" ELSE "queued"
             ELSE status'[k] = status[k]
    BY <1>5, CallEffect
  <2>2. \A k \in Tasks : /\ status'[k] = "finished" <=> status[k] = "finished"
                         /\ status[k] = "finished" => thrown'[k] = thrown[k]
    BY <2>1
  <2>3. Thrown(g)' = Thrown(g)
    BY <2>2, OutcomesKept
  <2>4. EptrAt(g)
    <3>1. CASE g = h
      <4>1. \A k \in TasksOf(g) : k \in Tasks /\ GroupOf[k] = g
        BY GroupOfTask
      <4>2. Thrown(g) = {}
        BY <2>1, <3>1, <4>1 DEF Thrown, Outcome
      <4>3. eptr[g] = None
        BY <2>1, <3>1 DEF RInv, CallsInv
      <4>. QED BY <4>2, <4>3
    <3>2. CASE g # h
      BY <1>0, <2>1, <3>2 DEF TypeOK
    <3>. QED BY <3>1, <3>2
  <2>. QED BY <2>1, <2>3, <2>4
<1>6. ASSUME NEW t \in Threads,
             \/ RunnerWait(t) \/ RunnerReturn(t) \/ SpuriousWake(t) \/ Destroy(t) \/ Join(t)
      PROVE  UNCHANGED <<status, call, thrown, eptr>>
  BY <1>6 DEF RunnerWait, RunnerReturn, SpuriousWake, Destroy, Join
<1>7. UNCHANGED vars => UNCHANGED <<status, call, thrown, eptr>>
  BY DEF vars
<1>8. ASSUME UNCHANGED <<status, call, thrown, eptr>> PROVE EptrAt(g)'
  <2>1. Thrown(g)' = Thrown(g)
    BY <1>8, OutcomesKept
  <2>. QED BY <1>0, <1>8, <2>1
<1>. QED
  BY <1>1, <1>2, <1>3, <1>4, <1>5, <1>6, <1>7, <1>8 DEF Next, Step, Terminated

(* The strengthening holds in every reachable state. *)
LEMMA RInductive == Spec => []RInv
<1>1. IInv /\ RInv /\ [Next]_vars => RInv'
  BY OwnerStep, MainStep, BaseStep, TopStep, CallsStep, ThrownStep, EptrStep DEF RInv
<1>. QED BY InitRInv, Inductive, <1>1, PTL DEF Spec
-----------------------------------------------------------------------------
(***************************************************************************)
(* The refinement.                                                         *)
(***************************************************************************)
State == [k \in Tasks |-> CASE status[k] = "queued" -> "pending"
                            [] status[k] = "finished" -> "done"
                            [] OTHER -> status[k]]

Outcomes == [k \in Tasks |-> Outcome(k)]

(* What each task has come to, in the words of ForkJoin. *)
LEMMA States ==
  ASSUME TypeOK, NEW k \in Tasks
  PROVE  /\ State[k] = "idle" <=> status[k] = "idle"
         /\ State[k] = "pending" <=> status[k] = "queued"
         /\ State[k] = "running" <=> status[k] = "running"
         /\ State[k] = "done" <=> status[k] = "finished"
         /\ State[k] \in {"idle", "pending", "running", "done"}
<1>1. status[k] \in {"idle", "queued", "running", "finished"}
  BY DEF TypeOK
<1>2. /\ status[k] = "queued" => State[k] = "pending"
      /\ status[k] = "finished" => State[k] = "done"
      /\ status[k] \in {"idle", "running"} => State[k] = status[k]
  BY DEF State
<1>. QED BY <1>1, <1>2

(* ForkJoin counts as this module does. *)
LEMMA SameCardinality == \A S : FJ!Cardinality(S) = Cardinality(S)
BY DEF FJ!Cardinality, Cardinality

(* The operators of ForkJoin, as the refinement reads them. *)
LEMMA Reading ==
  /\ \A g \in Groups : FJ!TasksOf(g) = TasksOf(g)
  /\ \A f : FJ!Waits(f) <=> \E g \in Groups : Caller[g] = f /\ call[g] = "active"
  /\ \A k : FJ!Received(k) = Received(k)
  /\ FJ!Progressing = {k \in Tasks : State[k] = "running" /\ ~FJ!Waits(k)}
  /\ FJ!ThreadIsFree <=> Cardinality(FJ!Progressing) < Cardinality(Threads)
<1>1. \A g \in Groups : FJ!TasksOf(g) = TasksOf(g)
  BY GroupOfTask DEF FJ!TasksOf
<1>2. \A f : FJ!Waits(f) <=> \E g \in Groups : Caller[g] = f /\ call[g] = "active"
  BY DEF FJ!Waits
<1>3. \A k : FJ!Received(k) = Received(k)
  BY DEF FJ!Received, Received
<1>4. FJ!Progressing = {k \in Tasks : State[k] = "running" /\ ~FJ!Waits(k)}
  BY DEF FJ!Progressing, State
<1>5. FJ!ThreadIsFree <=> Cardinality(FJ!Progressing) < Cardinality(Threads)
  BY SameCardinality DEF FJ!ThreadIsFree
<1>. QED BY <1>1, <1>2, <1>3, <1>4, <1>5

(* The pool begins where ForkJoin begins. *)
LEMMA InitMaps == Init => FJ!Init
<1> SUFFICES ASSUME Init PROVE FJ!Init
  OBVIOUS
<1>1. State = [k \in Tasks |-> "idle"] /\ Outcomes = [k \in Tasks |-> None]
  BY DEF Init, State, Outcomes, Outcome
<1>. QED BY <1>1 DEF Init, FJ!Init, State, Outcomes, Outcome

(* A thread that executes no task leaves room for another task: each task  *)
(* that makes progress is on top of the stack of a thread of its own.      *)
LEMMA RoomForOne ==
  ASSUME IInv, RInv, NEW t \in Threads, frame[t] \notin Tasks
  PROVE  FJ!ThreadIsFree
<1> DEFINE P == FJ!Progressing
           R == Threads \ {t}
           On == [k \in P |-> CHOOSE u \in Threads : frame[u] = k]
<1>1. \A k \in P : k \in Tasks /\ \E u \in Threads : frame[u] = k
  <2>1. ASSUME NEW k \in P PROVE k \in Tasks /\ status[k] = "running" /\ ~FJ!Waits(k)
    BY Reading, States DEF IInv
  <2>. QED BY <2>1, Reading DEF RInv, TopInv
<1>2. \A k \in P : On[k] \in R /\ frame[On[k]] = k
  BY <1>1
<1>3. On \in Injection(P, R)
  BY <1>2 DEF Injection, IsInjective
<1>4. IsFiniteSet(Threads) /\ IsFiniteSet(R) /\ Cardinality(R) = Cardinality(Threads) - 1
  BY ThreadsAssumption, FS_AddElement, FS_RemoveElement DEF Threads
<1>5. Cardinality(P) <= Cardinality(R)
  BY <1>3, <1>4, FS_Injection
<1>6. Cardinality(Threads) \in Nat /\ Cardinality(P) \in Nat
  BY <1>3, <1>4, FS_Injection, FS_CardinalityType
<1>. QED BY <1>4, <1>5, <1>6, Reading
(* The actions of ForkJoin, as the refinement reads them. *)
LEMMA IsStart ==
  ASSUME NEW k \in Tasks, State[k] = "pending", FJ!ThreadIsFree,
         State' = [State EXCEPT ![k] = "running"],
         UNCHANGED <<call, Outcomes, raised>>
  PROVE  FJ!Start(k)
BY DEF FJ!Start, State, Outcomes, Outcome

LEMMA IsFinish ==
  ASSUME NEW k \in Tasks, State[k] = "running", ~FJ!Waits(k),
         State' = [State EXCEPT ![k] = "done"],
         NEW e \in IF Received(k) = {} THEN {None, k} ELSE Received(k),
         Outcomes' = [Outcomes EXCEPT ![k] = e],
         UNCHANGED <<call, raised>>
  PROVE  FJ!Finish(k)
<1>1. e \in IF FJ!Received(k) = {} THEN {None, k} ELSE FJ!Received(k)
  BY Reading
<1>. QED BY <1>1 DEF FJ!Finish, State, Outcomes, Outcome

LEMMA IsCall ==
  ASSUME NEW g \in Groups, call[g] = "idle",
         Caller[g] = Base \/ State[Caller[g]] = "running", ~FJ!Waits(Caller[g]),
         NEW now \in {"pending", "running"},
         now = "running" => Cardinality(TasksOf(g)) = 1,
         call' = [call EXCEPT ![g] = "active"],
         State' = [k \in Tasks |-> IF GroupOf[k] = g THEN now ELSE State[k]],
         UNCHANGED <<Outcomes, raised>>
  PROVE  FJ!Call(g)
<1>1. now \in {"pending"} \union {s \in {"running"} : FJ!Cardinality(FJ!TasksOf(g)) = 1}
  BY Reading, SameCardinality
<1>. QED BY <1>1 DEF FJ!Call, State, Outcomes, Outcome

LEMMA IsReturn ==
  ASSUME NEW g \in Groups, call[g] = "active",
         \A k \in TasksOf(g) : State[k] = "done",
         FJ!ThreadIsFree,
         call' = [call EXCEPT ![g] = "returned"],
         NEW e \in IF Thrown(g) = {} THEN {None} ELSE Thrown(g),
         raised' = [raised EXCEPT ![g] = e],
         UNCHANGED <<State, Outcomes>>
  PROVE  FJ!Return(g)
<1>1. \A k \in FJ!TasksOf(g) : State[k] = "done"
  BY Reading
<1>2. Thrown(g) = {Outcomes[k] : k \in FJ!TasksOf(g)} \ {None}
  <2>1. \A k \in TasksOf(g) : Outcomes[k] = Outcome(k)
    BY GroupOfTask DEF Outcomes
  <2>. QED BY <2>1, Reading DEF Thrown
<1>. QED BY <1>1, <1>2 DEF FJ!Return, State, Outcomes, Outcome

(* A step that changes the status of one task. *)
LEMMA StateChanges ==
  ASSUME TypeOK, NEW k \in Tasks, NEW s \in {"running", "finished"},
         status' = [status EXCEPT ![k] = s]
  PROVE  State' = [State EXCEPT ![k] = IF s = "finished" THEN "done" ELSE s]
<1>1. \A j \in Tasks : status'[j] = IF j = k THEN s ELSE status[j]
  BY DEF TypeOK
<1>. QED BY <1>1 DEF State

(* Taking a task starts it, leaving it finishes it, a call makes its tasks  *)
(* available, and the end of ParallelFor returns; the rest is not seen.     *)
LEMMA StepMaps == IInv /\ RInv /\ [Next]_vars => [FJ!Next]_(FJ!vars)
<1> SUFFICES ASSUME IInv, RInv, [Next]_vars PROVE FJ!Next \/ UNCHANGED FJ!vars
  OBVIOUS
<1>0. TypeOK /\ FrameInv /\ AliveInv /\ StackInv
  BY DEF IInv
<1>1. ASSUME NEW t \in Threads, RunnerPop(t) PROVE FJ!Next
  <2>0. PICK j \in Tasks : j = tasks[Len(tasks)]
    BY <1>1, PopEffect
  <2>1. /\ j \in Tasks /\ status[j] = "queued" /\ frame[t] \in Groups \union {Base}
        /\ status' = [status EXCEPT ![j] = "running"]
        /\ UNCHANGED <<thrown, call, raised>>
    BY <1>1, <2>0, PopEffect
  <2>2. FJ!ThreadIsFree
    BY <2>1, FramesAssumption, RoomForOne
  <2>3. State[j] = "pending" /\ State' = [State EXCEPT ![j] = "running"]
    BY <1>0, <2>1, States, StateChanges
  <2>4. Outcomes' = Outcomes
    <3>1. \A i \in Tasks : Outcome(i)' = Outcome(i)
      BY <1>0, <2>1 DEF Outcome, TypeOK
    <3>. QED BY <3>1 DEF Outcomes
  <2>5. FJ!Start(j)
    BY <2>1, <2>2, <2>3, <2>4, IsStart
  <2>. QED BY <2>1, <2>5 DEF FJ!Next
<1>2. ASSUME NEW t \in Threads, TaskEnds(t) \/ InlineEnds(t) PROVE FJ!Next
  <2>0. PICK j \in Tasks : j = frame[t]
    BY <1>2, TaskEndsEffect, InlineEndsEffect
  <2>1. /\ j \in Tasks /\ status[j] = "running" /\ pc[t] = "done"
        /\ status' = [status EXCEPT ![j] = "finished"]
        /\ UNCHANGED <<thrown, call, raised>>
    BY <1>2, <2>0, TaskEndsEffect, InlineEndsEffect DEF TaskEnds
  <2>2. ~FJ!Waits(j)
    BY <1>0, <2>0, <2>1, Reading DEF StackInv
  <2>3. thrown[j] \in IF Received(j) = {} THEN {None, j} ELSE Received(j)
    BY <2>0, <2>1 DEF RInv, ThrownInv, ThrownAt
  <2>4. State[j] = "running" /\ State' = [State EXCEPT ![j] = "done"]
    BY <1>0, <2>1, States, StateChanges
  <2>5. Outcomes' = [Outcomes EXCEPT ![j] = thrown[j]]
    <3>1. \A i \in Tasks : Outcome(i)' = IF i = j THEN thrown[j] ELSE Outcome(i)
      BY <1>0, <2>1 DEF Outcome, TypeOK
    <3>. QED BY <2>1, <3>1 DEF Outcomes
  <2>6. FJ!Finish(j)
    BY <2>1, <2>2, <2>3, <2>4, <2>5, IsFinish
  <2>. QED BY <2>1, <2>6 DEF FJ!Next
<1>3. ASSUME NEW t \in Threads, NEW g \in Groups, CallParallel(t, g) \/ CallInline(t, g)
      PROVE  FJ!Next
  <2>1. /\ call[g] = "idle" /\ frame[t] = Caller[g] /\ pc[t] \in {"main", "func"}
        /\ call' = [call EXCEPT ![g] = "active"]
        /\ \A k \in Tasks :
             IF GroupOf[k] = g
             THEN status[k] = "idle" /\ status'[k] = IF g \in Inline THEN "running" ELSE "queued"
             ELSE status'[k] = status[k]
        /\ UNCHANGED <<thrown, raised>>
    BY <1>3, CallEffect
  <2>2. Caller[g] = Base \/ (Caller[g] \in Tasks /\ State[Caller[g]] = "running")
    BY <1>0, <2>1, CallAssumption, States DEF AliveInv
  <2>3. ~FJ!Waits(Caller[g])
    <3>1. CASE Caller[g] = Base
      <4>1. t = Main
        BY <1>0, <2>1, <3>1, FramesAssumption DEF FrameInv, RInv, MainInv
      <4>. QED BY <2>1, <3>1, <4>1, Reading DEF RInv, BaseInv
    <3>2. CASE Caller[g] \in Tasks
      BY <1>0, <2>1, <3>2, Reading DEF StackInv
    <3>. QED BY <2>2, <3>1, <3>2
  <2> DEFINE now == IF g \in Inline THEN "running" ELSE "pending"
  <2>4. now = "running" => Cardinality(TasksOf(g)) = 1
    BY CountTasks, CallAssumption
  <2>5. State' = [k \in Tasks |-> IF GroupOf[k] = g THEN now ELSE State[k]]
    BY <2>1 DEF State
  <2>6. Outcomes' = Outcomes
    <3>1. \A k \in Tasks : Outcome(k)' = Outcome(k)
      BY <2>1 DEF Outcome
    <3>. QED BY <3>1 DEF Outcomes
  <2>7. now \in {"pending", "running"}
    OBVIOUS
  <2> HIDE DEF now
  <2>8. FJ!Call(g)
    BY <2>1, <2>2, <2>3, <2>4, <2>5, <2>6, <2>7, IsCall
  <2>. QED BY <2>8 DEF FJ!Next
<1>4. ASSUME NEW t \in Threads, Return(t) PROVE FJ!Next
  <2> DEFINE g == frame[t]
  <2>1. /\ g \in Groups /\ call[g] = "active"
        /\ \A k \in TasksOf(g) : status[k] = "finished"
        /\ Caller[g] \in Tasks => status[Caller[g]] = "running"
        /\ call' = [call EXCEPT ![g] = "returned"]
        /\ raised' = [raised EXCEPT ![g] = eptr[g]]
        /\ thrown' = IF Caller[g] \in Tasks THEN [thrown EXCEPT ![Caller[g]] = eptr[g]] ELSE thrown
        /\ status' = status
    BY <1>4, ReturnEffect
  <2>2. FJ!ThreadIsFree
    BY <2>1, FramesAssumption, RoomForOne
  <2> HIDE DEF g
  <2>3. \A k \in TasksOf(g) : State[k] = "done"
    BY <1>0, <2>1, States, GroupOfTask
  <2>4. eptr[g] \in IF Thrown(g) = {} THEN {None} ELSE Thrown(g)
    BY <2>1 DEF RInv, EptrInv
  <2>5. State' = State
    BY <2>1 DEF State
  <2>6. Outcomes' = Outcomes
    <3>1. \A k \in Tasks : Outcome(k)' = Outcome(k)
      BY <1>0, <2>1 DEF Outcome, TypeOK
    <3>. QED BY <3>1 DEF Outcomes
  <2>7. FJ!Return(g)
    BY <2>1, <2>2, <2>3, <2>4, <2>5, <2>6, IsReturn
  <2>. QED BY <2>1, <2>7 DEF FJ!Next
<1>5. ASSUME UNCHANGED <<call, State, Outcomes, raised>> PROVE UNCHANGED FJ!vars
  BY <1>5 DEF FJ!vars, State, Outcomes, Outcome
<1>6. ASSUME NEW t \in Threads, FuncEnds(t) PROVE UNCHANGED FJ!vars
  <2>1. /\ UNCHANGED <<call, status, raised>>
        /\ frame[t] \in Tasks /\ status[frame[t]] = "running"
    BY <1>0, <1>6 DEF FuncEnds, FrameInv, AliveInv
  <2>2. \A k \in Tasks : Outcome(k)' = Outcome(k)
    BY <1>0, <1>6, <2>1 DEF FuncEnds, Outcome, TypeOK
  <2>. QED BY <1>5, <2>1, <2>2 DEF State, Outcomes
<1>7. ASSUME UNCHANGED <<call, status, thrown, raised>> PROVE UNCHANGED FJ!vars
  BY <1>5, <1>7 DEF State, Outcomes, Outcome
<1>8. ASSUME NEW t \in Threads,
             \/ RunnerWait(t) \/ RunnerReturn(t) \/ SpuriousWake(t) \/ Destroy(t) \/ Join(t)
      PROVE  UNCHANGED <<call, status, thrown, raised>>
  BY <1>8 DEF RunnerWait, RunnerReturn, SpuriousWake, Destroy, Join
<1>9. UNCHANGED vars => UNCHANGED <<call, status, thrown, raised>>
  BY DEF vars
<1>. QED
  BY <1>1, <1>2, <1>3, <1>4, <1>6, <1>7, <1>8, <1>9 DEF Next, Step, Terminated

(* ParallelFor keeps the promises of ForkJoin, whatever the number of      *)
(* threads and however the calls nest: a call returns only when each of    *)
(* its tasks has run, with the exception of one of them if any threw and   *)
(* with none otherwise; and a task is taken, or a caller goes on, only     *)
(* when a thread is free for it, so that no more tasks make progress at    *)
(* any time than the pool has threads (task_manager.h:39-64).              *)
THEOREM SafelyForksAndJoins == Spec => FJ!Init /\ [][FJ!Next]_(FJ!vars)
BY Inductive, RInductive, InitMaps, StepMaps, PTL DEF Spec
=============================================================================
