---------------------------- MODULE TaskManager ----------------------------
(***************************************************************************)
(* starkware::TaskManager (src/starkware/utils/task_manager.{h,inl,cc}):   *)
(* a pool of NumThreads - 1 worker threads and the main thread, one mutex, *)
(* a LIFO queue of tasks and two condition variables.  A thread that calls *)
(* ParallelFor runs queued tasks, of its own call or of any other, until   *)
(* the tasks of its call are finished, so calls nest on a thread's stack.  *)
(*                                                                         *)
(* Every critical section of mutex_ is one action: all shared state is     *)
(* read and written under it, with the one exception of the end of         *)
(* ParallelFor, which has a step of its own (Return).  What the functions  *)
(* given to ParallelFor do is left open: they call ParallelFor again,      *)
(* return or throw.                                                        *)
(***************************************************************************)
EXTENDS Naturals, Sequences, FiniteSets

CONSTANTS Main,        (* the thread that constructs and destroys the pool  *)
          Workers,     (* the worker threads                                *)
          Groups,      (* the calls of ParallelFor                          *)
          Tasks,       (* the tasks that the calls are split into           *)
          Split,       (* Split[g]: the tasks of call g in creation order   *)
          Caller,      (* Caller[g]: the task whose function makes call g,  *)
                       (* or Base for the main thread                       *)
          Inline,      (* the calls over a single item                      *)
          Barrier,     (* the calls whose functions wait for each other     *)
          Base,        (* the bottom of a thread's stack                    *)
          None         (* no exception                                      *)

Threads == Workers \union {Main}

ASSUME ThreadsAssumption == Main \notin Workers /\ IsFiniteSet(Workers)

ASSUME FramesAssumption ==
  /\ IsFiniteSet(Tasks) /\ IsFiniteSet(Groups)
  /\ Groups \intersect Tasks = {}
  /\ Base \notin Groups \union Tasks
  /\ None \notin Tasks

ASSUME SplitAssumption ==
  /\ Split \in [Groups -> Seq(Tasks)]
  /\ \A g \in Groups : \A i, j \in 1..Len(Split[g]) :
       Split[g][i] = Split[g][j] => i = j
  /\ \A k \in Tasks : \E g \in Groups : \E i \in 1..Len(Split[g]) : k = Split[g][i]
  /\ \A g, h \in Groups : \A i \in 1..Len(Split[g]), j \in 1..Len(Split[h]) :
       Split[g][i] = Split[h][j] => g = h

ASSUME CallAssumption ==
  /\ Caller \in [Groups -> Tasks \union {Base}]
  /\ Inline \subseteq Groups
  /\ \A g \in Inline : Len(Split[g]) = 1
  /\ Barrier \subseteq Groups

TasksOf(g) == {Split[g][i] : i \in 1..Len(Split[g])}

GroupOf == [k \in Tasks |-> CHOOSE g \in Groups : k \in TasksOf(g)]

VARIABLES
  pc,        (* what a thread does next, see TypeOK                         *)
  frame,     (* the innermost activation on a thread's stack: Base, a call  *)
             (* whose TaskRunner it executes, or a task it executes         *)
  runner,    (* runner[k]: the frame below task k, whose TaskRunner took it *)
  status,    (* status[k]: "idle", "queued", "running", "finished"          *)
  thrown,    (* the exception the function of task k has ended with         *)
  tasks,     (* tasks_, taken from the back                                 *)
  continue,  (* continue_running_                                           *)
  call,      (* call[g]: "idle", "active", "returned"                       *)
  siblings,  (* siblings_counter of call g                                  *)
  eptr,      (* eptr of call g                                              *)
  raised     (* the exception that call g ended with, for its caller        *)

vars == <<pc, frame, runner, status, thrown, tasks, continue, call, siblings, eptr, raised>>

PCs == {"main", "joining", "exited",            \* bottom of a stack
        "ready", "asleep", "notified",          \* in TaskRunner
        "func", "done",                         \* in a task
        "returning"}                            \* at the end of ParallelFor

TypeOK ==
  /\ pc \in [Threads -> PCs]
  /\ frame \in [Threads -> Groups \union Tasks \union {Base}]
  /\ runner \in [Tasks -> Groups \union {Base}]
  /\ status \in [Tasks -> {"idle", "queued", "running", "finished"}]
  /\ thrown \in [Tasks -> Tasks \union {None}]
  /\ tasks \in Seq(Tasks)
  /\ continue \in BOOLEAN
  /\ call \in [Groups -> {"idle", "active", "returned"}]
  /\ siblings \in [Groups -> Nat]
  /\ eptr \in [Groups -> Tasks \union {None}]
  /\ raised \in [Groups -> Tasks \union {None}]

Init ==
  /\ pc = [t \in Threads |-> IF t = Main THEN "main" ELSE "ready"]
  /\ frame = [t \in Threads |-> Base]
  /\ runner = [k \in Tasks |-> Base]
  /\ status = [k \in Tasks |-> "idle"]
  /\ thrown = [k \in Tasks |-> None]
  /\ tasks = <<>>
  /\ continue = TRUE
  /\ call = [g \in Groups |-> "idle"]
  /\ siblings = [g \in Groups |-> 0]
  /\ eptr = [g \in Groups |-> None]
  /\ raised = [g \in Groups |-> None]

(***************************************************************************)
(* CvWithWaitersCount.  A thread sleeps on new_pending_task_ when it is a  *)
(* worker at the bottom of its stack and on task_group_finished_ inside    *)
(* ParallelFor.  n_sleeping_threads_ goes down only when the sleeper has   *)
(* the mutex again, so it counts the threads that were notified and have   *)
(* not run since.                                                          *)
(***************************************************************************)
Asleep(onGroup) == {t \in Threads : pc[t] = "asleep" /\ (frame[t] \in Groups) = onGroup}
NSleeping(onGroup) == {t \in Threads : /\ pc[t] \in {"asleep", "notified"}
                                       /\ (frame[t] \in Groups) = onGroup}

WakesNobody(onGroup) == {{}}                                     \* mutant

(* The threads one TryNotify may wake: notify_one picks any sleeper, and   *)
(* is lost when every counted sleeper was notified before.                 *)
Wakes(onGroup) == IF Asleep(onGroup) = {} THEN {{}} ELSE {{s} : s \in Asleep(onGroup)}

Notified(woken, p) == [t \in Threads |-> IF t \in woken THEN "notified" ELSE p[t]]

ReachedWithOneLeft(f) == IF f \in Groups THEN siblings[f] <= 1 ELSE ~continue  \* mutant
(* The event a TaskRunner waits for: its counter has reached zero. *)
Reached(f) == IF f \in Groups THEN siblings[f] = 0 ELSE ~continue

InRunner(t) == pc[t] \in {"ready", "notified"}

(* TaskRunner: nothing to do, sleep. *)
RunnerWait(t) ==
  /\ InRunner(t)
  /\ ~Reached(frame[t]) /\ tasks = <<>>
  /\ pc' = [pc EXCEPT ![t] = "asleep"]
  /\ UNCHANGED <<frame, runner, status, thrown, tasks, continue, call, siblings, eptr, raised>>

(* TaskRunner: the awaited event has happened, return, whatever is queued. *)
RunnerReturn(t) ==
  /\ InRunner(t)
  /\ Reached(frame[t])
  /\ pc' = [pc EXCEPT ![t] = IF frame[t] \in Groups THEN "returning" ELSE "exited"]
  /\ UNCHANGED <<frame, runner, status, thrown, tasks, continue, call, siblings, eptr, raised>>

(* TaskRunner: take the newest task; if more are left, pass the word on to *)
(* a sleeping worker or else to a sleeping caller.                         *)
RunnerPop(t) ==
  /\ InRunner(t)
  /\ ~Reached(frame[t]) /\ tasks # <<>>
  /\ LET k    == tasks[Len(tasks)]
         left == SubSeq(tasks, 1, Len(tasks) - 1)
         sleepersOnGroup == NSleeping(FALSE) \ {t} = {}
     IN  /\ tasks' = left
         /\ status' = [status EXCEPT ![k] = "running"]
         /\ runner' = [runner EXCEPT ![k] = frame[t]]
         /\ frame' = [frame EXCEPT ![t] = k]
         /\ \E woken \in IF left = <<>> THEN {{}} ELSE Wakes(sleepersOnGroup) :
              pc' = [Notified(woken, pc) EXCEPT ![t] = "func"]
  /\ UNCHANGED <<thrown, continue, call, siblings, eptr, raised>>

(* std::condition_variable::wait may return with no notification. *)
SpuriousWake(t) ==
  /\ pc[t] = "asleep"
  /\ pc' = [pc EXCEPT ![t] = "notified"]
  /\ UNCHANGED <<frame, runner, status, thrown, tasks, continue, call, siblings, eptr, raised>>

(***************************************************************************)
(* ParallelFor                                                             *)
(***************************************************************************)
MayCall(t, g) ==
  /\ call[g] = "idle"
  /\ pc[t] \in {"main", "func"}
  /\ frame[t] = Caller[g]

CountedOnce(g) == 1                                              \* mutant

(* siblings_counter goes up with every task that is queued. *)
Counted(g) == Len(Split[g])

(* Queue the tasks and become a TaskRunner.  No thread is notified here:   *)
(* TaskRunner does it when it takes a task and leaves others.              *)
CallParallel(t, g) ==
  /\ MayCall(t, g)
  /\ g \notin Inline
  /\ call' = [call EXCEPT ![g] = "active"]
  /\ siblings' = [siblings EXCEPT ![g] = Counted(g)]
  /\ tasks' = tasks \o Split[g]
  /\ status' = [k \in Tasks |-> IF k \in TasksOf(g) THEN "queued" ELSE status[k]]
  /\ frame' = [frame EXCEPT ![t] = g]
  /\ pc' = [pc EXCEPT ![t] = "ready"]
  /\ UNCHANGED <<runner, thrown, continue, eptr, raised>>

(* A single item: the function is called in place. *)
CallInline(t, g) ==
  /\ MayCall(t, g)
  /\ g \in Inline
  /\ LET k == Split[g][1]
     IN  /\ status' = [status EXCEPT ![k] = "running"]
         /\ runner' = [runner EXCEPT ![k] = g]
         /\ frame' = [frame EXCEPT ![t] = k]
  /\ call' = [call EXCEPT ![g] = "active"]
  /\ pc' = [pc EXCEPT ![t] = "func"]
  /\ UNCHANGED <<thrown, tasks, continue, siblings, eptr, raised>>

(* The functions of a Barrier call end only after all of them have begun. *)
MayEnd(k) == GroupOf[k] \in Barrier =>
               \A j \in TasksOf(GroupOf[k]) : status[j] \in {"running", "finished"}

(* The function of the task ends, with an exception of its own or without. *)
FuncEnds(t) ==
  /\ pc[t] = "func"
  /\ MayEnd(frame[t])
  /\ \E e \in {None, frame[t]} : thrown' = [thrown EXCEPT ![frame[t]] = e]
  /\ pc' = [pc EXCEPT ![t] = "done"]
  /\ UNCHANGED <<frame, runner, status, tasks, continue, call, siblings, eptr, raised>>

LastTaskKept(k) == thrown[k]                                     \* mutant
(* The first exception of a call is kept. *)
Kept(k) == IF eptr[GroupOf[k]] = None THEN thrown[k] ELSE eptr[GroupOf[k]]

WokenOnWrongEvent(g) == IF siblings[g] = 1 THEN Asleep(FALSE) ELSE {}  \* mutant

(* The last task of a call wakes everybody who waits for a call. *)
WokenByLast(g) == IF siblings[g] = 1 THEN Asleep(TRUE) ELSE {}

(* The end of a queued task. *)
TaskEnds(t) ==
  /\ pc[t] = "done"
  /\ LET k == frame[t]
         g == GroupOf[k]
     IN  /\ g \notin Inline
         /\ eptr' = [eptr EXCEPT ![g] = Kept(k)]
         /\ siblings' = [siblings EXCEPT ![g] = @ - 1]
         /\ status' = [status EXCEPT ![k] = "finished"]
         /\ frame' = [frame EXCEPT ![t] = runner[k]]
         /\ pc' = [Notified(WokenByLast(g), pc) EXCEPT ![t] = "ready"]
  /\ UNCHANGED <<runner, thrown, tasks, continue, call, raised>>

(* The end of a function that was called in place. *)
InlineEnds(t) ==
  /\ pc[t] = "done"
  /\ LET k == frame[t]
         g == GroupOf[k]
     IN  /\ g \in Inline
         /\ eptr' = [eptr EXCEPT ![g] = thrown[k]]
         /\ status' = [status EXCEPT ![k] = "finished"]
         /\ frame' = [frame EXCEPT ![t] = g]
  /\ pc' = [pc EXCEPT ![t] = "returning"]
  /\ UNCHANGED <<runner, thrown, tasks, continue, call, siblings, raised>>

(* ParallelFor reads eptr, with no lock, and returns or rethrows.  A task  *)
(* whose call throws ends with that exception.                             *)
Return(t) ==
  /\ pc[t] = "returning"
  /\ LET g == frame[t]
         below == Caller[g]
     IN  /\ call' = [call EXCEPT ![g] = "returned"]
         /\ raised' = [raised EXCEPT ![g] = eptr[g]]
         /\ frame' = [frame EXCEPT ![t] = below]
         /\ thrown' = IF below \in Tasks THEN [thrown EXCEPT ![below] = eptr[g]] ELSE thrown
         /\ pc' = [pc EXCEPT ![t] = IF below = Base THEN "main"
                                    ELSE IF eptr[g] = None THEN "func" ELSE "done"]
  /\ UNCHANGED <<runner, status, tasks, continue, siblings, eptr>>

(***************************************************************************)
(* ~TaskManager, by the main thread, between two calls of ParallelFor.     *)
(***************************************************************************)
WokenCallersOnly == Asleep(TRUE)                                 \* mutant
WokenByDestructor == Asleep(FALSE) \union Asleep(TRUE)

Destroy(t) ==
  /\ pc[t] = "main"
  /\ continue' = FALSE
  /\ pc' = [Notified(WokenByDestructor, pc) EXCEPT ![t] = "joining"]
  /\ UNCHANGED <<frame, runner, status, thrown, tasks, call, siblings, eptr, raised>>

Join(t) ==
  /\ pc[t] = "joining"
  /\ \A w \in Workers : pc[w] = "exited"
  /\ pc' = [pc EXCEPT ![t] = "exited"]
  /\ UNCHANGED <<frame, runner, status, thrown, tasks, continue, call, siblings, eptr, raised>>

(* Every thread is gone. *)
Terminated == /\ \A t \in Threads : pc[t] = "exited"
              /\ UNCHANGED vars

(* What a thread does once it may run. *)
Step(t) ==
  \/ RunnerWait(t) \/ RunnerReturn(t) \/ RunnerPop(t)
  \/ FuncEnds(t) \/ TaskEnds(t) \/ InlineEnds(t) \/ Return(t) \/ Join(t)

Next ==
  \/ \E t \in Threads : \/ Step(t) \/ SpuriousWake(t) \/ Destroy(t)
                        \/ \E g \in Groups : CallParallel(t, g) \/ CallInline(t, g)
  \/ Terminated

(* Every thread that can take a step does; the functions come to an end.   *)
Spec == Init /\ [][Next]_vars /\ \A t \in Threads : WF_vars(Step(t))
-----------------------------------------------------------------------------
(***************************************************************************)
(* Properties                                                              *)
(***************************************************************************)
Unfinished(g) == {k \in TasksOf(g) : status[k] \in {"queued", "running"}}

(* siblings_counter is the number of tasks of the call that are queued or  *)
(* running, from the moment the mutex is released after queueing them to   *)
(* the end of ParallelFor: it is decremented once per task whoever runs it *)
(* and however the function ends (task_manager.cc:140-171).                *)
SiblingsCount ==
  \A g \in Groups \ Inline :
    siblings[g] = IF call[g] = "active" THEN Cardinality(Unfinished(g)) ELSE 0

(* The tasks hold references to siblings_counter, eptr and func, which     *)
(* live in the frame of ParallelFor: while a task is queued or running the *)
(* frame is there, and its owner is not past the loop of TaskRunner, where *)
(* it reads eptr with no lock ("It is safe to read eptr without a lock").  *)
NoDanglingTask ==
  \A k \in Tasks : status[k] \in {"queued", "running"} =>
    /\ call[GroupOf[k]] = "active"
    /\ \A t \in Threads : pc[t] = "returning" => frame[t] # GroupOf[k]

(* A caller asleep on task_group_finished_ waits for a task some thread    *)
(* has taken, never for one that is left in the queue, and it is woken     *)
(* when the last one ends, although the wake-ups of the queue and those of *)
(* finished calls share its condition variable (task_manager.cc:77-100).   *)
NoLostWakeup ==
  \A t \in Threads : pc[t] = "asleep" /\ frame[t] \in Groups =>
    /\ siblings[frame[t]] > 0
    /\ \A k \in TasksOf(frame[t]) : status[k] # "queued"

(* The destructor ends: every worker hears of it and leaves. *)
DestructorEnds == (pc[Main] = "joining") ~> (pc[Main] = "exited")

(* ParallelFor does what ForkJoin promises: a call ends after its tasks,   *)
(* with the exception of one of them if any threw, and every call and      *)
(* every task comes to its end, also when the tasks of a nested call need  *)
(* all threads of the pool at once (task_manager.h:43-46, :60-65).         *)
FJ == INSTANCE ForkJoin WITH
        NumThreads <- Cardinality(Threads),
        state   <- [k \in Tasks |-> CASE status[k] = "queued" -> "pending"
                                      [] status[k] = "finished" -> "done"
                                      [] OTHER -> status[k]],
        outcome <- [k \in Tasks |-> IF status[k] = "finished" THEN thrown[k] ELSE None]

ImplementsForkJoin == FJ!Spec
=============================================================================
