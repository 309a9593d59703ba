------------------------------ MODULE ForkJoin ------------------------------
(***************************************************************************)
(* What TaskManager::ParallelFor promises its callers, with no queue, no   *)
(* lock and no condition variable (task_manager.h:39-64):                  *)
(*   - a call returns only after every task it was split into has run;     *)
(*   - an exception thrown by a task is rethrown by the call it belongs    *)
(*     to, and from there on climbs the tree of nested calls;              *)
(*   - at most NumThreads tasks make progress at any time: a task that     *)
(*     waits inside a nested call does not hold a thread back.             *)
(***************************************************************************)
EXTENDS Naturals, FiniteSets

CONSTANTS Groups,      (* the calls of ParallelFor                          *)
          Tasks,       (* the tasks those calls are split into              *)
          GroupOf,     (* the call a task was created by                    *)
          Caller,      (* the task that makes a call, or Base               *)
          Base,        (* the caller of an outermost call                   *)
          None,        (* no exception                                      *)
          NumThreads   (* threads of the pool, the main thread included     *)

TasksOf(g) == {k \in Tasks : GroupOf[k] = g}

VARIABLES call,        (* call[g]: "idle", "active", "returned"             *)
          state,       (* state[k]: "idle", "pending", "running", "done"    *)
          outcome,     (* the exception the function of task k ended with   *)
          raised       (* the exception call g ended with                   *)

vars == <<call, state, outcome, raised>>

Init ==
  /\ call = [g \in Groups |-> "idle"]
  /\ state = [k \in Tasks |-> "idle"]
  /\ outcome = [k \in Tasks |-> None]
  /\ raised = [g \in Groups |-> None]

(* A frame waits while one of the calls it made has not returned. *)
Waits(f) == \E g \in Groups : Caller[g] = f /\ call[g] = "active"

(* The tasks that occupy a thread, and whether there is room for another.  *)
Progressing == {k \in Tasks : state[k] = "running" /\ ~Waits(k)}
ThreadIsFree == Cardinality(Progressing) < NumThreads

(* A call makes its tasks available; the one of a single-item call may     *)
(* take the place of its caller at once.                                   *)
Call(g) ==
  /\ call[g] = "idle"
  /\ Caller[g] = Base \/ state[Caller[g]] = "running"
  /\ ~Waits(Caller[g])
  /\ call' = [call EXCEPT ![g] = "active"]
  /\ \E now \in {"pending"} \union
                {s \in {"running"} : Cardinality(TasksOf(g)) = 1} :
       state' = [k \in Tasks |-> IF GroupOf[k] = g THEN now ELSE state[k]]
  /\ UNCHANGED <<outcome, raised>>

Start(k) ==
  /\ state[k] = "pending"
  /\ ThreadIsFree
  /\ state' = [state EXCEPT ![k] = "running"]
  /\ UNCHANGED <<call, outcome, raised>>

(* The exceptions the calls made by k ended with. *)
Received(k) == {raised[g] : g \in {h \in Groups : Caller[h] = k}} \ {None}

(* A task ends with an exception of its own, with one it received, or,     *)
(* when it received none, without.                                         *)
Finish(k) ==
  /\ state[k] = "running"
  /\ ~Waits(k)
  /\ state' = [state EXCEPT ![k] = "done"]
  /\ \E e \in IF Received(k) = {} THEN {None, k} ELSE Received(k) :
       outcome' = [outcome EXCEPT ![k] = e]
  /\ UNCHANGED <<call, raised>>

Return(g) ==
  /\ call[g] = "active"
  /\ \A k \in TasksOf(g) : state[k] = "done"
  /\ Caller[g] = Base \/ ThreadIsFree
  /\ call' = [call EXCEPT ![g] = "returned"]
  /\ LET thrown == {outcome[k] : k \in TasksOf(g)} \ {None}
     IN  \E e \in IF thrown = {} THEN {None} ELSE thrown :
           raised' = [raised EXCEPT ![g] = e]
  /\ UNCHANGED <<state, outcome>>

Next == \/ \E g \in Groups : Call(g) \/ Return(g)
        \/ \E k \in Tasks : Start(k) \/ Finish(k)

(* Nobody has to make a call; a call that is made comes to its end. *)
Fairness == /\ \A g \in Groups : WF_vars(Return(g))
            /\ \A k \in Tasks : WF_vars(Start(k)) /\ WF_vars(Finish(k))

Spec == Init /\ [][Next]_vars /\ Fairness
=============================================================================
