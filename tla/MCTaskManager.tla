--------------------------- MODULE MCTaskManager ---------------------------
(* Instances of TaskManager for TLC. *)
EXTENDS TaskManager, TLC

CONSTANTS g1, g2, g3, k1, k2, k3, k4, k5, k6

(* The main thread splits a range into two tasks.  The first splits        *)
(* another range into as many tasks as there are threads, all of which     *)
(* wait for each other; the second handles a single item.                  *)
NestedGroups == {g1, g2, g3}
NestedTasks  == {k1, k2, k3, k4, k5, k6}
NestedSplit  == g1 :> <<k1, k2>> @@ g2 :> <<k3, k4, k5>> @@ g3 :> <<k6>>
NestedCaller == g1 :> Base @@ g2 :> k1 @@ g3 :> k2
=============================================================================
