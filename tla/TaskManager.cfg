\* Nested calls, one of which needs every thread at once, exceptions, spurious
\* wake-ups and the destructor, with liveness.
SPECIFICATION Spec
CONSTANTS
  Main = main
  Workers = {w1, w2}
  Base = base
  None = none
  g1 = g1
  g2 = g2
  g3 = g3
  k1 = k1
  k2 = k2
  k3 = k3
  k4 = k4
  k5 = k5
  k6 = k6
  Groups <- NestedGroups
  Tasks <- NestedTasks
  Split <- NestedSplit
  Caller <- NestedCaller
  Inline = {g3}
  Barrier = {g2}
INVARIANTS
  SiblingsCount
  NoDanglingTask
  NoLostWakeup
PROPERTIES
  ImplementsForkJoin
  DestructorEnds
