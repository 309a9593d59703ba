CONSTANTS
  LogNCosets = 2
  TraceLength = 2
  Shapes <- MCShapes
  RowsToFetch <- MCRowsToFetch
SPECIFICATION Spec
INVARIANTS
  NoAssertionFails
  CommittedIsTheTrace
  CompositionSeesTheCoset
  DecommittedIsCommitted
