CONSTANT
  Shapes <- MCShapes
SPECIFICATION Spec
INVARIANTS
  TablesHoldTheLayers
  NoAssertionFails
  InMemoryStaysInMemory
