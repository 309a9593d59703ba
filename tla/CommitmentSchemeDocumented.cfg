SPECIFICATION CommitmentSpec
CONSTANTS
  Shapes <- AllTables
  Digest = 2
  Workers = {w1}
INVARIANTS
  DocumentedMinimum
