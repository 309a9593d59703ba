SPECIFICATION CommitmentSpec
CONSTANTS
  Shapes <- MCShapes
  Digest = 2
  Workers = {w1, w2}
INVARIANTS
  CommitmentIsCanonical
  Lockstep
  VerdictIsExact
  NothingRedundant
  SplittingIsSafe
