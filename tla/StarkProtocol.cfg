SPECIFICATION Spec
CONSTANTS
  Parameters <- MCParameters
  CutParameters <- CutShapes
CHECK_DEADLOCK FALSE   \* both programs end
INVARIANTS
  Lockstep
  RandomnessBindsProof
  QueriesCostWork
  NothingThrows
  IntactIsAccepted
  AcceptedIsWhole
