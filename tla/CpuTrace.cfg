CONSTANTS
  Inputs <- MCInputs
  View <- MCView
  begin_addr <- MCBeginAddr
  n_instances <- MCInstances
  Hash <- MCHash
  WordSize = 64
  NSteps = 2
  MemorySize = 24
  Rc16Size = 10
  DilutedSize = 23
  PublicSize = 2
  n_parts = 2
  shift_bits = 3
  spacing = 2
  n_bits = 3
  total_n_bits = 8
  Prime = 101
  Elements = {2, 45}
SPECIFICATION Spec
INVARIANTS
  ConstraintsHold
  BuiltinsAgree
  RefusedForAReason
