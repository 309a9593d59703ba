\* Three tasks, five chunks of two nonces each, every set of valid nonces.
SPECIFICATION SearchSpec
CONSTANTS
  Chunks = 5
  ChunkSize = 2
  ThreadCount = 3
INVARIANTS
  NothingMissed
  LowestNonceWins
PROPERTY Terminates
