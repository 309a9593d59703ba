\* The last chunk is never searched.
SPECIFICATION SearchSpec
CONSTANTS
  Chunks = 4
  ChunkSize = 2
  ThreadCount = 2
INVARIANT AllNoncesTried
