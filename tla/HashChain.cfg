\* Blocks of three bytes, requests of up to two blocks, two changes of seed.
SPECIFICATION Spec
CONSTANTS
  DigestNumBytes = 3
  Messages = {0, 7}
  MaxRequest = 7
  MaxBlocks = 4
  MaxMixes = 2
CHECK_DEADLOCK FALSE   \* the bounds stop the stream
INVARIANTS
  SpareFits
  NoByteTwice
  FreshAfterMix
  DomainSeparation
