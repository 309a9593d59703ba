CONSTANTS
  Lengths <- MCLengths
  Calls <- MCCalls
  Lists <- MCLists
  MaxCalls = 2
SPECIFICATION LibrarySpec
INVARIANTS
  ResultIsTheBytesAskedFor
  ReadsAreInside
  AssertionsHold
  StringsAreRebuilt
