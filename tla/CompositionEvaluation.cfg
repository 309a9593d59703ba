CONSTANTS
  WordSize = 16
  Calls <- MCCalls
  Jobs <- MCJobs
  MinWorkChunk = 2
SPECIFICATION EvaluationSpec
INVARIANTS
  AllItemsRun
  EveryPointHasItsValue
PROPERTY
  ItemsRunOnce
