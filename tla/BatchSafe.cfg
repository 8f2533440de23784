SPECIFICATION FairSpec
CONSTANTS
  Batch <- MCBatch
  Size <- MCSize
  MaxExtracting = 2
INVARIANTS
  TypeOK
  QuietReturn
  TokenBound
  NeverStuck
PROPERTIES
  KeepsPromise
  ExtractorsEnd
  EveryBatchReturns
CHECK_DEADLOCK FALSE
