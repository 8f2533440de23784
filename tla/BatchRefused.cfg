SPECIFICATION Spec
CONSTANTS
  Batch <- LoneBatch
  Size <- LoneSize
  MaxExtracting = 2
INVARIANT
  RefusalIsReported
CHECK_DEADLOCK FALSE
