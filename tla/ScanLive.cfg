SPECIFICATION FairSpec
CONSTANTS
  Hash <- MCLiveHash
  Chains <- MCLive
  InitChain <- MCSmallStart
  Genesis = "genesis"
  None = None
  MaxHeight = 5
  MaxCrashes = 0
  MaxOps = 1
  DaiFaults = FALSE
  TxFailures = FALSE
PROPERTIES
  CatchesUp
  StopHalts
CHECK_DEADLOCK FALSE
