SPECIFICATION Spec
CONSTANTS
  Hash <- MCHash
  Chains <- MCForks
  InitChain <- MCForksStart
  Genesis = "genesis"
  None = None
  MaxHeight = 6
  MaxCrashes = 1
  MaxOps = 0
  DaiFaults = FALSE
  TxFailures = TRUE
INVARIANT
  NoOrphan
