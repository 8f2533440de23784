SPECIFICATION Spec
CONSTANTS
  Hash <- MCSmallHash
  Chains <- MCSmall
  InitChain <- MCSmallStart
  Genesis = "genesis"
  None = None
  MaxHeight = 4
  MaxCrashes = 1
  MaxOps = 1
  DaiFaults = TRUE
  TxFailures = FALSE
INVARIANTS
  TypeOK
  HeadCovered
  ForkAboveGenesis
CHECK_DEADLOCK FALSE
VIEW MCView
