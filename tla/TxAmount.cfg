SPECIFICATION Spec
CONSTANTS
  Hash <- MCHash
  Chains <- MCChains
  InitChain <- MCStart
  Genesis = "genesis"
  MaxHeight = 7
  RefMod = 5
  Lag = 2
  Life = 1
  Fine = 2
  Raw <- MCRaw
  Request <- MCRequest
  MaxKeys = 2
  MaxSigs = 2
  InitBalance = 2
  MaxBalance = 3
INVARIANT
  RecordedIsSent
CHECK_DEADLOCK FALSE
