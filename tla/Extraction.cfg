SPECIFICATION Spec
CONSTANTS
  Address <- MCAddress
  Account = {"A", "B"}
  Observer = {"o1", "o2"}
  None = None
  Symbol = "PIA"
  OtherCoin = "SNAC"
  AccountOf <- MCAccountOf
  Blocks <- MCBlocks
  MaxRefusals = 1
INVARIANTS
  TypeOK
  DeliversExactly
  SidsMeetInATransaction
CHECK_DEADLOCK FALSE
