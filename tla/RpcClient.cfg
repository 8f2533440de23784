SPECIFICATION FairSpec
CONSTANTS
  Caller <- MCCaller
  MaxCalls <- MCCalls
  MaxAddresses <- MCAddresses
INVARIANTS
  TypeOK
  FourFailuresOneError
  BudgetComesBack
PROPERTY
  EveryCallEnds
CHECK_DEADLOCK FALSE
