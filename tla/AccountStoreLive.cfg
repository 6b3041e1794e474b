SPECIFICATION FairSpec
CONSTANTS
  a1 = a1
  a2 = a2
  c1 = c1
  c2 = c2
  c3 = c3
  k1 = k1
  NoCall = NoCall
  NoAccount = NoAccount
  Accounts <- TwoAccounts
  Stored <- SecondStored
  Keys <- OneKey
  Calls <- ThreeCalls
  Target <- LastOnOther
  Env <- LiveUse
  MaxEdits = 1
  MaxRows = 2
  MaxLocks = 2
  MaxSleeps = 1
INVARIANTS
  IdsAreDistinct
PROPERTIES
  EveryStoreAnswered
CHECK_DEADLOCK FALSE
