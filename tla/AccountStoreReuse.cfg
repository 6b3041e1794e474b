SPECIFICATION Spec
CONSTANTS
  a1 = a1
  a2 = a2
  c1 = c1
  c2 = c2
  c3 = c3
  k1 = k1
  NoCall = NoCall
  NoAccount = NoAccount
  Accounts <- OneAccount
  Stored <- NoneStored
  Keys <- OneKey
  Calls <- ThreeCalls
  Target <- AllOnOne
  Env <- ReuseUse
  MaxEdits = 3
  MaxRows = 2
  MaxLocks = 1
  MaxSleeps = 1
SYMMETRY CallSymmetry
INVARIANTS
  OnePendingStore
CHECK_DEADLOCK FALSE
