SPECIFICATION Spec
CONSTANTS
  a1 = a1
  a2 = a2
  c1 = c1
  c2 = c2
  c3 = c3
  k1 = k1
  NoCall = NoCall
  NoAccount = NoAccount
  Accounts <- OneAccount
  Stored <- NoneStored
  Keys <- OneKey
  Calls <- ThreeCalls
  Target <- AllOnOne
  Env <- CoreUse
  MaxEdits = 3
  MaxRows = 2
  MaxLocks = 2
  MaxSleeps = 2
SYMMETRY CallSymmetry
INVARIANTS
  TypeOK
  OnePendingStore
  NoDanglingTask
  OkMeansSavedOrLost
  ErrorMeansNotWritten
  PendingIsGuarded
  MemoryMatchesDatabase
  NoOrphanSettings
  DeletedIsTrue
  CreatedIsAnnounced
PROPERTIES
  NoStaleOverwrite
  KeepsContract
CHECK_DEADLOCK FALSE
