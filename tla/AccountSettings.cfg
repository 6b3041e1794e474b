SPECIFICATION Spec
CONSTANTS
  mail = mail
  global = global
  Services <- OneService
  Global = global
  Env <- PlainUse
  MaxPending = 2
  MaxWatches = 1
  MaxFollowers = 1
INVARIANTS
  TypeOK
  SettingsMatchDatabase
  FieldsMatchDatabase
  ColumnsMatchRows
  FollowersAreRight
  DeletionIsSeen
PROPERTIES
  ServiceWatchesAreTold
CHECK_DEADLOCK FALSE
