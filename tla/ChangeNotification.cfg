SPECIFICATION Spec
CONSTANTS
  m1 = m1
  m2 = m2
  mail = mail
  global = global
  name = name
  user = user
  Managers <- TwoManagers
  Types <- TwoTypes
  Global = global
  Keys <- TwoKeys
  TypeOf <- KeyTypes
  Listens <- ListenToAll
  Window = 3
  Env <- SplitOnly
  MaxStores = 3
  MaxLoads = 1
SYMMETRY ManagerSymmetry
INVARIANTS
  TypeOK
  CachesConverge
  DeletedAreDropped
  EveryoneIsTold
  OnceWithinWindow
  NothingLeftPending
CHECK_DEADLOCK FALSE
