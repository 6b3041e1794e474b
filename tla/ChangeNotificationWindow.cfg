SPECIFICATION Spec
CONSTANTS
  m1 = m1
  m2 = m2
  mail = mail
  global = global
  name = name
  user = user
  Managers <- TwoManagers
  Types <- TwoTypes
  Global = global
  Keys <- TwoKeys
  TypeOf <- KeyTypes
  Listens <- ListenToAll
  Window = 3
  Env <- SplitOnly
  MaxStores = 4
  MaxLoads = 0
SYMMETRY ManagerSymmetry
INVARIANTS
  ProcessedOnce
CHECK_DEADLOCK FALSE
