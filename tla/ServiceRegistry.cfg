SPECIFICATION MCSpec
CONSTANTS
  m1 = m1
  m2 = m2
  s1 = s1
  s2 = s2
  env = env
  user = user
  system = system
  Managers <- TwoManagers
  ReadOnly = {}
  MaxTries = 2
  EnvPlace = env
  UserPlace = user
  SystemPlaces <- OneSystem
  NoPlace = NoPlace
  Services <- TwoServices
  Plain = {s2}
  WithEnv = {m1}
  Aborting = {m2}
  NoService = NoService
  Installed <- ManyPlaces
INVARIANTS
  ServicesTypeOK
  OpenMeansComplete
  IdsMatchRows
PROPERTIES
  TypesAreStable
CHECK_DEADLOCK FALSE
