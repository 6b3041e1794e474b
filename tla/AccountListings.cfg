SPECIFICATION MCSpec
CONSTANTS
  a1 = a1
  a2 = a2
  m1 = m1
  m2 = m2
  s1 = s1
  s2 = s2
  mail = mail
  chat = chat
  google = google
  env = env
  user = user
  system = system
  Managers <- TwoManagers
  ReadOnly = {}
  MaxTries = 1
  EnvPlace = env
  UserPlace = user
  SystemPlaces <- OneSystem
  NoPlace = NoPlace
  Services <- OneService
  Plain = {}
  WithEnv = {}
  Aborting = {}
  NoService = NoService
  Installed <- SomePlaces
  Accounts = {a1, a2}
  AnyAccount = AnyAccount
  Types <- TwoTypes
  AnyType = AnyType
  TypeOf <- MailAndChat
  ProviderOf <- OneProvider
  ServiceType <- MailAndAny
  AppServices = {s1}
  AppTypes = {chat}
INVARIANTS
  TypeOK
  EnabledListingIsRight
CHECK_DEADLOCK FALSE
