SPECIFICATION MCSpec
CONSTANTS
  mail = mail
  global = global
  authMethod = authMethod
  user = user
  host = host
  password = password
  oauth = oauth
  Services <- OneService
  Global = global
  Keys <- ThreeKeys
  Values <- TwoValues
  NoValue = NoValue
  Template <- Defaulted
  Prefixes <- SomePrefix
  Method = authMethod
  Parameters <- UserOnly
INVARIANTS
  TypeOK
  IterationMatchesLookups
  ParametersMatchLookups
CHECK_DEADLOCK FALSE
