SPECIFICATION MCSpec
CONSTANTS
  t1 = t1
  t2 = t2
  c1 = c1
  c2 = c2
  s1 = s1
  Processes <- ToolsAndClients
  ReadOnly = {t2, c1, c2}
  Connected = {t2, c1}
  Services = {s1}
  Global = Global
  MaxRows = 2
  MaxSent = 2
  Tools = {t1, t2}
  Clients = {c1, c2}
INVARIANTS
  TypeOK
  NoInheritedSettings
  QuietMeansGone
CHECK_DEADLOCK FALSE
