SPECIFICATION CacheSpec
CONSTANTS
  u1 = u1
  h1 = h1
  h2 = h2
  s1 = s1
  s2 = s2
  User = {u1}
  Server = {h1, h2}
  Socket = {s1, s2}
  Owner <- MCOwner
  Home <- MCHome
INVARIANTS
  CacheTypeOK
  CacheIsLive
PROPERTIES
  RemovedStaysRemoved
CHECK_DEADLOCK FALSE
