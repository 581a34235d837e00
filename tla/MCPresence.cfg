SPECIFICATION FairSpec
CONSTANTS
  u1 = u1
  h1 = h1
  h2 = h2
  s1 = s1
  s2 = s2
  s3 = s3
  User = {u1}
  Server = {h1, h2}
  Socket = {s1, s2, s3}
  Owner <- MCOwner
  Home <- MCHome
INVARIANTS
  TypeOK
  FlagIsPresence
  ListCoversOnline
PROPERTIES
  LeftIsOffline
CHECK_DEADLOCK FALSE
