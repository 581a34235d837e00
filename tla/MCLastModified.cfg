SPECIFICATION FairSpec
CONSTANTS
  u1 = u1
  u2 = u2
  own = own
  put = put
  shared = shared
  User = {u1, u2}
  Update = {own, put, shared}
  Kind <- MCKind
  Reaches <- MCReaches
  Date <- MCDate
  MaxDate = 2
  Limit = 1
  MaxFaults = 1
INVARIANTS
  TypeOK
  DoneIsRecorded
  ToldOrWaiting
PROPERTIES
  NeverBack
  Told
CHECK_DEADLOCK FALSE
