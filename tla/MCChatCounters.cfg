SPECIFICATION Spec
CONSTANTS
  None = None
  u1 = u1
  u2 = u2
  m1 = m1
  m2 = m2
  r1 = r1
  r2 = r2
  r3 = r3
  User = {u1, u2}
  Message = {m1, m2}
  Request = {r1, r2, r3}
  Slices <- MCSlices
  MaxSeen = 2
  MaxFaults = 1
INVARIANTS
  TypeOK
  UnreadIsExact
  CountIsExact
  UsageIsExact
  DeletedIsGone
SYMMETRY Symmetry
CHECK_DEADLOCK FALSE
