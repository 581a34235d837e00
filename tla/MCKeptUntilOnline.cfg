SPECIFICATION Spec
CONSTANTS
  u1 = u1
  s1 = s1
  s2 = s2
  m1 = m1
  m2 = m2
  m3 = m3
  k1 = k1
  User = {u1}
  Socket = {s1, s2}
  Owner <- MCOwner
  Message = {m1, m2}
  Recipients <- MCRecipients
  AtLeastOnce = {m1, m2}
  Persistent = {}
  Delayed = {}
  Update = {}
INVARIANTS
  KeptUntilOnline
CHECK_DEADLOCK FALSE
