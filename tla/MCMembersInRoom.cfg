SPECIFICATION Spec
CONSTANTS
  c1 = c1
  u1 = u1
  u2 = u2
  h1 = h1
  s1 = s1
  s2 = s2
  r1 = r1
  r2 = r2
  Channel = {c1}
  User = {u1, u2}
  Server = {h1}
  Socket = {s1, s2}
  Owner <- MCOwner
  Home <- MCHome
  Request = {r1, r2}
  MaxId = 2
INVARIANTS
  MembersAreInRoom
CHECK_DEADLOCK FALSE
