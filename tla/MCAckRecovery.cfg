SPECIFICATION FairSpec
CONSTANTS
  u1 = u1
  s1 = s1
  s2 = s2
  m1 = m1
  m2 = m2
  User = {u1}
  Socket = {s1, s2}
  Owner <- MCOwner
  Message = {m1, m2}
  Recipients <- MCRecipients
  Time <- MCTime
INVARIANTS
  TypeOK
  Recoverable
  AckedIsOver
PROPERTIES
  MailMovesForward
  RecoveredOnConnect
CHECK_DEADLOCK FALSE
