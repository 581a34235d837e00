SPECIFICATION Spec
CONSTANTS
  r1 = r1
  r2 = r2
  s1 = s1
  i1 = i1
  Reset = {r1, r2}
  Sort = {s1}
  Item = {i1}
  Moves <- MCMoves
  Time <- MCTime
  MaxTime = 1
  MaxFaults = 1
INVARIANTS
  TypeOK
  OneReset
  StaleOnlyIfEarly
  KeyHasJob
  DoneMeansDone
PROPERTIES
  OnlyForward
SYMMETRY Symmetry
CHECK_DEADLOCK FALSE
