SPECIFICATION MCSpec
CONSTANTS
  None = None
  top = top
  sub = sub
  leaf = leaf
  twin = twin
  box = box
  lid = lid
  k1 = k1
  k2 = k2
  k3 = k3
  Folder = {top, sub, leaf, twin, box, lid}
  Parent <- MCParent
  Request = {k1, k2, k3}
  MaxFaults = 1
INVARIANTS
  TypeOK
  FlagsAreRows
  NoneLiveBelow
  TombsAreGone
CONSTRAINT OneTree
SYMMETRY Symmetry
CHECK_DEADLOCK FALSE
