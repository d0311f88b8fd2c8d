SPECIFICATION Spec
CONSTANTS
  k1 = k1
  k2 = k2
  c1 = c1
  c2 = c2
  c3 = c3
  Keys = {k1, k2}
  Calls = {c1, c2, c3}
  MaxSessions = 3
  MayTimeOut = TRUE
SYMMETRY RouterSymmetry
INVARIANTS
  RouterTypeOK
  OwnedOnce
  BusyIsOpen
  NothingDropped
  NoneOpenedLate
CHECK_DEADLOCK FALSE
