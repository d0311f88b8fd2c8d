SPECIFICATION Spec
CONSTANTS
  m1 = m1
  m2 = m2
  ann = ann
  bob = bob
  s1 = s1
  text = text
  bad = bad
SYMMETRY AccountSymmetry
INVARIANTS
  AccountTypeOK
  KeysFollowTheDevices
  BackedUpStays
  LinkKeysKept
  OnlyAsAgreed
PROPERTIES
  ImplementsAccount
  NothingForgotten
CHECK_DEADLOCK FALSE
