SPECIFICATION FairSpec
CONSTANTS
  k1 = k1
  k2 = k2
  c1 = c1
  c2 = c2
  c3 = c3
  Keys = {k1, k2}
  Calls = {c1, c2}
  MaxSessions = 2
  MayTimeOut = FALSE
PROPERTY
  AllSavedInTheEnd
CHECK_DEADLOCK FALSE
