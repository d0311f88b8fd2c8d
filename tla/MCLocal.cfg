SPECIFICATION FairSpec
CONSTANTS
  a = a
  b = b
  c = c
  v1 = v1
  v2 = v2
  s1 = s1
  t1 = t1
  t2 = t2
  Servers = {s1, s2}
  DefaultServer = s1
  MaxKeys = 2
  MaxSent = 1
  Tabs = {a, b, c}
  Viewers = {v1, v2}
  ViewerOf <- TwoOfThree
  MaxRevisions = 2
  MaxDraftFaults = 1
INVARIANTS
  LocalTypeOK
  KeyOnlyToIssuer
  PagesToldTruth
  ReachesOwn
  FindsTheNewest
PROPERTIES
  PendingEnds
  EndsInLink
  ImplementsRegister
  SomeSaveLands
  EveryShareHasItsTurn
CHECK_DEADLOCK FALSE
