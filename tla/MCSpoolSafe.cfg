SPECIFICATION Spec
CONSTANTS
  Rec = Rec
  w1 = w1
  w2 = w2
  Procs = {Rec, w1, w2}
  MaxStalls = 0
  PromptBreak = TRUE
  MaxSpans = 2
  EndOf <- InOrder
  MaxFaults = 0
  MaxCrashes = 1
  MaxAttempts = 2
  MayWedge = TRUE
  Heartbeats = FALSE
  MaySuspend = FALSE
  BootReliable = TRUE
SYMMETRY WorkerSymmetry
INVARIANTS
  TypeOK
  CommitMutex
  NoSpanLost
  FinishedIsComplete
  NeverStranded
  RootEndsLast
CHECK_DEADLOCK FALSE
