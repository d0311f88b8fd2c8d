SPECIFICATION Spec
CONSTANTS
  Rec = Rec
  w1 = w1
  w2 = w2
  Procs = {Rec, w1}
  MaxStalls = 0
  PromptBreak = TRUE
  MaxSpans = 2
  EndOf <- InOrder
  MaxFaults = 0
  MaxCrashes = 0
  MaxAttempts = 2
  MayWedge = FALSE
  Heartbeats = FALSE
  MaySuspend = TRUE
  BootReliable = FALSE
PROPERTY
  FinishedKeepsSpans
CHECK_DEADLOCK FALSE
