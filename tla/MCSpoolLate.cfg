SPECIFICATION Spec
CONSTANTS
  Rec = Rec
  w1 = w1
  w2 = w2
  Procs = {Rec, w1, w2}
  MaxStalls = 0
  PromptBreak = TRUE
  MaxSpans = 2
  EndOf <- InOrder
  MaxFaults = 0
  MaxCrashes = 0
  MaxAttempts = 2
  MayWedge = TRUE
  Heartbeats = FALSE
  MaySuspend = FALSE
  BootReliable = TRUE
PROPERTY
  FinishedSurvives
CHECK_DEADLOCK FALSE
