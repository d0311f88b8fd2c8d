SPECIFICATION Spec
CONSTANTS
  Rec = Rec
  w1 = w1
  w2 = w2
  Procs = {Rec, w1}
  MaxStalls = 0
  PromptBreak = TRUE
  MaxSpans = 2
  EndOf <- Overtaken
  MaxFaults = 1
  MaxCrashes = 1
  MaxAttempts = 2
  MayWedge = FALSE
  Heartbeats = TRUE
  MaySuspend = TRUE
  BootReliable = TRUE
INVARIANTS
  GateHonest
  CaptureInv
PROPERTIES
  ImplementsCapture
CHECK_DEADLOCK FALSE
