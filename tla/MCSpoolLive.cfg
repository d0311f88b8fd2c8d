\* The lock as it is: holders may stall, a breaker may be overtaken.
SPECIFICATION FairSpec
CONSTANTS
  Rec = Rec
  w1 = w1
  w2 = w2
  Procs = {Rec, w1}
  MaxStalls = 1
  PromptBreak = FALSE
  MaxSpans = 2
  EndOf <- InOrder
  MaxFaults = 1
  MaxCrashes = 1
  MaxAttempts = 2
  MayWedge = FALSE
  Heartbeats = FALSE
  MaySuspend = FALSE
  BootReliable = TRUE
PROPERTIES
  AsideOnlyRefused
  EventuallySettled
CHECK_DEADLOCK FALSE
