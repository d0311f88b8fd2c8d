SPECIFICATION Spec
CONSTANTS
  MaxFrames = 3
  MaxFrameLines = 2
  FirstDays <- YearEnds
  MaxDays = 400
INVARIANTS
  ToldOnce
  CallsAnswered
  OwnModelAndTimes
  AgentsUnderTheirCalls
  WholeLinesRead
PROPERTIES
  SpansStay
CHECK_DEADLOCK FALSE
