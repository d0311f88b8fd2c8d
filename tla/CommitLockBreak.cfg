\* What the code does: the stat that finds an old lock and the rename are two calls.
SPECIFICATION LockSpec
CONSTANTS
  Procs = {p1, p2, p3}
  MaxStalls = 0
  PromptBreak = FALSE
INVARIANT
  CommitMutex
