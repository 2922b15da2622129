CONSTANTS
  Threads = {t1, t2}
  NoThread = NoThread
  Flavours = {FALSE}
  MaxConcurrent = 1
  Writers = {}
  MaxTokens = 3
  Attempts = 1
  SetsCookie = TRUE
  Faults = {}
SPECIFICATION Spec
INVARIANTS
  EveryReplayRenews
CHECK_DEADLOCK FALSE
