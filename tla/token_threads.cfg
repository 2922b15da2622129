CONSTANTS
  Threads = {t1, t2}
  NoThread = NoThread
  Flavours = {FALSE, TRUE}
  MaxConcurrent = 1
  Writers = {t1}
  MaxTokens = 4
  Attempts = 2
  SetsCookie = TRUE
  Faults = {"network", "login", "disk", "cancel"}
SPECIFICATION FairSpec
INVARIANTS
  TypeOK
  ReloginOnlyIfDead
  CookieIsToken
  RejectedNotCached
  ReplayRenews
  WriteAtMostOnce
PROPERTIES
  RequestsEnd
CHECK_DEADLOCK FALSE
