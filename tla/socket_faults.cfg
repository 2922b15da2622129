CONSTANTS
  Subs = {s1}
  NoSub = NoSub
  MaxGen = 1
  MaxConn = 2
  MaxWire = 3
  MaxEvents = 0
  ReconnectAttempts = 1
  EscalationThreshold = 1
  Faults = {"outage", "reject", "refresh", "crash", "abandon"}
SPECIFICATION FairSpec
INVARIANTS
  TypeOK
  OneTerminal
  RouteIsInverse
  ClosedForGood
PROPERTIES
  ReconnectCoversAll
  ThreadsStop
  KeepsPromise
CHECK_DEADLOCK FALSE
