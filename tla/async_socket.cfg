CONSTANTS
  Subs = {s1, s2}
  NoSub = NoSub
  MaxConn = 3
  MaxWire = 3
  MaxWaiting = 2
  ReconnectAttempts = 1
  EscalationThreshold = 1
  Cases <- MCCases
SPECIFICATION Spec
INVARIANTS
  TypeOK
  RouteIsInverse
  NoLeakedConnection
  SurvivorsHeard
  LockIsReleased
  NobodyParked
PROPERTIES
  KeepsPromise
SYMMETRY SubSymmetry
CHECK_DEADLOCK FALSE
