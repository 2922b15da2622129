CONSTANTS
  Subs = {s1}
  NoSub = NoSub
  MaxGen = 3
  MaxConn = 3
  MaxWire = 3
  MaxEvents = 0
  ReconnectAttempts = 1
  EscalationThreshold = 2
  Faults = {"crash"}
SPECIFICATION Spec
INVARIANTS
  OpenSocketIsServed
CHECK_DEADLOCK FALSE
