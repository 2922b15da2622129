CONSTANTS
  Subs = {s1, s2}
  NoSub = NoSub
  MaxGen = 3
  MaxConn = 3
  MaxWire = 2
  MaxEvents = 1
  ReconnectAttempts = 1
  EscalationThreshold = 1
  Faults = {"outage", "reject"}
SPECIFICATION Spec
INVARIANTS
  NoLeakedConnection
  OpenSocketIsServed
  ServedUnlessOvertaken
  GapPrecedesItsEvents
SYMMETRY SubSymmetry
CHECK_DEADLOCK FALSE
