CONSTANTS
  Subs = {s1}
  NoSub = NoSub
  MaxGen = 3
  MaxConn = 2
  MaxWire = 3
  MaxEvents = 0
  ReconnectAttempts = 1
  EscalationThreshold = 2
  Faults = {"outage"}
SPECIFICATION Spec
INVARIANTS
  EveryConsumerServed
CHECK_DEADLOCK FALSE
