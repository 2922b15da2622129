CONSTANTS
  MaxPending = 2
  MaxArrivals = 5
  MaxControls = 2
SPECIFICATION Spec
INVARIANTS
  TypeOK
  EventsBounded
  EveryEventCounted
  MarkerInPlace
PROPERTIES
  ConsumerReleased
CHECK_DEADLOCK FALSE
