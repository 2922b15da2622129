CONSTANTS
  OpLists <- MCOpLists
  Concurrency = {1, 2, 3}
  PlanCases <- MCPlanCases
  MaxWrites = 2
SPECIFICATION PushSpec
INVARIANTS
  PushTypeOK
  ParentsFirst
  OnlySubtreesSkipped
  SameAsSync
  PlanHeld
PROPERTIES
  PushEnds
CHECK_DEADLOCK FALSE
