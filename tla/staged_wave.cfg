CONSTANTS
  OpLists <- MCOpLists
  Concurrency = {1}
  PlanCases <- MCPlanCases
  MaxWrites = 0
SPECIFICATION PushSpec
INVARIANTS
  FailingWaveStops
CHECK_DEADLOCK FALSE
