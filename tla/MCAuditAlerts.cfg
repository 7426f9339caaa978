SPECIFICATION Spec
CONSTANTS
  Sessions = {1}
  Cap = 1
  RapidCalls = 1
  Minute = 2
  Day = 1
  LastTick = 1
  MaxEvents = 2
  MaxCost = 1
INVARIANT AlwaysSucceeds
CHECK_DEADLOCK FALSE
