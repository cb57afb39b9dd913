SPECIFICATION Spec
CONSTANTS
  None = None
  Run = {r1, r2}
  Stop = {s1, s2}
  MaxCrashes = 1
CHECK_DEADLOCK FALSE
INVARIANTS ContainerTypeOK NothingLeftAtRest ReturnedLeavesNothing
PROPERTY CallsSettle
