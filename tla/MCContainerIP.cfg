SPECIFICATION Spec
CONSTANTS
  None = None
  Run = {r1, r2}
  Stop = {s1}
  MaxCrashes = 0
CHECK_DEADLOCK FALSE
INVARIANT RunningHasIP
