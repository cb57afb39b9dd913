SPECIFICATION Spec
CONSTANTS
  None = None
  Run = {r1}
  Stop = {s1}
  MaxCrashes = 0
CHECK_DEADLOCK FALSE
INVARIANT StoppedIsGone
