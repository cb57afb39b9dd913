SPECIFICATION HostSpec
CONSTANTS
  a = a
  b = b
  Id = {a, b}
  Port = {1, 2, 3}
  Spec <- MCSpec
  Call = {c1, c2}
  None = None
  NfsSource = {TRUE}
  Failure = {"mount"}
  MaxFailures = 1
  MaxRestarts = 1
  MaxCalls = 5
  Overlap = FALSE
CHECK_DEADLOCK FALSE
INVARIANT VolumesOnShare
