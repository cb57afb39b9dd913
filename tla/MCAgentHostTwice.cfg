SPECIFICATION HostSpec
CONSTANTS
  a = a
  b = b
  Id = {a, b}
  Port = {1, 2, 3}
  Spec <- MCSpec
  Call = {c1, c2}
  None = None
  NfsSource = {TRUE, FALSE}
  Failure = {}
  MaxFailures = 0
  MaxRestarts = 1
  MaxCalls = 5
  Overlap = TRUE
CHECK_DEADLOCK FALSE
INVARIANT NoRuleTwice
