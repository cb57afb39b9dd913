SPECIFICATION HostSpec
CONSTANTS
  a = a
  b = b
  Id = {a, b}
  Port = {1, 2, 3}
  Spec <- MCSpec
  Call = {c1, c2}
  None = None
  NfsSource = {TRUE, FALSE}
  Failure = {"iptables", "dir", "pull", "stop"}
  MaxFailures = 2
  MaxRestarts = 1
  MaxCalls = 5
  Overlap = FALSE
CHECK_DEADLOCK FALSE
INVARIANTS HostTypeOK RunningPortsOpen
PROPERTY NoOtherLeak
