SPECIFICATION IngressSpec
CONSTANTS
  a = a
  b = b
  h = h
  App = {a, b}
  Host = {h}
  Blank = Blank
  NoEntry = NoEntry
  Manifest <- MCManifest
  Directory <- MCDirectory
  Operator = {o}
  Address = {1, 2}
  MaxApplies = 3
  Agent = {g}
  MaxRestarts = 1
CHECK_DEADLOCK FALSE
INVARIANTS IngressTypeOK RefsResolve AppliedExactly
PROPERTIES AllOrNothing NoLiveIngressSkipped ProxiesConverge
