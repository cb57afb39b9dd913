SPECIFICATION IngressSpec
CONSTANTS
  a = a
  b = b
  h = h
  App = {a, b}
  Host = {h}
  Blank = Blank
  NoEntry = NoEntry
  Manifest <- MCManifest
  Directory <- MCDirectory
  Operator = {o1, o2}
  Address = {1, 2}
  MaxApplies = 3
  Agent = {g}
  MaxRestarts = 0
CHECK_DEADLOCK FALSE
INVARIANT RefsResolve
