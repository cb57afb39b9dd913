SPECIFICATION NetworkSpec
CONSTANTS
  NoEntry = NoEntry
  Node = {1, 2}
  Capacity <- MCCapacity
  Blocks = 2
  Gone = {}
  MaxEvents = 7
  ShutDownFirst = FALSE
CHECK_DEADLOCK FALSE
PROPERTY RoutesConverge
