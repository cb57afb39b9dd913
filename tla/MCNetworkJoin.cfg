SPECIFICATION NetworkSpec
CONSTANTS
  NoEntry = NoEntry
  Node = {1, 2, 3}
  Capacity <- MCCapacity
  Blocks = 2
  Gone = {3}
  MaxEvents = 6
  ShutDownFirst = TRUE
CHECK_DEADLOCK FALSE
INVARIANTS NetworkTypeOK NoRouteToSelf
PROPERTIES SubnetsAreLeases AgentsComeUp RoutesConverge
