SPECIFICATION Spec
CONSTANTS
  NoEntry = NoEntry
  Node = {1, 2}
  Capacity <- MCFixedCapacity
  Replica = {1, 2, 3}
  Parent = {1, 2}
  ParentOf <- MCParentOf
  CpuScale = 2
  MaxUnits = 3
  Request <- MCFixedRequest
CHECK_DEADLOCK FALSE
PROPERTY OvercommitOnlyOnRejoin
