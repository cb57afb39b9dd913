SPECIFICATION Spec
CONSTANTS
  NoEntry = NoEntry
  Node = {1, 2}
  Capacity <- MCCapacity
  Replica = {1, 2, 3}
  Parent = {1, 2}
  ParentOf <- MCParentOf
  CpuScale = 4
  MaxUnits = 2
  Request <- MCRequest
CHECK_DEADLOCK FALSE
INVARIANTS TypeOK MapsAgree
PROPERTIES CapacityKept RebalanceSettles RebalanceOvercommitsOnlyStuck
