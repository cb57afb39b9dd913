SPECIFICATION ClusterSpec
CONSTANTS
  NoEntry = NoEntry
  Node = {1, 2}
  Capacity <- MCCapacity
  Replica = {1, 2}
  Parent = {1}
  ParentOf <- MCParentOf
  CpuScale = 1
  MaxUnits = 2
  Request <- MCRequest
  Hash = {1, 2}
  RequestOf <- MCRequestOf
  Index <- MCIndex
  Workload <- MCWorkload
  InitialStore <- MCInitialStore
  Scenario <- OperateScenario
INVARIANT ClusterTypeOK
PROPERTIES BudgetKept Available
