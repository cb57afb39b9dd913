SPECIFICATION ClusterSafetySpec
CONSTANTS
  NoEntry = NoEntry
  Node = {1, 2}
  Capacity <- MCCapacity
  Replica = {1, 2}
  Parent = {1}
  ParentOf <- MCParentOf
  CpuScale = 1
  MaxUnits = 2
  Request <- GrownRequest
  Hash = {1, 2}
  RequestOf <- GrownRequestOf
  Index <- MCIndex
  Workload <- MCWorkload
  InitialStore <- MCInitialStore
  Scenario <- GrowScenario
PROPERTY BudgetKept
