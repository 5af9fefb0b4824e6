SPECIFICATION Spec
CONSTANTS
  NumWorkers = 2
  MinUsed = 1
  MaxBarriers = 1
  MaxLaunches = 2
  MaxConfigs = 1
INVARIANTS TypeOK QueueNotEmpty LaunchComplete BarrierSeparates
PROPERTIES LaunchReturns KillReturns
CHECK_DEADLOCK FALSE
