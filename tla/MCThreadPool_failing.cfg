SPECIFICATION Spec
CONSTANTS
  NumWorkers = 2
  MinUsed = 1
  MaxBarriers = 0
  MaxLaunches = 1
  MaxConfigs = 0
INVARIANT LaunchReports
CHECK_DEADLOCK FALSE
