SPECIFICATION Safety
CONSTANTS
  NumWorkers = 2
  PipeLen = 1
  Sessions <- ShutdownSession
INVARIANTS WritesSucceed
CHECK_DEADLOCK FALSE
