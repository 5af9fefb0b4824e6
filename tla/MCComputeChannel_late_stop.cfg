SPECIFICATION Spec
CONSTANTS
  Programs <- Stopped
  QueueLen = 2
  EarlyStop = FALSE
  MaxCalls = 1
PROPERTY AnyStopAcked
CHECK_DEADLOCK FALSE
