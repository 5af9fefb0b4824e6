SPECIFICATION Spec
CONSTANTS
  Programs <- Stopped
  QueueLen = 2
  EarlyStop = TRUE
  MaxCalls = 1
PROPERTY ShutdownAcked
CHECK_DEADLOCK FALSE
