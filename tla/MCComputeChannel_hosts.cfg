SPECIFICATION Spec
CONSTANTS
  Programs <- Careful
  QueueLen = 2
  EarlyStop = FALSE
  MaxCalls = 5
INVARIANTS TypeOK OneInFlight AnswersMatch AckInOrder
PROPERTIES CallSpec CallReturns ShutdownAcked
CHECK_DEADLOCK FALSE
