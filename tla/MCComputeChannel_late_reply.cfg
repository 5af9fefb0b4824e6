SPECIFICATION Spec
CONSTANTS
  Programs <- Retrying
  QueueLen = 2
  EarlyStop = FALSE
  MaxCalls = 3
INVARIANT AnswersMatch
CHECK_DEADLOCK FALSE
