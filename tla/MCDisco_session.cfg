SPECIFICATION Spec
CONSTANTS
  NumWorkers = 2
  PipeLen = 1
  Sessions <- SmallSessions
INVARIANTS TypeOK OperandsMatch HostArraysMatch PeekExclusive RepliesMatch
PROPERTIES OperationReturns DestroyReturns
CHECK_DEADLOCK FALSE
