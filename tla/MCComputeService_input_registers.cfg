SPECIFICATION Spec
CONSTANTS
  HeaderSize = 1
  PoolUnits = 12
  Clients <- Inferring
  MaxModules = 4
  MaxModels = 4
  SegBlocks = 2
  ConstBlocks = 1
  ArrayBlocks = 1
INVARIANT RegsOnHeap
