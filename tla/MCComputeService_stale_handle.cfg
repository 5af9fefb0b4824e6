SPECIFICATION Spec
CONSTANTS
  HeaderSize = 1
  PoolUnits = 12
  Clients <- Stale
  MaxModules = 4
  MaxModels = 4
  SegBlocks = 2
  ConstBlocks = 1
  ArrayBlocks = 1
INVARIANT RanAsked
