SPECIFICATION Spec
CONSTANTS
  HeaderSize = 1
  PoolUnits = 12
  Clients <- Careful
  MaxModules = 1
  MaxModels = 1
  SegBlocks = 2
  ConstBlocks = 1
  ArrayBlocks = 1
INVARIANTS TypeOK ModulesIntact ModelsIntact ConstantsIntact EntryLive RegsLive EmbeddedOwned
