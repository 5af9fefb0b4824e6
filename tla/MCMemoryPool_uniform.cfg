SPECIFICATION Spec
CONSTANTS
  HeaderSize = 2
  Base = 1
  Size = 28
  Sizes = {1, 5}
  Alignments = {4}
  Memories <- AnyMemory
  MaxAllocs = 4
INVARIANTS TypeOK LiveDisjoint HeaderPrecedesData EmptyMeansWhole BlocksTile
