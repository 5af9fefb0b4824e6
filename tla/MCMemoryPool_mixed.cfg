SPECIFICATION Spec
CONSTANTS
  HeaderSize = 2
  Base = 0
  Size = 20
  Sizes = {1, 6}
  Alignments = {1, 4}
  Memories <- CleanMemory
  MaxAllocs = 4
INVARIANT HeaderPrecedesData
