SPECIFICATION Spec
CONSTANTS
    NumSeqs = 2
    NumPages = 3
    PageSize = 2
    MaxAppend = 3
    MaxBatch = 1
    MaxCopies = 1
    Windows <- NoWindow
    Trees <- SmallTrees
    Liberties <- TreeRounds
PROPERTY SequencesIndependent
VIEW View
CHECK_DEADLOCK FALSE
