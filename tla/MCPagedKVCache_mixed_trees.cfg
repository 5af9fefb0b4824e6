SPECIFICATION Spec
CONSTANTS
    NumSeqs = 2
    NumPages = 2
    PageSize = 2
    MaxAppend = 4
    MaxBatch = 2
    MaxCopies = 1
    Windows <- NoWindow
    Trees <- PairTrees
    Liberties <- MixesTrees
PROPERTY SequencesIndependent
VIEW View
CHECK_DEADLOCK FALSE
