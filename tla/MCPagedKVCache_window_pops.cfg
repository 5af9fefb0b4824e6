SPECIFICATION Spec
CONSTANTS
    NumSeqs = 2
    NumPages = 3
    PageSize = 2
    MaxAppend = 3
    MaxBatch = 1
    MaxCopies = 1
    Windows <- SmallWindow
    Trees <- NoTree
    Liberties <- WindowPops
PROPERTY SequencesIndependent
VIEW View
CHECK_DEADLOCK FALSE
