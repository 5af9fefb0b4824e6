SPECIFICATION Spec
CONSTANTS
    NumSeqs = 2
    NumPages = 3
    PageSize = 2
    MaxAppend = 2
    MaxBatch = 1
    MaxCopies = 1
    Windows <- PageWindow
    Trees <- NoTree
    Liberties <- WindowForks
INVARIANT PinnedAsAsked
VIEW View
CHECK_DEADLOCK FALSE
