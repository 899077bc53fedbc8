SPECIFICATION LiveSpec
CONSTANTS
    Metas <- MCMetas
    Requests <- MCRequests
    BlockLens = {0, 1, 2, 4}
    Word = 64
INVARIANTS
    TypeOK
    BlocksCover
    ReadAtIsSlice
    ReadsStayInSpan
PROPERTIES
    WalkAndReadEnd
\* An entry that could not be opened is not read.
CHECK_DEADLOCK FALSE
