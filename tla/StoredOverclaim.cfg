\* A method-0 entry whose uncompressed size exceeds its compressed size.
SPECIFICATION Spec
CONSTANTS
    Metas <- OverclaimingMetas
    Requests <- MCRequests
    BlockLens = {0, 1, 2, 4}
    Word = 64
INVARIANT NeverWrongBytes
CHECK_DEADLOCK FALSE
