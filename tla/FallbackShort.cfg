\* A compressed entry that decodes to fewer bytes than its header claims.
SPECIFICATION Spec
CONSTANTS
    Metas <- ShortMetas
    Requests <- MCRequests
    BlockLens = {0, 1, 2, 4}
    Word = 64
INVARIANT NoPanic
CHECK_DEADLOCK FALSE
