\* Every list of up to three entries, and every walk of up to three names.
SPECIFICATION Spec
CONSTANTS
    Archives <- MCArchives
    Names = {"a", "b", "."}
    None = None
    Err = Err
    EPOCH_DIFF_100NS = 5
    MaxDepth = 3
INVARIANTS
    TypeOK
    NodesMatchEntries
    IsATree
    WalkArrives
    OneClock
\* A walk ends.
CHECK_DEADLOCK FALSE
