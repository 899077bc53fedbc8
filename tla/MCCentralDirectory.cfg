\* Archives as written, in every combination of what may surround them, and
\* single damages to eight of them.
SPECIFICATION Spec
CONSTANTS
    Archives <- MCArchives
    None = None
    U16_SENTINEL = 1000
    U32_SENTINEL = 60000
    Max64 = 300000
    MAX_ENTRIES = 5
INVARIANTS
    TypeOK
    WrittenIsRead
    ParserStaysInside
    ListsUpToRefused
\* The client returns.
CHECK_DEADLOCK FALSE
