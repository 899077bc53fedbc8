\* Every kind of entry, opened with and without a password, read with buffers
\* of 1 and of 3 bytes.
SPECIFICATION LiveSpec
CONSTANTS
    Byte <- MCByte
    Entries <- MCEntries
    Summaries <- MCSummaries
    BufSizes = {1, 3}
    MaxBuffered = 2
INVARIANTS
    TypeOK
    CleanMeansVerified
    AuthenticatedAtEof
    IntactReadsClean
    ReadsOnlyWhatItCanResolve
    StrongHeaderInside
PROPERTIES
    EofIsFinal
    EveryReadEnds
