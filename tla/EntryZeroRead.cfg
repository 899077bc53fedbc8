\* Undamaged entries, read with an empty buffer now and then.
SPECIFICATION Spec
CONSTANTS
    Byte <- MCByte
    Entries <- PlainEntries
    Summaries <- OneSegment
    BufSizes = {0, 3}
    MaxBuffered = 3
INVARIANT IntactReadsClean
