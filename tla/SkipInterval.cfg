\* How much a read inflates before its first byte; the interval is a multiple of
\* the working buffer, as the code's constants are.
SPECIFICATION Spec
CONSTANTS
    Streams <- UnevenStreams
    Requests <- UnevenRequests
    Intervals = {6}
    IO_CHUNK = 3
    max_decode = 8
    max_index_bytes = 3
    BlobLen = 1
    Junk = Junk
INVARIANTS
    SkipWithinInterval
\* An entry whose index could not be built is not read.
CHECK_DEADLOCK FALSE
