\* Index building over every way the inflater may cut its work, and reads.
SPECIFICATION LiveSpec
CONSTANTS
    Streams <- MCStreams
    Requests <- MCRequests
    Intervals = {0, 2}
    IO_CHUNK = 2
    max_decode = 6
    max_index_bytes = 3
    BlobLen = 1
    Junk = Junk
INVARIANTS
    TypeOK
    CheckpointsResume
    ReadAtExact
    SkipIsBounded
PROPERTIES
    EveryCallEnds
\* An entry whose index could not be built is not read.
CHECK_DEADLOCK FALSE
