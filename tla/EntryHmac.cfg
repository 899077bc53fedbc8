\* An AE-2 entry whose deflate stream ends before its ciphertext.
SPECIFICATION Spec
CONSTANTS
    Byte <- MCByte
    Entries <- Ae2Entries
    Summaries <- OneSegment
    BufSizes = {3}
    MaxBuffered = 3
INVARIANT HmacVerifiedAtEof
