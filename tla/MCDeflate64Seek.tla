---------------------------- MODULE MCDeflate64Seek ----------------------------
EXTENDS Deflate64Seek

\* Three units that decode to five bytes, the first a header; damaged or odd in
\* one way each.
Whole ==
    [ data_start |-> 2, compressed_size |-> 3, uncompressed_size |-> 5, file_len |-> 6,
      avail |-> <<0, 2, 5>>, end_at |-> 3, err_at |-> 9,
      saves |-> {"current", "earlier", "none"} ]

MCStreams ==
    { Whole,
      [Whole EXCEPT !.file_len = 4],                            \* the file is cut
      [Whole EXCEPT !.compressed_size = 2],                     \* the span is cut
      [Whole EXCEPT !.err_at = 2],                              \* invalid data
      [Whole EXCEPT !.uncompressed_size = 4],                   \* wrong size
      [Whole EXCEPT !.end_at = 2, !.uncompressed_size = 2],     \* data behind the end
      [Whole EXCEPT !.end_at = 2, !.uncompressed_size = 2,      \* and not in the file
                    !.avail = <<2, 2, 5>>, !.file_len = 4],
      [Whole EXCEPT !.avail = <<3, 3, 5>>],                     \* units without output
      [Whole EXCEPT !.avail = <<0, 0, 0>>, !.uncompressed_size = 0],
      [Whole EXCEPT !.avail = <<2, 5, 8>>, !.uncompressed_size = 8],   \* over max_decode
      [Whole EXCEPT !.avail = <<2, 4, 6>>, !.uncompressed_size = 6, !.saves = {"current"}] }

MCRequests == [offset : {0, 2, 4, 5}, len : {0, 1, 3}]

\* A stream that saves its current state whenever it is asked, so that the length
\* of a skip is due to the code that asks. Read as 3, 2 and 3 bytes it passes the
\* mark at 6 in the middle of the third read.
UnevenStreams ==
    { [Whole EXCEPT !.avail = <<3, 5, 8>>, !.uncompressed_size = 8, !.saves = {"current"}] }

UnevenRequests == [offset : 0..7, len : {1}]
================================================================================
