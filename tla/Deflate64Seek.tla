----------------------------- MODULE Deflate64Seek -----------------------------
(***************************************************************************)
(* The checkpoint index over a genuinely compressed Deflate64 entry:       *)
(* build_index_capped decodes the entry once and saves inflater states,    *)
(* Deflate64Index::read_at restores the nearest one and skips forward.     *)
(*                                                                         *)
(* The inflater is library code.  Its state is the number of input units   *)
(* it has taken and of output bytes it has returned; after i units it can  *)
(* return stream.avail[i] bytes, and it is finished when it has taken      *)
(* end_at units and returned all of them.  Output byte j is the number j:  *)
(* an inflater fed from the wrong place in the file returns Junk instead.  *)
(***************************************************************************)
EXTENDS Naturals, Sequences

CONSTANTS
    Streams,         \* the entries that may be indexed
    Requests,        \* the [offset, len] pairs asked of read_at
    Intervals,       \* checkpoint intervals
    IO_CHUNK,        \* the working buffers' size
    max_decode,      \* Caps
    max_index_bytes,
    BlobLen,         \* bytes of one saved inflater state
    Junk             \* an output byte of an inflater fed from the wrong place

StreamRecords ==
    [ data_start        : Nat,
      compressed_size   : Nat,
      uncompressed_size : Nat,
      file_len          : Nat,
      avail             : Seq(Nat), \* output after 1, 2, ... units, ascending
      end_at            : Nat,      \* units up to the end of the deflate64 stream
      err_at            : Nat,      \* units after which the data is invalid
      saves             : SUBSET {"current", "earlier", "none"} ]
          \* what inflater.checkpoint() may give on it: a state that is current or
          \* earlier than the output already returned, or none

ASSUME SeekAssumption ==
    /\ Streams \subseteq StreamRecords
    /\ \A s \in Streams :
         /\ Len(s.avail) >= s.compressed_size
         /\ \A i, j \in 1..Len(s.avail) : i <= j => s.avail[i] <= s.avail[j]
         \* What is behind the end of the stream is not looked at.
         /\ s.err_at # s.end_at
    /\ Requests \subseteq [offset : Nat, len : Nat]
    /\ Intervals \subseteq Nat
    /\ IO_CHUNK \in Nat \ {0}
    /\ max_decode \in Nat
    /\ max_index_bytes \in Nat
    /\ BlobLen \in Nat \ {0}
    /\ Junk \notin Nat

VARIABLES
    pc,          \* "building", "ready", "failed", "skipping" or "filling"
    stream, interval,
    raw,         \* RawInflate: file_pos and the unread units of in_buf
    inflater,    \* the inflater: units taken, bytes returned, fed from the right place
    total_out, next_at, last_output_offset, index_bytes,
    checkpoints,
    request, to_skip,
    got,         \* the caller's buffer
    result       \* "none", "ok" or "err"

build == <<total_out, next_at, last_output_offset, index_bytes, checkpoints>>
read  == <<request, to_skip, got, result>>
vars  == <<pc, stream, interval, raw, inflater, build, read>>

MinOf(a, b) == IF a <= b THEN a ELSE b
MaxOf(a, b) == IF a >= b THEN a ELSE b

\* blob: the units the saved inflater state has taken (0 for a fresh one).
CheckpointRecords == [output_offset : Nat, input_offset : Nat, blob : Nat]
Inflaters == [taken : Nat, returned : Nat, sync : BOOLEAN]

\* Types, and the bounds of Caps.
TypeOK ==
    /\ pc \in {"building", "ready", "failed", "skipping", "filling"}
    /\ stream \in Streams
    /\ interval \in Nat \ {0}
    /\ raw \in [file_pos : Nat, unread : Nat]
    /\ inflater \in Inflaters
    /\ total_out \in 0..(max_decode + IO_CHUNK)
    /\ next_at \in Nat
    /\ last_output_offset \in Nat
    /\ index_bytes \in 0..max_index_bytes
    /\ checkpoints \in Seq(CheckpointRecords)
    /\ request \in [offset : Nat, len : Nat]
    /\ to_skip \in Nat
    /\ got \in Seq(Nat \union {Junk})
    /\ result \in {"none", "ok", "err"}

\* Where data_start + compressed_size wraps in the code, so does every
\* data_end - file_pos, back to the number of units left.
data_end == stream.data_start + stream.compressed_size

(***************************************************************************)
(* The inflater.                                                           *)
(***************************************************************************)
Avail(i) == IF i = 0 THEN 0 ELSE stream.avail[i]

FreshInflater == [taken |-> 0, returned |-> 0, sync |-> TRUE]

Finished(f) == f.taken = stream.end_at /\ f.returned = Avail(stream.end_at)

\* What it may do with k units of input and room for n bytes: take c, write m.
InflateSteps(f, k, n) ==
    LET takes == 0..MinOf(k, MinOf(stream.end_at, stream.err_at) - f.taken)
        steps == { s \in takes \X (0..n) : f.returned + s[2] <= Avail(f.taken + s[1]) }
    IN  \* it makes progress when it can
        IF \E s \in steps : s # <<0, 0>> THEN steps \ {<<0, 0>>} ELSE steps

\* Its output: the next m bytes, if the units came from where it left off.
Output(f, m) == [i \in 1..m |-> IF f.sync THEN f.returned + i - 1 ELSE Junk]

\* checkpoint(): the states it may hand out.
SavedStates(f) ==
    (IF "current" \in stream.saves
     THEN {[some |-> TRUE, taken |-> f.taken, returned |-> f.returned]} ELSE {})
    \union
    (IF "earlier" \in stream.saves
     THEN { [some |-> TRUE, taken |-> p[1], returned |-> p[2]] :
            p \in { q \in (0..f.taken) \X (0..f.returned) : q[2] <= Avail(q[1]) } }
     ELSE {})
    \union
    (IF "none" \in stream.saves THEN {[some |-> FALSE, taken |-> 0, returned |-> 0]} ELSE {})

(***************************************************************************)
(* RawInflate.                                                             *)
(***************************************************************************)
NewRaw(file_pos) == [file_pos |-> file_pos, unread |-> 0]

\* The file offset of the next unit the inflater is fed.
FeedsFrom(r) == r.file_pos - r.unread

Refill == raw.unread = 0 /\ raw.file_pos < data_end

\* The buffer after the refill at the top of the loop, if one is due.
Refilled ==
    LET n == MinOf(data_end - raw.file_pos, IO_CHUNK)
    IN  IF Refill THEN [file_pos |-> raw.file_pos + n, unread |-> n] ELSE raw

\* pread_exact fails on a file that ends inside the entry's span.
RefillFails == Refill /\ Refilled.file_pos > stream.file_len

\* Seeded fault: input that ends early is waited for.
WaitForInput(r, f, c, m) ==
    IF m > 0 THEN "bytes" ELSE IF Finished(f) THEN "end" ELSE "more"

\* One turn of the loop of RawInflate::read with room for n bytes.  `more`: the
\* loop goes round; `bytes`: m > 0 bytes returned; `end`: Ok(0); `err`: an error.
TurnResult(r, f, c, m) ==
    IF m > 0 THEN "bytes"
    ELSE IF Finished(f) THEN "end"
    ELSE IF r.unread = 0 /\ c = 0 THEN "err"
    ELSE "more"

\* Units fed in step with the inflater.
InStep(r, c) == c > 0 => FeedsFrom(r) = stream.data_start + inflater.taken

\* The turn in which the inflater takes c units of r and writes m bytes.
Turn(r, c, m) ==
    LET fed == [inflater EXCEPT !.sync = @ /\ InStep(r, c)]
        f   == [fed EXCEPT !.taken = @ + c, !.returned = @ + m]
    IN  [ res      |-> TurnResult(r, f, c, m),
          out      |-> Output(fed, m),
          raw      |-> [r EXCEPT !.unread = @ - c],
          inflater |-> f ]

FailedTurn == [res |-> "err", out |-> <<>>, raw |-> raw, inflater |-> inflater]

TurnFails == RefillFails \/ (Refilled.unread > 0 /\ inflater.taken = stream.err_at)

Turns(n) ==
    IF TurnFails THEN {FailedTurn}
    ELSE { Turn(Refilled, s[1], s[2]) : s \in InflateSteps(inflater, Refilled.unread, n) }

(***************************************************************************)
(* build_index_capped.                                                     *)
(***************************************************************************)
StreamStart == [output_offset |-> 0, input_offset |-> stream.data_start, blob |-> 0]

Init ==
    /\ pc = "building"
    /\ stream \in Streams
    /\ interval \in {MaxOf(i, 1) : i \in Intervals}
    /\ raw = NewRaw(stream.data_start)
    /\ inflater = FreshInflater
    /\ total_out = 0
    /\ next_at = interval
    /\ last_output_offset = 0
    /\ index_bytes = 0
    /\ checkpoints = <<StreamStart>>
    /\ request = [offset |-> 0, len |-> 0]
    /\ to_skip = 0
    /\ got = <<>>
    /\ result = "none"

\* Seeded fault: the input offset is where the buffer, not the inflater, stands.
BufferedOffset(s, r) == r.file_pos

InputOffset(s, r) == stream.data_start + s.taken

IsNew(s) == s.returned > last_output_offset

Counted == index_bytes + BlobLen

\* Seeded fault: every second checkpoint is left out.
NextButOne(o) == o + 2 * interval

NextAt(o) == o + interval

\* Capture state s of the inflater after the turn to r, `total` bytes out.
Capture(s, r, total) ==
    \/ /\ s.some /\ IsNew(s) /\ Counted > max_index_bytes
       /\ pc' = "failed"
       /\ UNCHANGED <<checkpoints, last_output_offset, index_bytes, next_at>>
    \/ /\ s.some /\ IsNew(s) /\ Counted <= max_index_bytes
       /\ checkpoints' = Append(checkpoints,
             [output_offset |-> s.returned, input_offset |-> InputOffset(s, r),
              blob |-> s.taken])
       /\ last_output_offset' = s.returned
       /\ index_bytes' = index_bytes + BlobLen
       /\ next_at' = NextAt(MaxOf(s.returned, total))
       /\ UNCHANGED pc
    \/ /\ s.some => ~IsNew(s)
       /\ next_at' = NextAt(IF s.some THEN MaxOf(s.returned, total) ELSE total)
       /\ UNCHANGED <<pc, checkpoints, last_output_offset, index_bytes>>

BuildTurn ==
    /\ pc = "building"
    /\ \E t \in Turns(IO_CHUNK) :
        LET total == total_out + Len(t.out)
        IN  /\ raw' = t.raw
            /\ inflater' = t.inflater
            /\ total_out' = total
            /\ \/ /\ t.res = "err" \/ (t.res = "bytes" /\ total > max_decode)
                  /\ pc' = "failed"
                  /\ UNCHANGED <<next_at, last_output_offset, index_bytes, checkpoints>>
               \/ /\ t.res = "end"
                  /\ pc' = IF total = stream.uncompressed_size THEN "ready" ELSE "failed"
                  /\ UNCHANGED <<next_at, last_output_offset, index_bytes, checkpoints>>
               \/ /\ t.res = "more" \/ (t.res = "bytes" /\ total <= max_decode /\ total < next_at)
                  /\ UNCHANGED <<pc, next_at, last_output_offset, index_bytes, checkpoints>>
               \/ /\ t.res = "bytes" /\ total <= max_decode /\ total >= next_at
                  /\ \E s \in SavedStates(t.inflater) : Capture(s, t.raw, total)
    /\ UNCHANGED <<stream, interval, read>>

(***************************************************************************)
(* Deflate64Index::read_at.                                                *)
(***************************************************************************)
want == MinOf(stream.uncompressed_size - request.offset, request.len)

\* Seeded fault: the checkpoint after the target is taken if it is the last.
LastCheckpoint(offset) == Len(checkpoints)

\* partition_point - 1: the last checkpoint at or before the offset.
NearestCheckpoint(offset) ==
    CHOOSE i \in 1..Len(checkpoints) :
        /\ checkpoints[i].output_offset <= offset
        /\ \A j \in (i + 1)..Len(checkpoints) : checkpoints[j].output_offset > offset

Begin(q) ==
    LET cp == checkpoints[NearestCheckpoint(q.offset)]
    IN  /\ pc = "ready"
        /\ request' = q
        /\ got' = <<>>
        /\ IF q.offset >= stream.uncompressed_size \/ q.len = 0
           THEN result' = "ok" /\ UNCHANGED <<pc, raw, inflater, to_skip>>
           ELSE /\ raw' = NewRaw(cp.input_offset)
                /\ inflater' = [taken |-> cp.blob, returned |-> cp.output_offset, sync |-> TRUE]
                /\ to_skip' = q.offset - cp.output_offset
                /\ pc' = IF q.offset > cp.output_offset THEN "skipping" ELSE "filling"
                /\ result' = "none"
        /\ UNCHANGED <<stream, interval, build>>

ReadFails == pc' = "ready" /\ result' = "err"

\* Seeded fault: the scratch buffer is filled whatever is left to skip.
WholeScratch == IO_CHUNK

SkipRoom == MinOf(to_skip, IO_CHUNK)

\* One turn of the skip loop's read into the scratch buffer; Ok(0) there is the
\* "truncated" error.
SkipTurn ==
    /\ pc = "skipping"
    /\ \E t \in Turns(SkipRoom) :
        /\ raw' = t.raw
        /\ inflater' = t.inflater
        /\ \/ t.res \in {"err", "end"} /\ ReadFails /\ UNCHANGED to_skip
           \/ /\ t.res \in {"more", "bytes"}
              /\ to_skip' = to_skip - Len(t.out)
              /\ pc' = IF to_skip' > 0 THEN "skipping" ELSE "filling"
              /\ UNCHANGED result
    /\ UNCHANGED <<stream, interval, build, request, got>>

\* One turn of the fill loop's read into the caller's buffer; Ok(0) ends it.
FillTurn ==
    /\ pc = "filling"
    /\ \E t \in Turns(want - Len(got)) :
        /\ raw' = t.raw
        /\ inflater' = t.inflater
        /\ got' = got \o t.out
        /\ \/ t.res = "err" /\ ReadFails
           \/ t.res = "end" /\ pc' = "ready" /\ result' = "ok"
           \/ /\ t.res \in {"more", "bytes"}
              /\ IF Len(got') < want THEN UNCHANGED <<pc, result>>
                 ELSE pc' = "ready" /\ result' = "ok"
    /\ UNCHANGED <<stream, interval, build, request, to_skip>>

Step == BuildTurn \/ SkipTurn \/ FillTurn

Next == Step \/ \E q \in Requests : Begin(q)

Spec == Init /\ [][Next]_vars

\* The code runs to its return.
LiveSpec == Spec /\ WF_vars(Step)

(***************************************************************************)
(* Properties.                                                             *)
(***************************************************************************)
\* The checkpoints, though checkpoint() may hand out the same or an earlier state
\* again and again: strictly increasing by output offset, the first always the
\* stream start (the comment on Deflate64Index::checkpoints), so that the search
\* of read_at finds the nearest one.  Each is a state the inflater can be in,
\* with the file offset of the unit it needs next, inside the entry's span:
\* decoding can go on from it, and data_end - file_pos does not underflow.
CheckpointsResume ==
    /\ checkpoints[1] = StreamStart
    /\ \A i \in 1..(Len(checkpoints) - 1) :
          checkpoints[i].output_offset < checkpoints[i + 1].output_offset
    /\ \A i \in 1..Len(checkpoints) :
          LET cp == checkpoints[i]
          IN  /\ cp.input_offset = stream.data_start + cp.blob
              /\ cp.input_offset <= data_end
              /\ cp.output_offset <= Avail(cp.blob)

\* Deflate64Index::read_at: once build_index returned an index, a read returns
\* exactly the bytes asked for up to the end of the entry, from whichever
\* checkpoint it starts, and never an error (the "cov:unreachable" notes of its
\* skip and fill loops) unless the file ends inside the entry's span: the index
\* of a stream that ends before that is built, a read may still look there.
ReadAtExact ==
    pc = "ready" /\ result # "none" =>
        /\ data_end <= stream.file_len => result = "ok"
        /\ result = "ok" =>
              got = IF request.offset >= stream.uncompressed_size THEN <<>>
                    ELSE [i \in 1..want |-> request.offset + i - 1]

\* build_index and read_at return: RawInflate::read makes progress, reports the
\* end of the stream, or gives up on input that ends early.
EveryCallEnds ==
    pc \in {"building", "skipping", "filling"} ~> pc \in {"ready", "failed"}

\* The comment on DEFAULT_CHECKPOINT_INTERVAL: "A `read_at` re-inflates at most
\* this many bytes to reach any offset." The code does not keep to it:
\* build_index_capped compares total_out with next_at only after a whole read of
\* up to IO_CHUNK bytes, which may be short, so a checkpoint may lie behind the
\* mark; and where checkpoint() gives nothing or an earlier state there is none
\* before another interval has gone by.
SkipWithinInterval == pc = "skipping" => to_skip <= interval

\* The part of that comment that holds: for a stream at which checkpoint() always
\* saves the current state, the skip of a read is less than the interval and one
\* working buffer together. For the others there is no bound of this kind.
SkipIsBounded ==
    pc = "skipping" /\ stream.saves = {"current"} => to_skip + 1 < interval + IO_CHUNK
================================================================================
