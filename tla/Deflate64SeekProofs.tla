-------------------------- MODULE Deflate64SeekProofs --------------------------
(***************************************************************************)
(* Proofs about Deflate64Seek, for any streams, requests, intervals, caps  *)
(* and buffer size, and whatever the inflater does within its contract.    *)
(***************************************************************************)
EXTENDS Deflate64Seek, Lemmas

\* RawInflate feeds the inflater f from the place where it left off, inside the
\* entry's span, and f is in a state that the stream allows.
Feed(r, f) ==
    /\ stream.data_start + f.taken + r.unread = r.file_pos
    /\ r.file_pos <= data_end
    /\ f.sync = TRUE
    /\ f.taken <= stream.end_at
    /\ f.taken <= stream.err_at
    /\ f.returned <= Avail(f.taken)

\* A state saved in the index that Feed holds of when it is restored.
Resumable(cp) ==
    /\ cp.input_offset = stream.data_start + cp.blob
    /\ cp.blob <= stream.compressed_size
    /\ cp.blob <= stream.end_at
    /\ cp.blob <= stream.err_at
    /\ cp.output_offset <= Avail(cp.blob)

LastOffset == checkpoints[Len(checkpoints)].output_offset

Index ==
    /\ Len(checkpoints) >= 1
    /\ checkpoints[1] = StreamStart
    /\ last_output_offset = LastOffset
    /\ \A i \in 1..(Len(checkpoints) - 1) :
          checkpoints[i].output_offset < checkpoints[i + 1].output_offset
    /\ \A i \in 1..Len(checkpoints) : Resumable(checkpoints[i])

Building ==
    pc = "building" => /\ result = "none"
                       /\ total_out = inflater.returned
                       /\ total_out <= max_decode
                       /\ total_out < next_at

Built == pc \in {"ready", "skipping", "filling"}

\* A finished decode says where the stream ends and how long the entry is.
Decoded ==
    Built => /\ stream.end_at <= stream.compressed_size
             /\ stream.end_at < stream.err_at
             /\ stream.uncompressed_size = Avail(stream.end_at)

\* Checkpoints are no further apart than the interval and a buffer, where each
\* capture gives the current state.
Spaced ==
    stream.saves = {"current"} =>
        /\ \A i \in 1..(Len(checkpoints) - 1) :
              checkpoints[i + 1].output_offset
                < checkpoints[i].output_offset + interval + IO_CHUNK
        /\ pc = "building" => next_at = last_output_offset + interval
        /\ Built => stream.uncompressed_size < last_output_offset + interval

Reading ==
    /\ pc \in {"skipping", "filling"} => /\ request.offset < stream.uncompressed_size
                                         /\ request.len > 0
    /\ pc = "skipping" => /\ to_skip > 0
                          /\ inflater.returned + to_skip = request.offset
                          /\ got = <<>>
    /\ pc = "filling" => /\ inflater.returned = request.offset + Len(got)
                         /\ Len(got) < want
                         /\ \A k \in 1..Len(got) : got[k] = request.offset + k - 1

IInv ==
    /\ TypeOK
    /\ Feed(raw, inflater)
    /\ Index
    /\ Building
    /\ Decoded
    /\ Spaced
    /\ Reading
    /\ SkipIsBounded
    /\ ReadAtExact

(***************************************************************************)
(* The inflater and RawInflate.                                            *)
(***************************************************************************)
\* What the assumption says of a stream.
LEMMA StreamIs ==
    ASSUME stream \in Streams
    PROVE  /\ stream.data_start \in Nat /\ stream.compressed_size \in Nat
           /\ stream.uncompressed_size \in Nat /\ stream.file_len \in Nat
           /\ stream.end_at \in Nat /\ stream.err_at \in Nat
           /\ stream.avail \in Seq(Nat) /\ Len(stream.avail) \in Nat
           /\ Len(stream.avail) >= stream.compressed_size
           /\ stream.err_at # stream.end_at
           /\ data_end \in Nat
  <1>1. stream \in StreamRecords
    BY SeekAssumption
  <1>2. /\ stream.data_start \in Nat /\ stream.compressed_size \in Nat
        /\ stream.uncompressed_size \in Nat /\ stream.file_len \in Nat
        /\ stream.end_at \in Nat /\ stream.err_at \in Nat
        /\ stream.avail \in Seq(Nat)
    BY <1>1 DEF StreamRecords
  <1>3. Len(stream.avail) \in Nat
    BY <1>2
  <1>4. Len(stream.avail) >= stream.compressed_size /\ stream.err_at # stream.end_at
    BY SeekAssumption
  <1>5. data_end \in Nat
    BY <1>2 DEF data_end
  <1> QED
    BY <1>2, <1>3, <1>4, <1>5

\* What the constants are.
LEMMA ConstantsAre ==
    /\ IO_CHUNK \in Nat /\ IO_CHUNK > 0 /\ max_decode \in Nat /\ max_index_bytes \in Nat
    /\ BlobLen \in Nat
  BY SeekAssumption

\* The output available grows with the units taken.
LEMMA AvailIs ==
    ASSUME stream \in Streams, NEW i \in Nat, i <= stream.compressed_size
    PROVE  Avail(i) \in Nat /\ (i = 0 => Avail(i) = 0)
  <1>1. i # 0 => i \in 1..Len(stream.avail)
    BY StreamIs
  <1> QED
    BY <1>1, StreamIs, SMTT(30) DEF Avail

\* Monotony.
LEMMA AvailGrows ==
    ASSUME stream \in Streams, NEW i \in Nat, NEW j \in Nat, i <= j,
           j <= stream.compressed_size
    PROVE  Avail(i) <= Avail(j)
  <1>1. CASE i = 0
    <2>1. Avail(i) = 0
      BY <1>1 DEF Avail
    <2>2. Avail(j) \in Nat
      BY AvailIs
    <2> QED
      BY <2>1, <2>2
  <1>2. CASE i # 0
    <2>1. i \in 1..Len(stream.avail) /\ j \in 1..Len(stream.avail)
      BY <1>2, StreamIs, SMTT(30)
    <2>2. stream.avail[i] <= stream.avail[j]
      BY <2>1, SeekAssumption
    <2>3. j # 0
      BY <1>2
    <2> QED
      BY <1>2, <2>2, <2>3 DEF Avail
  <1> QED
    BY <1>1, <1>2

Raws == [file_pos : Nat, unread : Nat]

\* The inflater has not taken more than there is.
LEMMA TakenBounded ==
    ASSUME stream \in Streams, NEW r \in Raws, NEW f \in Inflaters, Feed(r, f)
    PROVE  /\ f.taken \in Nat /\ f.returned \in Nat /\ r.unread \in Nat /\ r.file_pos \in Nat
           /\ f.taken + r.unread <= stream.compressed_size
           /\ f.taken <= stream.compressed_size
  <1>1. f.taken \in Nat /\ f.returned \in Nat /\ r.unread \in Nat /\ r.file_pos \in Nat
    BY DEF Inflaters, Raws
  <1>2. stream.data_start \in Nat /\ stream.compressed_size \in Nat
    BY StreamIs
  <1>3. /\ stream.data_start + f.taken + r.unread = r.file_pos
        /\ r.file_pos <= stream.data_start + stream.compressed_size
    BY DEF Feed, data_end
  <1>4. f.taken + r.unread <= stream.compressed_size
    BY <1>1, <1>2, <1>3
  <1> QED
    BY <1>1, <1>2, <1>4

\* The refill keeps the inflater's place.
LEMMA RefillKeepsPlace ==
    ASSUME stream \in Streams, raw \in Raws, inflater \in Inflaters, Feed(raw, inflater)
    PROVE  /\ Refilled \in Raws
           /\ Feed(Refilled, inflater)
           /\ Refilled.unread = 0 => inflater.taken = stream.compressed_size
           /\ FeedsFrom(Refilled) = stream.data_start + inflater.taken
  <1> DEFINE n == MinOf(data_end - raw.file_pos, IO_CHUNK)
  <1>1. /\ inflater.taken \in Nat /\ raw.unread \in Nat /\ raw.file_pos \in Nat
        /\ stream.data_start \in Nat /\ stream.compressed_size \in Nat /\ data_end \in Nat
        /\ IO_CHUNK \in Nat /\ IO_CHUNK > 0
        /\ stream.data_start + inflater.taken + raw.unread = raw.file_pos
        /\ raw.file_pos <= data_end
    BY TakenBounded, StreamIs, ConstantsAre DEF Feed
  <1>2. CASE Refill
    <2>1. raw.unread = 0 /\ raw.file_pos < data_end
      BY <1>2 DEF Refill
    <2>2. n \in Nat /\ n > 0 /\ raw.file_pos + n <= data_end
      BY <1>1, <2>1 DEF MinOf
    <2>3. Refilled = [file_pos |-> raw.file_pos + n, unread |-> n]
      BY <1>2 DEF Refilled
    <2> HIDE DEF n
    <2>4. Refilled.file_pos = raw.file_pos + n /\ Refilled.unread = n /\ Refilled \in Raws
      BY <1>1, <2>2, <2>3 DEF Raws
    <2>5. Feed(Refilled, inflater)
      BY <1>1, <2>1, <2>2, <2>4 DEF Feed
    <2> QED
      BY <1>1, <2>1, <2>2, <2>4, <2>5 DEF FeedsFrom
  <1>3. CASE ~Refill
    <2>1. Refilled = raw
      BY <1>3 DEF Refilled
    <2>2. raw.unread = 0 => inflater.taken = stream.compressed_size
      <3>1. ASSUME raw.unread = 0 PROVE raw.file_pos = data_end
        BY <1>1, <1>3, <3>1 DEF Refill
      <3> QED
        BY <1>1, <3>1 DEF data_end
    <2>3. FeedsFrom(raw) = stream.data_start + inflater.taken
      BY <1>1 DEF FeedsFrom
    <2> QED
      BY <2>1, <2>2, <2>3
  <1> QED
    BY <1>2, <1>3

\* What the inflater may take and write in one call, and that it writes when it
\* can.
LEMMA InflateStepIs ==
    ASSUME stream \in Streams, NEW f \in Inflaters, NEW k \in Nat, NEW n \in Nat,
           f.taken <= stream.end_at, f.taken <= stream.err_at,
           NEW s \in InflateSteps(f, k, n)
    PROVE  /\ s[1] \in Nat /\ s[2] \in Nat /\ s[1] <= k /\ s[2] <= n
           /\ f.taken + s[1] <= stream.end_at
           /\ f.taken + s[1] <= stream.err_at
           /\ f.returned + s[2] <= Avail(f.taken + s[1])
           /\ n > 0 /\ f.returned + 1 <= Avail(f.taken) => s[1] # 0 \/ s[2] # 0
  <1> DEFINE lim   == MinOf(stream.end_at, stream.err_at) - f.taken
             takes == 0..MinOf(k, lim)
             steps == { p \in takes \X (0..n) : f.returned + p[2] <= Avail(f.taken + p[1]) }
  <1>1. /\ f.taken \in Nat /\ f.returned \in Nat
        /\ stream.end_at \in Nat /\ stream.err_at \in Nat
    BY StreamIs DEF Inflaters
  <1>2. /\ lim \in Nat /\ f.taken + lim <= stream.end_at /\ f.taken + lim <= stream.err_at
    BY <1>1 DEF MinOf
  <1>3. s \in steps
    BY DEF InflateSteps
  <1>4. s[1] \in takes /\ s[2] \in 0..n /\ f.returned + s[2] <= Avail(f.taken + s[1])
    BY <1>3
  <1>5. s[1] \in Nat /\ s[1] <= k /\ s[1] <= lim
    <2> HIDE DEF lim
    <2> QED
      BY <1>2, <1>4 DEF MinOf
  <1>6. ASSUME n > 0, f.returned + 1 <= Avail(f.taken) PROVE s[1] # 0 \/ s[2] # 0
    <2>1. 0 \in takes
      <3> HIDE DEF lim
      <3> QED
        BY <1>2 DEF MinOf
    <2>2. <<0, 1>> \in steps
      <3>1. 1 \in 0..n /\ f.taken + 0 = f.taken
        BY <1>1, <1>6
      <3> HIDE DEF takes
      <3> QED
        BY <1>6, <2>1, <3>1
    <2>3. s # <<0, 0>>
      <3>1. <<0, 1>> # <<0, 0>>
        OBVIOUS
      <3>2. InflateSteps(f, k, n) = IF \E p \in steps : p # <<0, 0>> THEN steps \ {<<0, 0>>} ELSE steps
        BY DEF InflateSteps
      <3> HIDE DEF steps
      <3> QED
        BY <2>2, <3>1, <3>2
    <2>4. s = <<s[1], s[2]>>
      BY <1>3
    <2> QED
      BY <2>3, <2>4
  <1> HIDE DEF lim, takes, steps
  <1> QED
    BY <1>1, <1>2, <1>4, <1>5, <1>6

\* The inflater's output in step.
LEMMA OutputIs ==
    ASSUME NEW f \in Inflaters, f.sync = TRUE, NEW m \in Nat
    PROVE  /\ Output(f, m) \in Seq(Nat)
           /\ Len(Output(f, m)) = m
           /\ \A k \in 1..m : Output(f, m)[k] = f.returned + k - 1
  <1>1. f.returned \in Nat
    BY DEF Inflaters
  <1>2. Output(f, m) = [i \in 1..m |-> f.returned + i - 1]
    BY DEF Output
  <1> QED
    BY <1>1, <1>2

\* One turn of RawInflate::read, whatever it comes to: the inflater keeps its
\* place, and what is returned is what comes next of the entry.
TurnIsGood(t, n) ==
    /\ t.raw \in Raws /\ t.inflater \in Inflaters /\ Feed(t.raw, t.inflater)
    /\ t.res \in {"bytes", "end", "more", "err"}
    /\ t.out \in Seq(Nat) /\ Len(t.out) <= n
    /\ \A k \in 1..Len(t.out) : t.out[k] = inflater.returned + k - 1
    /\ t.inflater.returned = inflater.returned + Len(t.out)
    /\ t.res # "bytes" => t.out = <<>>
    /\ t.res = "end" => Finished(t.inflater)

\* A turn in which the inflater is called.
LEMMA TurnOfStep ==
    ASSUME stream \in Streams, raw \in Raws, inflater \in Inflaters, Feed(raw, inflater),
           NEW n \in Nat, NEW s \in InflateSteps(inflater, Refilled.unread, n)
    PROVE  /\ TurnIsGood(Turn(Refilled, s[1], s[2]), n)
           /\ Turn(Refilled, s[1], s[2]).res = "err" =>
                /\ Refilled.unread = 0 /\ s[1] = 0 /\ s[2] = 0 /\ ~Finished(inflater)
  <1> DEFINE r   == Refilled
             c   == s[1]
             m   == s[2]
             fed == [inflater EXCEPT !.sync = @ /\ InStep(r, c)]
             f   == [fed EXCEPT !.taken = @ + c, !.returned = @ + m]
             r2  == [r EXCEPT !.unread = @ - c]
             t   == Turn(r, c, m)
  <1>1. /\ r \in Raws /\ Feed(r, inflater) /\ InStep(r, c)
    BY RefillKeepsPlace DEF InStep
  <1>2. /\ r.unread \in Nat /\ r.file_pos \in Nat /\ inflater.taken \in Nat
        /\ inflater.returned \in Nat /\ inflater.sync = TRUE
    BY <1>1, TakenBounded DEF Feed
  <1>3. /\ c \in Nat /\ m \in Nat /\ c <= r.unread /\ m <= n
        /\ inflater.taken + c <= stream.end_at
        /\ inflater.taken + c <= stream.err_at
        /\ inflater.returned + m <= Avail(inflater.taken + c)
    BY <1>1, <1>2, InflateStepIs DEF Feed
  <1>4. fed = inflater
    BY <1>1, <1>2 DEF Inflaters
  <1>5. /\ f \in Inflaters /\ f.taken = inflater.taken + c
        /\ f.returned = inflater.returned + m /\ f.sync = TRUE
    <2> DEFINE g == [inflater EXCEPT !.taken = @ + c]
    <2>1. g \in Inflaters /\ g.taken = inflater.taken + c /\ g.sync = TRUE
          /\ g.returned = inflater.returned
      <3>1. inflater.taken + c \in Nat
        BY <1>2, <1>3
      <3> QED
        BY <1>2, <3>1 DEF Inflaters
    <2>2. f = [g EXCEPT !.returned = @ + m]
      <3> HIDE DEF fed
      <3> QED
        BY <1>4
    <2> HIDE DEF f, g
    <2>3. g.returned + m \in Nat
      BY <1>2, <1>3, <2>1
    <2> QED
      BY <2>1, <2>2, <2>3 DEF Inflaters
  <1>6. r2 \in Raws /\ r2.unread = r.unread - c /\ r2.file_pos = r.file_pos
    <2>1. r.unread - c \in Nat
      BY <1>2, <1>3
    <2> QED
      BY <1>1, <2>1 DEF Raws
  <1>7. t = [res |-> TurnResult(r, f, c, m), out |-> Output(fed, m), raw |-> r2, inflater |-> f]
    BY DEF Turn
  <1>8. /\ Output(fed, m) \in Seq(Nat) /\ Len(Output(fed, m)) = m
        /\ \A k \in 1..m : Output(fed, m)[k] = inflater.returned + k - 1
    <2>1. /\ Output(inflater, m) \in Seq(Nat) /\ Len(Output(inflater, m)) = m
          /\ \A k \in 1..m : Output(inflater, m)[k] = inflater.returned + k - 1
      BY <1>2, <1>3, OutputIs
    <2> HIDE DEF fed
    <2> QED
      BY <1>4, <2>1
  <1> HIDE DEF r, c, m, f, r2, t, fed
  <1>9. Feed(r2, f)
    <2>1. stream.data_start + (inflater.taken + c) + (r.unread - c) = r.file_pos
      <3>1. stream.data_start + inflater.taken + r.unread = r.file_pos /\ stream.data_start \in Nat
        BY <1>1, StreamIs DEF Feed
      <3> QED
        BY <1>2, <1>3, <3>1
    <2>2. r.file_pos <= data_end
      BY <1>1 DEF Feed
    <2> QED
      BY <1>3, <1>5, <1>6, <2>1, <2>2 DEF Feed
  <1>10. /\ t.res = TurnResult(r, f, c, m) /\ t.out = Output(fed, m)
         /\ t.raw = r2 /\ t.inflater = f
    BY <1>7
  <1>11. /\ t.res \in {"bytes", "end", "more", "err"}
         /\ t.res # "bytes" => m = 0
         /\ t.res = "end" => Finished(f)
         /\ t.res = "err" => r.unread = 0 /\ c = 0 /\ m = 0 /\ ~Finished(f)
    BY <1>3, <1>10 DEF TurnResult
  <1>12. TurnIsGood(t, n)
    <2>1. t.res # "bytes" => t.out = <<>>
      BY <1>8, <1>10, <1>11
    <2> QED
      BY <1>3, <1>5, <1>6, <1>8, <1>9, <1>10, <1>11, <2>1 DEF TurnIsGood
  <1>13. c = 0 /\ m = 0 => f.taken = inflater.taken /\ f.returned = inflater.returned
    BY <1>2, <1>5
  <1>14. t.res = "err" => r.unread = 0 /\ c = 0 /\ m = 0 /\ ~Finished(inflater)
    BY <1>11, <1>13 DEF Finished
  <1> QED
    BY <1>12, <1>14 DEF t, r, c, m

\* Every turn is good; where the decode has been done before and the file holds
\* the span, none fails that is given room.
LEMMA TurnsAreGood ==
    ASSUME stream \in Streams, raw \in Raws, inflater \in Inflaters, Feed(raw, inflater),
           NEW n \in Nat, NEW t \in Turns(n)
    PROVE  /\ TurnIsGood(t, n)
           /\ /\ n > 0 /\ data_end <= stream.file_len
              /\ stream.end_at <= stream.compressed_size /\ stream.end_at < stream.err_at
              => t.res # "err"
  <1>1. CASE TurnFails
    <2>1. t = FailedTurn
      BY <1>1 DEF Turns
    <2>2. /\ t.res = "err" /\ t.out = <<>> /\ t.raw = raw /\ t.inflater = inflater
      BY <2>1 DEF FailedTurn
    <2>3. inflater.returned \in Nat
      BY DEF Inflaters
    <2>4. TurnIsGood(t, n)
      BY <2>2, <2>3 DEF TurnIsGood
    <2>5. ASSUME data_end <= stream.file_len, stream.end_at < stream.err_at PROVE FALSE
      <3>1. Refilled.file_pos <= data_end /\ Refilled.file_pos \in Nat
        BY RefillKeepsPlace, TakenBounded DEF Feed
      <3>2. ~RefillFails
        BY <2>5, <3>1, StreamIs DEF RefillFails
      <3>3. inflater.taken # stream.err_at
        <4>1. inflater.taken \in Nat /\ inflater.taken <= stream.end_at
          BY TakenBounded DEF Feed
        <4> QED
          BY <2>5, <4>1, StreamIs
      <3> QED
        BY <1>1, <3>2, <3>3 DEF TurnFails
    <2> QED
      BY <2>4, <2>5
  <1>2. CASE ~TurnFails
    <2>1. PICK s \in InflateSteps(inflater, Refilled.unread, n) : t = Turn(Refilled, s[1], s[2])
      BY <1>2 DEF Turns
    <2>2. TurnIsGood(t, n)
      BY <2>1, TurnOfStep
    <2>3. ASSUME n > 0, stream.end_at <= stream.compressed_size, t.res = "err" PROVE FALSE
      <3>1. Refilled.unread = 0 /\ s[1] = 0 /\ s[2] = 0 /\ ~Finished(inflater)
        BY <2>1, <2>3, TurnOfStep
      <3>2. inflater.taken = stream.compressed_size
        BY <3>1, RefillKeepsPlace
      <3>3. /\ inflater.taken \in Nat /\ inflater.returned \in Nat
            /\ inflater.taken <= stream.end_at /\ inflater.taken <= stream.err_at
            /\ inflater.returned <= Avail(inflater.taken)
        BY TakenBounded DEF Feed
      <3>4. inflater.taken = stream.end_at /\ Avail(stream.end_at) \in Nat
        <4>1. inflater.taken = stream.end_at
          BY <2>3, <3>2, <3>3, StreamIs
        <4> QED
          BY <2>3, <4>1, StreamIs, AvailIs
      <3>5. inflater.returned + 1 <= Avail(inflater.taken)
        BY <3>1, <3>3, <3>4 DEF Finished
      <3>6. Refilled.unread \in Nat
        BY RefillKeepsPlace DEF Raws
      <3> QED
        BY <2>3, <3>1, <3>3, <3>5, <3>6, InflateStepIs
    <2> QED
      BY <2>2, <2>3
  <1> QED
    BY <1>1, <1>2

(***************************************************************************)
(* build_index_capped.                                                     *)
(***************************************************************************)
\* The first checkpoint is there and can be resumed.
LEMMA InitEstablishes == Init => IInv
  <1> SUFFICES ASSUME Init PROVE IInv
    OBVIOUS
  <1>1. /\ stream \in Streams /\ raw = [file_pos |-> stream.data_start, unread |-> 0]
        /\ inflater = [taken |-> 0, returned |-> 0, sync |-> TRUE]
        /\ pc = "building" /\ total_out = 0 /\ next_at = interval /\ last_output_offset = 0
        /\ index_bytes = 0 /\ result = "none" /\ got = <<>> /\ to_skip = 0
        /\ request = [offset |-> 0, len |-> 0]
    BY DEF Init, NewRaw, FreshInflater
  <1>2. interval \in Nat /\ interval > 0
    BY SeekAssumption DEF Init, MaxOf
  <1>3. /\ stream.data_start \in Nat /\ stream.compressed_size \in Nat
        /\ stream.end_at \in Nat /\ stream.err_at \in Nat /\ Avail(0) = 0
    BY <1>1, StreamIs DEF Avail
  <1>4. /\ Len(checkpoints) = 1 /\ checkpoints[1] = StreamStart
        /\ checkpoints \in Seq(CheckpointRecords)
        /\ StreamStart.output_offset = 0 /\ StreamStart.input_offset = stream.data_start
        /\ StreamStart.blob = 0
    <2>1. StreamStart \in CheckpointRecords
      BY <1>3 DEF StreamStart, CheckpointRecords
    <2> QED
      BY <2>1 DEF Init, StreamStart
  <1>5. TypeOK
    BY <1>1, <1>2, <1>3, <1>4, ConstantsAre DEF TypeOK, Inflaters
  <1>6. Feed(raw, inflater)
    BY <1>1, <1>3 DEF Feed, data_end
  <1>7. Index
    <2>1. Resumable(StreamStart)
      BY <1>3, <1>4 DEF Resumable
    <2> QED
      BY <1>1, <1>4, <2>1 DEF Index, LastOffset
  <1>8. Building /\ Decoded /\ Reading /\ SkipIsBounded /\ ReadAtExact
    BY <1>1, <1>2, ConstantsAre DEF Building, Decoded, Built, Reading, SkipIsBounded, ReadAtExact
  <1>9. Spaced
    BY <1>1, <1>2, <1>4 DEF Spaced, Built
  <1> QED
    BY <1>5, <1>6, <1>7, <1>8, <1>9 DEF IInv

\* The facts about a turn that any step of the three loops starts from.
LEMMA TurnInInv ==
    ASSUME IInv, NEW n \in Nat, NEW t \in Turns(n)
    PROVE  /\ TurnIsGood(t, n)
           /\ Len(t.out) \in Nat
           /\ n > 0 /\ data_end <= stream.file_len /\ Built => t.res # "err"
           /\ stream' = stream /\ raw' = t.raw /\ inflater' = t.inflater =>
                /\ raw' \in Raws /\ inflater' \in Inflaters
                /\ Feed(raw, inflater)'
  <1>1. stream \in Streams /\ raw \in Raws /\ inflater \in Inflaters /\ Feed(raw, inflater)
    BY DEF IInv, TypeOK, Raws
  <1>2. TurnIsGood(t, n)
    BY <1>1, TurnsAreGood
  <1>3. n > 0 /\ data_end <= stream.file_len /\ Built => t.res # "err"
    BY <1>1, TurnsAreGood DEF IInv, Decoded
  <1>4. ASSUME stream' = stream, raw' = t.raw, inflater' = t.inflater
        PROVE  raw' \in Raws /\ inflater' \in Inflaters /\ Feed(raw, inflater)'
    BY <1>2, <1>4 DEF TurnIsGood, Feed, data_end, Avail
  <1>5. Len(t.out) \in Nat
    BY <1>2 DEF TurnIsGood
  <1> QED
    BY <1>2, <1>3, <1>4, <1>5

\* The states that checkpoint() hands out can be resumed from.
LEMMA SavedIsResumable ==
    ASSUME stream \in Streams, NEW r \in Raws, NEW f \in Inflaters, Feed(r, f),
           NEW s \in SavedStates(f)
    PROVE  /\ s.some \in BOOLEAN
           /\ s.some => /\ s.taken \in Nat /\ s.returned \in Nat
                        /\ s.taken <= stream.compressed_size
                        /\ s.taken <= stream.end_at
                        /\ s.taken <= stream.err_at
                        /\ s.returned <= f.returned
                        /\ s.returned <= Avail(s.taken)
           /\ stream.saves = {"current"} => s.some /\ s.returned = f.returned
  <1>1. /\ f.taken \in Nat /\ f.returned \in Nat /\ f.taken <= stream.compressed_size
        /\ f.taken <= stream.end_at /\ f.taken <= stream.err_at
        /\ f.returned <= Avail(f.taken)
    BY TakenBounded DEF Feed
  <1>2. CASE s = [some |-> TRUE, taken |-> f.taken, returned |-> f.returned]
    BY <1>1, <1>2
  <1>3. CASE /\ "earlier" \in stream.saves
             /\ s \in { [some |-> TRUE, taken |-> p[1], returned |-> p[2]] :
                        p \in { q \in (0..f.taken) \X (0..f.returned) : q[2] <= Avail(q[1]) } }
    <2>1. PICK p \in (0..f.taken) \X (0..f.returned) :
                 /\ p[2] <= Avail(p[1])
                 /\ s = [some |-> TRUE, taken |-> p[1], returned |-> p[2]]
      BY <1>3
    <2>2. p[1] \in Nat /\ p[2] \in Nat /\ p[1] <= f.taken /\ p[2] <= f.returned
      BY <1>1, <2>1
    <2>3. s.some = TRUE /\ s.taken = p[1] /\ s.returned = p[2]
      BY <2>1
    <2>4. stream.saves # {"current"}
      BY <1>3
    <2> QED
      BY <1>1, <2>1, <2>2, <2>3, <2>4, StreamIs, SMTT(30)
  <1>4. CASE /\ "none" \in stream.saves
             /\ s = [some |-> FALSE, taken |-> 0, returned |-> 0]
    BY <1>4
  <1> QED
    BY <1>2, <1>3, <1>4 DEF SavedStates

\* A capture: the new checkpoint is behind the others and can be resumed.
LEMMA CaptureKeeps ==
    ASSUME IInv, pc = "building", stream' = stream, interval' = interval,
           NEW t \in Turns(IO_CHUNK), NEW s \in SavedStates(t.inflater),
           total_out + Len(t.out) >= next_at,
           Capture(s, t.raw, total_out + Len(t.out))
    PROVE  /\ Index' /\ checkpoints' \in Seq(CheckpointRecords)
           /\ last_output_offset' \in Nat /\ index_bytes' \in 0..max_index_bytes
           /\ next_at' \in Nat /\ pc' \in {"building", "failed"}
           /\ pc' = "building" => total_out + Len(t.out) < next_at'
           /\ Spaced'
  <1> DEFINE total == total_out + Len(t.out)
             cp    == [output_offset |-> s.returned, input_offset |-> InputOffset(s, t.raw),
                       blob |-> s.taken]
  <1>1. /\ stream \in Streams /\ interval \in Nat /\ interval > 0 /\ IO_CHUNK \in Nat
        /\ total_out \in Nat /\ last_output_offset \in Nat /\ index_bytes \in 0..max_index_bytes
        /\ next_at \in Nat /\ checkpoints \in Seq(CheckpointRecords)
        /\ BlobLen \in Nat /\ max_index_bytes \in Nat
        /\ Len(checkpoints) \in Nat
    BY ConstantsAre DEF IInv, TypeOK
  <1>2. /\ TurnIsGood(t, IO_CHUNK) /\ Len(t.out) \in Nat /\ Len(t.out) <= IO_CHUNK
        /\ total \in Nat
    <2>1. TurnIsGood(t, IO_CHUNK) /\ Len(t.out) \in Nat
      BY <1>1, TurnInInv
    <2> QED
      BY <1>1, <2>1, SMTT(30) DEF TurnIsGood
  <1>3. total_out < next_at /\ total_out = inflater.returned /\ Index /\ Spaced
    BY DEF IInv, Building
  <1>4. /\ total = t.inflater.returned
        /\ t.raw \in Raws /\ t.inflater \in Inflaters /\ Feed(t.raw, t.inflater)
    BY <1>2, <1>3 DEF TurnIsGood
  <1>5. /\ s.some \in BOOLEAN
        /\ s.some => /\ s.taken \in Nat /\ s.returned \in Nat
                     /\ s.taken <= stream.compressed_size
                     /\ s.taken <= stream.end_at
                     /\ s.taken <= stream.err_at
                     /\ s.returned <= total
                     /\ s.returned <= Avail(s.taken)
        /\ stream.saves = {"current"} => s.some /\ s.returned = total
    BY <1>1, <1>4, SavedIsResumable
  <1> HIDE DEF total
  <1>6. MaxOf(s.returned, total) = total \/ ~s.some
    BY <1>2, <1>5 DEF MaxOf
  <1>7. CASE UNCHANGED <<checkpoints, last_output_offset, index_bytes>>
    <2>1. Index'
      BY <1>3, <1>7 DEF Index, Resumable, LastOffset, StreamStart, Avail
    <2>2. \/ pc' = "failed" /\ next_at' = next_at
          \/ pc' = "building" /\ next_at' = total + interval /\ (s.some => ~IsNew(s))
      <3>1. CASE pc' = "failed" /\ next_at' = next_at
        BY <3>1
      <3>2. CASE /\ s.some => ~IsNew(s)
                 /\ next_at' = NextAt(IF s.some THEN MaxOf(s.returned, total) ELSE total)
                 /\ UNCHANGED pc
        BY <1>6, <3>2 DEF NextAt
      <3>3. CASE s.some /\ IsNew(s) /\ last_output_offset' = s.returned
        <4>1. s.returned > last_output_offset
          BY <3>3 DEF IsNew
        <4> QED
          BY <1>1, <1>5, <1>7, <3>3, <4>1
      <3> QED
        BY <3>1, <3>2, <3>3 DEF Capture, total
    <2>3. stream.saves = {"current"} => pc' = "failed"
      <3> SUFFICES ASSUME stream.saves = {"current"}, s.some => ~IsNew(s) PROVE FALSE
        BY <2>2
      <3>1. next_at = last_output_offset + interval /\ s.some /\ s.returned = total
        BY <1>3, <1>5 DEF Spaced
      <3> QED
        BY <1>1, <1>2, <3>1 DEF IsNew, total
    <2>4. Spaced'
      BY <1>3, <1>7, <2>2, <2>3 DEF Spaced, Built
    <2> QED
      BY <1>1, <1>2, <1>7, <2>1, <2>2, <2>4 DEF total
  <1>8. CASE /\ s.some /\ IsNew(s) /\ Counted <= max_index_bytes
             /\ checkpoints' = Append(checkpoints, cp)
             /\ last_output_offset' = s.returned
             /\ index_bytes' = index_bytes + BlobLen
             /\ next_at' = NextAt(MaxOf(s.returned, total))
             /\ UNCHANGED pc
    <2>1. s.taken \in Nat /\ s.returned \in Nat /\ s.returned > last_output_offset
      BY <1>5, <1>8 DEF IsNew
    <2>2. /\ cp \in CheckpointRecords /\ cp.output_offset = s.returned /\ cp.blob = s.taken
          /\ cp.input_offset = stream.data_start + s.taken
      BY <1>1, <2>1, StreamIs, SMTT(30) DEF CheckpointRecords, InputOffset
    <2> HIDE DEF cp
    <2>3. /\ checkpoints' \in Seq(CheckpointRecords)
          /\ Len(checkpoints') = Len(checkpoints) + 1
          /\ \A k \in 1..Len(checkpoints) : checkpoints'[k] = checkpoints[k]
          /\ checkpoints'[Len(checkpoints) + 1] = cp
      BY <1>1, <1>8, <2>2, AppendIs
    <2>4. next_at' = total + interval /\ index_bytes' \in 0..max_index_bytes
      BY <1>1, <1>6, <1>8 DEF NextAt, Counted
    <2>5. LastOffset = last_output_offset /\ Len(checkpoints) >= 1
      BY <1>3 DEF Index
    <2>6. Index'
      <3>1. checkpoints'[1] = StreamStart'
        BY <1>1, <1>3, <2>3 DEF Index, StreamStart
      <3>2. LastOffset' = last_output_offset'
        BY <1>1, <1>8, <2>2, <2>3 DEF LastOffset
      <3>3. ASSUME NEW i \in 1..(Len(checkpoints') - 1)
            PROVE  checkpoints'[i].output_offset < checkpoints'[i + 1].output_offset
        <4>1. CASE i = Len(checkpoints)
          BY <1>1, <2>1, <2>2, <2>3, <2>5, <4>1 DEF LastOffset
        <4>2. CASE i # Len(checkpoints)
          <5>1. i \in 1..(Len(checkpoints) - 1) /\ i \in 1..Len(checkpoints)
                /\ i + 1 \in 1..Len(checkpoints)
            BY <1>1, <2>3, <3>3, <4>2
          <5> QED
            BY <1>3, <2>3, <5>1 DEF Index
        <4> QED
          BY <4>1, <4>2
      <3>4. ASSUME NEW i \in 1..Len(checkpoints') PROVE Resumable(checkpoints'[i])
        <4>1. CASE i = Len(checkpoints) + 1
          BY <1>5, <1>8, <2>2, <2>3, <4>1 DEF Resumable
        <4>2. CASE i # Len(checkpoints) + 1
          <5>1. i \in 1..Len(checkpoints)
            BY <1>1, <2>3, <3>4, <4>2
          <5> QED
            BY <1>3, <2>3, <5>1 DEF Index
        <4> QED
          BY <4>1, <4>2
      <3>5. (\A i \in 1..Len(checkpoints) : Resumable(checkpoints[i]))'
        BY <3>4 DEF Resumable, Avail
      <3> QED
        BY <1>1, <2>3, <3>1, <3>2, <3>3, <3>5 DEF Index
    <2>7. Spaced'
      <3> SUFFICES ASSUME stream.saves = {"current"} PROVE Spaced'
        BY DEF Spaced
      <3>1. next_at = last_output_offset + interval /\ s.returned = total
        BY <1>3, <1>5 DEF Spaced
      <3>2. s.returned < last_output_offset + interval + IO_CHUNK
        BY <1>1, <1>2, <1>3, <3>1 DEF total
      <3>3. ASSUME NEW i \in 1..(Len(checkpoints') - 1)
            PROVE  checkpoints'[i + 1].output_offset
                     < checkpoints'[i].output_offset + interval + IO_CHUNK
        <4>1. CASE i = Len(checkpoints)
          BY <1>1, <2>2, <2>3, <2>5, <3>2, <4>1 DEF LastOffset
        <4>2. CASE i # Len(checkpoints)
          <5>1. i \in 1..(Len(checkpoints) - 1) /\ i \in 1..Len(checkpoints)
                /\ i + 1 \in 1..Len(checkpoints)
            BY <1>1, <2>3, <3>3, <4>2
          <5> QED
            BY <1>3, <2>3, <5>1 DEF Spaced
        <4> QED
          BY <4>1, <4>2
      <3> QED
        BY <1>8, <2>4, <3>1, <3>3 DEF Spaced, Built
    <2> QED
      BY <1>1, <1>2, <1>8, <2>1, <2>3, <2>4, <2>6, <2>7, SMTT(30) DEF total
  <1> QED
    BY <1>7, <1>8 DEF Capture, total

\* One turn of the indexing decode.
LEMMA BuildTurnKeeps == IInv /\ BuildTurn => IInv'
  <1> SUFFICES ASSUME IInv, BuildTurn PROVE IInv'
    OBVIOUS
  <1>1. pc = "building" /\ UNCHANGED <<stream, interval, request, to_skip, got, result>>
    BY DEF BuildTurn, read
  <1>2. PICK t \in Turns(IO_CHUNK) :
        LET total == total_out + Len(t.out)
        IN  /\ raw' = t.raw
            /\ inflater' = t.inflater
            /\ total_out' = total
            /\ \/ /\ t.res = "err" \/ (t.res = "bytes" /\ total > max_decode)
                  /\ pc' = "failed"
                  /\ UNCHANGED <<next_at, last_output_offset, index_bytes, checkpoints>>
               \/ /\ t.res = "end"
                  /\ pc' = IF total = stream.uncompressed_size THEN "ready" ELSE "failed"
                  /\ UNCHANGED <<next_at, last_output_offset, index_bytes, checkpoints>>
               \/ /\ t.res = "more" \/ (t.res = "bytes" /\ total <= max_decode /\ total < next_at)
                  /\ UNCHANGED <<pc, next_at, last_output_offset, index_bytes, checkpoints>>
               \/ /\ t.res = "bytes" /\ total <= max_decode /\ total >= next_at
                  /\ \E s \in SavedStates(t.inflater) : Capture(s, t.raw, total)
    BY DEF BuildTurn
  <1> DEFINE total == total_out + Len(t.out)
  <1>3. /\ TurnIsGood(t, IO_CHUNK) /\ Len(t.out) \in Nat
        /\ raw' \in Raws /\ inflater' \in Inflaters /\ Feed(raw, inflater)'
    BY <1>1, <1>2, TurnInInv, ConstantsAre
  <1>4. /\ total_out \in Nat /\ max_decode \in Nat /\ IO_CHUNK \in Nat /\ next_at \in Nat
        /\ Len(t.out) <= IO_CHUNK
        /\ total_out <= max_decode /\ total_out < next_at /\ result = "none"
        /\ total_out = inflater.returned
    BY <1>1, <1>3, ConstantsAre DEF IInv, TypeOK, Building, TurnIsGood
  <1>5. total \in 0..(max_decode + IO_CHUNK) /\ total_out' = total /\ total = inflater'.returned
    BY <1>2, <1>3, <1>4 DEF TurnIsGood
  <1> HIDE DEF total
  <1>6. Reading' /\ SkipIsBounded' /\ ReadAtExact' /\ pc' \in {"building", "ready", "failed"}
    <2>1. pc' \in {"building", "ready", "failed"}
      BY <1>1, <1>2 DEF Capture
    <2> QED
      BY <1>1, <1>4, <2>1 DEF Reading, SkipIsBounded, ReadAtExact
  <1>7. CASE /\ UNCHANGED <<next_at, last_output_offset, index_bytes, checkpoints>>
             /\ \/ pc' = "failed"
                \/ pc' = "building" /\ (t.res = "more" \/ (total <= max_decode /\ total < next_at))
                \/ pc' = "ready" /\ t.res = "end" /\ total = stream.uncompressed_size
    <2>1. TypeOK'
      BY <1>1, <1>3, <1>5, <1>6, <1>7 DEF IInv, TypeOK, Raws
    <2>2. Index'
      BY <1>1, <1>7 DEF IInv, Index, Resumable, LastOffset, StreamStart, Avail
    <2>3. t.res # "bytes" => Len(t.out) = 0
      BY <1>3 DEF TurnIsGood
    <2>4. Building'
      <3> SUFFICES ASSUME pc' = "building" PROVE Building'
        BY DEF Building
      <3>1. CASE t.res = "more"
        BY <1>1, <1>4, <1>5, <1>7, <2>3, <3>1 DEF Building, total
      <3>2. CASE total <= max_decode /\ total < next_at
        BY <1>1, <1>4, <1>5, <1>7, <3>2 DEF Building
      <3> QED
        BY <1>7, <3>1, <3>2
    <2>5. Decoded'
      <3> SUFFICES ASSUME pc' = "ready", t.res = "end", total = stream.uncompressed_size
                   PROVE  Decoded'
        BY <1>7 DEF Decoded, Built
      <3>1. Finished(t.inflater) /\ Feed(t.raw, t.inflater)
            /\ t.raw \in Raws /\ t.inflater \in Inflaters
        BY <1>3 DEF TurnIsGood
      <3>2. t.inflater.taken <= stream.compressed_size /\ stream \in Streams
        BY <3>1, TakenBounded DEF IInv, TypeOK
      <3>3. /\ stream.end_at <= stream.compressed_size /\ stream.end_at <= stream.err_at
            /\ total = Avail(stream.end_at)
        BY <1>2, <1>5, <3>1, <3>2 DEF Finished, Feed
      <3>4. stream.end_at < stream.err_at
        BY <3>2, <3>3, StreamIs
      <3> QED
        BY <1>1, <3>3, <3>4 DEF Decoded, Avail
    <2>6. Spaced'
      <3>1. Spaced
        BY DEF IInv
      <3>2. pc' = "ready" => stream.uncompressed_size < next_at
        BY <1>4, <1>7, <2>3 DEF total
      <3> QED
        BY <1>1, <1>7, <3>1, <3>2 DEF Spaced, Built
    <2> QED
      BY <1>3, <1>6, <2>1, <2>2, <2>4, <2>5, <2>6 DEF IInv
  <1>8. CASE /\ total <= max_decode /\ total >= next_at
             /\ \E s \in SavedStates(t.inflater) : Capture(s, t.raw, total)
    <2>1. /\ Index' /\ checkpoints' \in Seq(CheckpointRecords)
          /\ last_output_offset' \in Nat /\ index_bytes' \in 0..max_index_bytes
          /\ next_at' \in Nat /\ pc' \in {"building", "failed"}
          /\ pc' = "building" => total < next_at'
          /\ Spaced'
      BY <1>1, <1>8, CaptureKeeps DEF total
    <2>2. TypeOK'
      BY <1>1, <1>3, <1>5, <2>1 DEF IInv, TypeOK, Raws
    <2>3. Building' /\ Decoded'
      BY <1>1, <1>4, <1>5, <1>8, <2>1 DEF Building, Decoded, Built
    <2> QED
      BY <1>3, <1>6, <2>1, <2>2, <2>3 DEF IInv
  <1> QED
    BY <1>1, <1>2, <1>7, <1>8 DEF total

(***************************************************************************)
(* Deflate64Index::read_at.                                                *)
(***************************************************************************)
\* The search of read_at finds a checkpoint at or before the offset, and the one
\* after it is behind the offset.
LEMMA NearestIs ==
    ASSUME IInv, NEW offset \in Nat
    PROVE  LET i == NearestCheckpoint(offset)
           IN  /\ i \in 1..Len(checkpoints)
               /\ checkpoints[i].output_offset <= offset
               /\ i # Len(checkpoints) => checkpoints[i + 1].output_offset > offset
  <1> DEFINE T == {i \in 1..Len(checkpoints) : checkpoints[i].output_offset <= offset}
             P(i) == /\ checkpoints[i].output_offset <= offset
                     /\ \A j \in (i + 1)..Len(checkpoints) : checkpoints[j].output_offset > offset
  <1>1. /\ checkpoints \in Seq(CheckpointRecords) /\ Len(checkpoints) \in Nat
        /\ Len(checkpoints) >= 1 /\ checkpoints[1].output_offset = 0
    BY DEF IInv, TypeOK, Index, StreamStart
  <1>2. \A i \in 1..Len(checkpoints) : checkpoints[i].output_offset \in Nat
    <2>1. \A i \in 1..Len(checkpoints) : checkpoints[i] \in CheckpointRecords
      BY <1>1
    <2> QED
      BY <2>1 DEF CheckpointRecords
  <1>3. 1 \in T
    BY <1>1
  <1>4. PICK i \in T : \A j \in T : j <= i
    <2>1. T \subseteq Nat /\ \A j \in T : j <= Len(checkpoints)
      BY <1>1
    <2> HIDE DEF T
    <2> QED
      BY <1>1, <1>3, <2>1, GreatestOf
  <1>5. P(i)
    BY <1>1, <1>2, <1>4
  <1>6. \E k \in 1..Len(checkpoints) : P(k)
    BY <1>4, <1>5
  <1>7. NearestCheckpoint(offset) = CHOOSE k \in 1..Len(checkpoints) : P(k)
    BY DEF NearestCheckpoint
  <1>8. NearestCheckpoint(offset) \in 1..Len(checkpoints) /\ P(NearestCheckpoint(offset))
    <2> HIDE DEF P
    <2> QED
      BY <1>6, <1>7
  <1> QED
    BY <1>1, <1>8

\* A target before x, itself less than len + chunk behind the checkpoint.
LEMMA ShortSkip ==
    ASSUME NEW cp \in Nat, NEW skip \in Nat, NEW target \in Nat, cp + skip = target,
           NEW x \in Nat, x > target, NEW len \in Nat, NEW chunk \in Nat, x < cp + len + chunk
    PROVE  skip + 1 < len + chunk
  OBVIOUS

\* A request: nothing to read, or the restored state is in step.
LEMMA BeginKeeps ==
    ASSUME IInv, NEW q \in Requests, Begin(q)
    PROVE  IInv'
  <1> DEFINE i  == NearestCheckpoint(q.offset)
             cp == checkpoints[i]
  <1>1. q \in [offset : Nat, len : Nat] /\ q.offset \in Nat /\ q.len \in Nat
    BY SeekAssumption
  <1>2. /\ pc = "ready" /\ request' = q /\ got' = <<>>
        /\ UNCHANGED <<stream, interval, total_out, next_at, last_output_offset,
                       index_bytes, checkpoints>>
    BY DEF Begin, build
  <1>3. /\ i \in 1..Len(checkpoints) /\ cp.output_offset <= q.offset
        /\ i # Len(checkpoints) => checkpoints[i + 1].output_offset > q.offset
    BY <1>1, NearestIs
  <1>4. /\ cp \in CheckpointRecords /\ Resumable(cp) /\ stream \in Streams
        /\ Len(checkpoints) \in Nat /\ checkpoints \in Seq(CheckpointRecords)
    BY <1>3 DEF IInv, TypeOK, Index
  <1>5. cp.output_offset \in Nat /\ cp.input_offset \in Nat /\ cp.blob \in Nat
    BY <1>4 DEF CheckpointRecords
  <1>6. Index'
    BY <1>2 DEF IInv, Index, Resumable, LastOffset, StreamStart, Avail
  <1>7. CASE q.offset >= stream.uncompressed_size \/ q.len = 0
    <2>1. result' = "ok" /\ UNCHANGED <<pc, raw, inflater, to_skip>>
      BY <1>7 DEF Begin
    <2>2. TypeOK'
      BY <1>1, <1>2, <2>1 DEF IInv, TypeOK
    <2>3. Feed(raw, inflater)' /\ Building' /\ Decoded' /\ Spaced' /\ Reading' /\ SkipIsBounded'
      BY <1>2, <2>1 DEF IInv, Feed, data_end, Avail, Building, Decoded, Built, Spaced, Reading,
                        SkipIsBounded
    <2>4. ReadAtExact'
      <3> SUFFICES ASSUME ~(q.offset >= stream.uncompressed_size)
                   PROVE  <<>> = [k \in 1..want' |-> q.offset + k - 1]
        BY <1>2, <2>1 DEF ReadAtExact
      <3>1. stream.uncompressed_size \in Nat /\ q.len = 0 /\ q.offset < stream.uncompressed_size
        BY <1>1, <1>4, <1>7, StreamIs
      <3>2. want' = 0
        BY <1>1, <1>2, <3>1 DEF want, MinOf
      <3> QED
        BY <3>2
    <2> QED
      BY <1>6, <2>2, <2>3, <2>4 DEF IInv
  <1>8. CASE ~(q.offset >= stream.uncompressed_size \/ q.len = 0)
    <2>1. /\ raw' = [file_pos |-> cp.input_offset, unread |-> 0]
          /\ inflater' = [taken |-> cp.blob, returned |-> cp.output_offset, sync |-> TRUE]
          /\ to_skip' = q.offset - cp.output_offset
          /\ pc' = IF q.offset > cp.output_offset THEN "skipping" ELSE "filling"
          /\ result' = "none"
      BY <1>8 DEF Begin, NewRaw
    <2>2. /\ q.offset < stream.uncompressed_size /\ q.len > 0
          /\ stream.uncompressed_size \in Nat /\ stream.data_start \in Nat
          /\ stream.compressed_size \in Nat
      BY <1>1, <1>4, <1>8, StreamIs
    <2>3. to_skip' \in Nat /\ cp.output_offset + to_skip' = q.offset
      BY <1>1, <1>3, <1>5, <2>1
    <2>4. TypeOK'
      <3>1. raw' \in [file_pos : Nat, unread : Nat] /\ inflater' \in Inflaters
        BY <1>5, <2>1 DEF Inflaters
      <3> QED
        BY <1>1, <1>2, <2>1, <2>3, <3>1 DEF IInv, TypeOK
    <2>5. Feed(raw, inflater)'
      <3>1. /\ raw'.file_pos = cp.input_offset /\ raw'.unread = 0
            /\ inflater'.taken = cp.blob /\ inflater'.returned = cp.output_offset
            /\ inflater'.sync = TRUE
        BY <2>1
      <3> HIDE DEF cp
      <3> QED
        BY <1>2, <1>4, <1>5, <2>2, <3>1 DEF Feed, Resumable, data_end, Avail
    <2>6. Building' /\ Decoded' /\ Spaced' /\ ReadAtExact'
      <3>1. pc' \in {"skipping", "filling"}
        BY <2>1
      <3> QED
        BY <1>2, <3>1 DEF IInv, Building, Decoded, Built, Spaced, ReadAtExact, Avail
    <2>7. Reading'
      <3>1. inflater'.returned = cp.output_offset
        BY <2>1
      <3>2. pc' = "skipping" => to_skip' > 0
        BY <1>1, <1>5, <2>1
      <3>3. pc' = "filling" => cp.output_offset = q.offset /\ want' > 0
        BY <1>1, <1>2, <1>3, <1>5, <2>1, <2>2 DEF want, MinOf
      <3> HIDE DEF cp
      <3> QED
        BY <1>1, <1>2, <2>1, <2>2, <2>3, <3>1, <3>2, <3>3 DEF Reading
    <2>8. SkipIsBounded'
      <3> SUFFICES ASSUME stream.saves = {"current"}
                   PROVE  to_skip' + 1 < interval + IO_CHUNK
        BY <1>2 DEF SkipIsBounded
      <3>1. interval \in Nat /\ IO_CHUNK \in Nat /\ IO_CHUNK > 0 /\ last_output_offset \in Nat
        BY ConstantsAre DEF IInv, TypeOK
      <3>2. CASE i = Len(checkpoints)
        <4>1. cp.output_offset = last_output_offset
          BY <3>2 DEF IInv, Index, LastOffset
        <4>2. stream.uncompressed_size < last_output_offset + interval + IO_CHUNK
          <5>1. stream.uncompressed_size < last_output_offset + interval
            BY <1>2 DEF IInv, Spaced, Built
          <5> QED
            BY <2>2, <3>1, <5>1
        <4> HIDE DEF cp
        <4> QED
          BY <1>1, <1>5, <2>2, <2>3, <3>1, <4>1, <4>2, ShortSkip
      <3>3. CASE i # Len(checkpoints)
        <4>1. i \in 1..(Len(checkpoints) - 1) /\ i + 1 \in 1..Len(checkpoints)
          BY <1>3, <1>4, <3>3
        <4>2. checkpoints[i + 1].output_offset < cp.output_offset + interval + IO_CHUNK
          BY <4>1 DEF IInv, Spaced
        <4>3. checkpoints[i + 1].output_offset > q.offset
          BY <1>3, <3>3
        <4>4. checkpoints[i + 1].output_offset \in Nat
          <5>1. checkpoints[i + 1] \in CheckpointRecords
            BY <1>4, <4>1
          <5> QED
            BY <5>1 DEF CheckpointRecords
        <4>5. PICK x \in Nat : x > q.offset /\ x < cp.output_offset + interval + IO_CHUNK
          BY <4>2, <4>3, <4>4
        <4> HIDE DEF cp, i
        <4> QED
          BY <1>1, <1>5, <2>3, <3>1, <4>5, ShortSkip
      <3> QED
        BY <3>2, <3>3
    <2> QED
      BY <1>6, <2>4, <2>5, <2>6, <2>7, <2>8 DEF IInv
  <1> QED
    BY <1>7, <1>8

\* One turn of the skip loop.
LEMMA SkipTurnKeeps == IInv /\ SkipTurn => IInv'
  <1> SUFFICES ASSUME IInv, SkipTurn PROVE IInv'
    OBVIOUS
  <1>1. /\ pc = "skipping"
        /\ UNCHANGED <<stream, interval, total_out, next_at, last_output_offset,
                       index_bytes, checkpoints, request, got>>
    BY DEF SkipTurn, build
  <1>2. PICK t \in Turns(SkipRoom) :
        /\ raw' = t.raw
        /\ inflater' = t.inflater
        /\ \/ t.res \in {"err", "end"} /\ ReadFails /\ UNCHANGED to_skip
           \/ /\ t.res \in {"more", "bytes"}
              /\ to_skip' = to_skip - Len(t.out)
              /\ pc' = IF to_skip' > 0 THEN "skipping" ELSE "filling"
              /\ UNCHANGED result
    BY DEF SkipTurn
  <1>3. /\ to_skip \in Nat /\ to_skip > 0 /\ request.offset \in Nat /\ request.len \in Nat
        /\ inflater.returned + to_skip = request.offset /\ got = <<>>
        /\ request.offset < stream.uncompressed_size /\ request.len > 0
        /\ stream \in Streams /\ stream.uncompressed_size \in Nat /\ inflater.returned \in Nat
    BY <1>1, StreamIs DEF IInv, TypeOK, Reading, Inflaters
  <1>4. SkipRoom \in Nat /\ SkipRoom > 0 /\ SkipRoom <= to_skip
    BY <1>3, ConstantsAre DEF SkipRoom, MinOf
  <1>5. /\ TurnIsGood(t, SkipRoom) /\ Len(t.out) \in Nat
        /\ raw' \in Raws /\ inflater' \in Inflaters /\ Feed(raw, inflater)'
        /\ data_end <= stream.file_len => t.res # "err"
    BY <1>1, <1>2, <1>4, TurnInInv DEF Built
  <1>6. Len(t.out) <= SkipRoom /\ inflater'.returned = inflater.returned + Len(t.out)
    BY <1>2, <1>5 DEF TurnIsGood
  <1>7. Index'
    BY <1>1 DEF IInv, Index, Resumable, LastOffset, StreamStart, Avail
  <1>8. pc' \in {"ready", "skipping", "filling"}
    BY <1>2 DEF ReadFails
  <1>9. Building' /\ Decoded' /\ Spaced'
    BY <1>1, <1>8 DEF IInv, Building, Decoded, Built, Spaced, Avail
  <1>10. CASE t.res \in {"err", "end"} /\ ReadFails /\ UNCHANGED to_skip
    <2>1. pc' = "ready" /\ result' = "err" /\ to_skip' = to_skip
      BY <1>10 DEF ReadFails
    <2>2. TypeOK'
      BY <1>1, <1>5, <2>1 DEF IInv, TypeOK, Raws
    <2>3. Reading' /\ SkipIsBounded'
      BY <2>1 DEF Reading, SkipIsBounded
    <2>4. t.res # "end"
      <3> SUFFICES ASSUME t.res = "end" PROVE FALSE
        OBVIOUS
      <3>1. t.inflater.returned = stream.uncompressed_size /\ Len(t.out) = 0
        BY <1>1, <1>5 DEF TurnIsGood, Finished, IInv, Decoded, Built
      <3> QED
        BY <1>2, <1>3, <1>6, <3>1
    <2>5. ReadAtExact'
      BY <1>1, <1>5, <1>10, <2>1, <2>4 DEF ReadAtExact, data_end
    <2> QED
      BY <1>5, <1>7, <1>9, <2>2, <2>3, <2>5 DEF IInv
  <1>11. CASE /\ to_skip' = to_skip - Len(t.out)
              /\ pc' = IF to_skip' > 0 THEN "skipping" ELSE "filling"
              /\ UNCHANGED result
    <2>1. /\ to_skip' \in Nat /\ to_skip' <= to_skip
          /\ inflater'.returned + to_skip' = request.offset
      BY <1>3, <1>4, <1>5, <1>6, <1>11
    <2>2. TypeOK'
      BY <1>1, <1>5, <1>11, <2>1 DEF IInv, TypeOK, Raws
    <2>3. Reading'
      <3>1. want' = want /\ want > 0
        BY <1>1, <1>3 DEF want, MinOf
      <3>2. pc' = "filling" => inflater'.returned = request.offset
        BY <1>3, <1>6, <1>5, <1>11, <2>1
      <3>3. Len(got') = 0 /\ got' = <<>>
        BY <1>1, <1>3
      <3>4. pc' = "skipping" => to_skip' > 0
        BY <1>11
      <3>5. pc' = "filling" => request.offset = request.offset + 0 /\ 0 < want
        BY <1>3, <3>1
      <3> QED
        BY <1>1, <1>3, <1>8, <1>11, <2>1, <3>1, <3>2, <3>3, <3>4, <3>5 DEF Reading
    <2>4. SkipIsBounded'
      <3>1. interval \in Nat /\ IO_CHUNK \in Nat
        BY ConstantsAre DEF IInv, TypeOK
      <3>2. stream.saves = {"current"} => to_skip + 1 < interval + IO_CHUNK
        BY <1>1 DEF IInv, SkipIsBounded
      <3> QED
        <4>1. to_skip \in Nat /\ to_skip' \in Nat /\ to_skip' <= to_skip
          BY <1>3, <2>1
        <4>2. \A a, b \in Nat :
                b <= a /\ a + 1 < interval + IO_CHUNK => b + 1 < interval + IO_CHUNK
          BY <3>1
        <4> QED
          BY <1>1, <3>2, <4>1, <4>2 DEF SkipIsBounded
    <2>5. ReadAtExact'
      BY <1>11 DEF ReadAtExact
    <2> QED
      BY <1>5, <1>7, <1>9, <2>2, <2>3, <2>4, <2>5 DEF IInv
  <1> QED
    BY <1>2, <1>10, <1>11

\* One turn of the fill loop.
LEMMA FillTurnKeeps == IInv /\ FillTurn => IInv'
  <1> SUFFICES ASSUME IInv, FillTurn PROVE IInv'
    OBVIOUS
  <1>1. /\ pc = "filling"
        /\ UNCHANGED <<stream, interval, total_out, next_at, last_output_offset,
                       index_bytes, checkpoints, request, to_skip>>
    BY DEF FillTurn, build
  <1>2. PICK t \in Turns(want - Len(got)) :
        /\ raw' = t.raw
        /\ inflater' = t.inflater
        /\ got' = got \o t.out
        /\ \/ t.res = "err" /\ ReadFails
           \/ t.res = "end" /\ pc' = "ready" /\ result' = "ok"
           \/ /\ t.res \in {"more", "bytes"}
              /\ IF Len(got') < want THEN UNCHANGED <<pc, result>>
                 ELSE pc' = "ready" /\ result' = "ok"
    BY DEF FillTurn
  <1> DEFINE n == want - Len(got)
  <1>3. /\ request.offset \in Nat /\ request.len \in Nat
        /\ request.offset < stream.uncompressed_size /\ request.len > 0
        /\ stream \in Streams /\ stream.uncompressed_size \in Nat /\ inflater.returned \in Nat
        /\ got \in Seq(Nat \union {Junk}) /\ Len(got) \in Nat
        /\ inflater.returned = request.offset + Len(got) /\ Len(got) < want
        /\ \A k \in 1..Len(got) : got[k] = request.offset + k - 1
    <2>1. /\ request \in [offset : Nat, len : Nat] /\ stream \in Streams
          /\ inflater \in Inflaters /\ got \in Seq(Nat \union {Junk})
      BY DEF IInv, TypeOK
    <2>2. Len(got) \in Nat
      BY <2>1
    <2>3. inflater.returned \in Nat
      BY <2>1 DEF Inflaters
    <2>4. /\ request.offset < stream.uncompressed_size /\ request.len > 0
          /\ inflater.returned = request.offset + Len(got) /\ Len(got) < want
          /\ \A k \in 1..Len(got) : got[k] = request.offset + k - 1
      BY <1>1 DEF IInv, Reading
    <2>5. stream.uncompressed_size \in Nat
      BY <2>1, StreamIs
    <2> QED
      BY <2>1, <2>2, <2>3, <2>4, <2>5
  <1>4. want \in Nat /\ request.offset + want <= stream.uncompressed_size /\ want' = want
    BY <1>1, <1>3 DEF want, MinOf
  <1>5. n \in Nat /\ n > 0
    BY <1>3, <1>4
  <1>6. /\ TurnIsGood(t, n) /\ Len(t.out) \in Nat
        /\ raw' \in Raws /\ inflater' \in Inflaters /\ Feed(raw, inflater)'
        /\ data_end <= stream.file_len => t.res # "err"
    BY <1>1, <1>2, <1>5, TurnInInv DEF Built
  <1>7. /\ Len(t.out) <= n /\ inflater'.returned = inflater.returned + Len(t.out)
        /\ t.out \in Seq(Nat)
        /\ \A k \in 1..Len(t.out) : t.out[k] = inflater.returned + k - 1
        /\ t.res \in {"err", "end"} => Len(t.out) = 0
    BY <1>2, <1>6 DEF TurnIsGood
  <1>8. /\ got' \in Seq(Nat \union {Junk}) /\ Len(got') = Len(got) + Len(t.out)
        /\ \A k \in 1..Len(got) : got'[k] = got[k]
        /\ \A k \in 1..Len(t.out) : got'[Len(got) + k] = t.out[k]
    <2>1. t.out \in Seq(Nat \union {Junk})
      <3>1. t.out \in Seq(Nat) /\ Nat \subseteq Nat \union {Junk}
        BY <1>7
      <3> QED
        BY <3>1, SeqWidens
    <2>2. got \in Seq(Nat \union {Junk}) /\ got' = got \o t.out
      BY <1>2, <1>3
    <2> QED
      BY <2>1, <2>2
  <1>9. \A k \in 1..Len(got') : got'[k] = request.offset + k - 1
    <2> SUFFICES ASSUME NEW k \in 1..Len(got') PROVE got'[k] = request.offset + k - 1
      OBVIOUS
    <2>1. CASE k <= Len(got)
      BY <1>3, <1>8, <2>1
    <2>2. CASE k > Len(got)
      <3>1. PICK j \in 1..Len(t.out) : k = Len(got) + j
        <4>1. k - Len(got) \in 1..Len(t.out) /\ k = Len(got) + (k - Len(got))
          BY <1>3, <1>6, <1>8, <2>2
        <4> QED
          BY <4>1
      <3>2. got'[k] = inflater.returned + j - 1
        BY <1>7, <1>8, <3>1
      <3> QED
        BY <1>3, <1>6, <3>1, <3>2
    <2> QED
      BY <1>3, <1>6, <1>8, <2>1, <2>2
  <1>10. Len(got') \in Nat /\ Len(got') <= want /\ inflater'.returned = request.offset + Len(got')
    BY <1>3, <1>4, <1>6, <1>7, <1>8
  <1>11. Index'
    BY <1>1 DEF IInv, Index, Resumable, LastOffset, StreamStart, Avail
  <1>12. \/ pc' = "ready" /\ result' = "err" /\ t.res = "err"
         \/ pc' = "ready" /\ result' = "ok" /\ t.res = "end"
         \/ pc' = "ready" /\ result' = "ok" /\ ~(Len(got') < want)
         \/ pc' = "filling" /\ result' = result /\ Len(got') < want
    BY <1>1, <1>2 DEF ReadFails
  <1>13. Building' /\ Decoded' /\ Spaced'
    BY <1>1, <1>12 DEF IInv, Building, Decoded, Built, Spaced, Avail
  <1>14. TypeOK'
    BY <1>1, <1>6, <1>8, <1>12 DEF IInv, TypeOK, Raws
  <1>15. Reading' /\ SkipIsBounded'
    BY <1>1, <1>3, <1>4, <1>9, <1>10, <1>12 DEF Reading, SkipIsBounded
  <1>16. t.res # "end"
    <2> SUFFICES ASSUME t.res = "end" PROVE FALSE
      OBVIOUS
    <2>1. t.inflater.returned = stream.uncompressed_size /\ Len(t.out) = 0
      BY <1>1, <1>6, <1>7 DEF TurnIsGood, Finished, IInv, Decoded, Built
    <2> QED
      BY <1>2, <1>3, <1>4, <1>7, <2>1
  <1>17. ReadAtExact'
    <2> SUFFICES ASSUME pc' = "ready"
                 PROVE  /\ data_end <= stream.file_len => result' = "ok"
                        /\ result' = "ok" => got' = [k \in 1..want |-> request.offset + k - 1]
      BY <1>1, <1>3, <1>4 DEF ReadAtExact, data_end
    <2>1. result' = "ok" => Len(got') = want
      BY <1>4, <1>10, <1>12, <1>16
    <2>2. result' = "ok" => got' = [k \in 1..want |-> request.offset + k - 1]
      <3> SUFFICES ASSUME Len(got') = want
                   PROVE  got' = [k \in 1..want |-> request.offset + k - 1]
        BY <2>1
      <3> QED
        BY <1>4, <1>8, <1>9, CountsUp
    <2> QED
      BY <1>6, <1>12, <2>2
  <1> QED
    BY <1>6, <1>11, <1>13, <1>14, <1>15, <1>17 DEF IInv

(***************************************************************************)
(* The invariants.                                                         *)
(***************************************************************************)
\* The inductive invariant of build_index_capped and read_at.
THEOREM Invariant == Spec => []IInv
  <1>1. IInv /\ [Next]_vars => IInv'
    <2> SUFFICES ASSUME IInv, [Next]_vars PROVE IInv'
      OBVIOUS
    <2>1. CASE BuildTurn
      BY <2>1, BuildTurnKeeps
    <2>2. CASE SkipTurn
      BY <2>2, SkipTurnKeeps
    <2>3. CASE FillTurn
      BY <2>3, FillTurnKeeps
    <2>4. CASE \E q \in Requests : Begin(q)
      BY <2>4, BeginKeeps
    <2>5. CASE UNCHANGED vars
      BY <2>5 DEF vars, build, read, IInv, TypeOK, Feed, Index, Building, Decoded, Built, Spaced,
                  Reading, SkipIsBounded, ReadAtExact, Resumable, LastOffset, StreamStart,
                  Avail, data_end, want
    <2> QED
      BY <2>1, <2>2, <2>3, <2>4, <2>5 DEF Next, Step
  <1> QED
    BY <1>1, InitEstablishes, PTL DEF Spec

\* build_index_capped and read_at: counters and caps, whatever the stream holds.
THEOREM TypeCorrect == Spec => []TypeOK
  <1>1. IInv => TypeOK
    BY DEF IInv
  <1> QED
    BY <1>1, Invariant, PTL

\* The index of build_index_capped: strictly increasing, from the stream start,
\* and every checkpoint a place where decoding can go on.
THEOREM CheckpointsCanResume == Spec => []CheckpointsResume
  <1>1. IInv => CheckpointsResume
    <2> SUFFICES ASSUME IInv PROVE CheckpointsResume
      OBVIOUS
    <2>1. ASSUME NEW i \in 1..Len(checkpoints)
          PROVE  checkpoints[i].input_offset <= data_end
      <3>1. checkpoints[i] \in CheckpointRecords /\ Resumable(checkpoints[i]) /\ stream \in Streams
        BY DEF IInv, TypeOK, Index
      <3>2. checkpoints[i].blob \in Nat
        BY <3>1 DEF CheckpointRecords
      <3> QED
        BY <3>1, <3>2, StreamIs DEF Resumable, data_end
    <2> QED
      BY <2>1 DEF IInv, Index, Resumable, CheckpointsResume
  <1> QED
    BY <1>1, Invariant, PTL

\* Deflate64Index::read_at returns the bytes asked for, from any checkpoint.
THEOREM ReadAtReturnsExact == Spec => []ReadAtExact
  <1>1. IInv => ReadAtExact
    BY DEF IInv
  <1> QED
    BY <1>1, Invariant, PTL

\* A read skips less than the interval and one working buffer, where each
\* capture saves the current state.
THEOREM SkipBounded == Spec => []SkipIsBounded
  <1>1. IInv => SkipIsBounded
    BY DEF IInv
  <1> QED
    BY <1>1, Invariant, PTL

(***************************************************************************)
(* The loops move on.                                                      *)
(***************************************************************************)
\* Inflater f is ahead of the current one, and not past what the entry holds.
Ahead(f) ==
    /\ f.taken >= inflater.taken
    /\ f.returned >= inflater.returned
    /\ f.taken > inflater.taken \/ f.returned > inflater.returned
    /\ f.taken <= stream.compressed_size
    /\ f.returned <= Avail(stream.compressed_size)

Loops == {"building", "skipping", "filling"}

\* A turn that does not leave the loops of its call has moved the inflater.
MovesOn == pc \in Loops /\ pc' \in Loops => Ahead(inflater') /\ UNCHANGED stream

\* The inflater takes a unit or writes a byte when there is input, no invalid data
\* at its place, room, and it is not finished.
LEMMA StepIfFed ==
    ASSUME IInv, ~TurnFails, Refilled.unread > 0, ~Finished(inflater),
           NEW n \in Nat, n > 0, NEW s \in InflateSteps(inflater, Refilled.unread, n)
    PROVE  s[1] # 0 \/ s[2] # 0
  <1> DEFINE f     == inflater
             k     == Refilled.unread
             lim   == MinOf(stream.end_at, stream.err_at) - f.taken
             takes == 0..MinOf(k, lim)
             steps == { p \in takes \X (0..n) : f.returned + p[2] <= Avail(f.taken + p[1]) }
  <1>1. stream \in Streams /\ raw \in Raws /\ f \in Inflaters /\ Feed(raw, f)
    BY DEF IInv, TypeOK, Raws
  <1>2. Refilled \in Raws /\ Feed(Refilled, f)
    BY <1>1, RefillKeepsPlace
  <1>3. /\ f.taken \in Nat /\ f.returned \in Nat /\ k \in Nat /\ k > 0
        /\ f.taken + k <= stream.compressed_size
        /\ stream.end_at \in Nat /\ stream.err_at \in Nat /\ stream.compressed_size \in Nat
        /\ f.taken <= stream.end_at /\ f.taken <= stream.err_at
        /\ f.returned <= Avail(f.taken)
    BY <1>1, <1>2, TakenBounded, StreamIs DEF Feed
  <1>4. f.taken < stream.err_at
    BY <1>3 DEF TurnFails
  <1>5. Avail(f.taken) \in Nat /\ Avail(f.taken + 1) \in Nat /\ Avail(f.taken) <= Avail(f.taken + 1)
    <2>1. f.taken + 1 \in Nat /\ f.taken + 1 <= stream.compressed_size
          /\ f.taken <= stream.compressed_size /\ f.taken <= f.taken + 1
      <3> HIDE DEF f, k
      <3> QED
        BY <1>3
    <2> HIDE DEF f
    <2> QED
      BY <1>1, <1>3, <2>1, AvailIs, AvailGrows
  <1>6. CASE f.taken = stream.end_at
    <2>1. f.returned + 1 <= Avail(f.taken)
      BY <1>3, <1>5, <1>6 DEF Finished
    <2> QED
      BY <1>1, <1>3, <2>1, InflateStepIs
  <1>7. CASE f.taken # stream.end_at
    <2>1. lim \in Nat /\ lim >= 1
      <3> HIDE DEF f
      <3> QED
        BY <1>3, <1>4, <1>7 DEF MinOf
    <2>2. 1 \in takes
      <3> HIDE DEF lim, k
      <3> QED
        BY <1>3, <2>1 DEF MinOf
    <2>3. 0 \in 0..n /\ f.returned + 0 <= Avail(f.taken + 1)
      <3> HIDE DEF f
      <3> QED
        BY <1>3, <1>5
    <2>4. <<1, 0>> \in steps
      <3> HIDE DEF takes
      <3> QED
        BY <2>2, <2>3
    <2>5. InflateSteps(f, k, n) = IF \E p \in steps : p # <<0, 0>> THEN steps \ {<<0, 0>>} ELSE steps
      BY DEF InflateSteps
    <2>6. s \in steps /\ s # <<0, 0>>
      <3>1. <<1, 0>> # <<0, 0>>
        OBVIOUS
      <3> HIDE DEF steps, f, k
      <3>2. s \in InflateSteps(f, k, n)
        BY DEF f, k
      <3> QED
        BY <2>4, <2>5, <3>1, <3>2
    <2>7. s = <<s[1], s[2]>>
      BY <2>6
    <2> QED
      BY <2>6, <2>7
  <1> QED
    BY <1>6, <1>7

\* One turn of RawInflate::read after which it, or its caller, goes round again.
LEMMA TurnMovesOn ==
    ASSUME IInv, NEW n \in Nat, n > 0, NEW t \in Turns(n), t.res \in {"more", "bytes"}
    PROVE  Ahead(t.inflater)
  <1>1. stream \in Streams /\ raw \in Raws /\ inflater \in Inflaters /\ Feed(raw, inflater)
    BY DEF IInv, TypeOK, Raws
  <1>2. ~TurnFails
    BY DEF Turns, FailedTurn
  <1>3. PICK s \in InflateSteps(inflater, Refilled.unread, n) : t = Turn(Refilled, s[1], s[2])
    BY <1>2 DEF Turns
  <1> DEFINE c == s[1]
             m == s[2]
             f == t.inflater
  <1>4. TurnIsGood(t, n)
    BY <1>1, TurnsAreGood
  <1>5. Feed(Refilled, inflater) /\ Refilled \in Raws
    BY <1>1, RefillKeepsPlace
  <1>6. /\ inflater.taken \in Nat /\ inflater.returned \in Nat /\ Refilled.unread \in Nat
        /\ inflater.taken <= stream.end_at /\ inflater.taken <= stream.err_at
    BY <1>1, <1>5, TakenBounded DEF Feed
  <1>7. c \in Nat /\ m \in Nat
    BY <1>1, <1>6, InflateStepIs
  <1>8. f.taken = inflater.taken + c /\ f.returned = inflater.returned + m
    BY <1>1, <1>3 DEF Turn, Inflaters
  <1>9. t.res = TurnResult(Refilled, f, c, m)
    BY <1>3 DEF Turn
  <1>10. f.taken \in Nat /\ f.taken <= stream.compressed_size /\ f.returned <= Avail(f.taken)
    BY <1>1, <1>4, TakenBounded DEF TurnIsGood, Feed
  <1>11. Avail(f.taken) \in Nat /\ Avail(stream.compressed_size) \in Nat
         /\ Avail(f.taken) <= Avail(stream.compressed_size)
    <2>1. stream.compressed_size \in Nat
          /\ stream.compressed_size <= stream.compressed_size
      BY <1>1, StreamIs
    <2> HIDE DEF f
    <2> QED
      BY <1>1, <1>10, <2>1, AvailIs, AvailGrows
  <1>12. c > 0 \/ m > 0
    <2> SUFFICES ASSUME c = 0, m = 0 PROVE FALSE
      BY <1>7
    <2>1. f.taken = inflater.taken /\ f.returned = inflater.returned
      BY <1>6, <1>8
    <2>2. ~Finished(f) /\ Refilled.unread # 0
      BY <1>9 DEF TurnResult
    <2>3. ~Finished(inflater)
      BY <2>1, <2>2 DEF Finished
    <2>4. Refilled.unread > 0
      BY <1>6, <2>2
    <2> QED
      BY <1>2, <2>3, <2>4, StepIfFed
  <1> HIDE DEF f, c, m
  <1>13. f.returned \in Nat
    BY <1>6, <1>7, <1>8
  <1>14. f.returned <= Avail(stream.compressed_size)
    BY <1>10, <1>11, <1>13
  <1>15. /\ f.taken >= inflater.taken /\ f.returned >= inflater.returned
         /\ f.taken > inflater.taken \/ f.returned > inflater.returned
    BY <1>6, <1>7, <1>8, <1>12
  <1>16. Ahead(f)
    BY <1>10, <1>14, <1>15 DEF Ahead
  <1> QED
    BY <1>16 DEF f

\* build_index_capped and Deflate64Index::read_at: no turn of the build, skip and
\* fill loops, nor of the loop of RawInflate::read under them, stands still.  Each
\* takes input or returns output, and no more of either than the entry holds, so
\* a call is over after at most as many turns as it has units and bytes.
THEOREM TurnsMoveOn == Spec => [][MovesOn]_vars
  <1>1. IInv /\ [Next]_vars => [MovesOn]_vars
    <2> SUFFICES ASSUME IInv, Next, pc \in Loops, pc' \in Loops
                 PROVE  Ahead(inflater') /\ stream' = stream
      BY DEF MovesOn
    <2>1. CASE BuildTurn
      <3>1. PICK t \in Turns(IO_CHUNK) : inflater' = t.inflater /\ t.res \in {"more", "bytes"}
        BY <2>1 DEF BuildTurn, Loops
      <3>2. stream' = stream
        BY <2>1 DEF BuildTurn
      <3> QED
        BY <3>1, <3>2, ConstantsAre, TurnMovesOn
    <2>2. CASE SkipTurn
      <3>1. PICK t \in Turns(SkipRoom) : inflater' = t.inflater /\ t.res \in {"more", "bytes"}
        BY <2>2 DEF SkipTurn, ReadFails, Loops
      <3>2. stream' = stream /\ pc = "skipping"
        BY <2>2 DEF SkipTurn
      <3>3. SkipRoom \in Nat /\ SkipRoom > 0
        BY <3>2, ConstantsAre DEF IInv, TypeOK, Reading, SkipRoom, MinOf
      <3> QED
        BY <3>1, <3>2, <3>3, TurnMovesOn
    <2>3. CASE FillTurn
      <3>1. PICK t \in Turns(want - Len(got)) : inflater' = t.inflater /\ t.res \in {"more", "bytes"}
        BY <2>3 DEF FillTurn, ReadFails, Loops
      <3>2. stream' = stream /\ pc = "filling"
        BY <2>3 DEF FillTurn
      <3>3. want \in Nat /\ Len(got) \in Nat /\ Len(got) < want
        <4>1. /\ request.offset \in Nat /\ request.len \in Nat /\ Len(got) \in Nat
              /\ request.offset < stream.uncompressed_size /\ stream.uncompressed_size \in Nat
              /\ Len(got) < want
          BY <3>2, StreamIs, SMTT(30) DEF IInv, TypeOK, Reading
        <4> QED
          BY <4>1 DEF want, MinOf
      <3>4. want - Len(got) \in Nat /\ want - Len(got) > 0
        BY <3>3
      <3> QED
        BY <3>1, <3>2, <3>4, TurnMovesOn
    <2>4. CASE \E q \in Requests : Begin(q)
      BY <2>4 DEF Begin, Loops
    <2> QED
      BY <2>1, <2>2, <2>3, <2>4 DEF Next, Step
  <1> QED
    BY <1>1, Invariant, PTL DEF Spec
================================================================================
