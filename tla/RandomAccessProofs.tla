-------------------------- MODULE RandomAccessProofs --------------------------
(***************************************************************************)
(* Proofs about RandomAccess, for any entries, requests, block lengths and *)
(* width of the offsets.                                                   *)
(***************************************************************************)
EXTENDS RandomAccess, Lemmas

Walked == meta.method # "Stored"

\* Blocks in a row, from 0 to total.
Contiguous(bs, total) ==
    /\ Len(bs) = 0 => total = 0
    /\ Len(bs) > 0 => /\ bs[1].uncomp_start = 0
                      /\ bs[Len(bs)].uncomp_start + bs[Len(bs)].len = total
    /\ \A i \in 1..(Len(bs) - 1) :
          bs[i + 1].uncomp_start = bs[i].uncomp_start + bs[i].len

\* Block b points at the bytes that the decoder makes of it: those that are in
\* the file are in its output, at the block's place.
Faithful(b, out, file_len) ==
    \A k \in 1..b.len : b.file_offset + k <= file_len =>
        /\ b.uncomp_start + k <= Len(out)
        /\ out[b.uncomp_start + k] = b.file_offset + k - 1

\* Nothing wraps on the way to a byte of the index.
SpanFits == Walked \/ ( /\ meta.uncompressed_size = meta.compressed_size
                        /\ meta.data_start + meta.compressed_size < Word )

InSpan(f) == meta.data_start <= f /\ f < meta.data_start + meta.compressed_size

\* What the walk keeps: the output of the blocks taken so far is uoff bytes long
\* and inside the span, and the walk has moved on in the file at least as far.
Walking ==
    /\ Len(oracle) = uoff
    /\ meta.data_start + uoff <= foff
    /\ Contiguous(blocks, uoff)

\* The facts about a block index, while it is built and when it is used.
Index ==
    /\ \A i \in 1..Len(blocks) :
          /\ SpanFits => Faithful(blocks[i], oracle, meta.file_len)
          /\ SpanFits => blocks[i].file_offset + blocks[i].len < Word
    /\ Walked => \A k \in 1..Len(oracle) : InSpan(oracle[k])

Started == pc \notin {"opening", "walking", "failed"}

\* The phase of open_entry, and what each layout rests on.
Opened ==
    /\ Started <=> layout # "none"
    /\ pc = "opening" => blocks = <<>> /\ oracle = <<>> /\ uoff = 0
    /\ pc = "walking" => Walked /\ Walking /\ Index
    /\ layout = "StoredBlocks" => /\ Len(blocks) > 0
                                  /\ Contiguous(blocks, meta.uncompressed_size)
                                  /\ Index
    /\ layout \in {"Fallback", "Deflate64"} => oracle = Run(0, meta.decoded_len)
    /\ layout = "Deflate64" => meta.decoded_len = meta.uncompressed_size

\* What a read has put into the buffer so far is the decoder's output from the
\* request's offset on.
Copied ==
    \A k \in 1..Len(got) :
        /\ request.offset + k <= Len(oracle)
        /\ got[k] = oracle[request.offset + k]

Reading ==
    /\ ~Started => got = <<>> /\ result = "none"
    /\ layout = "StoredBlocks" /\ SpanFits => Copied
    /\ pc = "reading" => /\ request.offset < meta.uncompressed_size
                         /\ request.len > 0
                         /\ request.offset <= cur
                         /\ cur = request.offset \/ cur <= want_end
                         /\ layout = "StoredBlocks" => Len(got) = cur - request.offset

IInv == meta \in Metas /\ TypeOK /\ Opened /\ Reading /\ ReadAtIsSlice

(***************************************************************************)
(* The operators.                                                          *)
(***************************************************************************)
\* What the proofs need of the width.
LEMMA WordIs == Word \in Nat /\ Word > 5 /\ 0 \in 0..(Word - 1)
  BY AccessAssumption DEF HeaderLen

\* Adding as a release build does, and where it does not wrap.
LEMMA Add64Is ==
    ASSUME NEW a \in Nat, NEW b \in Nat
    PROVE  /\ Add64(a, b) \in 0..(Word - 1)
           /\ a + b < Word => Add64(a, b) = a + b
  <1>1. Add64(a, b) \in 0..(Word - 1)
    BY WordIs DEF Add64
  <1>2. a + b < Word => Add64(a, b) = a + b
    BY WordIs DEF Add64
  <1> QED
    BY <1>1, <1>2

\* A wrapped sum of two words is below either of them.
LEMMA Add64Wraps ==
    ASSUME NEW a \in 0..(Word - 1), NEW b \in 0..(Word - 1), a + b >= Word
    PROVE  Add64(a, b) = a + b - Word
  BY WordIs DEF Add64

\* The bytes of a run.
LEMMA RunIs ==
    ASSUME NEW f \in Nat, NEW n \in Nat
    PROVE  /\ Run(f, n) \in Seq(Nat)
           /\ Len(Run(f, n)) = n
           /\ \A k \in 1..n : Run(f, n)[k] = f + k - 1
  BY DEF Run

\* What the types say of an entry's record.
LEMMA MetaNumbers ==
    ASSUME NEW mt \in MetaRecords
    PROVE  /\ mt.method \in Methods
           /\ mt.data_start \in 0..(Word - 1)
           /\ mt.compressed_size \in 0..(Word - 1)
           /\ mt.uncompressed_size \in 0..(Word - 1)
           /\ mt.file_len \in 0..(Word - 1)
           /\ mt.decoded_len \in 0..(Word - 1)
  BY DEF MetaRecords

\* A byte of the part of a block that a turn reads.
LEMMA InsideBlock ==
    ASSUME NEW u \in Nat, NEW len \in Nat, NEW w \in Nat, NEW n \in Nat,
           w + n <= len, NEW j \in 1..n
    PROVE  /\ w + j \in 1..len
           /\ u + (w + j) = (u + w) + j
  OBVIOUS

\* partition_point finds a block while the cursor is before the end.
LEMMA NextBlockExists ==
    ASSUME TypeOK, Len(blocks) > 0, Contiguous(blocks, meta.uncompressed_size),
           cur < meta.uncompressed_size
    PROVE  \E i \in 1..Len(blocks) : IsNextBlock(i)
  <1> DEFINE past == {i \in 1..Len(blocks) : ~EndsAtOrBefore(blocks[i])}
  <1>1. Len(blocks) \in Nat /\ Len(blocks) \in 1..Len(blocks)
    BY DEF TypeOK
  <1>2. Len(blocks) \in past
    BY <1>1, MetaNumbers DEF TypeOK, Contiguous, EndsAtOrBefore
  <1>3. PICK i \in past : \A j \in past : i <= j
    <2>1. past \subseteq Nat
      BY <1>1
    <2> HIDE DEF past
    <2> QED
      BY <1>2, <2>1, LeastOf
  <1>4. \A j \in 1..(i - 1) : EndsAtOrBefore(blocks[j])
    BY <1>1, <1>3
  <1> QED
    BY <1>3, <1>4 DEF IsNextBlock

\* The block found holds the cursor.
LEMMA NextBlockHoldsCursor ==
    ASSUME TypeOK, Contiguous(blocks, meta.uncompressed_size),
           NEW i \in 1..Len(blocks), IsNextBlock(i)
    PROVE  /\ blocks[i] \in BlockRecords
           /\ blocks[i].uncomp_start <= cur
           /\ cur < blocks[i].uncomp_start + blocks[i].len
  <1>1. Len(blocks) \in Nat /\ blocks[i] \in BlockRecords /\ cur \in Nat
    BY DEF TypeOK
  <1>2. blocks[i].uncomp_start \in Nat /\ blocks[i].len \in Nat
    BY <1>1 DEF BlockRecords
  <1>3. cur < blocks[i].uncomp_start + blocks[i].len
    BY <1>1, <1>2 DEF IsNextBlock, EndsAtOrBefore
  <1>4. CASE i = 1
    BY <1>1, <1>3, <1>4 DEF Contiguous
  <1>5. CASE i # 1
    <2>1. i - 1 \in 1..(Len(blocks) - 1) /\ i - 1 \in 1..(i - 1) /\ (i - 1) + 1 = i
      BY <1>1, <1>5
    <2>2. blocks[i].uncomp_start = blocks[i - 1].uncomp_start + blocks[i - 1].len
      BY <2>1 DEF Contiguous
    <2>3. blocks[i - 1].uncomp_start + blocks[i - 1].len <= cur
      BY <2>1 DEF IsNextBlock, EndsAtOrBefore
    <2> QED
      BY <1>1, <1>3, <2>2, <2>3
  <1> QED
    BY <1>4, <1>5

\* A block appended where the last one ends keeps the row.
LEMMA ContiguousAppend ==
    ASSUME NEW bs \in Seq(BlockRecords), NEW total \in Nat, Contiguous(bs, total),
           NEW b \in BlockRecords, b.uncomp_start = total
    PROVE  Contiguous(Append(bs, b), total + b.len)
  <1> DEFINE cs == Append(bs, b)
  <1>1. /\ Len(cs) = Len(bs) + 1 /\ Len(bs) \in Nat /\ cs[Len(bs) + 1] = b
        /\ \A k \in 1..Len(bs) : cs[k] = bs[k]
    BY AppendIs
  <1> HIDE DEF cs
  <1>2. cs[1].uncomp_start = 0
    <2>1. CASE Len(bs) = 0
      BY <1>1, <2>1 DEF Contiguous
    <2>2. CASE Len(bs) # 0
      BY <1>1, <2>2 DEF Contiguous
    <2> QED
      BY <2>1, <2>2
  <1>3. ASSUME NEW i \in 1..Len(bs)
        PROVE  cs[i + 1].uncomp_start = cs[i].uncomp_start + cs[i].len
    <2>1. CASE i = Len(bs)
      BY <1>1, <2>1 DEF Contiguous
    <2>2. CASE i # Len(bs)
      <3>1. i \in 1..(Len(bs) - 1) /\ i + 1 \in 1..Len(bs)
        BY <1>1, <2>2
      <3> QED
        BY <1>1, <3>1 DEF Contiguous
    <2> QED
      BY <2>1, <2>2
  <1>4. cs[Len(cs)].uncomp_start + cs[Len(cs)].len = total + b.len
    BY <1>1
  <1> QED
    BY <1>1, <1>2, <1>3, <1>4 DEF Contiguous, cs

(***************************************************************************)
(* open_entry and the walk.                                                *)
(***************************************************************************)
\* Before the entry is opened there is nothing to say of an index or a read.
LEMMA InitEstablishes == Init => IInv
  <1> SUFFICES ASSUME Init PROVE IInv
    OBVIOUS
  <1>1. meta \in Metas /\ TypeOK
    <2>1. meta \in Metas /\ meta \in MetaRecords
      BY AccessAssumption DEF Init
    <2> QED
      BY <2>1, WordIs DEF Init, TypeOK, NoRequest
  <1>2. Opened
    BY DEF Init, Opened, Started
  <1>3. Reading
    BY DEF Init, Reading, Started, Copied
  <1>4. ReadAtIsSlice
    BY DEF Init, ReadAtIsSlice, Done
  <1> QED
    BY <1>1, <1>2, <1>3, <1>4 DEF IInv

\* A failed or settled opening says nothing of blocks.
LEMMA SettlesKeeps ==
    ASSUME IInv, Idle, pc \in {"opening", "walking"},
           \/ Fails
           \/ Settles("Fallback")
           \/ Settles("Deflate64") /\ meta.decoded_len = meta.uncompressed_size
    PROVE  IInv'
  <1>1. meta' \in Metas /\ meta' \in MetaRecords
    BY AccessAssumption DEF IInv, Idle
  <1>2. Run(0, meta.decoded_len) \in Seq(Nat)
    <2>1. meta \in MetaRecords
      BY <1>1 DEF Idle
    <2>2. meta.decoded_len \in Nat
      BY <2>1, MetaNumbers
    <2> QED
      BY <2>2, RunIs
  <1>3. TypeOK'
    BY <1>1, <1>2 DEF IInv, TypeOK, Idle, Fails, Settles
  <1>4. Opened'
    BY DEF IInv, Opened, Started, Idle, Fails, Settles
  <1>5. got = <<>> /\ result = "none"
    BY DEF IInv, Reading, Started
  <1>6. Reading'
    BY <1>5 DEF IInv, Reading, Started, Copied, Idle, Fails, Settles
  <1>7. ReadAtIsSlice'
    BY <1>5 DEF ReadAtIsSlice, Done, Idle
  <1> QED
    BY <1>1, <1>3, <1>4, <1>6, <1>7 DEF IInv

\* The one block of a method-0 entry.
LEMMA OpenStoredKeeps ==
    ASSUME IInv, Idle, pc = "opening", meta.method = "Stored", OpenStored
    PROVE  IInv'
  <1> DEFINE ds == meta.data_start
             us == meta.uncompressed_size
             n  == MinOf(meta.compressed_size, BytesFrom(meta.data_start))
             b  == [uncomp_start |-> 0, len |-> us, file_offset |-> ds]
  <1>1. meta' = meta /\ meta \in Metas /\ meta \in MetaRecords
    BY AccessAssumption DEF IInv, Idle
  <1>2. /\ ds \in 0..(Word - 1) /\ us \in 0..(Word - 1) /\ Word \in Nat
        /\ meta.compressed_size \in 0..(Word - 1) /\ meta.file_len \in 0..(Word - 1)
    BY <1>1, MetaNumbers, AccessAssumption
  <1>3. n \in Nat
    BY <1>2 DEF MinOf, BytesFrom
  <1>4. /\ Run(ds, n) \in Seq(Nat) /\ Len(Run(ds, n)) = n
        /\ \A k \in 1..n : Run(ds, n)[k] = ds + k - 1
    <2>1. ds \in Nat
      BY <1>2
    <2> QED
      BY <1>3, <2>1, RunIs
  <1>5. b \in BlockRecords
    BY <1>2 DEF BlockRecords
  <1>6. blocks' = <<b>> /\ oracle' = Run(ds, n) /\ pc' = "ready" /\ layout' = "StoredBlocks"
    BY DEF OpenStored
  <1>7. got = <<>> /\ result = "none" /\ got' = <<>> /\ result' = "none"
    BY DEF IInv, Reading, Started, Idle
  <1>8. TypeOK'
    <2>1. blocks' \in Seq(BlockRecords) /\ oracle' \in Seq(Nat)
      BY <1>4, <1>5, <1>6
    <2> QED
      BY <1>1, <1>6, <2>1 DEF IInv, TypeOK, Idle, OpenStored
  <1>9. SpanFits' => Faithful(b, Run(ds, n), meta.file_len)
    <2> SUFFICES ASSUME us = meta.compressed_size, NEW k \in 1..us, ds + k <= meta.file_len
                 PROVE  k <= n
      BY <1>1, <1>4 DEF SpanFits, Walked, Faithful
    <2> QED
      BY <1>2 DEF MinOf, BytesFrom
  <1>10. Index'
    <2>1. SpanFits' => ds + us < Word
      BY <1>1, <1>2 DEF SpanFits, Walked
    <2>2. Len(blocks') = 1 /\ blocks'[1] = b
      BY <1>6
    <2>3. ~Walked'
      BY <1>1 DEF Walked
    <2>4. ASSUME NEW i \in 1..Len(blocks')
          PROVE  /\ SpanFits' => Faithful(blocks'[i], oracle', meta'.file_len)
                 /\ SpanFits' => blocks'[i].file_offset + blocks'[i].len < Word
      <3>1. i = 1 /\ blocks'[i] = b
        BY <2>2, <2>4
      <3>2. b.file_offset = ds /\ b.len = us
        OBVIOUS
      <3> HIDE DEF b, n, ds, us
      <3>3. SpanFits' => Faithful(blocks'[i], oracle', meta'.file_len)
        BY <1>1, <1>6, <1>9, <3>1
      <3> QED
        BY <2>1, <3>1, <3>2, <3>3
    <2> HIDE DEF b, n, ds, us
    <2> QED
      BY <2>3, <2>4 DEF Index
  <1>11. Opened'
    <2>1. Len(blocks') = 1 /\ blocks'[1].uncomp_start = 0 /\ blocks'[1].len = us
      BY <1>6
    <2>2. Contiguous(blocks', us)
      BY <1>2, <2>1 DEF Contiguous
    <2> QED
      BY <1>1, <1>6, <1>10, <2>1, <2>2 DEF Opened, Started
  <1>12. Reading' /\ ReadAtIsSlice'
    BY <1>6, <1>7 DEF Reading, Started, Copied, ReadAtIsSlice, Done
  <1> QED
    BY <1>1, <1>8, <1>11, <1>12 DEF IInv

\* A block is taken only where nothing wraps: its header was read in the file.
LEMMA BlockBounds ==
    ASSUME IInv, pc = "walking", NEW len \in BlockLens,
           Add64(foff, HeaderLen) <= StreamEnd, InFile(foff, HeaderLen),
           ~Overruns(Add64(foff, HeaderLen), len)
    PROVE  /\ Add64(foff, HeaderLen) = foff + HeaderLen
           /\ Add64(foff + HeaderLen, len) = foff + HeaderLen + len
           /\ foff + HeaderLen + len <= meta.data_start + meta.compressed_size
           /\ foff + HeaderLen + len < Word
           /\ Advanced(len) = uoff + len
           /\ len \in Nat /\ foff \in Nat /\ uoff \in Nat
  <1>1. meta \in MetaRecords /\ meta.file_len + len < Word
    BY AccessAssumption DEF IInv
  <1>2. /\ meta.data_start \in 0..(Word - 1) /\ meta.compressed_size \in 0..(Word - 1)
        /\ meta.file_len \in Nat /\ Word \in Nat /\ len \in Nat
        /\ foff \in Nat /\ uoff \in Nat
    BY <1>1, MetaNumbers, AccessAssumption DEF IInv, TypeOK
  <1>3. meta.data_start + uoff <= foff
    BY DEF IInv, Opened, Walking
  <1>4. foff + HeaderLen + len < Word /\ HeaderLen \in Nat
    BY <1>1, <1>2 DEF InFile, HeaderLen
  <1>5. Add64(foff, HeaderLen) = foff + HeaderLen
    BY <1>2, <1>4, Add64Is
  <1>6. Add64(foff + HeaderLen, len) = foff + HeaderLen + len
    <2>1. foff + HeaderLen \in Nat
      BY <1>2, <1>4
    <2> QED
      BY <1>2, <1>4, <2>1, Add64Is
  <1>7. foff + HeaderLen + len <= StreamEnd
    <2>1. ~(foff + HeaderLen + len > StreamEnd)
      BY <1>5, <1>6 DEF Overruns
    <2>2. StreamEnd \in Nat
      <3>1. meta.data_start \in Nat /\ meta.compressed_size \in Nat
        BY <1>2
      <3>2. StreamEnd \in 0..(Word - 1)
        BY <3>1, Add64Is DEF StreamEnd
      <3> QED
        BY <1>2, <3>2
    <2> QED
      BY <1>2, <1>4, <2>1, <2>2
  <1>8. foff + HeaderLen + len <= meta.data_start + meta.compressed_size
    <2>1. CASE meta.data_start + meta.compressed_size < Word
      <3>1. meta.data_start \in Nat /\ meta.compressed_size \in Nat
        BY <1>2
      <3>2. StreamEnd = meta.data_start + meta.compressed_size
        BY <2>1, <3>1, Add64Is DEF StreamEnd
      <3> QED
        BY <1>7, <3>2
    <2>2. CASE ~(meta.data_start + meta.compressed_size < Word)
      <3>1. StreamEnd = meta.data_start + meta.compressed_size - Word
        BY <1>2, <2>2, Add64Wraps DEF StreamEnd
      <3> QED
        BY <1>2, <1>3, <1>4, <1>7, <3>1
    <2> QED
      BY <2>1, <2>2
  <1>9. Advanced(len) = uoff + len
    <2>1. uoff + len < Word
      BY <1>2, <1>3, <1>4
    <2> QED
      BY <1>2, <2>1, Add64Is DEF Advanced
  <1> QED
    BY <1>2, <1>4, <1>5, <1>6, <1>8, <1>9

\* A block that is taken continues the row, and the decoder's output with it.
LEMMA TakeBlockKeeps ==
    ASSUME IInv, Idle, pc = "walking", NEW len \in BlockLens, NEW bfinal \in BOOLEAN,
           Add64(foff, HeaderLen) <= StreamEnd, InFile(foff, HeaderLen),
           ~Overruns(Add64(foff, HeaderLen), len),
           TakeBlock(Add64(foff, HeaderLen), len, bfinal)
    PROVE  IInv'
  <1> DEFINE d == foff + HeaderLen
             b == [uncomp_start |-> uoff, len |-> len, file_offset |-> d]
             r == Run(d, len)
  <1>1. /\ Add64(foff, HeaderLen) = d
        /\ Add64(d, len) = d + len
        /\ d + len <= meta.data_start + meta.compressed_size
        /\ d + len < Word
        /\ Advanced(len) = uoff + len
        /\ len \in Nat /\ foff \in Nat /\ uoff \in Nat /\ d \in Nat /\ foff <= d
    BY BlockBounds DEF HeaderLen
  <1>2. /\ meta' = meta /\ meta \in Metas /\ meta \in MetaRecords
        /\ meta.data_start \in Nat /\ meta.compressed_size \in Nat /\ meta.file_len \in Nat
    BY AccessAssumption, MetaNumbers DEF IInv, Idle
  <1>3. /\ blocks' = Append(blocks, b) /\ oracle' = oracle \o r
        /\ uoff' = uoff + len /\ foff' = d + len
        /\ \/ pc' = "walking" /\ layout' = "none"
           \/ pc' = "ready" /\ layout' = "StoredBlocks" /\ uoff' = meta.uncompressed_size
           \/ pc' = "failed" /\ layout' = "none"
    BY <1>1 DEF IInv, Opened, Started, TakeBlock
  <1>4. /\ Walked /\ Index /\ Contiguous(blocks, uoff) /\ meta.data_start + uoff <= foff
        /\ Len(oracle) = uoff
        /\ blocks \in Seq(BlockRecords) /\ oracle \in Seq(Nat) /\ got = <<>> /\ result = "none"
    BY DEF IInv, TypeOK, Opened, Walking, Reading, Started
  <1>5. /\ r \in Seq(Nat) /\ Len(r) = len
        /\ \A k \in 1..len : r[k] = d + k - 1
    BY <1>1, RunIs
  <1>6. b \in BlockRecords /\ b.uncomp_start = uoff /\ b.len = len /\ b.file_offset = d
    BY <1>1 DEF BlockRecords
  <1> HIDE DEF b, r
  <1>7. /\ oracle' \in Seq(Nat) /\ Len(oracle') = uoff + len
        /\ \A k \in 1..uoff : oracle'[k] = oracle[k]
        /\ \A k \in 1..len : oracle'[uoff + k] = r[k]
    <2>1. /\ oracle \o r \in Seq(Nat) /\ Len(oracle \o r) = Len(oracle) + Len(r)
          /\ \A k \in 1..Len(oracle) : (oracle \o r)[k] = oracle[k]
          /\ \A k \in 1..Len(r) : (oracle \o r)[Len(oracle) + k] = r[k]
      <3>1. oracle \in Seq(Nat) /\ r \in Seq(Nat)
        BY <1>4, <1>5
      <3> QED
        BY <3>1
    <2>2. Len(oracle) = uoff /\ Len(r) = len /\ oracle' = oracle \o r
      BY <1>3, <1>4, <1>5
    <2> QED
      BY <2>1, <2>2
  <1>8. /\ blocks' \in Seq(BlockRecords) /\ Len(blocks') = Len(blocks) + 1
        /\ \A i \in 1..Len(blocks) : blocks'[i] = blocks[i]
        /\ blocks'[Len(blocks) + 1] = b /\ Len(blocks) \in Nat
    BY <1>3, <1>4, <1>6, AppendIs
  <1>9. Contiguous(blocks', uoff')
    BY <1>1, <1>3, <1>4, <1>6, ContiguousAppend
  <1>10. ASSUME NEW i \in 1..Len(blocks)
         PROVE  /\ Faithful(blocks[i], oracle', meta.file_len)
                /\ blocks[i].file_offset + blocks[i].len < Word
    <2>1. /\ Faithful(blocks[i], oracle, meta.file_len)
          /\ blocks[i].file_offset + blocks[i].len < Word
      BY <1>4, <1>10 DEF Index, SpanFits
    <2>2. blocks[i].uncomp_start \in Nat /\ blocks[i].len \in Nat /\ blocks[i].file_offset \in Nat
      <3>1. blocks[i] \in BlockRecords
        BY <1>4, <1>10
      <3> QED
        BY <3>1 DEF BlockRecords
    <2>3. ASSUME NEW k \in 1..blocks[i].len, blocks[i].file_offset + k <= meta.file_len
          PROVE  /\ blocks[i].uncomp_start + k <= Len(oracle')
                 /\ oracle'[blocks[i].uncomp_start + k] = blocks[i].file_offset + k - 1
      <3>1. /\ blocks[i].uncomp_start + k <= uoff
            /\ oracle[blocks[i].uncomp_start + k] = blocks[i].file_offset + k - 1
        BY <1>4, <2>1, <2>3 DEF Faithful
      <3>2. blocks[i].uncomp_start + k \in 1..uoff
        BY <1>1, <2>2, <3>1, SMTT(30)
      <3>3. blocks[i].uncomp_start + k <= uoff + len
        BY <1>1, <2>2, <3>1
      <3>4. oracle'[blocks[i].uncomp_start + k] = oracle[blocks[i].uncomp_start + k]
        BY <1>7, <3>2
      <3> QED
        BY <1>7, <3>1, <3>3, <3>4
    <2> QED
      BY <2>1, <2>3 DEF Faithful
  <1>11. Faithful(b, oracle', meta.file_len)
    BY <1>1, <1>5, <1>6, <1>7 DEF Faithful
  <1>12. ASSUME NEW k \in 1..Len(oracle') PROVE InSpan(oracle'[k])
    <2>1. CASE k <= uoff
      <3>1. InSpan(oracle[k])
        BY <1>1, <1>4, <1>12, <2>1 DEF Index
      <3>2. oracle'[k] = oracle[k]
        BY <1>1, <1>7, <1>12, <2>1
      <3> QED
        BY <3>1, <3>2
    <2>2. CASE k > uoff
      <3>1. k - uoff \in 1..len /\ uoff + (k - uoff) = k
        BY <1>1, <1>7, <1>12, <2>2
      <3>2. oracle'[k] = d + (k - uoff) - 1
        BY <1>5, <1>7, <3>1
      <3> QED
        BY <1>1, <1>2, <1>4, <3>1, <3>2, SMTT(30) DEF InSpan
    <2> QED
      BY <1>1, <1>7, <2>1, <2>2
  <1>13. Index'
    <2>1. ASSUME NEW i \in 1..Len(blocks')
          PROVE  /\ Faithful(blocks'[i], oracle', meta'.file_len)
                 /\ blocks'[i].file_offset + blocks'[i].len < Word
      <3>1. CASE i <= Len(blocks)
        <4>1. i \in 1..Len(blocks) /\ blocks'[i] = blocks[i]
          BY <1>8, <3>1
        <4> QED
          BY <1>2, <1>10, <4>1
      <3>2. CASE i > Len(blocks)
        <4>1. blocks'[i] = b
          BY <1>8, <3>2
        <4> QED
          BY <1>1, <1>2, <1>6, <1>11, <4>1
      <3> QED
        BY <1>8, <3>1, <3>2
    <2>2. (\A k \in 1..Len(oracle) : InSpan(oracle[k]))'
      BY <1>2, <1>12 DEF InSpan
    <2> QED
      BY <2>1, <2>2 DEF Index
  <1>14. Walking'
    BY <1>1, <1>2, <1>3, <1>4, <1>7, <1>9, SMTT(30) DEF Walking
  <1>15. Opened'
    <2>1. Walked'
      BY <1>2, <1>4 DEF Walked
    <2>2. Len(blocks') > 0
      BY <1>8
    <2> QED
      BY <1>2, <1>3, <1>9, <1>13, <1>14, <2>1, <2>2 DEF Opened, Started
  <1>16. TypeOK'
    <2>1. foff' \in 0..(Word - 1) /\ uoff' \in 0..(Word - 1)
      <3>1. uoff + len <= d + len
        BY <1>1, <1>2, <1>4
      <3> QED
        BY <1>1, <1>3, <3>1, WordIs
    <2> QED
      BY <1>2, <1>3, <1>7, <1>8, <2>1 DEF IInv, TypeOK, Idle
  <1>17. Reading' /\ ReadAtIsSlice'
    BY <1>3, <1>4 DEF Idle, Reading, Started, Copied, ReadAtIsSlice, Done
  <1> QED
    BY <1>2, <1>15, <1>16, <1>17 DEF IInv

\* open_entry.
LEMMA OpenKeeps == IInv /\ open_entry => IInv'
  <1> SUFFICES ASSUME IInv, open_entry PROVE IInv'
    OBVIOUS
  <1>1. pc = "opening" /\ Idle
    BY DEF open_entry
  <1>2. CASE Fails \/ Settles("Fallback")
    BY <1>1, <1>2, SettlesKeeps
  <1>3. CASE meta.method = "Stored" /\ OpenStored
    BY <1>1, <1>3, OpenStoredKeeps
  <1>4. CASE /\ meta.method \in {"Deflated", "Deflate64"}
             /\ pc' = "walking" /\ foff' = meta.data_start
             /\ UNCHANGED <<layout, blocks, uoff, oracle>>
    <2>1. /\ meta' = meta /\ meta \in Metas /\ meta \in MetaRecords
          /\ meta.data_start \in 0..(Word - 1) /\ meta.data_start \in Nat
      BY <1>1, AccessAssumption, MetaNumbers DEF IInv, Idle
    <2>2. blocks = <<>> /\ oracle = <<>> /\ uoff = 0 /\ layout = "none" /\ got = <<>> /\ result = "none"
      BY <1>1 DEF IInv, Opened, Reading, Started
    <2>3. Len(blocks') = 0 /\ Len(oracle') = 0 /\ uoff' = 0 /\ layout' = "none"
      BY <1>4, <2>2
    <2>4. TypeOK'
      BY <1>1, <1>4, <2>1 DEF IInv, TypeOK, Idle
    <2>5. Walked' /\ Walking' /\ Index'
      BY <1>4, <2>1, <2>3 DEF Walked, Walking, Index, Contiguous
    <2>6. Opened'
      BY <1>4, <2>3, <2>5 DEF Opened, Started
    <2>7. Reading' /\ ReadAtIsSlice'
      BY <1>1, <1>4, <2>2, <2>3 DEF Idle, Reading, Started, Copied, ReadAtIsSlice, Done
    <2> QED
      BY <2>1, <2>4, <2>6, <2>7 DEF IInv
  <1> QED
    BY <1>2, <1>3, <1>4 DEF open_entry

\* One turn of index_stored_blocks.
LEMMA WalkKeeps == IInv /\ Walk => IInv'
  <1> SUFFICES ASSUME IInv, NEW bfinal \in BOOLEAN, NEW huffman \in BOOLEAN,
                      NEW nlen_ok \in BOOLEAN, NEW len \in BlockLens,
                      WalkBlock(bfinal, huffman, len, nlen_ok)
               PROVE  IInv'
    BY DEF Walk
  <1>1. pc = "walking" /\ Idle
    BY DEF WalkBlock
  <1>2. CASE NotStored
    BY <1>1, <1>2, SettlesKeeps DEF NotStored
  <1>3. CASE Fails
    BY <1>1, <1>3, SettlesKeeps
  <1>4. CASE /\ Add64(foff, HeaderLen) <= StreamEnd /\ InFile(foff, HeaderLen)
             /\ ~Overruns(Add64(foff, HeaderLen), len)
             /\ TakeBlock(Add64(foff, HeaderLen), len, bfinal)
    BY <1>1, <1>4, TakeBlockKeeps
  <1> QED
    BY <1>2, <1>3, <1>4 DEF WalkBlock

(***************************************************************************)
(* read_at.                                                                *)
(***************************************************************************)
\* The types of a read in progress.
LEMMA ReadTyped ==
    ASSUME IInv
    PROVE  /\ meta \in MetaRecords /\ meta.uncompressed_size \in Nat
           /\ request.offset \in Nat /\ request.len \in Nat /\ cur \in Nat
           /\ want_end \in Nat /\ want_end <= meta.uncompressed_size
           /\ request.offset + request.len < Word =>
                want_end = MinOf(request.offset + request.len, meta.uncompressed_size)
           /\ got \in Seq(Nat) /\ oracle \in Seq(Nat) /\ blocks \in Seq(BlockRecords)
  <1>1. /\ meta \in MetaRecords /\ cur \in Nat
        /\ request \in [offset : 0..(Word - 1), len : 0..(Word - 1)]
        /\ got \in Seq(Nat) /\ oracle \in Seq(Nat) /\ blocks \in Seq(BlockRecords)
    BY WordIs DEF IInv, TypeOK
  <1>2. request.offset \in Nat /\ request.len \in Nat /\ meta.uncompressed_size \in Nat
    BY <1>1, MetaNumbers
  <1>3. /\ Add64(request.offset, request.len) \in 0..(Word - 1)
        /\ request.offset + request.len < Word =>
             Add64(request.offset, request.len) = request.offset + request.len
    BY <1>2, Add64Is
  <1>4. Add64(request.offset, request.len) \in Nat
    BY <1>3
  <1>5. want_end \in Nat /\ want_end <= meta.uncompressed_size
    BY <1>2, <1>4 DEF want_end, MinOf
  <1> QED
    BY <1>1, <1>2, <1>3, <1>5 DEF want_end

\* The steps that answer leave the index as it is.
LEMMA OpenedStays ==
    ASSUME IInv, UNCHANGED <<meta, layout, blocks, foff, uoff, oracle>>,
           Started, Started'
    PROVE  Opened' /\ meta' \in Metas
  BY DEF IInv, Opened, Started, Contiguous, Index, Faithful, SpanFits, Walked, InSpan

\* A new request, answered at once when it asks for nothing.
LEMMA BeginKeeps ==
    ASSUME IInv, NEW r \in Requests, Begin(r)
    PROVE  IInv'
  <1>1. /\ r \in [offset : 0..(Word - 1), len : 0..(Word - 1)]
        /\ r.offset \in 0..(Word - 1) /\ r.offset \in Nat /\ r.len \in Nat
    BY AccessAssumption
  <1>2. /\ pc = "ready" /\ pc' \in {"ready", "reading"} /\ request' = r /\ cur' = r.offset
        /\ got' = <<>> /\ result' \in {"none", "ok"}
        /\ UNCHANGED <<meta, layout, blocks, foff, uoff, oracle>>
    BY DEF Begin, Answers
  <1>3. Opened' /\ meta' \in Metas
    BY <1>2, OpenedStays DEF Started
  <1>4. TypeOK'
    BY <1>1, <1>2 DEF IInv, TypeOK
  <1>5. Reading'
    <2>1. pc' = "reading" => r.offset < meta.uncompressed_size /\ r.len > 0
      BY <1>1, ReadTyped DEF Begin, Answers
    <2> QED
      BY <1>1, <1>2, <2>1 DEF Reading, Started, Copied
  <1>6. ReadAtIsSlice'
    <2> SUFFICES ASSUME Done' PROVE
            got' = SubSeq(oracle', r.offset + 1, MinOf(r.offset + r.len, meta'.uncompressed_size))
      BY <1>2 DEF ReadAtIsSlice
    <2> DEFINE e == MinOf(r.offset + r.len, meta.uncompressed_size)
    <2>1. r.offset >= meta.uncompressed_size \/ r.len = 0
      BY <1>2 DEF Done, Begin
    <2>2. e \in Nat /\ e <= r.offset
      BY <1>1, <2>1, ReadTyped DEF MinOf
    <2>3. oracle \in Seq(Nat)
      BY ReadTyped
    <2> HIDE DEF e
    <2>4. SubSeq(oracle, r.offset + 1, e) = <<>>
      BY <1>1, <2>2, <2>3, EmptySlice
    <2> QED
      BY <1>2, <2>4 DEF e
  <1> QED
    BY <1>3, <1>4, <1>5, <1>6 DEF IInv

\* One turn of the loop over the blocks.
LEMMA ReadBlockKeeps == IInv /\ ReadBlock => IInv'
  <1> SUFFICES ASSUME IInv, ReadBlock PROVE IInv'
    OBVIOUS
  <1> DEFINE off == request.offset
  <1>1. /\ pc = "reading" /\ layout = "StoredBlocks" /\ cur < want_end
        /\ UNCHANGED <<meta, layout, blocks, foff, uoff, oracle, request>>
    BY DEF ReadBlock
  <1>2. PICK i \in 1..Len(blocks) :
        LET b      == blocks[i]
            within == cur - b.uncomp_start
            n      == FromBlock(b, within)
            from   == Add64(b.file_offset, within)
        IN  /\ IsNextBlock(i)
            /\ IF InFile(from, n)
               THEN /\ got' = got \o Run(from, n)
                    /\ cur' = CursorAfter(b, n)
                    /\ UNCHANGED <<pc, result>>
               ELSE /\ Answers("err", got)
                    /\ UNCHANGED cur
    BY DEF ReadBlock
  <1> DEFINE b      == blocks[i]
             within == cur - b.uncomp_start
             n      == FromBlock(b, within)
             from   == Add64(b.file_offset, within)
             r      == Run(from, n)
  <1>3. /\ meta \in MetaRecords /\ cur \in Nat /\ want_end \in Nat /\ off \in Nat
        /\ got \in Seq(Nat) /\ oracle \in Seq(Nat) /\ Len(got) = cur - off
        /\ off <= cur /\ Len(got) \in Nat
    BY <1>1, ReadTyped DEF IInv, Reading
  <1>4. Contiguous(blocks, meta.uncompressed_size) /\ TypeOK /\ Index
    BY <1>1 DEF IInv, Opened
  <1>5. b \in BlockRecords /\ b.uncomp_start <= cur /\ cur < b.uncomp_start + b.len
    BY <1>2, <1>4, NextBlockHoldsCursor
  <1>6. b.uncomp_start \in Nat /\ b.len \in Nat /\ b.file_offset \in Nat
    BY <1>5 DEF BlockRecords
  <1>7. /\ within \in Nat /\ n \in Nat /\ n > 0 /\ within + n <= b.len
        /\ cur + n <= want_end /\ b.uncomp_start + within = cur
    <2>0. cur \in Nat /\ want_end \in Nat /\ b.uncomp_start <= cur /\ cur < b.uncomp_start + b.len
      BY <1>3, <1>5
    <2>1. within \in Nat /\ b.len - within \in Nat /\ b.uncomp_start + within = cur
      <3> HIDE DEF b
      <3> QED
        BY <1>6, <2>0
    <2>2. b.len - within > 0 /\ want_end - cur \in Nat /\ want_end - cur > 0
      BY <1>1, <1>3, <1>5, <1>6, SMTT(30)
    <2>3. n = b.len - within \/ n = want_end - cur
      BY DEF FromBlock, MinOf
    <2>4. n <= b.len - within /\ n <= want_end - cur /\ n \in Nat /\ n > 0
      <3> HIDE DEF within
      <3> QED
        BY <2>1, <2>2 DEF FromBlock, MinOf
    <2> HIDE DEF within, n, b
    <2> QED
      BY <1>3, <1>6, <2>1, <2>4
  <1>8. from \in Nat /\ (b.file_offset + within < Word => from = b.file_offset + within)
    <2>1. /\ Add64(b.file_offset, within) \in 0..(Word - 1)
          /\ b.file_offset + within < Word => Add64(b.file_offset, within) = b.file_offset + within
      BY <1>6, <1>7, Add64Is
    <2> QED
      BY <2>1, WordIs
  <1>9. Opened' /\ meta' \in Metas
    <2>1. pc' \in {"reading", "ready"}
      BY <1>1, <1>2 DEF Answers
    <2> QED
      BY <1>1, <2>1, OpenedStays DEF Started
  <1>10. CASE InFile(from, n)
    <2>1. got' = got \o r /\ cur' = cur + n /\ pc' = "reading" /\ result' = result
      BY <1>1, <1>2, <1>10 DEF CursorAfter
    <2>2. r \in Seq(Nat) /\ Len(r) = n /\ \A k \in 1..n : r[k] = from + k - 1
      BY <1>7, <1>8, RunIs
    <2> HIDE DEF b, within, n, from, r
    <2>3. /\ got' \in Seq(Nat) /\ Len(got') = Len(got) + n
          /\ \A k \in 1..Len(got) : got'[k] = got[k]
          /\ \A k \in 1..n : got'[Len(got) + k] = r[k]
      <3>1. got \in Seq(Nat) /\ r \in Seq(Nat)
        BY <1>3, <2>2
      <3>2. /\ got \o r \in Seq(Nat) /\ Len(got \o r) = Len(got) + Len(r)
            /\ \A k \in 1..Len(got) : (got \o r)[k] = got[k]
            /\ \A k \in 1..Len(r) : (got \o r)[Len(got) + k] = r[k]
        BY <3>1
      <3> QED
        BY <2>1, <2>2, <3>2
    <2>4. TypeOK'
      <3>1. cur' \in 0..(Word - 1)
        <4>1. meta.uncompressed_size \in 0..(Word - 1) /\ want_end <= meta.uncompressed_size
          BY <1>3, MetaNumbers, ReadTyped
        <4> QED
          BY <1>3, <1>7, <2>1, <4>1, WordIs
      <3> QED
        BY <1>1, <2>1, <2>3, <3>1 DEF IInv, TypeOK
    <2>5. SpanFits' => Copied'
      <3> SUFFICES ASSUME SpanFits, NEW k \in 1..Len(got')
                   PROVE  off + k <= Len(oracle) /\ got'[k] = oracle[off + k]
        BY <1>1 DEF SpanFits, Walked, Copied
      <3>1. CASE k <= Len(got)
        <4>1. k \in 1..Len(got) /\ Copied
          BY <1>1, <1>3, <3>1 DEF IInv, Reading
        <4> QED
          BY <2>3, <4>1 DEF Copied
      <3>2. CASE k > Len(got)
        <4>1. PICK j \in 1..n : k = Len(got) + j
          <5>1. k - Len(got) \in 1..n /\ k = Len(got) + (k - Len(got))
            <6> HIDE DEF off
            <6> QED
              BY <1>3, <1>7, <2>3, <3>2
          <5> QED
            BY <5>1
        <4>0. j \in Nat /\ k \in Nat /\ off + k = cur + j
          <5> HIDE DEF off
          <5> QED
            BY <1>3, <1>7, <4>1
        <4>2. Faithful(b, oracle, meta.file_len) /\ b.file_offset + b.len < Word
          BY <1>4 DEF Index, b
        <4>3. from = b.file_offset + within
          BY <1>6, <1>7, <1>8, <4>2, WordIs, SMTT(30)
        <4>4. got'[k] = b.file_offset + (within + j) - 1
          <5>1. got'[k] = from + j - 1
            BY <2>2, <2>3, <4>1
          <5> QED
            BY <1>6, <1>7, <4>0, <4>3, <5>1, SMTT(30)
        <4>5. within + j \in 1..b.len /\ b.uncomp_start + (within + j) = off + k
          <5>1. within + j \in 1..b.len /\ b.uncomp_start + (within + j) = cur + j
            BY <1>6, <1>7, <4>1, InsideBlock, SMTT(30)
          <5> QED
            BY <4>0, <5>1
        <4>6. b.file_offset + (within + j) <= meta.file_len
          <5>1. from + n <= meta.file_len /\ meta.file_len \in Nat
            BY <1>3, <1>10, MetaNumbers DEF InFile
          <5>2. b.file_offset \in Nat /\ within \in Nat /\ n \in Nat /\ j \in Nat /\ j <= n
            BY <1>6, <1>7, <4>1
          <5>3. from = b.file_offset + within
            BY <4>3
          <5> QED
            BY <5>1, <5>2, <5>3, SMTT(30)
        <4> QED
          BY <4>2, <4>4, <4>5, <4>6 DEF Faithful
      <3> QED
        BY <1>3, <2>3, <3>1, <3>2
    <2>6. Reading'
      <3>1. want_end' = want_end
        BY <1>1 DEF want_end
      <3>2. Len(got') = cur' - off /\ off <= cur' /\ cur' <= want_end
        <4>1. /\ Len(got') = Len(got) + n /\ Len(got) = cur - off /\ cur' = cur + n
              /\ cur \in Nat /\ off \in Nat /\ n \in Nat /\ off <= cur /\ cur + n <= want_end
          BY <1>3, <1>7, <2>1, <2>3
        <4> HIDE DEF off
        <4> QED
          BY <4>1
      <3>3. off < meta.uncompressed_size /\ request.len > 0
        BY <1>1 DEF IInv, Reading
      <3> QED
        BY <1>1, <2>1, <2>5, <3>1, <3>2, <3>3 DEF Reading, Started
    <2>7. ReadAtIsSlice'
      BY <2>1 DEF ReadAtIsSlice, Done
    <2> QED
      BY <1>9, <2>4, <2>6, <2>7 DEF IInv
  <1>11. CASE ~InFile(from, n)
    <2>1. pc' = "ready" /\ result' = "err" /\ got' = got /\ cur' = cur
      BY <1>2, <1>11 DEF Answers
    <2>2. TypeOK'
      BY <1>1, <2>1 DEF IInv, TypeOK
    <2>3. Reading'
      BY <1>1, <2>1 DEF IInv, Reading, Started, Copied, SpanFits, Walked
    <2>4. ReadAtIsSlice'
      BY <2>1 DEF ReadAtIsSlice, Done
    <2> QED
      BY <1>9, <2>2, <2>3, <2>4 DEF IInv
  <1> QED
    BY <1>10, <1>11

\* The end of the loop: the span that was asked for has been copied.
LEMMA ReadEndsKeeps == IInv /\ ReadEnds => IInv'
  <1> SUFFICES ASSUME IInv, ReadEnds PROVE IInv'
    OBVIOUS
  <1> DEFINE off == request.offset
  <1>1. /\ pc = "reading" /\ layout = "StoredBlocks" /\ pc' = "ready" /\ result' = "ok"
        /\ UNCHANGED <<meta, layout, blocks, foff, uoff, oracle, request, cur, got>>
    BY DEF ReadEnds, Answers
  <1>2. Opened' /\ meta' \in Metas
    BY <1>1, OpenedStays DEF Started
  <1>3. TypeOK' /\ Reading'
    BY <1>1 DEF IInv, TypeOK, Reading, Started, Copied, SpanFits, Walked
  <1>4. ReadAtIsSlice'
    <2> DEFINE e == MinOf(request.offset + request.len, meta.uncompressed_size)
    <2> SUFFICES ASSUME SizesAgree, request.offset + request.len < Word
                 PROVE  got = SubSeq(oracle, request.offset + 1, e)
      BY <1>1 DEF ReadAtIsSlice, Done, SizesAgree
    <2>1. SpanFits
      BY <1>1 DEF SizesAgree, SpanFits, Walked
    <2>2. Copied /\ Len(got) = cur - off /\ off <= cur /\ (cur = off \/ cur <= want_end)
      BY <1>1, <2>1 DEF IInv, Reading
    <2>3. /\ off \in Nat /\ cur \in Nat /\ want_end = e /\ want_end \in Nat
          /\ want_end <= meta.uncompressed_size /\ meta.uncompressed_size \in Nat
          /\ request.len \in Nat /\ got \in Seq(Nat) /\ oracle \in Seq(Nat)
      BY ReadTyped
    <2>4. off < want_end
      <3>1. off < meta.uncompressed_size /\ request.len > 0
        BY <1>1 DEF IInv, Reading
      <3> QED
        BY <2>3, <3>1 DEF MinOf
    <2>5. cur >= want_end
      <3>1. ASSUME cur < want_end PROVE FALSE
        <4>1. cur < meta.uncompressed_size
          BY <2>3, <3>1
        <4>2. /\ TypeOK /\ Len(blocks) > 0
              /\ Contiguous(blocks, meta.uncompressed_size)
          BY <1>1 DEF IInv, Opened
        <4>3. \E i \in 1..Len(blocks) : IsNextBlock(i)
          BY <4>1, <4>2, NextBlockExists
        <4> QED
          BY <2>3, <3>1, <4>3 DEF ReadEnds
      <3> QED
        BY <2>3, <3>1
    <2>6. cur = want_end /\ off + Len(got) = want_end
      <3> HIDE DEF off
      <3> QED
        BY <2>2, <2>3, <2>4, <2>5
    <2>7. off + Len(got) <= Len(oracle)
      <3>1. Len(got) \in 1..Len(got)
        <4> HIDE DEF off
        <4> QED
          BY <2>2, <2>3, <2>4, <2>5
      <3> QED
        BY <2>2, <3>1 DEF Copied
    <2>8. got = SubSeq(oracle, off + 1, off + Len(got))
      <3>1. \A k \in 1..Len(got) : got[k] = oracle[off + k]
        BY <2>2 DEF Copied
      <3> HIDE DEF off
      <3> QED
        BY <2>3, <2>7, <3>1, SliceIs
    <2> QED
      BY <2>3, <2>6, <2>8
  <1> QED
    BY <1>2, <1>3, <1>4 DEF IInv

\* The checkpoint index and the fallback answer in one step.
LEMMA OtherLayoutsKeep == IInv /\ (ReadIndexed \/ ReadFallback) => IInv'
  <1> SUFFICES ASSUME IInv, ReadIndexed \/ ReadFallback PROVE IInv'
    OBVIOUS
  <1>1. /\ pc = "reading" /\ layout \in {"Deflate64", "Fallback"} /\ pc' = "ready"
        /\ result' \in {"ok", "err", "panic"}
        /\ UNCHANGED <<meta, layout, blocks, foff, uoff, oracle, request, cur>>
    BY DEF ReadIndexed, ReadFallback, Answers
  <1>2. Opened' /\ meta' \in Metas
    BY <1>1, OpenedStays DEF Started
  <1>3. Reading'
    BY <1>1 DEF Reading, Started
  <1>4. /\ request.offset \in Nat /\ request.len \in Nat /\ oracle \in Seq(Nat)
        /\ meta.decoded_len \in Nat /\ meta.uncompressed_size \in Nat /\ want_end \in Nat
        /\ request.offset < meta.uncompressed_size
        /\ request.offset + request.len < Word =>
             want_end = MinOf(request.offset + request.len, meta.uncompressed_size)
        /\ want_end <= meta.uncompressed_size
    BY <1>1, ReadTyped, MetaNumbers DEF IInv, Reading
  <1>5. oracle = Run(0, meta.decoded_len) /\ Len(oracle) = meta.decoded_len
    <2>1. oracle = Run(0, meta.decoded_len)
      BY <1>1 DEF IInv, Opened
    <2> QED
      BY <1>4, <2>1, RunIs
  <1>6. CASE ReadIndexed
    <2> DEFINE e == MinOf(request.offset + request.len, meta.uncompressed_size)
    <2>1. got' = SubSeq(oracle, request.offset + 1, e) /\ layout = "Deflate64"
      BY <1>6 DEF ReadIndexed, Answers
    <2>2. ReadAtIsSlice'
      BY <1>1, <2>1 DEF ReadAtIsSlice
    <2>3. e \in Nat /\ e <= Len(oracle)
      <3>1. meta.uncompressed_size = Len(oracle)
        BY <1>5, <2>1 DEF IInv, Opened
      <3> QED
        BY <1>4, <3>1 DEF MinOf
    <2>4. got' \in Seq(Nat)
      <3> HIDE DEF e
      <3> QED
        BY <1>4, <2>1, <2>3, SMTT(30)
    <2>5. TypeOK'
      BY <1>1, <2>4 DEF IInv, TypeOK
    <2> QED
      BY <1>2, <1>3, <2>2, <2>5 DEF IInv
  <1>7. CASE ReadFallback
    <2> DEFINE e == MinOf(want_end, Len(oracle))
    <2>1. /\ layout = "Fallback"
          /\ \/ result' # "ok" /\ got' = <<>>
             \/ result' = "ok" /\ got' = SubSeq(oracle, request.offset + 1, e)
      BY <1>7 DEF ReadFallback, Answers
    <2>2. e \in Nat /\ e <= Len(oracle)
      BY <1>4, <1>5 DEF MinOf
    <2>3. got' \in Seq(Nat)
      <3> HIDE DEF e
      <3>1. SubSeq(oracle, request.offset + 1, e) \in Seq(Nat)
        BY <1>4, <2>2
      <3>2. <<>> \in Seq(Nat)
        OBVIOUS
      <3>3. got' = <<>> \/ got' = SubSeq(oracle, request.offset + 1, e)
        BY <2>1
      <3> QED
        BY <3>1, <3>2, <3>3, Zenon
    <2>4. ReadAtIsSlice'
      <3> SUFFICES ASSUME SizesAgree, request.offset + request.len < Word, result' = "ok"
                   PROVE  e = MinOf(request.offset + request.len, meta.uncompressed_size)
        BY <1>1, <2>1 DEF ReadAtIsSlice, SizesAgree
      <3>1. Len(oracle) = meta.uncompressed_size
        BY <1>5, <2>1 DEF SizesAgree
      <3> QED
        BY <1>4, <3>1 DEF MinOf
    <2>5. TypeOK'
      BY <1>1, <2>3 DEF IInv, TypeOK
    <2> QED
      BY <1>2, <1>3, <2>4, <2>5 DEF IInv
  <1> QED
    BY <1>6, <1>7

(***************************************************************************)
(* The invariants.                                                         *)
(***************************************************************************)
\* The inductive invariant of open_entry and read_at.
THEOREM Invariant == Spec => []IInv
  <1>1. IInv /\ [Next]_vars => IInv'
    <2> SUFFICES ASSUME IInv, [Next]_vars PROVE IInv'
      OBVIOUS
    <2>1. CASE open_entry
      BY <2>1, OpenKeeps
    <2>2. CASE Walk
      BY <2>2, WalkKeeps
    <2>3. CASE ReadBlock
      BY <2>3, ReadBlockKeeps
    <2>4. CASE ReadEnds
      BY <2>4, ReadEndsKeeps
    <2>5. CASE ReadIndexed \/ ReadFallback
      BY <2>5, OtherLayoutsKeep
    <2>6. CASE \E r \in Requests : Begin(r)
      BY <2>6, BeginKeeps
    <2>7. CASE UNCHANGED vars
      BY <2>7 DEF vars, IInv, TypeOK, Opened, Reading, ReadAtIsSlice, Started, Walked,
                  Walking, Index, Contiguous, Faithful, SpanFits, InSpan, Copied, want_end,
                  SizesAgree, Done
    <2> QED
      BY <2>1, <2>2, <2>3, <2>4, <2>5, <2>6, <2>7 DEF Next, Step
  <1> QED
    BY <1>1, InitEstablishes, PTL DEF Spec

\* open_entry and read_at: offsets stay words, whatever the headers hold.
THEOREM TypeCorrect == Spec => []TypeOK
  <1>1. IInv => TypeOK
    BY DEF IInv
  <1> QED
    BY <1>1, Invariant, PTL

\* The "cov:unreachable" note in read_at: the index covers the entry, for any
\* headers and sizes.
THEOREM BlocksCoverEntry == Spec => []BlocksCover
  <1>1. IInv => BlocksCover
    BY DEF IInv, Opened, BlocksCover, Contiguous
  <1> QED
    BY <1>1, Invariant, PTL

\* read_at returns the bytes a decoder would produce, for any request and any
\* way the entry is cut into blocks.
THEOREM ReadAtReturnsSlice == Spec => []ReadAtIsSlice
  <1>1. IInv => ReadAtIsSlice
    BY DEF IInv
  <1> QED
    BY <1>1, Invariant, PTL

\* A read through the index of the walk stays in the entry's compressed span, a
\* span that wraps included.
THEOREM ReadsStayInside == Spec => []ReadsStayInSpan
  <1>1. IInv => ReadsStayInSpan
    <2> SUFFICES ASSUME IInv, layout = "StoredBlocks", Walked, NEW k \in 1..Len(got)
                 PROVE  InSpan(got[k])
      BY DEF ReadsStayInSpan, Walked, InSpan
    <2>1. request.offset + k <= Len(oracle) /\ got[k] = oracle[request.offset + k]
      BY DEF IInv, Reading, SpanFits, Copied
    <2>2. request.offset + k \in 1..Len(oracle)
      <3>1. request.offset \in Nat /\ oracle \in Seq(Nat)
        BY ReadTyped
      <3> QED
        BY <2>1, <3>1
    <2> QED
      BY <2>1, <2>2 DEF IInv, Opened, Index
  <1> QED
    BY <1>1, Invariant, PTL

(***************************************************************************)
(* The loops move on.                                                      *)
(***************************************************************************)
\* What a turn that does not leave its loop has done: the walk is a header or
\* more ahead and still inside the entry's span, the read is a byte or more ahead
\* and not past the end of what was asked for, which stays where it was.
MovesOn ==
    /\ pc = "walking" /\ pc' = "walking" =>
          /\ foff' >= foff + HeaderLen
          /\ foff' <= meta.data_start + meta.compressed_size
          /\ UNCHANGED meta
    /\ pc = "reading" /\ pc' = "reading" =>
          /\ cur' > cur
          /\ cur' <= want_end
          /\ UNCHANGED <<request, meta>>

\* A turn of the walk.
LEMMA WalkMovesOn == IInv /\ Walk => MovesOn
  <1> SUFFICES ASSUME IInv, Walk, pc' = "walking"
               PROVE  /\ foff' >= foff + HeaderLen
                      /\ foff' <= meta.data_start + meta.compressed_size
                      /\ meta' = meta
    BY DEF MovesOn, Walk, WalkBlock
  <1>1. PICK bfinal, huffman, nlen_ok \in BOOLEAN, len \in BlockLens :
            WalkBlock(bfinal, huffman, len, nlen_ok)
    BY DEF Walk
  <1> DEFINE data_off == Add64(foff, HeaderLen)
  <1>2. /\ pc = "walking" /\ meta' = meta
        /\ data_off <= StreamEnd /\ InFile(foff, HeaderLen) /\ ~Overruns(data_off, len)
        /\ TakeBlock(data_off, len, bfinal)
    BY <1>1 DEF WalkBlock, NotStored, Settles, Fails, Idle
  <1>3. /\ data_off = foff + HeaderLen
        /\ Add64(foff + HeaderLen, len) = foff + HeaderLen + len
        /\ foff + HeaderLen + len <= meta.data_start + meta.compressed_size
        /\ len \in Nat /\ foff \in Nat
    BY <1>2, BlockBounds
  <1>4. foff' = Add64(data_off, len)
    BY <1>2 DEF TakeBlock
  <1>5. foff' = foff + HeaderLen + len
    BY <1>3, <1>4
  <1> HIDE DEF data_off
  <1>6. foff' >= foff + HeaderLen
    BY <1>3, <1>5 DEF HeaderLen
  <1> QED
    BY <1>2, <1>3, <1>5, <1>6

\* A turn of the loop over the blocks: the block found holds the cursor, so that
\* something of it is read.
LEMMA ReadMovesOn == IInv /\ ReadBlock => MovesOn
  <1> SUFFICES ASSUME IInv, ReadBlock, pc' = "reading"
               PROVE  cur' > cur /\ cur' <= want_end /\ request' = request /\ meta' = meta
    BY DEF MovesOn, ReadBlock
  <1>1. PICK i \in 1..Len(blocks) :
            /\ IsNextBlock(i)
            /\ cur' = cur + FromBlock(blocks[i], cur - blocks[i].uncomp_start)
    BY DEF ReadBlock, Answers, CursorAfter
  <1> DEFINE u == blocks[i].uncomp_start
             l == blocks[i].len
  <1>2. /\ cur < want_end /\ layout = "StoredBlocks"
        /\ request' = request /\ meta' = meta
    BY DEF ReadBlock
  <1>3. cur \in Nat /\ want_end \in Nat
    BY ReadTyped
  <1>4. blocks[i] \in BlockRecords /\ u <= cur /\ cur < u + l
    BY <1>1, <1>2, NextBlockHoldsCursor DEF IInv, Opened
  <1>5. u \in Nat /\ l \in Nat
    BY <1>4 DEF BlockRecords
  <1>6. cur' = cur + MinOf(l - (cur - u), want_end - cur)
    BY <1>1 DEF FromBlock
  <1> HIDE DEF u, l
  <1>7. cur' > cur /\ cur' <= want_end
    BY <1>2, <1>3, <1>4, <1>5, <1>6, SMTT(30) DEF MinOf
  <1> QED
    BY <1>2, <1>7

\* index_stored_blocks and read_at: no turn of either loop stands still, with
\* zero-length blocks and sums that wrap too.  The walk is over after at most
\* compressed_size / 5 blocks and a read after at most len turns.
THEOREM LoopsMoveOn == Spec => [][MovesOn]_vars
  <1>1. IInv /\ [Next]_vars => [MovesOn]_vars
    <2> SUFFICES ASSUME IInv, Next PROVE MovesOn
      OBVIOUS
    <2>1. CASE open_entry
      BY <2>1 DEF open_entry, MovesOn
    <2>2. CASE Walk
      BY <2>2, WalkMovesOn
    <2>3. CASE ReadBlock
      BY <2>3, ReadMovesOn
    <2>4. CASE ReadEnds \/ ReadIndexed \/ ReadFallback
      BY <2>4 DEF ReadEnds, ReadIndexed, ReadFallback, Answers, MovesOn
    <2>5. CASE \E r \in Requests : Begin(r)
      BY <2>5 DEF Begin, MovesOn
    <2> QED
      BY <2>1, <2>2, <2>3, <2>4, <2>5 DEF Next, Step
  <1> QED
    BY <1>1, Invariant, PTL DEF Spec
===============================================================================
