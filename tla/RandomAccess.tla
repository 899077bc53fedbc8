----------------------------- MODULE RandomAccess -----------------------------
(***************************************************************************)
(* open_entry and StoredZipEntry::read_at: the walk over the deflate block *)
(* headers that finds out whether an entry is a run of stored blocks, and  *)
(* the positioned reads that are then served from the block index.         *)
(*                                                                         *)
(* The file's bytes are named by their offsets: reading n bytes at f gives *)
(* <<f, ..., f+n-1>>.  A header is whatever the file holds where the walk  *)
(* looks, chosen when it looks.  `oracle` is what a decoder makes of the   *)
(* entry: for stored blocks the offsets of their bytes, in order.          *)
(***************************************************************************)
EXTENDS Naturals, Sequences

CONSTANTS
    Metas,      \* the entries that may be opened
    Requests,   \* the [offset, len] pairs asked of read_at
    BlockLens,  \* the LEN fields found in block headers
    Word        \* 2^64: offsets are u64, and a release build wraps

HeaderLen == 5
Methods == {"Stored", "Deflated", "Deflate64", "Other"}

MetaRecords ==
    [ method            : Methods,
      opens             : BOOLEAN,     \* by_name returns a ZipFile
      data_start        : 0..(Word - 1),
      compressed_size   : 0..(Word - 1),
      uncompressed_size : 0..(Word - 1),
      file_len          : 0..(Word - 1),
      decoded_len       : 0..(Word - 1),  \* what a full decode of it gives
      decode            : {"fine", "bad_crc", "error"} ]  \* how that decode ends

ASSUME AccessAssumption ==
    /\ Word \in Nat /\ Word > HeaderLen
    /\ Metas \subseteq MetaRecords
    /\ Requests \subseteq [offset : 0..(Word - 1), len : 0..(Word - 1)]
    /\ BlockLens \subseteq 0..(Word - 1)
    \* A file is shorter than 2^63 bytes and a block's LEN is a u16.
    /\ \A m \in Metas, len \in BlockLens : m.file_len + len < Word

VARIABLES
    pc,       \* "opening", "walking", "ready", "failed", "reading"
    meta,     \* what open_entry learnt of the entry from the central directory
    layout,   \* "none", "StoredBlocks", "Deflate64" or "Fallback"
    blocks,   \* the block index
    foff, uoff, \* the walk's file offset and uncompressed offset
    oracle,   \* history: the decoder's output for the blocks walked
    request,  \* the arguments of the read_at in progress
    cur, got, \* its cursor and what it has put into the buffer
    result    \* "none", "ok", "err" or "panic"

vars == <<pc, meta, layout, blocks, foff, uoff, oracle, request, cur, got, result>>

Add64(a, b) == (a + b) % Word
MinOf(a, b) == IF a <= b THEN a ELSE b

BlockRecords == [uncomp_start : Nat, len : Nat, file_offset : Nat]

TypeOK ==
    /\ pc \in {"opening", "walking", "ready", "failed", "reading"}
    /\ meta \in MetaRecords
    /\ layout \in {"none", "StoredBlocks", "Deflate64", "Fallback"}
    /\ blocks \in Seq(BlockRecords)
    /\ foff \in 0..(Word - 1)
    /\ uoff \in 0..(Word - 1)
    /\ oracle \in Seq(Nat)
    /\ request \in [offset : 0..(Word - 1), len : 0..(Word - 1)]
    /\ cur \in 0..(Word - 1)
    /\ got \in Seq(Nat)
    /\ result \in {"none", "ok", "err", "panic"}

NoRequest == [offset |-> 0, len |-> 0]

Init ==
    /\ pc = "opening"
    /\ meta \in Metas
    /\ layout = "none"
    /\ blocks = <<>>
    /\ foff = 0
    /\ uoff = 0
    /\ oracle = <<>>
    /\ request = NoRequest
    /\ cur = 0
    /\ got = <<>>
    /\ result = "none"

\* n bytes of the file from offset f on.
Run(f, n) == [i \in 1..n |-> f + i - 1]

\* pread_exact finds the n bytes it wants at f.
InFile(f, n) == f + n <= meta.file_len

\* How many bytes the file has from offset f on.
BytesFrom(f) == IF f <= meta.file_len THEN meta.file_len - f ELSE 0

(***************************************************************************)
(* open_entry.                                                             *)
(***************************************************************************)
Idle == UNCHANGED <<meta, request, cur, got, result>>

Fails ==
    /\ pc' = "failed"
    /\ UNCHANGED <<layout, blocks, foff, uoff, oracle>>

\* The layout is settled without a block index; a full decode gives the entry.
Settles(l) ==
    /\ pc' = "ready"
    /\ layout' = l
    /\ oracle' = Run(0, meta.decoded_len)
    /\ UNCHANGED <<blocks, foff, uoff>>

\* A method-0 entry is indexed as one block.  Its decoder is a Take of
\* compressed_size bytes.
OpenStored ==
    /\ pc' = "ready"
    /\ layout' = "StoredBlocks"
    /\ blocks' = <<[uncomp_start |-> 0, len |-> meta.uncompressed_size,
                    file_offset |-> meta.data_start]>>
    /\ oracle' = Run(meta.data_start,
                     MinOf(meta.compressed_size, BytesFrom(meta.data_start)))
    /\ UNCHANGED <<foff, uoff>>

open_entry ==
    /\ pc = "opening"
    /\ \/ ~meta.opens /\ Fails
       \/ meta.opens /\ meta.method = "Stored" /\ OpenStored
       \/ meta.opens /\ meta.method = "Other" /\ Settles("Fallback")
       \/ /\ meta.opens
          /\ meta.method \in {"Deflated", "Deflate64"}
          /\ pc' = "walking"
          /\ foff' = meta.data_start
          /\ UNCHANGED <<layout, blocks, uoff, oracle>>
    /\ Idle

\* `None`: not a run of stored blocks.  Deflate64 is indexed by checkpoints,
\* which decodes it once, without the CRC, and insists on uncompressed_size bytes.
NotStored ==
    IF meta.method = "Deflated" THEN Settles("Fallback")
    ELSE IF meta.decode # "error" /\ meta.decoded_len = meta.uncompressed_size
         THEN Settles("Deflate64") ELSE Fails

StreamEnd == Add64(meta.data_start, meta.compressed_size)

\* Seeded fault: the bound is tested without the block's data.
OverrunIgnored(data_off, len) == data_off > StreamEnd

Overruns(data_off, len) == Add64(data_off, len) > StreamEnd

\* Seeded fault: the uncompressed offset is not advanced.
NotAdvanced(len) == uoff

Advanced(len) == Add64(uoff, len)

\* A stored block is pushed; after the final one the total must be the entry's
\* size.
TakeBlock(data_off, len, bfinal) ==
    /\ blocks' = Append(blocks, [uncomp_start |-> uoff, len |-> len, file_offset |-> data_off])
    /\ oracle' = oracle \o Run(data_off, len)
    /\ uoff' = Advanced(len)
    /\ foff' = Add64(data_off, len)
    /\ IF ~bfinal THEN pc' = pc /\ layout' = layout
       ELSE IF Advanced(len) = meta.uncompressed_size
       THEN pc' = "ready" /\ layout' = "StoredBlocks"
       ELSE pc' = "failed" /\ layout' = layout

\* One turn of the loop of index_stored_blocks, on the header found at foff.
WalkBlock(bfinal, huffman, len, nlen_ok) ==
    LET data_off == Add64(foff, HeaderLen)
    IN  /\ pc = "walking"
        /\ \/ data_off > StreamEnd /\ NotStored
           \/ data_off <= StreamEnd /\ ~InFile(foff, HeaderLen) /\ Fails
           \/ /\ data_off <= StreamEnd /\ InFile(foff, HeaderLen)
              /\ \/ huffman /\ NotStored
                 \/ ~huffman /\ (~nlen_ok \/ Overruns(data_off, len)) /\ Fails
                 \/ ~huffman /\ nlen_ok /\ ~Overruns(data_off, len)
                    /\ TakeBlock(data_off, len, bfinal)
        /\ Idle

(***************************************************************************)
(* read_at.                                                                *)
(***************************************************************************)
want_end == MinOf(Add64(request.offset, request.len), meta.uncompressed_size)

Answers(res, bs) ==
    /\ pc' = "ready"
    /\ result' = res
    /\ got' = bs

Begin(r) ==
    /\ pc = "ready"
    /\ request' = r
    /\ cur' = r.offset
    /\ IF r.offset >= meta.uncompressed_size \/ r.len = 0
       THEN Answers("ok", <<>>)
       ELSE pc' = "reading" /\ result' = "none" /\ got' = <<>>
    /\ UNCHANGED <<meta, layout, blocks, foff, uoff, oracle>>

\* Seeded fault: a block that ends at the cursor is still taken.
EndsBefore(b) == b.uncomp_start + b.len < cur

EndsAtOrBefore(b) == b.uncomp_start + b.len <= cur

\* partition_point: the first block whose span extends past the cursor.
IsNextBlock(i) ==
    /\ i \in 1..Len(blocks)
    /\ ~EndsAtOrBefore(blocks[i])
    /\ \A j \in 1..(i - 1) : EndsAtOrBefore(blocks[j])

\* Seeded fault: the part of the block before the cursor is not deducted.
WholeBlock(b, within) == MinOf(b.len, want_end - cur)

\* How many bytes of block b the turn reads.
FromBlock(b, within) == MinOf(b.len - within, want_end - cur)

\* Seeded fault: the cursor moves on by the whole block.
CursorPastBlock(b, n) == cur + b.len

CursorAfter(b, n) == cur + n

\* One turn of the loop over the blocks: read what the block has of the span.
ReadBlock ==
    /\ pc = "reading" /\ layout = "StoredBlocks" /\ cur < want_end
    /\ \E i \in 1..Len(blocks) :
        LET b      == blocks[i]
            within == cur - b.uncomp_start
            n      == FromBlock(b, within)
            from   == Add64(b.file_offset, within)
        IN  /\ IsNextBlock(i)
            /\ IF InFile(from, n)
               THEN /\ got' = got \o Run(from, n)
                    /\ cur' = CursorAfter(b, n)
                    /\ UNCHANGED <<pc, result>>
               ELSE /\ Answers("err", got)
                    /\ UNCHANGED cur
    /\ UNCHANGED <<meta, layout, blocks, foff, uoff, oracle, request>>

\* The loop is over, or no block was found for the cursor.
ReadEnds ==
    /\ pc = "reading" /\ layout = "StoredBlocks"
    /\ cur >= want_end \/ \A i \in 1..Len(blocks) : ~IsNextBlock(i)
    /\ Answers("ok", got)
    /\ UNCHANGED <<meta, layout, blocks, foff, uoff, oracle, request, cur>>

\* The checkpoint index answers with the slice it was asked for
\* (Deflate64Seek shows why); its bound does not go through want_end.
ReadIndexed ==
    /\ pc = "reading" /\ layout = "Deflate64"
    /\ Answers("ok", SubSeq(oracle, request.offset + 1,
                            MinOf(request.offset + request.len, meta.uncompressed_size)))
    /\ UNCHANGED <<meta, layout, blocks, foff, uoff, oracle, request, cur>>

\* Vec::with_capacity panics above isize::MAX.
Allocates == meta.uncompressed_size < Word \div 2

\* The fallback reserves the claimed size, decodes the whole entry and slices
\* all[start..end], which panics when start is past end.
ReadFallback ==
    LET end == MinOf(want_end, Len(oracle))
    IN  /\ pc = "reading" /\ layout = "Fallback"
        /\ \/ meta.decode # "fine" /\ Answers("err", <<>>)
           \/ ~Allocates /\ Answers("panic", <<>>)
           \/ Allocates /\ meta.decode = "fine" /\ request.offset <= end
                /\ Answers("ok", SubSeq(oracle, request.offset + 1, end))
           \/ Allocates /\ meta.decode = "fine" /\ request.offset > end
                /\ Answers("panic", <<>>)
        /\ UNCHANGED <<meta, layout, blocks, foff, uoff, oracle, request, cur>>

Walk == \E bfinal, huffman, nlen_ok \in BOOLEAN, len \in BlockLens :
            WalkBlock(bfinal, huffman, len, nlen_ok)

Step == open_entry \/ Walk \/ ReadBlock \/ ReadEnds \/ ReadIndexed \/ ReadFallback

Next == Step \/ \E r \in Requests : Begin(r)

Spec == Init /\ [][Next]_vars

\* The code runs to its return.
LiveSpec == Spec /\ WF_vars(Step)

(***************************************************************************)
(* Properties.                                                             *)
(***************************************************************************)
\* The "cov:unreachable" note in read_at: the blocks of an index that
\* open_entry returned cover [0, uncompressed_size) without gap or overlap,
\* zero-length blocks and wrapped offsets included.
BlocksCover ==
    layout = "StoredBlocks" =>
        /\ blocks[1].uncomp_start = 0
        /\ \A i \in 1..(Len(blocks) - 1) :
              blocks[i + 1].uncomp_start = blocks[i].uncomp_start + blocks[i].len
        /\ blocks[Len(blocks)].uncomp_start + blocks[Len(blocks)].len = meta.uncompressed_size

\* The sizes the central directory gives are those of the data; a method-0
\* entry's data also ends at an offset that a u64 holds.
SizesAgree ==
    IF layout = "StoredBlocks" /\ meta.method = "Stored"
    THEN /\ meta.uncompressed_size = meta.compressed_size
         /\ meta.data_start + meta.compressed_size < Word
    ELSE layout = "Fallback" => meta.decoded_len = meta.uncompressed_size

Done == pc = "ready" /\ result # "none"

\* StoredZipEntry::read_at returns exactly the bytes a decoder would produce at
\* that place, all the request asks for up to the end of the entry, whichever
\* layout serves it and however the blocks are cut.
ReadAtIsSlice ==
    Done /\ result = "ok" /\ SizesAgree /\ request.offset + request.len < Word =>
        got = SubSeq(oracle, request.offset + 1,
                     MinOf(request.offset + request.len, meta.uncompressed_size))

\* A read through a block index built by the walk never touches a byte outside
\* the entry's compressed span.
ReadsStayInSpan ==
    layout = "StoredBlocks" /\ meta.method # "Stored" =>
        \A i \in 1..Len(got) :
            got[i] >= meta.data_start /\ got[i] < meta.data_start + meta.compressed_size

\* index_stored_blocks and read_at return: the walk moves at least a header ahead
\* at each turn, and wrapping does not send it back; each turn of the loop over
\* the blocks advances, zero-length blocks included.
WalkAndReadEnd == pc \in {"walking", "reading"} ~> pc \in {"ready", "failed"}

\* ADR 0001: the reader must "never silently produce wrong bytes".
NeverWrongBytes ==
    Done /\ result = "ok" =>
        \A i \in 1..Len(got) :
            request.offset + i <= Len(oracle) /\ got[i] = oracle[request.offset + i]

\* README: "panic-free on untrusted input".
NoPanic == result # "panic"
===============================================================================
