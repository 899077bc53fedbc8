# A TLA+ model of zip-forensic

zip-forensic is a read-only ZIP implementation in Rust: `core` parses an
archive, decrypts, decodes and verifies its entries, gives random access to them
and mounts the archive behind a `FileSystem` trait; `forensic` audits an
archive's structure; `cli` prints. This directory holds TLA+ models of the parts
where an order of steps, an unusual input or a second thread decides whether the
bytes that come out are right, the TLC runs that check them on small instances
and TLAPS proofs that lift nearly all of the safety properties to every instance:
any file, any number of entries, workers, blocks and checkpoints. `PROJECT.json`
maps each definition to the lines it models and lists the runs, the seeded
faults that show each property has teeth, the hazards and the theorems.

Run a check with `tlc -config MCZipVfs.cfg MCZipVfs`, the proofs of a component
with `tlapm ZipVfsProofs.tla`, and likewise `CentralDirectoryProofs`,
`EntryReaderProofs`, `RandomAccessProofs`, `Deflate64SeekProofs`, `VfsTreeProofs`,
`AuditProofs` and `Lemmas`.

## 1. The system

| component | source | state | operations | modelled in |
|---|---|---|---|---|
| central directory and local headers | `core/src/archive.rs`, `bytes.rs` | the backing reader, the cursor of a `Reader`, `Vec<CentralEntry>`, EOCD summary | `ZipArchive::new`, `structural_view`, `read_lfh_fields` | `CentralDirectory`, `SoundArchive`, `ExtraFields` |
| entry reading | `core/src/archive.rs` | `ZipFile`: decoder, CRC hasher, `verified`, `verify_crc` | `by_index`, `by_name`, their `_decrypt` variants, `ZipFile::read`, drop | `EntryReader` |
| decompression dispatch | `core/src/codec.rs` | the `Decoder` variant and its buffer | `Decoder::new`, `Decoder::read`, the output cap | `EntryReader` |
| decryption layers | `core/src/crypto.rs` | position, `remaining`, `done`, the MAC | `ZipCryptoReader`, `AesReader`, `StrongAesReader`: new and read | `EntryReader`, `StrongHeader` (ciphers abstracted) |
| random access | `core/src/lib.rs` | `StoredZipEntry`: layout, block index | `open_entry`, `index_stored_blocks`, `read_at` | `RandomAccess` |
| Deflate64 checkpoints | `core/src/deflate64_seek.rs` | checkpoints, input buffer, inflater | `build_index_capped`, `Deflate64Index::read_at` | `Deflate64Seek` |
| VFS: shared reads | `core/src/vfs.rs` | mutex, content cache, the one reader cursor | `read_at`, `content` | `ZipVfs`, `PositionedRead` |
| VFS: node table | `core/src/vfs.rs` | `Vec<Node>`, the path map | `build_tree`, `lookup`, `read_dir`, `meta` | `VfsTree`, `ExtraFields` |
| audit | `forensic/src/lib.rs` | a list of anomalies | `audit_reader` and its checks | `Audit` |
| command line | `cli/src` | none | `list`, `audit` | `list` in `CentralDirectory`; argument dispatch and printing are not modelled |
| CP437 | `core/src/cp437.rs` | none | a table | not modelled: unit-tested |
| `enclosed_name` | `core/src/archive.rs` | none | one name to a path or none | `Audit`, against the audit's own path checks |

How they interact. `ZipVfs::read_at` calls `content`, which under the mutex calls
`by_index` and `read_to_end`; `by_index` builds Take, decryption layer, decoder
and `ZipFile` on top of one another, and every `read` goes down through them.
`open_entry` learns an entry's place from `ZipArchive`, then reads the file by
itself with positioned reads; for Deflate64 it builds a checkpoint index, and for
other compressed layouts it falls back to `by_name` and a full decode per read.
All of them start from the list of entries that `ZipArchive::new` parsed.
`build_tree` derives the node table from `structural_view`. `audit_reader` reads
`structural_view` and decodes every entry. The `list` command opens every entry
with `by_index` and prints what the directory says of it.

What is hard here:

- **Sharing.** All workers of a mounted archive decode through *one* reader with
  one cursor. The mutex, the check-decode-insert sequence and every way out of
  it (hit, error, CRC mismatch, panic with poisoning) have to fit together.
- **What the end of a stream means.** `Ok(0)` travels through three layers. The
  decoder, the AES layer and `ZipFile` each attach a check to it, and each
  decides for itself when it has seen it.
- **Finding the archive in the file.** The end record is searched backwards, a
  gap between directory and end record may be a prefix in front of the archive or
  a signature record, and each offset and size may be a sentinel that stands for
  a number elsewhere.
- **Claims against data.** Sizes come from the central directory. They may
  disagree with the data, and near 2^64 their sums wrap.
- **Termination.** Loops over blocks, over refills of an inflater, over damaged
  input.
- **Order of names.** The tree is built from a flat list in any order, with
  implied directories, duplicates and files that are also parents.

There are no retries, timeouts or messages, and nothing is persisted, so no
hazard of those kinds is listed.

## 2. The modules

All payloads are sequences of abstract units; a CRC or an authentication code is
ideal (equal exactly when what was digested is equal). Arithmetic follows a
release build: `u64` sums wrap where the code does not check them (`Word` in
`RandomAccess`); a debug build panics there instead.

### `CentralDirectory`, `SoundArchive` and `ExtraFields`

A file is its length and the records in it, by offset: `recs[p]` is the record
whose signature starts at `p`. So a reader that looks at a wrong offset finds
another record or none, as in the code. `FindEocd`, `ResolveEocd`,
`LocateDirectory`, one `ParseHeader` per header and `FinishParse` are
`ZipArchive::new`; `structural_view` and `list` are the two clients of the list,
one step per entry. `cursor` is the position of the `Reader` over the directory.
Record lengths are the code's; 16-, 32- and 64-bit numbers are scaled down
(`U16_SENTINEL`, `U32_SENTINEL`, `Max64`), and `lfh_offset + prefix` wraps.
`RecordsIn` is all that is assumed of every file: its records hold numbers of
their width and extra blocks that bytes can make up.

`ExtraFields` holds the scanners of a header's extra block as functions of it:
the Zip64 numbers in their fixed order, the AE-x parameters, the NTFS and Unix
times and the Unicode names, with what is cut short or overruns the block. The
loop of `parse_extra_fields` overwrites, so a time or a name is defined as that of
the last field that gives one (`LastOf`).
`VfsTree` uses the same definitions for the times of its nodes.

The abstract specification here is the format. A file may come with a note of what
its writer put into it (`wrote`: the members, where their data starts, the places
of the directory, of each header in it and of the end record, the length of a
prefix and of a signature). `Sound` in `SoundArchive` says when a file is what such
a note says, in the terms of the format and without the code's operators: the end
record is within reach and nothing behind it looks like one (`SoundEnd`), the
directory is recorded in it or in the Zip64 record (`SoundDirectory`,
`SoundZip64`), each header holds its member's numbers in place or, in order, in its
Zip64 field and is followed by the next one (`SoundHeader`, `SoundMember`), its extra
fields agree with the member (`SoundExtra`), the local header and the data are in
the file. `MCCentralDirectory` lays archives out with such notes, and TLC evaluates
`Sound` on each (`DirectoryAssumption`). What nothing is promised of (`wrote = None`):
damaged files, and three kinds of prefixed archives, because the code does not find
those prefixes: Zip64 ones ("not attempted", says the comment), ones with a
signature record behind the recorded directory, and ones without entries. A prefix that
happens to hold a central header at the recorded offset hides the archive behind
it, and an EOCD that counts fewer entries than there are drops the rest without
an error: both are among the damaged files, where `ParserStaysInside` still holds.

### `EntryReader` and `StrongHeader`

One caller opens one entry with no, the right or a wrong password, reads it with
buffers of its choice, drops it and may open it again. `entry` is a record of the
central-directory fields the code branches on together with what the bytes behind
it hold: how many units are present, where the codec's end mark is, whether the
codec finds an error there, whether the authentication code matches. `layer` is
the decryption layer, `dec` the decoder, and `hasher`, `verified` and
`verify_crc` are the fields of `ZipFile`. `delivered`, `last` and `outcome`
record what the caller saw; `outcome` is how the reading *first* ended.

| action | code |
|---|---|
| `by_index` | `by_index`/`by_name` with `ZipArchive::open`: disk check, encryption refusal, local header, `Decoder::new` |
| `by_index_decrypt` | `open_decrypt` and `open_strong_decrypt` with the constructor of each layer; falls through to `open` for a plain entry |
| `Read` | `ZipFile::read` down to the Take, the CRC comparison included |
| `Drop` | the `ZipFile` goes |

The codecs are libraries and are external definitions: they turn units into bytes
in order up to their end mark; on input that ends early a codec may end or fail
(both are tried); the streaming ones read ahead by any amount and ask for input
once more when their buffer is empty, even at the end mark; the one-shot ones
decode everything in `Decoder::new`, and the self-ending ones among them may or
may not read to the end of their input. With a wrong key a decoder may produce
anything.

`StrongHeader` is the header of PKWARE strong encryption field by field, with the
real numbers: which headers are accepted, which of their bytes are indexed
without a further check, and what a writer of the password variant produces
(`WellFormed`).

### `ZipVfs` and `PositionedRead`

`PositionedRead` is what a caller of `FileSystem::read_at` is promised: a call is
answered at one instant, by itself, with the one right slice or with a failure.
There is no lock, no cache and no cursor in it.

`ZipVfs` is the code: N workers, each with a program counter over the steps of
`read_at` and `content`. The steps are those between which another worker can
run: argument checks, waiting for the guard, the cache lookup, `by_index` with
its seek, one unit of decoding at the shared cursor, the end with the CRC
verdict, the insert, and the copy from the `Arc` outside the lock. `ReadFault` is
an error of the backing reader, which leaves the cursor anywhere; `Panic` is a
panic in a decoder, which poisons the mutex that `lock` then enters all the same.
Both drop the guard and the partial buffer. `File`, `data_start`, `size` and
`crc32` are constants: the table is made before the handle is shared. Entries may
overlap, be cut off by the end of the file, be refused by `by_index` or have a
wrong CRC.

`KeepsPromise` maps `call` to `asking` and `result` to `answer`.

### `RandomAccess`

`open_entry`'s three layouts; one action per turn of the loop of
`index_stored_blocks`, on whatever header the file holds there; `read_at` for
each layout, one action per turn of its loop over blocks. Bytes are named by
their file offset, so that a byte from the wrong place is a wrong byte. `oracle`
is what a decoder would produce.

### `Deflate64Seek`

`RawInflate::read` as a set of possible turns, `build_index_capped` and
`Deflate64Index::read_at` as loops over them. The inflater (crate `deflate64`) is
external and as free as its interface allows: each turn takes any number of units
and writes any number of bytes that are available, but makes progress if it can;
`checkpoint()` may give the current state, an earlier one, or none. `sync`
records whether it was fed from where it left off; if not, its output is `Junk`.

### `VfsTree`

`build_tree` component by component (`SkipEntry`, `AddLeaf`, `Descend`,
`Finish`), then walks by `lookup` with `read_dir` and `meta` asked on the way. A
name is the sequence of pieces that
`split(['/', '\\'])` cuts it into, so the removal of empty and `.` pieces and the
trailing-slash test are computed as the code does; `comps` picks the k-th piece
that is kept, which is what a filter collects. A node's times come from its
entry's extra block, NTFS before Unix, time by time. `extents`, `read_link`,
`deleted` and `unallocated` return a constant or the size and are left out.

### `Audit`

`audit_reader`: opening, `structural_view` entry by entry (one unreadable local
header fails the whole audit), the pure checks of `audit_layout` and
`audit_container` in one step, then the decode loop entry by entry. How a decode
ends is an input here, `EntryReader` being about that. The report is a set of
findings; severities, categories and wording are left out. `enclosed_name` is
there as the second opinion on a name, with `PathBuf::push` as it works on Unix.

## 3. The runs

| run | what it asks | instance |
|---|---|---|
| `central_directory` | is what was written what is read | 2019 archives of 0 to 3 members (3 prefixes, comments, trailing bytes, 3 places of a signature record, 4 sets of Zip64 numbers, all 8 of a single header), comments and trailing bytes at the edge of the search, and some 580 damaged files |
| `entry_reader` | what a clean end, an error and a refusal mean | every method x 5 protections x 24 variants of an entry of 3 units, 4 EOCD summaries, buffers of 1 and 3 bytes, output cap 2 |
| `zip_vfs` | do workers disturb each other | 2 workers x 2 calls, 5 nodes, 8 different calls, one I/O error, panics possible on one node |
| `random_access` | are positioned reads right and do they end | all layouts, up to 3 blocks of 0, 1, 2 or 4 bytes, cut files, 6-bit words so that sums wrap |
| `deflate64_seek` | can decoding resume at every checkpoint, and how long is a skip | 11 streams of 3 units, chunks of 2, intervals 0 (raised to 1) and 2, caps at 6 bytes and 3 states |
| `vfs_tree` | is the table a tree and the right one | every list of up to 3 of 14 names, extra blocks with times whole, cut or doubled, walks of up to 3 names |
| `audit` | what a report says and does not say | every placing of 3 members (4 offsets, 4 sizes, one of which saturates), 2 members with 24 variants each in either order, 72 containers |
| five more | one documented claim each, which fails | see section 5 |

What the passing runs show.

- `central_directory`. `WrittenIsRead`: whatever surrounds the archive, opening
  it gives the members in order with their sizes, extra fields and absolute
  offsets, the right summary, and a view that pairs each with its own local
  header. `ParserStaysInside`: for every file, both offsets of the prefix test
  are in it (the `cov:unreachable` note of `cd_header_at`), the directory is too,
  and no header reaches behind the directory. `ListsUpToRefused`: `list` prints
  the members before the first one it cannot open, rightly, and fails there.
- `entry_reader`. `CleanMeansVerified`: a reading that ends in `Ok(0)` with the
  CRC in force delivered the bytes the CRC is of, however the reads were cut.
  `AuthenticatedAtEof`: for methods that take their input to the end, a clean end
  of an AES entry means the code was compared and matched. `IntactReadsClean`:
  nothing undamaged is refused or fails, and it comes out whole.
  `ReadsOnlyWhatItCanResolve`: the refusals of `open` and `open_decrypt` together
  leave no way to bytes of another disk or of an undecrypted entry.
  `StrongHeaderInside`: no strong-encryption header makes the parser index behind
  its buffer, and the IV of the file data is a block of the validation blob.
  `EofIsFinal` (no byte and no error after a clean end) and `EveryReadEnds`
  complete it. The cap on what a one-shot codec may buffer is part of `TypeOK`;
  at 2 it is below the payload of 3, so both sides of it are met.
- `zip_vfs`. `CacheCoherent`, `CursorIsPrivate`, `InflatedOnce`,
  `NoFailureOutlives`, `CachedForever`, `EveryCallReturns` and the refinement
  `KeepsPromise`. One worker may be in any step while the other is in any other;
  with two calls each, a call meets the cursor, the cache and the poisoned mutex
  that a failed one left.
- `random_access`. `BlocksCover` is the claim of the `cov:unreachable` note in
  `read_at`; `ReadAtIsSlice` says that reads equal the decoder's output wherever
  the directory's sizes are those of the data and neither span nor request wraps; `ReadsStayInSpan` and
  `WalkAndReadEnd` hold with wrapped sums and zero-length blocks too.
- `deflate64_seek`. `CheckpointsResume`: the checkpoints ascend and decoding can go
  on from each. `EveryCallEnds`, and `ReadAtExact`: once an index exists no read
  returns a wrong byte or, where the file holds the entry's span, fails, which is what the `cov:unreachable` notes of the skip and
  fill loops claim. The caps of `build_index_capped` are part of `TypeOK`.
  `SkipIsBounded` is the part that holds of a claim that does not (`skip_interval`,
  section 5): where the inflater always saves its current state, a skip is shorter
  than an interval and one working buffer together.
- `vfs_tree`. `NodesMatchEntries` compares the table with a definition of it that
  does not iterate; `IsATree`; `WalkArrives`: `lookup`, `read_dir` and `meta`
  agree with it and with each other; `OneClock`: the times of a node all come from
  one of the two clocks.
- `audit`. `OverlapsAreFound`: although only neighbours in offset order are
  compared, an archive in which two members share a byte always has an overlap
  finding, and every finding is one. `QuietOnConforming`: descriptors, zip64
  sentinels, empty members and any directory order raise no false alarm.
  `CrcFindingsExact`: no entry keeps the CRC verdict of another from the report.
  `RefusedNamesReported`: every name with a component that `enclosed_name` refuses
  to turn into a path is reported, and a name reported for traversal or its root
  is one it refuses, though the two are separate code in two crates.

Why the bounds are enough. A second worker and a second call reach every pair of
positions in `content`; the proofs of section 4 lift that run to any number of
both. The scaled numbers of `central_directory` keep
the order that matters: every offset of a small file below the 32-bit sentinel,
the search window of 65557 bytes crossed by some files. Three units are the fewest
with a first, a middle and a last, so that a
chunk boundary falls inside and at the end. Three names of up to three pieces
contain every relation of two paths (equal, ancestor, sibling, unrelated) in
every order, with a third before, between or after. Where section 4 has a theorem
for a property, the run is the small instance of it and no bound is relied on. Named bounds: `MaxCalls`,
`MaxFaults`, `MaxDepth`; `max_decode`, `max_index_bytes` and `MaxBuffered` are
limits of the code itself.

Deadlock is checked where a state without successor would be a fault
(`entry_reader`). Elsewhere the system may rest: the workers have made their
calls, an entry could not be opened, a walk is over.

Fairness. `ZipVfs` assumes weak fairness of each worker's own steps: a thread
that can run does. Nothing is assumed of the mutex beyond its being given to
somebody when it is free; `EveryCallReturns` then rests on each worker making
finitely many calls, as does the real guarantee of a `std::sync::Mutex`. I/O
errors and panics are never required to happen. The other modules are sequential:
weak fairness of the code's own next step, and in `EntryReader` of a caller that
goes on reading with a non-empty buffer, as `io::copy` and `read_to_end` do.

## 4. The proofs

### `ZipVfsProofs`

`ZipVfsProofs` proves, for any sets of workers, nodes and calls, any file and any
bounds that satisfy `VfsAssumption` (data offsets positive, sizes natural, `None`
and `Failed` not among the values they stand beside):

| theorem | statement |
|---|---|
| `Invariance` | `Spec => []IInv` |
| `TypeCorrect`, `CacheIsCoherent`, `CursorStaysPrivate`, `InflatesOnce` | the invariants of the run, from `IInv` |
| `FailuresEndWithTheirCall` | `Spec => []NoFailureOutlives` |
| `CacheOnlyGrows` | `Spec => CachedForever` |
| `Refinement` | `Spec => KeepsPromise` |
| `GuardNeverLeaks` | `Spec => []`(the guard is held exactly by the worker inside `content`) |
| `CallsMoveOn` | `Spec => [][\A w \in Workers : MovesOn(w)]_vars` |

None of the checked invariants is inductive. That the cache is coherent needs
what the worker about to insert holds, which needs what it read, which needs the
cursor to have been where its own steps left it, which needs nobody else to have
held the guard. `IInv` says this: `TypeOK`; for each worker, by where it stands,
that its call is for a file (`ServesFile`), that it has a call or an answer
exactly when it should (`InCall`), that it holds the guard (`Guarded`), that what
it has decoded is a prefix of its entry, the cursor right behind it and the node
not yet cached (`DecodesItsEntry`), that what it is about to insert or copy is
the whole sound content (`CachesItsEntry`, `CopiesItsEntry`); the coherence of
the cache; and that every counted decode is cached or about to be
(`InflatedIsCached`).

The step is split by actor. `OthersAlone` shows that a step of worker w leaves
the local state of v alone, and the guard, cursor and cache too while v holds the
guard; `OthersStep` concludes that v's part survives. `OwnStep` goes through w's
actions. `CacheStep` says what a step may do to the cache, and
`CacheCoherentStep` and `InflatedStep` follow. `WholeEntryRead` is the lemma that
turns "a prefix that cannot be extended" into "the entry's data". `Refinement`
uses `IInv` where `Copy` answers: `CopyExpected` shows that the slice the code
computes is the abstract answer, by `SliceIsPart`.

`GuardNeverLeaks` adds the converse of `Guarded`: whoever holds the guard is
inside. `CallsMoveOn` orders the places of a call (`Place`) and shows that no
step leads back.

### `EntryReaderProofs`

For any entries, archives, buffer sizes and output cap that satisfy
`EntriesAssumption`, with whatever the codecs do within their contract:

| theorem | statement |
|---|---|
| `HeaderIndexesInside` | every strong-encryption header, whatever its 16- and 32-bit numbers, satisfies `IndexesInside` |
| `StrongHeaderIsInside` | `Spec => []StrongHeaderInside` |
| `NothingUnresolvedIsRead` | `Spec => []ReadsOnlyWhatItCanResolve` |
| `TypeCorrect` | `Spec => []TypeOK`, the cap on buffered output among it |
| `CleanMeansAuthentic` | `Spec => []AuthenticatedAtEof` |
| `CleanIsVerified` | `0 \notin BufSizes => (Spec => []CleanMeansVerified)` |
| `EndIsFinal` | `0 \notin BufSizes => (Spec => EofIsFinal)` |
| `IntactIsRead` | `0 \notin BufSizes => (Spec => []IntactReadsClean)` |
| `ReadsMoveOn` | `Spec => [][MovesOn]_vars` |

The hypothesis `0 \notin BufSizes` is needed: the run `entry_zero_read` shows what
an empty buffer does. The first three need only that a `ZipFile` is held for an
entry that passed the disk, flag and mask tests (`OpenInv`) and, for the headers,
the equation `valid_off + valid_size = rem_size` with the divisibility by 16.

What a clean end means is about three layers that each notice it by themselves.
`IInv` says: the layer's position is within its span, the code is unread exactly
while `done` is not set, and `auth` is the truth (`GoodLayer`); what a streaming
decoder has decoded or holds is what came through the layer (`GoodDecoder`); the
hasher has seen what was delivered; which layer and decoder stand on each other
(`Stacked`). `EndInv` is the core: after a clean end the decoder is `Ended`, that
is, it has nothing more to give and the layer below reports its end again without
changing, so every further read is the same `Ok(0)`. `AuthInv` says that a set
`done` means a matching code or a reading that failed. `DecoderReadIsGood` goes
through the decoders once and both invariants use it.

`IntactIsRead` adds `FitInv`: for an undamaged entry and the right key what was
delivered is the plaintext up to where layer and decoder stand (`Progress`), and
the decoder stands before its end mark (`FitStack`). The headers a writer makes
are accepted (`WellFormedIsAccepted`).

`ReadsMoveOn` counts what the stack can still give (`Left`): each read that is
neither an end nor an error moves a byte or more from there to the caller, and
nothing is lost or doubled on the way.

### `CentralDirectoryProofs`

For every file that satisfies `RecordsIn`, whatever records lie in it and where:
`TypeCorrect` (`Spec => []TypeOK`) and `ParserInside`
(`Spec => []ParserStaysInside`). The invariant follows the parser: the EOCD that
was found has its fixed part in the file (`EocdInside`), so the gap in front of it
is a distance inside the file (`GapInside`) and both reads of the prefix test are;
`checked_add` puts the directory inside the file, and each header moves the cursor
by at least 46 bytes within it (`DirInside`). For the types, `ValuesAreWords` shows
that `apply_zip64_extra` never takes a number that its field does not hold: the
test on the number of words covers the rank of each value (`RankIs`).

For every file that is `Sound`, with any number of members:

| theorem | statement |
|---|---|
| `WrittenArchiveIsRead` | `Spec => []WrittenIsRead` |
| `ListStopsAtRefused` | `Spec => []ListsUpToRefused` |

Neither property is inductive: that the entries are right at the end rests on the
cursor having stood at a header before each. `SoundInv` says so step by step: the
end record, the directory and the prefix are the written ones as soon as each has
been looked for (`PlacesFound`); after n headers the cursor is at the written place
of the next and the n entries are the members, their offsets not yet shifted
(`MembersParsed`); what a client has produced is right so far, and only `list` fails,
at a member that cannot be opened (`ClientsServed`). The lemmas are about the
operators: the search stops at the written end record (`EocdIsFound`); a gap that is
not a prefix is not taken for one, and one that is is found (`PrefixIsFound`); no
header lies behind the end of the last one, so none is reported as truncated
(`HeadersBelowEnd`); each number is at the rank at which a writer puts it, for all
eight choices of numbers in the Zip64 field (`NumbersRead`), and each time at its
own (`UnixTimeRead`); adding the prefix to a recorded offset does not wrap
(`ShiftedBack`).

### `RandomAccessProofs`

For any entry, request, block headers and width of the offsets that satisfy
`AccessAssumption` (a file offset and one block length do not exceed a word
together: files are shorter than 2^63 bytes and LEN is a `u16`):

| theorem | statement |
|---|---|
| `TypeCorrect` | `Spec => []TypeOK` |
| `BlocksCoverEntry` | `Spec => []BlocksCover` |
| `ReadAtReturnsSlice` | `Spec => []ReadAtIsSlice` |
| `ReadsStayInside` | `Spec => []ReadsStayInSpan` |
| `LoopsMoveOn` | `Spec => [][MovesOn]_vars` |

`IInv` has a part for each phase. `Walking`: the blocks so far are in a row
(`Contiguous`), the decoder's output is as long as they are together and not longer
than the way made in the file. `Index`: each block points at the bytes that the
decoder makes of it (`Faithful`), nothing wraps on the way to them, and all are in
the span. `Reading`: what is in the buffer is the decoder's output from the offset
asked for on. `LoopsMoveOn` rests on two of the lemmas: where a block is taken
nothing has wrapped (`BlockBounds`), and the block that `partition_point` finds
holds the cursor (`NextBlockHoldsCursor`), so that something of it is read.

### `Deflate64SeekProofs`

For any stream, request, interval, caps and buffer size that satisfy
`SeekAssumption`, with any inflater that keeps its contract: `TypeCorrect`,
`CheckpointsCanResume`, `ReadAtReturnsExact` and `SkipBounded`, for the four
invariants of the run. `Feed` is the heart: `RawInflate` has the next unit that
the inflater wants, `data_start + taken + unread = file_pos`, inside the span.
`Resumable` is what a saved state needs so that `Feed` holds when it is restored,
and `Index` says it of every checkpoint. `Building` and `Decoded` carry what a
finished decode has shown over to the reads: the stream ends inside the span, in
front of any error, with the size the directory claims. `Spaced` bounds the
distance of checkpoints, which gives `SkipBounded`, for streams at which
`checkpoint()` always saves the current state. `Reading` is where a read
stands. `TurnsMoveOn` (`Spec => [][MovesOn]_vars`) says that no turn stands still:
one that takes no unit and writes no byte is the end, an error, or impossible
because the inflater is fed, has room and is not finished (`StepIfFed`).

### `VfsTreeProofs`

For any number of entries in any order, names of any depth and any extra blocks:

| theorem | statement |
|---|---|
| `TypeCorrect` | `Spec => []TypeOK` |
| `TableMatchesEntries` | `Spec => []NodesMatchEntries` |
| `TableIsATree` | `Spec => []IsATree` |
| `WalksArrive` | `Spec => []WalkArrives` |
| `TimesOfOneClock` | `Spec => []OneClock` |

`IInv` has three parts. `Tree`: where the loops stand, with `parent_id` the node of
the path so far (`Standing`); the path map numbers the nodes, one path each
(`Numbered`); a path's parent comes earlier and lists it, and a node lists exactly
the paths one name longer, in ascending order (`Linked`). `Matching`: at every
component, each node is what the entries *up to there* should give (`IsNode` of
`SeenMentions` and `SeenRecords`), so that at the end it is what all entries should
give, without an induction over the list. `Walk`: `at` is the node of the path
walked. There are two ways in which a step changes the table: a node is pushed
(`Grown`), or a record is attached to one (`LeafRelabels`); each part of `IInv` has
a lemma for each. `TimesOfEntry` is the lemma about the extra block: `NtfsTimes` are
all there or all missing.

### `AuditProofs`

For any archive that satisfies `AuditAssumption` (local sizes are `u32`). `Shape`
says that the report is, at every step, the audit of the layout and of the
container plus the CRC findings of the entries decoded so far; `ShapeHolds` proves
it, and the others are about the report alone.

| theorem | statement |
|---|---|
| `ShapeHolds` | `Spec => []Shape` |
| `TypeCorrect` | `Spec => []TypeOK` |
| `CrcFindingsAreExact` | `Spec => []CrcFindingsExact` |
| `OverlapsFound` | `Spec => []OverlapsAreFound` |
| `ConformingIsQuiet` | `Spec => []QuietOnConforming` |
| `RefusedNamesAreReported` | `Spec => []RefusedNamesReported` |

`OverlapsFound` is why comparing neighbours is enough: if no two neighbours in
offset order overlap, the end of each member is at most the start of the next,
hence of every later one.

### `Lemmas`

Facts about sequences and numbers that several of these proofs need: a non-empty
set of naturals has a least member, a bounded one a greatest, and what `Append`,
`SubSeq` and an element of a sequence are.

### What is not proved

- All liveness (`EveryCallReturns`, `EveryReadEnds`, `WalkAndReadEnd`,
  `EveryCallEnds`): the prover has no rules for fairness and ENABLED here. Of each
  the safety half is proved, for all values of the constants: every step that
  does not leave a loop brings a bounded number further (`CallsMoveOn`,
  `ReadsMoveOn`, `LoopsMoveOn`, `TurnsMoveOn`), and the only thing a worker waits
  for is held by one who is inside (`GuardNeverLeaks`). What only TLC checks is
  that a step is enabled until then and that fairness takes it.
- What is false and shown so: the five runs of section 5.

## 5. Where code and documents disagree

Each is a run that TLC ends with a counterexample.

1. `entry_zero_read`: `ZipFile::read` takes `Ok(0)` for an *empty buffer* for the
   end of the entry, reports a CRC mismatch on undamaged data and marks the entry
   verified, so that the check at its real end is skipped. In `entry_reader`,
   where no buffer is empty, `IntactReadsClean` holds.
2. `entry_hmac`: an AES entry whose compressed stream ends before its ciphertext
   ends cleanly with the authentication code never compared; for AE-2 no CRC is
   compared either. `AuthenticatedAtEof` is the part of the claim that holds.
3. `stored_overclaim`: `read_at` on a method-0 entry whose uncompressed size
   exceeds its compressed size returns bytes from behind the entry.
4. `fallback_short`: `read_at` on an entry that decodes to less than it claims
   slices past what was decoded and panics.
5. `skip_interval`: the comment on `DEFAULT_CHECKPOINT_INTERVAL` and the head of
   `deflate64_seek.rs` say that a `read_at` re-inflates at most an interval. The
   mark `next_at` is looked at only after a whole read of up to `IO_CHUNK` bytes,
   and reads may be short, so a checkpoint can lie behind it and a read in front of
   that checkpoint skips more. In the run every checkpoint saves the current state
   and the interval is a multiple of `IO_CHUNK`, as 8 MiB is of 128 KiB.
   `SkipIsBounded` is the part that holds: the excess is less than one buffer.
   Where `checkpoint()` gives no state or an earlier one, the code waits another
   interval, and a skip has no bound of this kind.

Not runs of their own:

- Of two entries with the same name the second has no node and its content cannot
  be reached (`build_tree`, `vfs.rs:318-329`), where `vfs.rs:78` says that "every
  catalogue entry becomes a node". `NodesMatchEntries` states what the code does:
  the first entry of a path backs its node.
- `audit_overlaps` compares neighbours in offset order only, so a member that lies
  inside an earlier, longer one but behind that one's neighbour is in no finding,
  where its comment says "Detect members whose ... ranges overlap".
  `OverlapsAreFound` is the part that holds: some pair is reported.
- `list` is to "enumerate entries" (`cli/src/lib.rs`), and what it prints is in the
  directory; since it opens each entry first, it stops at the first encrypted,
  split or unsupported one (`ListsUpToRefused`).
- `lfh_offset += prefix` is not checked: it wraps for an offset near 2^64. In a
  sound archive it does not (`ShiftedBack`).
- Conditions that the proofs needed and small instances had hidden. In
  `read_at` on a method-0 entry `b.file_offset + within` wraps where the claimed
  span does, so `ReadAtIsSlice` asks that it does not (`SizesAgree`). A Deflate64
  index is also built for an entry whose span runs past the end of the file, if its
  stream ends before that; a later read that refills its buffer there fails, so
  `ReadAtExact` excludes errors only where the file holds the span.
- With ZipCrypto a wrong password that happens to pass the one-byte check
  delivers bytes before it fails at the end, where `docs/validation.md` says a
  wrong password is "never returned as garbage plaintext". `CleanMeansVerified`
  shows that such a reading never ends cleanly.

## 6. Not modelled

The ciphers, key derivation and codecs themselves; character sets and the decoding
of names; the dispatch on arguments, printing, severities and wording; the fuzz targets, which
are test drivers.
