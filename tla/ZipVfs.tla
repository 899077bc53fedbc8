-------------------------------- MODULE ZipVfs --------------------------------
(***************************************************************************)
(* ZipVfs::read_at by N workers on one handle: the poison-recovering mutex *)
(* around the archive and its decompressed-content cache, and the single   *)
(* cursor of the backing reader that every decode seeks and advances.      *)
(*                                                                         *)
(* The node table is a constant (build_tree makes it before the handle is  *)
(* shared).  The backing file is a sequence; the entry of node n occupies  *)
(* size[n] units from data_start[n], and File[p] is the output byte of the *)
(* unit at p.  How a decoder gets there is EntryReader's subject.          *)
(***************************************************************************)
EXTENDS Naturals, Sequences

CONSTANTS
    Workers,
    Nodes,        \* node ids that name a node of the table
    Files,        \* the nodes whose kind is File
    Locked,       \* file nodes by_index refuses (encrypted, method unknown, ...)
    Fragile,      \* file nodes on whose data a decoder may panic
    File,         \* the backing reader's content
    data_start,   \* first unit of a file node's entry, counted from 1
    size,         \* its length
    crc32,        \* the byte sequence its recorded CRC is the CRC of
    Ids,          \* file ids: node ids and ids of no node
    Calls,        \* the arguments callers pass to read_at
    None, Failed, \* no value; an error returned (a call that panics fails too)
    MaxCalls,     \* bound: calls of one worker
    MaxFaults     \* bound: I/O errors of the backing reader

Streams == {"Default", "Named"}
CallRecords == [id : Ids, stream : Streams, off : Nat, len : Nat]

ASSUME VfsAssumption ==
    /\ Files \subseteq Nodes
    /\ Nodes \subseteq Ids
    /\ Locked \subseteq Files
    /\ Fragile \subseteq Files
    /\ File \in Seq(Nat)
    /\ data_start \in [Files -> Nat \ {0}]
    /\ size \in [Files -> Nat]
    /\ crc32 \in [Files -> Seq(Nat)]
    /\ None \notin Workers \union Calls \union Seq(Nat)
    /\ Failed \notin Seq(Nat) \union {None}
    /\ Calls \subseteq CallRecords
    /\ MaxCalls \in Nat
    /\ MaxFaults \in Nat

VARIABLES
    pc,         \* per worker: where its call of read_at stands
    call,       \* per worker: the arguments of its call
    ncalls,     \* per worker: calls begun
    holder,     \* the worker that holds the MutexGuard, or None
    poisoned,   \* the mutex is poisoned
    cache,      \* Inner::cache
    pos,        \* the backing reader's cursor
    bytes,      \* per worker: the local buffer of content
    data,       \* per worker: the Arc content returned
    result,     \* per worker: what read_at returned
    faults,     \* I/O errors so far
    faulted,    \* history, per worker: its call met an I/O error
    inflated    \* history: successful decodes per node

vars == <<pc, call, ncalls, holder, poisoned, cache, pos, bytes, data, result,
          faults, faulted, inflated>>

PCs == {"idle", "called", "locking", "locked", "decoding", "caching", "copying", "returned"}

\* Where the cursor may be left by others.
Cursor == 1..(Len(File) + 1)

TypeOK ==
    /\ pc \in [Workers -> PCs]
    /\ call \in [Workers -> Calls \union {None}]
    /\ ncalls \in [Workers -> 0..MaxCalls]
    /\ holder \in Workers \union {None}
    /\ poisoned \in BOOLEAN
    /\ cache \in [Files -> Seq(Nat) \union {None}]
    /\ pos \in Nat \ {0}
    /\ bytes \in [Workers -> Seq(Nat)]
    /\ data \in [Workers -> Seq(Nat) \union {None}]
    /\ result \in [Workers -> Seq(Nat) \union {None, Failed}]
    /\ faults \in 0..MaxFaults
    /\ faulted \in [Workers -> BOOLEAN]
    /\ inflated \in [Files -> Nat]

Init ==
    /\ pc = [w \in Workers |-> "idle"]
    /\ call = [w \in Workers |-> None]
    /\ ncalls = [w \in Workers |-> 0]
    /\ holder = None
    /\ poisoned = FALSE
    /\ cache = [n \in Files |-> None]
    /\ pos \in Cursor                \* wherever structural_view left it
    /\ bytes = [w \in Workers |-> <<>>]
    /\ data = [w \in Workers |-> None]
    /\ result = [w \in Workers |-> None]
    /\ faults = 0
    /\ faulted = [w \in Workers |-> FALSE]
    /\ inflated = [n \in Files |-> 0]

(***************************************************************************)
(* The mutex.                                                              *)
(***************************************************************************)
\* Seeded fault: the guard is taken without waiting for it.
LockWithoutWaiting(w) == holder' = w

\* lock(): a poisoned mutex is entered like any other.
lock(w) == holder = None /\ holder' = w

\* Seeded fault: an error return keeps the guard.
KeepGuard == holder' = holder

\* The guard is dropped, on return, on `?` and while unwinding.
unlock == holder' = None

node(w) == call[w].id

(***************************************************************************)
(* The steps of one call.                                                  *)
(***************************************************************************)
Call(w, c) ==
    /\ pc[w] = "idle"
    /\ ncalls[w] < MaxCalls
    /\ pc' = [pc EXCEPT ![w] = "called"]
    /\ call' = [call EXCEPT ![w] = c]
    /\ ncalls' = [ncalls EXCEPT ![w] = @ + 1]
    /\ UNCHANGED <<holder, poisoned, cache, pos, bytes, data, result, faults, faulted, inflated>>

\* What the checks before content() answer: an error for a stream other than
\* the default or an id of no node, nothing for a directory.
Rejected(c) == c.stream # "Default" \/ c.id \notin Nodes
EarlyAnswer(c) == IF Rejected(c) THEN Failed ELSE <<>>

Validate(w) ==
    /\ pc[w] = "called"
    /\ IF Rejected(call[w]) \/ node(w) \notin Files
       THEN /\ pc' = [pc EXCEPT ![w] = "returned"]
            /\ result' = [result EXCEPT ![w] = EarlyAnswer(call[w])]
       ELSE /\ pc' = [pc EXCEPT ![w] = "locking"]
            /\ UNCHANGED result
    /\ UNCHANGED <<call, ncalls, holder, poisoned, cache, pos, bytes, data, faults, faulted, inflated>>

Lock(w) ==
    /\ pc[w] = "locking"
    /\ lock(w)
    /\ pc' = [pc EXCEPT ![w] = "locked"]
    /\ UNCHANGED <<call, ncalls, poisoned, cache, pos, bytes, data, result, faults, faulted, inflated>>

\* Seeded fault: the cache is looked up but the hit is not used.
NeverCached(n) == FALSE

Cached(n) == cache[n] # None

\* content(): a cached entry is handed out and the guard dropped.
Hit(w) ==
    /\ pc[w] = "locked"
    /\ Cached(node(w))
    /\ data' = [data EXCEPT ![w] = cache[node(w)]]
    /\ unlock
    /\ pc' = [pc EXCEPT ![w] = "copying"]
    /\ UNCHANGED <<call, ncalls, poisoned, cache, pos, bytes, result, faults, faulted, inflated>>

\* Seeded fault: offsets are taken to be counted from 0.
SeekOneShort(n) == pos' = data_start[n] - 1

\* Seeded fault: the decoder continues where the reader happens to stand.
NoSeek(n) == pos' = pos

\* read_lfh_fields and the seek to data_start of ZipArchive::open.
SeekToData(n) == pos' = data_start[n]

\* by_index succeeds: a decoder stands at the entry's first unit.
OpenEntry(w) ==
    /\ pc[w] = "locked"
    /\ ~Cached(node(w))
    /\ node(w) \notin Locked
    /\ SeekToData(node(w))
    /\ bytes' = [bytes EXCEPT ![w] = <<>>]
    /\ pc' = [pc EXCEPT ![w] = "decoding"]
    /\ UNCHANGED <<call, ncalls, holder, poisoned, cache, data, result, faults, faulted, inflated>>

\* Seeded fault: an error empties the cache.
CacheCleared == cache' = [n \in Files |-> None]

CacheKept == UNCHANGED cache

\* A `?` in content: the guard and the half-read buffer are dropped and read_at
\* returns the error.
Fail(w) ==
    /\ unlock
    /\ bytes' = [bytes EXCEPT ![w] = <<>>]
    /\ result' = [result EXCEPT ![w] = Failed]
    /\ pc' = [pc EXCEPT ![w] = "returned"]
    /\ CacheKept
    /\ UNCHANGED <<call, ncalls, data, inflated>>

\* by_index refuses the entry.
RefuseEntry(w) ==
    /\ pc[w] = "locked"
    /\ ~Cached(node(w))
    /\ node(w) \in Locked
    /\ Fail(w)
    /\ UNCHANGED <<poisoned, pos, faults, faulted>>

\* The Take over the entry's span still gives a unit.
MoreToDecode(w) == Len(bytes[w]) < size[node(w)] /\ pos <= Len(File)

\* read_to_end: the next unit of the entry's span, at the shared cursor.
Decode(w) ==
    /\ pc[w] = "decoding"
    /\ MoreToDecode(w)
    /\ bytes' = [bytes EXCEPT ![w] = Append(@, File[pos])]
    /\ pos' = pos + 1
    /\ UNCHANGED <<pc, call, ncalls, holder, poisoned, cache, data, result, faults, faulted, inflated>>

\* The backing reader fails a seek or a read.
ReadFault(w) ==
    /\ pc[w] \in {"locked", "decoding"}
    /\ pc[w] = "locked" => ~Cached(node(w)) /\ node(w) \notin Locked
    /\ faults < MaxFaults
    /\ faults' = faults + 1
    /\ faulted' = [faulted EXCEPT ![w] = TRUE]
    /\ pos' \in Cursor
    /\ Fail(w)
    /\ UNCHANGED poisoned

\* A decoder panics: the guard is dropped while unwinding, which poisons the
\* mutex.
Panic(w) ==
    /\ pc[w] = "decoding"
    /\ node(w) \in Fragile
    /\ Fail(w)
    /\ poisoned' = TRUE
    /\ UNCHANGED <<pos, faults, faulted>>

\* Seeded fault: a wrong checksum is let through.
AnyCrc(n, bs) == TRUE

CrcMatches(n, bs) == bs = crc32[n]

\* read_to_end sees the end: ZipFile::read has verified the CRC.
EndOfEntry(w) ==
    /\ pc[w] = "decoding"
    /\ ~MoreToDecode(w)
    /\ CrcMatches(node(w), bytes[w])
    /\ inflated' = [inflated EXCEPT ![node(w)] = @ + 1]
    /\ pc' = [pc EXCEPT ![w] = "caching"]
    /\ UNCHANGED <<call, ncalls, holder, poisoned, cache, pos, bytes, data, result, faults, faulted>>

CrcMismatch(w) ==
    /\ pc[w] = "decoding"
    /\ ~MoreToDecode(w)
    /\ ~CrcMatches(node(w), bytes[w])
    /\ Fail(w)
    /\ UNCHANGED <<poisoned, pos, faults, faulted>>

\* The decoded bytes enter the cache under the node's id; the guard goes.
Insert(w) ==
    /\ pc[w] = "caching"
    /\ cache' = [cache EXCEPT ![node(w)] = bytes[w]]
    /\ data' = [data EXCEPT ![w] = bytes[w]]
    /\ bytes' = [bytes EXCEPT ![w] = <<>>]
    /\ unlock
    /\ pc' = [pc EXCEPT ![w] = "copying"]
    /\ UNCHANGED <<call, ncalls, poisoned, pos, result, faults, faulted, inflated>>

\* Seeded fault: the slice starts one byte late.
SliceOffByOne(bs, off, len) ==
    IF off >= Len(bs) THEN <<>>
    ELSE SubSeq(bs, off + 2, off + (IF Len(bs) - off <= len THEN Len(bs) - off ELSE len))

\* The tail of read_at: the part of the data the caller's buffer takes.
Slice(bs, off, len) ==
    IF off >= Len(bs) THEN <<>>
    ELSE SubSeq(bs, off + 1, off + (IF Len(bs) - off <= len THEN Len(bs) - off ELSE len))

\* Outside the lock, from the shared Arc.
Copy(w) ==
    /\ pc[w] = "copying"
    /\ result' = [result EXCEPT ![w] = Slice(data[w], call[w].off, call[w].len)]
    /\ data' = [data EXCEPT ![w] = None]
    /\ pc' = [pc EXCEPT ![w] = "returned"]
    /\ UNCHANGED <<call, ncalls, holder, poisoned, cache, pos, bytes, faults, faulted, inflated>>

\* The caller takes the result.
Return(w) ==
    /\ pc[w] = "returned"
    /\ pc' = [pc EXCEPT ![w] = "idle"]
    /\ call' = [call EXCEPT ![w] = None]
    /\ result' = [result EXCEPT ![w] = None]
    /\ faulted' = [faulted EXCEPT ![w] = FALSE]
    /\ UNCHANGED <<ncalls, holder, poisoned, cache, pos, bytes, data, faults, inflated>>

\* What a worker does by itself once it has called.
Proceed(w) ==
    \/ Validate(w)
    \/ Lock(w)
    \/ Hit(w)
    \/ OpenEntry(w)
    \/ RefuseEntry(w)
    \/ Decode(w)
    \/ EndOfEntry(w)
    \/ CrcMismatch(w)
    \/ Insert(w)
    \/ Copy(w)
    \/ Return(w)

Next ==
    \E w \in Workers :
        \/ \E c \in Calls : Call(w, c)
        \/ Proceed(w)
        \/ ReadFault(w)
        \/ Panic(w)

Spec == Init /\ [][Next]_vars

\* A worker that is running goes on running (std threads); the mutex is not
\* assumed to be fair, only to be given to somebody who waits.
Fairness == \A w \in Workers : WF_vars(Proceed(w))

LiveSpec == Spec /\ Fairness

(***************************************************************************)
(* Properties.                                                             *)
(***************************************************************************)
\* How many units of n's span the file really holds, and what they decode to.
Held(n) ==
    IF data_start[n] + size[n] <= Len(File) + 1 THEN size[n]
    ELSE IF data_start[n] <= Len(File) THEN Len(File) + 1 - data_start[n] ELSE 0

OnDisk(n) == [i \in 1..Held(n) |-> File[data_start[n] + i - 1]]

\* A file that by_index opens and whose data is what its CRC says.
Sound(n) == n \in Files \ Locked /\ OnDisk(n) = crc32[n]

\* ZipVfs::content: whatever other workers decoded, failed at or panicked in
\* meanwhile, a cached content is the whole content of that very node, and no
\* damaged or refused entry is in the cache.
CacheCoherent ==
    \A n \in Files : cache[n] # None => Sound(n) /\ cache[n] = OnDisk(n)

\* content holds the guard from by_index to the end of read_to_end: a decoder
\* at work is the only user of the shared cursor, which stands exactly behind
\* the bytes this decoder has read.
CursorIsPrivate ==
    \A w \in Workers : pc[w] = "decoding" =>
        /\ holder = w
        /\ pos = data_start[node(w)] + Len(bytes[w])

\* The module comment of vfs.rs: the cache "inflates each entry at most once".
InflatedOnce == \A n \in Files : inflated[n] <= 1

\* A call for a file that is sound fails only if the backing reader failed this
\* very call: no error, panic or poisoning of another call outlives it.
NoFailureOutlives ==
    \A w \in Workers :
        pc[w] = "returned" /\ result[w] = Failed /\ ~Rejected(call[w])
            => ~Sound(node(w)) \/ node(w) \in Fragile \/ faulted[w]

\* An Arc handed out stays what it was: a cached content is never replaced or
\* dropped.
CachedForever ==
    [][\A n \in Files : cache[n] # None => cache'[n] = cache[n]]_vars

\* Every read_at returns to its caller: the guard is dropped on every path out
\* of content, a panic included, so that nobody waits for it for ever.
EveryCallReturns == \A w \in Workers : pc[w] # "idle" ~> pc[w] = "idle"

Part(bs, off, len) == SubSeq(bs, off + 1, IF off + len <= Len(bs) THEN off + len ELSE Len(bs))

ExpectedAnswer(c) ==
    CASE Rejected(c) -> Failed
      [] ~Rejected(c) /\ c.id \notin Files -> <<>>
      [] ~Rejected(c) /\ c.id \in Files ->
            IF Sound(c.id) THEN Part(crc32[c.id], c.off, c.len) ELSE Failed

Promise == INSTANCE PositionedRead
    WITH Expected <- ExpectedAnswer,
         asking <- call, answer <- result

\* ZipVfs::read_at keeps its promise: seen from the callers, each call is
\* answered by itself with the right slice of its node's content, or fails.
KeepsPromise == Promise!Spec

(***************************************************************************)
(* The inductive invariant: what holds of each worker where it stands.     *)
(***************************************************************************)
\* Between the check of its arguments and its return a call is for a file.
ServesFile(w) ==
    pc[w] \in {"locking", "locked", "decoding", "caching", "copying"}
        => ~Rejected(call[w]) /\ node(w) \in Files

InCall(w) == /\ pc[w] = "idle" <=> call[w] = None
             /\ pc[w] = "returned" <=> result[w] # None

Guarded(w) == pc[w] \in {"locked", "decoding", "caching"} => holder = w

\* The cursor stands behind what was read, which is the entry's own data, and
\* nobody else can have cached the node meanwhile.
DecodesItsEntry(w) ==
    pc[w] = "decoding" =>
        /\ node(w) \notin Locked
        /\ cache[node(w)] = None
        /\ pos = data_start[node(w)] + Len(bytes[w])
        /\ Len(bytes[w]) <= size[node(w)]
        /\ bytes[w] # <<>> => pos <= Len(File) + 1
        /\ \A i \in 1..Len(bytes[w]) : bytes[w][i] = File[data_start[node(w)] + i - 1]

CachesItsEntry(w) ==
    pc[w] = "caching" =>
        /\ cache[node(w)] = None
        /\ Sound(node(w))
        /\ bytes[w] = OnDisk(node(w))

CopiesItsEntry(w) ==
    pc[w] = "copying" => Sound(node(w)) /\ data[w] = OnDisk(node(w))

WorkerInv(w) ==
    /\ ServesFile(w)
    /\ InCall(w)
    /\ Guarded(w)
    /\ DecodesItsEntry(w)
    /\ CachesItsEntry(w)
    /\ CopiesItsEntry(w)

\* A decode that counted is in the cache, or about to be put there.
InflatedIsCached ==
    \A n \in Files :
        /\ inflated[n] <= 1
        /\ inflated[n] = 1 =>
              \/ cache[n] # None
              \/ \E w \in Workers : pc[w] = "caching" /\ node(w) = n

IInv ==
    /\ TypeOK
    /\ \A w \in Workers : WorkerInv(w)
    /\ CacheCoherent
    /\ InflatedIsCached
===============================================================================
