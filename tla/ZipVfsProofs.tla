----------------------------- MODULE ZipVfsProofs -----------------------------
(***************************************************************************)
(* Proofs about ZipVfs for every set of workers and of nodes, every file   *)
(* and every bound.                                                        *)
(***************************************************************************)
EXTENDS ZipVfs, SequenceTheorems, TLAPS

\* The data of an entry on disk is a sequence of the length it should have.
LEMMA OnDiskIsSeq ==
    ASSUME NEW n \in Files
    PROVE  OnDisk(n) \in Seq(Nat) /\ Len(OnDisk(n)) = Held(n)
  <1>1. /\ data_start[n] \in Nat /\ data_start[n] >= 1
        /\ size[n] \in Nat
        /\ File \in Seq(Nat) /\ Len(File) \in Nat
    BY VfsAssumption
  <1>2. Held(n) \in Nat
    BY <1>1 DEF Held
  <1>3. \A i \in 1..Held(n) : File[data_start[n] + i - 1] \in Nat
    BY <1>1 DEF Held
  <1> QED
    BY <1>2, <1>3 DEF OnDisk

\* A run of units from the entry's first one on that cannot be extended, by the
\* span's end or the file's, is the entry's data.
LEMMA WholeEntryRead ==
    ASSUME NEW n \in Files, NEW bs \in Seq(Nat),
           Len(bs) <= size[n],
           bs # <<>> => data_start[n] + Len(bs) <= Len(File) + 1,
           \A i \in 1..Len(bs) : bs[i] = File[data_start[n] + i - 1],
           ~(Len(bs) < size[n] /\ data_start[n] + Len(bs) <= Len(File))
    PROVE  bs = OnDisk(n)
  <1>1. /\ data_start[n] \in Nat /\ data_start[n] >= 1
        /\ size[n] \in Nat
        /\ Len(File) \in Nat /\ Len(bs) \in Nat
    BY VfsAssumption
  <1>2. bs = <<>> <=> Len(bs) = 0
    BY EmptySeq
  <1>3. Len(bs) = Held(n)
    BY <1>1, <1>2 DEF Held
  <1>4. /\ OnDisk(n) \in Seq(Nat)
        /\ Len(OnDisk(n)) = Len(bs)
        /\ \A i \in 1..Len(bs) : OnDisk(n)[i] = bs[i]
    BY <1>3, OnDiskIsSeq DEF OnDisk
  <1> QED
    BY <1>4, SeqEqual

\* IInv holds of a ZipVfs that has just been built.
THEOREM InitIInv == Init => IInv
  <1> SUFFICES ASSUME Init PROVE IInv
    OBVIOUS
  <1> USE VfsAssumption DEF Init
  <1>1. TypeOK
    <2>1. <<>> \in Seq(Nat) /\ pos \in Nat \ {0}
      BY DEF Cursor
    <2>2. /\ pc \in [Workers -> PCs]
          /\ holder \in Workers \union {None}
          /\ poisoned \in BOOLEAN
          /\ faulted \in [Workers -> BOOLEAN]
      BY DEF PCs
    <2>3. /\ call \in [Workers -> Calls \union {None}]
          /\ ncalls \in [Workers -> 0..MaxCalls]
          /\ cache \in [Files -> Seq(Nat) \union {None}]
          /\ data \in [Workers -> Seq(Nat) \union {None}]
          /\ result \in [Workers -> Seq(Nat) \union {None, Failed}]
          /\ faults \in 0..MaxFaults
          /\ inflated \in [Files -> Nat]
      OBVIOUS
    <2>4. bytes \in [Workers -> Seq(Nat)]
      BY <2>1
    <2> QED
      BY <2>1, <2>2, <2>3, <2>4 DEF TypeOK
  <1>2. \A w \in Workers : WorkerInv(w)
    BY DEF WorkerInv, ServesFile, InCall, Guarded, DecodesItsEntry, CachesItsEntry,
           CopiesItsEntry
  <1>3. CacheCoherent
    BY DEF CacheCoherent
  <1>4. InflatedIsCached
    BY DEF InflatedIsCached
  <1> QED
    BY <1>1, <1>2, <1>3, <1>4 DEF IInv

\* What the tail of read_at copies is the part of the content asked for.
LEMMA SliceIsPart ==
    ASSUME NEW bs \in Seq(Nat), NEW off \in Nat, NEW len \in Nat
    PROVE  /\ Slice(bs, off, len) = Part(bs, off, len)
           /\ Part(bs, off, len) \in Seq(Nat)
  <1>1. Len(bs) \in Nat
    OBVIOUS
  <1>2. CASE off >= Len(bs)
    <2>1. Part(bs, off, len) = <<>>
      BY <1>1, <1>2, SubSeqEmpty DEF Part
    <2> QED
      BY <1>2, <2>1 DEF Slice
  <1>3. CASE ~(off >= Len(bs)) /\ off + len <= Len(bs)
    BY <1>1, <1>3 DEF Slice, Part
  <1>4. CASE ~(off >= Len(bs)) /\ ~(off + len <= Len(bs))
    BY <1>1, <1>4 DEF Slice, Part
  <1> QED
    BY <1>1, <1>2, <1>3, <1>4

\* What read_at copies out is a sequence of bytes.
LEMMA SliceIsSeq ==
    \A bs \in Seq(Nat), off \in Nat, len \in Nat : Slice(bs, off, len) \in Seq(Nat)
  <1> TAKE bs \in Seq(Nat), off \in Nat, len \in Nat
  <1>1. /\ Slice(bs, off, len) = Part(bs, off, len)
        /\ Part(bs, off, len) \in Seq(Nat)
    BY SliceIsPart
  <1> QED
    BY <1>1, Zenon

\* A worker that is not idle holds the arguments of a call.
LEMMA CallInProgress ==
    ASSUME IInv, NEW w \in Workers, pc[w] # "idle"
    PROVE  /\ call[w] \in Calls
           /\ call[w].off \in Nat /\ call[w].len \in Nat
           /\ node(w) \in Ids
  <1>1. call[w] \in Calls
    BY DEF IInv, TypeOK, WorkerInv, InCall
  <1> QED
    BY <1>1, VfsAssumption DEF CallRecords, node

\* A worker that copies does so from the whole data of a sound file.
LEMMA CopyHasData ==
    ASSUME IInv, NEW w \in Workers, pc[w] = "copying"
    PROVE  /\ ~Rejected(call[w]) /\ node(w) \in Files
           /\ Sound(node(w))
           /\ data[w] = OnDisk(node(w))
           /\ data[w] \in Seq(Nat)
  <1>1. WorkerInv(w)
    BY DEF IInv
  <1> QED
    BY <1>1, OnDiskIsSeq DEF WorkerInv, ServesFile, CopiesItsEntry

(***************************************************************************)
(* The type invariant is preserved.                                        *)
(***************************************************************************)
LEMMA TypeStep ==
    ASSUME IInv, Next
    PROVE  TypeOK'
  <1> USE VfsAssumption DEF PCs
  <1>1. TypeOK /\ \A w \in Workers : ServesFile(w)
    BY DEF IInv, WorkerInv
  <1>2. PICK w \in Workers :
            \/ \E c \in Calls : Call(w, c)
            \/ Proceed(w)
            \/ ReadFault(w)
            \/ Panic(w)
    BY DEF Next
  <1>3. ASSUME NEW c \in Calls, Call(w, c) PROVE TypeOK'
    BY <1>1, <1>3 DEF TypeOK, Call, node, ServesFile
  <1>4. CASE Validate(w)
    <2>1. EarlyAnswer(call[w]) \in Seq(Nat) \union {None, Failed}
      BY DEF EarlyAnswer
    <2>2. result' \in [Workers -> Seq(Nat) \union {None, Failed}]
      BY <1>1, <1>4, <2>1 DEF TypeOK, Validate
    <2> QED
      BY <1>1, <1>4, <2>2 DEF TypeOK, Validate
  <1>5. CASE Lock(w)
    BY <1>1, <1>5 DEF TypeOK, Lock, lock, node, ServesFile
  <1>6. CASE Hit(w)
    BY <1>1, <1>6 DEF TypeOK, Hit, unlock, node, ServesFile
  <1>7. CASE OpenEntry(w)
    BY <1>1, <1>7 DEF TypeOK, OpenEntry, SeekToData, Cached, node, ServesFile
  <1>8. CASE RefuseEntry(w)
    BY <1>1, <1>8 DEF TypeOK, RefuseEntry, Fail, unlock, CacheKept, node, ServesFile
  <1>9. CASE Decode(w)
    <2>1. File[pos] \in Nat
      BY <1>1, <1>9 DEF TypeOK, Decode, MoreToDecode
    <2>2. Append(bytes[w], File[pos]) \in Seq(Nat)
      BY <1>1, <2>1 DEF TypeOK
    <2> QED
      BY <1>1, <1>9, <2>2 DEF TypeOK, Decode
  <1>10. CASE EndOfEntry(w)
    BY <1>1, <1>10 DEF TypeOK, EndOfEntry, node, ServesFile
  <1>11. CASE CrcMismatch(w)
    BY <1>1, <1>11 DEF TypeOK, CrcMismatch, Fail, unlock, CacheKept, node, ServesFile
  <1>12. CASE Insert(w)
    BY <1>1, <1>12 DEF TypeOK, Insert, unlock, node, ServesFile
  <1>13. CASE Copy(w)
    <2>1. data[w] \in Seq(Nat)
      BY <1>13, CopyHasData DEF Copy
    <2>2. call[w].off \in Nat /\ call[w].len \in Nat
      BY <1>13, CallInProgress DEF Copy
    <2> DEFINE part == Slice(data[w], call[w].off, call[w].len)
    <2>3. part \in Seq(Nat)
      BY ONLY <2>1, <2>2, SliceIsSeq
    <2> HIDE DEF part
    <2>4. result' = [result EXCEPT ![w] = part]
      BY <1>13 DEF Copy, part
    <2> QED
      BY <1>1, <1>13, <2>3, <2>4 DEF TypeOK, Copy
  <1>14. CASE Return(w)
    BY <1>1, <1>14 DEF TypeOK, Return, node, ServesFile
  <1>15. CASE ReadFault(w)
    BY <1>1, <1>15 DEF TypeOK, ReadFault, Fail, unlock, CacheKept, Cursor, node, ServesFile
  <1>16. CASE Panic(w)
    BY <1>1, <1>16 DEF TypeOK, Panic, Fail, unlock, CacheKept, node, ServesFile
  <1> QED
    BY <1>2, <1>3, <1>4, <1>5, <1>6, <1>7, <1>8, <1>9, <1>10, <1>11, <1>12, <1>13, <1>14, <1>15, <1>16 DEF Proceed

(***************************************************************************)
(* What holds of each worker is preserved.  A step of one worker leaves    *)
(* another alone unless it moves the guard, the cursor or the cache, which *)
(* only the holder of the guard does.                                      *)
(***************************************************************************)
Holding == {"locked", "decoding", "caching"}

SameWorker(v) ==
    /\ pc'[v] = pc[v] /\ call'[v] = call[v] /\ result'[v] = result[v]
    /\ data'[v] = data[v] /\ bytes'[v] = bytes[v]

\* A worker's step leaves the others alone; what the lock guards it changes only
\* when no other worker holds the lock.
LEMMA OthersAlone ==
    ASSUME IInv, Next, NEW w \in Workers, NEW v \in Workers, v # w,
           \/ \E c \in Calls : Call(w, c)
           \/ Proceed(w)
           \/ ReadFault(w)
           \/ Panic(w)
    PROVE  /\ SameWorker(v)
           /\ pc[v] \in Holding => holder' = holder /\ pos' = pos /\ cache' = cache
  <1>1. TypeOK /\ Guarded(v) /\ Guarded(w)
    BY DEF IInv, WorkerInv
  <1>2. SameWorker(v)
    BY <1>1 DEF TypeOK, SameWorker, Call, Proceed, Validate, Lock, Hit, OpenEntry, RefuseEntry,
         Decode, EndOfEntry, CrcMismatch, Insert, Copy, Return, ReadFault, Panic, Fail
  <1>3. ASSUME pc[v] \in Holding
        PROVE  holder' = holder /\ pos' = pos /\ cache' = cache
    <2>1. holder = v /\ pc[w] \notin Holding /\ holder # None
      BY <1>1, <1>3, VfsAssumption DEF Guarded, Holding
    <2> QED
      BY <2>1 DEF Holding, Call, Proceed, Validate, Lock, lock, Hit, OpenEntry, RefuseEntry,
         Decode, EndOfEntry, CrcMismatch, Insert, Copy, Return, ReadFault, Panic
  <1> QED
    BY <1>2, <1>3

\* A worker that is left alone keeps its part of IInv.
LEMMA OthersStep ==
    ASSUME IInv, NEW v \in Workers, SameWorker(v),
           pc[v] \in Holding => holder' = holder /\ pos' = pos /\ cache' = cache
    PROVE  WorkerInv(v)'
  <1>1. WorkerInv(v)
    BY DEF IInv
  <1>2. ServesFile(v)' /\ InCall(v)' /\ Guarded(v)' /\ CopiesItsEntry(v)'
    BY <1>1 DEF WorkerInv, ServesFile, InCall, Guarded, CopiesItsEntry, SameWorker, Holding,
                Rejected, node, Sound, OnDisk, Held
  <1>3. DecodesItsEntry(v)'
    BY <1>1 DEF WorkerInv, DecodesItsEntry, SameWorker, Holding, node
  <1>4. CachesItsEntry(v)'
    BY <1>1 DEF WorkerInv, CachesItsEntry, SameWorker, Holding, node, Sound, OnDisk, Held
  <1> QED
    BY <1>2, <1>3, <1>4 DEF WorkerInv

\* The worker that takes the step.
LEMMA OwnStep ==
    ASSUME IInv, TypeOK', NEW w \in Workers,
           \/ \E c \in Calls : Call(w, c)
           \/ Proceed(w)
           \/ ReadFault(w)
           \/ Panic(w)
    PROVE  WorkerInv(w)'
  <1> USE VfsAssumption
  <1>1. TypeOK /\ WorkerInv(w) /\ CacheCoherent
    BY DEF IInv
  <1> USE DEF WorkerInv, ServesFile, InCall, Guarded, DecodesItsEntry, CachesItsEntry,
              CopiesItsEntry, node
  <1>2. ASSUME NEW c \in Calls, Call(w, c) PROVE WorkerInv(w)'
    BY <1>1, <1>2 DEF TypeOK, Call
  <1>3. CASE Validate(w)
    <2>1. <<>> \in Seq(Nat) /\ None \notin Seq(Nat) /\ Failed # None
      OBVIOUS
    <2>2. EarlyAnswer(call[w]) # None
      BY ONLY <2>1 DEF EarlyAnswer
    <2> QED
      BY <1>1, <1>3, <2>2 DEF TypeOK, Validate, Rejected
  <1>4. CASE Lock(w)
    BY <1>1, <1>4 DEF TypeOK, Lock, lock, Rejected
  <1>5. CASE Hit(w)
    <2> DEFINE n == node(w)
    <2>1. n \in Files /\ Sound(n) /\ cache[n] = OnDisk(n)
      BY <1>1, <1>5 DEF Hit, Cached, CacheCoherent
    <2>2. n' = n /\ Sound(n)' /\ OnDisk(n)' = OnDisk(n)
      BY <1>5, <2>1 DEF Hit, Sound, OnDisk, Held
    <2> QED
      BY <1>1, <1>5, <2>1, <2>2 DEF TypeOK, Hit, Rejected
  <1>6. CASE OpenEntry(w)
    <2>1. /\ pc'[w] = "decoding" /\ bytes'[w] = <<>> /\ Len(bytes'[w]) = 0
          /\ pos' = data_start[node(w)] /\ cache'[node(w)] = None /\ node(w) \notin Locked
          /\ node(w) \in Files /\ ~Rejected(call[w]) /\ holder' = w
          /\ UNCHANGED <<call, result>>
      BY <1>1, <1>6 DEF TypeOK, OpenEntry, Cached, SeekToData
    <2>2. data_start[node(w)] \in Nat /\ size[node(w)] \in Nat
      BY <2>1
    <2> QED
      BY <1>1, <1>6, <2>1, <2>2 DEF OpenEntry, Rejected
  <1>7. CASE RefuseEntry(w)
    BY <1>1, <1>7 DEF TypeOK, RefuseEntry, Fail
  <1>8. CASE Decode(w)
    <2> DEFINE n == node(w)
    <2>1. /\ bytes[w] \in Seq(Nat) /\ Len(bytes[w]) \in Nat
          /\ data_start[n] \in Nat \ {0} /\ size[n] \in Nat
          /\ pos = data_start[n] + Len(bytes[w]) /\ pos <= Len(File)
          /\ Len(bytes[w]) < size[n]
          /\ Len(File) \in Nat /\ pos \in Nat \ {0}
      <3>1. n \in Files /\ pc[w] = "decoding"
        BY <1>1, <1>8 DEF Decode
      <3>2. bytes[w] \in Seq(Nat) /\ pos \in Nat \ {0}
        BY <1>1 DEF TypeOK
      <3>3. pos = data_start[n] + Len(bytes[w])
        BY <1>1, <3>1
      <3>4. Len(bytes[w]) < size[n] /\ pos <= Len(File)
        BY <1>8 DEF Decode, MoreToDecode
      <3> QED
        BY ONLY <3>1, <3>2, <3>3, <3>4, VfsAssumption
    <2>2. File[pos] \in Nat
      BY ONLY <2>1, VfsAssumption
    <2>3. \A i \in 1..Len(bytes[w]) : bytes[w][i] = File[data_start[n] + i - 1]
      BY <1>1, <1>8 DEF Decode
    <2>4. /\ bytes'[w] = Append(bytes[w], File[pos])
          /\ pos' = pos + 1
          /\ UNCHANGED <<pc, call, holder, cache, result, data>>
          /\ pc[w] = "decoding"
      BY <1>1, <1>8 DEF TypeOK, Decode
    <2>5. /\ Len(bytes'[w]) = Len(bytes[w]) + 1
          /\ \A i \in 1..Len(bytes[w]) : bytes'[w][i] = bytes[w][i]
          /\ bytes'[w][Len(bytes[w]) + 1] = File[pos]
      BY ONLY <2>1, <2>4, <2>2
    <2>6. \A i \in 1..Len(bytes'[w]) : bytes'[w][i] = File[data_start[n] + i - 1]
      <3> SUFFICES ASSUME NEW i \in 1..Len(bytes'[w])
                   PROVE  bytes'[w][i] = File[data_start[n] + i - 1]
        OBVIOUS
      <3>1. CASE i \in 1..Len(bytes[w])
        BY ONLY <2>5, <2>3, <3>1
      <3>2. CASE i = Len(bytes[w]) + 1
        <4>1. data_start[n] + i - 1 = pos
          BY ONLY <2>1, <3>2
        <4> QED
          BY ONLY <2>5, <3>2, <4>1
      <3> QED
        BY ONLY <2>1, <2>5, <3>1, <3>2
    <2>7. /\ node(w)' = n /\ cache'[n] = None /\ n \notin Locked
          /\ pos' = data_start[n] + Len(bytes'[w])
          /\ Len(bytes'[w]) <= size[n]
          /\ pos' <= Len(File) + 1
      <3>1. cache[n] = None /\ n \notin Locked
        BY <1>1, <2>4
      <3> QED
        BY ONLY <2>1, <2>4, <2>5, <3>1
    <2>8. DecodesItsEntry(w)'
      <3>1. call' = call
        BY <2>4
      <3> QED
        BY ONLY <2>6, <2>7, <3>1, Zenon DEF DecodesItsEntry, node
    <2> QED
      BY <1>1, <2>4, <2>8 DEF Rejected
  <1>9. CASE EndOfEntry(w)
    <2> DEFINE n == node(w)
    <2>1. /\ n \in Files /\ bytes[w] \in Seq(Nat) /\ n \notin Locked
          /\ Len(bytes[w]) <= size[n]
          /\ bytes[w] # <<>> => data_start[n] + Len(bytes[w]) <= Len(File) + 1
          /\ \A i \in 1..Len(bytes[w]) : bytes[w][i] = File[data_start[n] + i - 1]
          /\ ~(Len(bytes[w]) < size[n] /\ data_start[n] + Len(bytes[w]) <= Len(File))
      BY <1>1, <1>9 DEF TypeOK, EndOfEntry, MoreToDecode
    <2>2. bytes[w] = OnDisk(n)
      BY <2>1, WholeEntryRead
    <2>3. Sound(n)
      BY <1>9, <2>1, <2>2 DEF EndOfEntry, CrcMatches, Sound
    <2>4. n' = n /\ Sound(n)' /\ OnDisk(n)' = OnDisk(n)
      BY <1>9, <2>3 DEF EndOfEntry, Sound, OnDisk, Held
    <2> QED
      BY <1>1, <1>9, <2>2, <2>4 DEF TypeOK, EndOfEntry, Rejected
  <1>10. CASE CrcMismatch(w)
    BY <1>1, <1>10 DEF TypeOK, CrcMismatch, Fail
  <1>11. CASE Insert(w)
    BY <1>1, <1>11 DEF TypeOK, Insert, Rejected, Sound, OnDisk, Held
  <1>12. CASE Copy(w)
    <2> DEFINE part == Slice(data[w], call[w].off, call[w].len)
    <2>1. data[w] \in Seq(Nat)
      BY <1>12, CopyHasData DEF Copy
    <2>2. call[w].off \in Nat /\ call[w].len \in Nat
      BY <1>12, CallInProgress DEF Copy
    <2>3. part \in Seq(Nat)
      BY ONLY <2>1, <2>2, SliceIsSeq
    <2> HIDE DEF part
    <2>4. part # None
      BY <2>3
    <2>5. result' = [result EXCEPT ![w] = part]
      BY <1>12 DEF Copy, part
    <2> QED
      BY <1>1, <1>12, <2>4, <2>5 DEF TypeOK, Copy
  <1>13. CASE Return(w)
    BY <1>1, <1>13 DEF TypeOK, Return
  <1>14. CASE ReadFault(w)
    BY <1>1, <1>14 DEF TypeOK, ReadFault, Fail
  <1>15. CASE Panic(w)
    BY <1>1, <1>15 DEF TypeOK, Panic, Fail
  <1> QED
    BY <1>2, <1>3, <1>4, <1>5, <1>6, <1>7, <1>8, <1>9, <1>10, <1>11, <1>12, <1>13, <1>14, <1>15
    DEF Proceed

\* The cache changes only when content inserts, and then by the node's own data.
LEMMA CacheStep ==
    ASSUME IInv, NEW w \in Workers,
           \/ \E c \in Calls : Call(w, c)
           \/ Proceed(w)
           \/ ReadFault(w)
           \/ Panic(w)
    PROVE  \/ cache' = cache
           \/ /\ pc[w] = "caching" /\ node(w) \in Files
              /\ cache[node(w)] = None /\ Sound(node(w))
              /\ cache' = [cache EXCEPT ![node(w)] = OnDisk(node(w))]
  <1>1. TypeOK /\ ServesFile(w) /\ CachesItsEntry(w)
    BY DEF IInv, WorkerInv
  <1>2. CASE Insert(w)
    BY <1>1, <1>2 DEF Insert, ServesFile, CachesItsEntry
  <1>3. CASE ~Insert(w)
    BY <1>3 DEF Call, Proceed, Validate, Lock, Hit, OpenEntry, RefuseEntry, Decode, EndOfEntry,
         CrcMismatch, Copy, Return, ReadFault, Panic, Fail, CacheKept
  <1> QED
    BY <1>2, <1>3

\* Every step keeps the cache equal to the entries it was filled from.
LEMMA CacheCoherentStep ==
    ASSUME IInv, Next
    PROVE  CacheCoherent'
  <1>1. PICK w \in Workers :
            \/ \E c \in Calls : Call(w, c)
            \/ Proceed(w)
            \/ ReadFault(w)
            \/ Panic(w)
    BY DEF Next
  <1>2. TypeOK /\ CacheCoherent
    BY DEF IInv
  <1> SUFFICES ASSUME NEW n \in Files, cache'[n] # None
               PROVE  Sound(n)' /\ cache'[n] = OnDisk(n)'
    BY DEF CacheCoherent
  <1>3. Sound(n)' = Sound(n) /\ OnDisk(n)' = OnDisk(n)
    BY DEF Sound, OnDisk, Held
  <1>4. CASE cache' = cache
    BY <1>2, <1>3, <1>4 DEF CacheCoherent
  <1>5. CASE /\ Sound(node(w)) /\ node(w) \in Files
             /\ cache' = [cache EXCEPT ![node(w)] = OnDisk(node(w))]
    <2>1. CASE n = node(w)
      BY <1>2, <1>3, <1>5, <2>1 DEF TypeOK
    <2>2. CASE n # node(w)
      BY <1>2, <1>3, <1>5, <2>2 DEF TypeOK, CacheCoherent
    <2> QED
      BY <2>1, <2>2
  <1> QED
    BY <1>1, <1>4, <1>5, CacheStep

\* Only EndOfEntry counts a decode; it finds the node neither cached nor being
\* cached, since both would need the guard its worker holds.
LEMMA InflatedStep ==
    ASSUME IInv, Next
    PROVE  InflatedIsCached'
  <1> USE VfsAssumption
  <1>1. PICK w \in Workers :
            \/ \E c \in Calls : Call(w, c)
            \/ Proceed(w)
            \/ ReadFault(w)
            \/ Panic(w)
    BY DEF Next
  <1>2. TypeOK /\ InflatedIsCached /\ WorkerInv(w)
    BY DEF IInv
  <1>3. CASE EndOfEntry(w)
    <2> DEFINE n == node(w)
    <2>1. n \in Files /\ cache[n] = None /\ pc[w] = "decoding" /\ holder = w
      BY <1>2, <1>3 DEF EndOfEntry, WorkerInv, ServesFile, DecodesItsEntry, Guarded
    <2>2. ~ \E v \in Workers : pc[v] = "caching" /\ node(v) = n
      BY <2>1 DEF IInv, WorkerInv, Guarded
    <2>3. inflated[n] = 0
      BY <1>2, <2>1, <2>2 DEF InflatedIsCached, TypeOK
    <2>4. pc'[w] = "caching" /\ node(w)' = n /\ inflated'[n] = 1
      BY <1>2, <1>3, <2>1, <2>3 DEF EndOfEntry, TypeOK, node
    <2>5. ASSUME NEW m \in Files, m # n
          PROVE  inflated'[m] = inflated[m] /\ cache'[m] = cache[m]
      BY <1>2, <1>3, <2>1, <2>5 DEF EndOfEntry, TypeOK
    <2>6. ASSUME NEW v \in Workers, pc[v] = "caching"
          PROVE  pc'[v] = "caching" /\ node(v)' = node(v)
      BY <1>2, <1>3, <2>1, <2>6 DEF EndOfEntry, TypeOK, node
    <2>7. ASSUME NEW m \in Files
          PROVE  /\ inflated'[m] <= 1
                 /\ inflated'[m] = 1 =>
                       \/ cache'[m] # None
                       \/ \E v \in Workers : pc'[v] = "caching" /\ node(v)' = m
      <3>1. CASE m = n
        BY <2>4, <3>1
      <3>2. CASE m # n
        BY <1>2, <2>5, <2>6, <3>2 DEF InflatedIsCached
      <3> QED
        BY <3>1, <3>2
    <2> QED
      BY <2>7 DEF InflatedIsCached
  <1>4. CASE Insert(w)
    <2> DEFINE n == node(w)
    <2>1. n \in Files /\ inflated' = inflated /\ pc[w] = "caching" /\ holder = w
      BY <1>2, <1>4 DEF Insert, WorkerInv, ServesFile, Guarded
    <2>2. cache'[n] # None
      BY <1>2, <1>4, <2>1 DEF Insert, TypeOK
    <2>3. ASSUME NEW m \in Files, m # n
          PROVE  cache'[m] = cache[m] /\ ~ \E v \in Workers : pc[v] = "caching" /\ node(v) = m
      BY <1>2, <1>4, <2>1, <2>3 DEF Insert, TypeOK, IInv, WorkerInv, Guarded
    <2> QED
      BY <1>2, <2>1, <2>2, <2>3 DEF InflatedIsCached
  <1>5. CASE ~EndOfEntry(w) /\ ~Insert(w)
    <2>1. inflated' = inflated /\ cache' = cache
      BY <1>1, <1>5 DEF Call, Proceed, Validate, Lock, Hit, OpenEntry, RefuseEntry, Decode,
           CrcMismatch, Copy, Return, ReadFault, Panic, Fail, CacheKept
    <2>2. ASSUME NEW v \in Workers, pc[v] = "caching"
          PROVE  pc'[v] = "caching" /\ node(v)' = node(v)
      BY <1>1, <1>2, <1>5, <2>2 DEF TypeOK, node, Call, Proceed, Validate, Lock, Hit, OpenEntry,
           RefuseEntry, Decode, CrcMismatch, Copy, Return, ReadFault, Panic, Fail
    <2> QED
      BY <1>2, <2>1, <2>2 DEF InflatedIsCached
  <1> QED
    BY <1>3, <1>4, <1>5

(***************************************************************************)
(* The theorems.                                                           *)
(***************************************************************************)
\* The state of ZipVfs and of its callers after any steps of any workers is as
\* the inductive invariant says.
THEOREM Invariance == Spec => []IInv
  <1>1. IInv /\ [Next]_vars => IInv'
    <2> SUFFICES ASSUME IInv, [Next]_vars PROVE IInv'
      OBVIOUS
    <2>1. CASE Next
      <3>1. TypeOK' /\ CacheCoherent' /\ InflatedIsCached'
        BY <2>1, TypeStep, CacheCoherentStep, InflatedStep
      <3>2. ASSUME NEW v \in Workers PROVE WorkerInv(v)'
        <4>1. PICK w \in Workers :
                  \/ \E c \in Calls : Call(w, c)
                  \/ Proceed(w)
                  \/ ReadFault(w)
                  \/ Panic(w)
          BY <2>1 DEF Next
        <4>2. CASE v = w
          BY <3>1, <4>1, <4>2, OwnStep
        <4>3. CASE v # w
          BY <2>1, <4>1, <4>3, OthersAlone, OthersStep
        <4> QED
          BY <4>2, <4>3
      <3> QED
        BY <3>1, <3>2 DEF IInv
    <2>2. CASE UNCHANGED vars
      BY <2>2 DEF vars, IInv, TypeOK, WorkerInv, ServesFile, InCall, Guarded, DecodesItsEntry,
           CachesItsEntry, CopiesItsEntry, CacheCoherent, InflatedIsCached, Rejected, node, Sound,
           OnDisk, Held
    <2> QED
      BY <2>1, <2>2
  <1> QED
    BY <1>1, InitIInv, PTL DEF Spec

\* vfs.rs content: for every number of workers, file and schedule, a cached
\* content is the whole and undamaged content of its node.
THEOREM CacheIsCoherent == Spec => []CacheCoherent
  <1>1. IInv => CacheCoherent
    BY DEF IInv
  <1> QED
    BY <1>1, Invariance, PTL

\* vfs.rs content: nobody moves the reader's cursor under a decoder at work.
THEOREM CursorStaysPrivate == Spec => []CursorIsPrivate
  <1>1. IInv => CursorIsPrivate
    BY DEF IInv, WorkerInv, Guarded, DecodesItsEntry, CursorIsPrivate
  <1> QED
    BY <1>1, Invariance, PTL

\* vfs.rs module comment: each entry is inflated at most once.
THEOREM InflatesOnce == Spec => []InflatedOnce
  <1>1. IInv => InflatedOnce
    BY DEF IInv, InflatedIsCached, InflatedOnce
  <1> QED
    BY <1>1, Invariance, PTL

\* vfs.rs content: an Arc in the cache is never replaced or dropped, on no path.
THEOREM CacheOnlyGrows == Spec => CachedForever
  <1>1. IInv /\ [Next]_vars => [\A n \in Files : cache[n] # None => cache'[n] = cache[n]]_vars
    <2> SUFFICES ASSUME IInv, Next, NEW n \in Files, cache[n] # None
                 PROVE  cache'[n] = cache[n]
      BY DEF vars
    <2>1. TypeOK
      BY DEF IInv
    <2>2. \/ cache' = cache
          \/ \E w \in Workers :
                /\ node(w) \in Files /\ cache[node(w)] = None
                /\ cache' = [cache EXCEPT ![node(w)] = OnDisk(node(w))]
      BY CacheStep DEF Next
    <2> QED
      BY <2>1, <2>2 DEF TypeOK
  <1> QED
    BY <1>1, Invariance, PTL DEF Spec, CachedForever

\* The fields of ZipVfs and the calls in progress keep their types.
THEOREM TypeCorrect == Spec => []TypeOK
  <1>1. IInv => TypeOK
    BY DEF IInv
  <1> QED
    BY <1>1, Invariance, PTL

\* vfs.rs lock, content: an error, panic or poisoning ends with the call that met
\* it; every other call for a sound file is served.
THEOREM FailuresEndWithTheirCall == Spec => []NoFailureOutlives
  <1> USE VfsAssumption
  <1>1. Init => NoFailureOutlives
    BY DEF Init, NoFailureOutlives
  <1>2. IInv /\ NoFailureOutlives /\ [Next]_vars => NoFailureOutlives'
    <2> SUFFICES ASSUME IInv, NoFailureOutlives, [Next]_vars, NEW v \in Workers,
                        pc'[v] = "returned", result'[v] = Failed, ~Rejected(call'[v])
                 PROVE  ~Sound(node(v))' \/ node(v)' \in Fragile \/ faulted'[v]
      BY DEF NoFailureOutlives, Rejected
    <2>1. TypeOK /\ WorkerInv(v)
      BY DEF IInv
    <2>2. CASE pc'[v] = pc[v] /\ call'[v] = call[v] /\ result'[v] = result[v]
                 /\ faulted'[v] = faulted[v]
      BY <2>2 DEF NoFailureOutlives, node, Sound, OnDisk, Held
    <2>3. ASSUME NEW w \in Workers, w # v,
                 \/ \E c \in Calls : Call(w, c)
                 \/ Proceed(w)
                 \/ ReadFault(w)
                 \/ Panic(w)
          PROVE  /\ pc'[v] = pc[v] /\ call'[v] = call[v]
                 /\ result'[v] = result[v] /\ faulted'[v] = faulted[v]
      BY <2>1, <2>3 DEF TypeOK, Call, Proceed, Validate, Lock, Hit, OpenEntry, RefuseEntry,
           Decode, EndOfEntry, CrcMismatch, Insert, Copy, Return, ReadFault, Panic, Fail
    <2>4. CASE Validate(v)
      <3>1. <<>> \in Seq(Nat) /\ Failed \notin Seq(Nat)
        OBVIOUS
      <3>2. Rejected(call[v]) \/ <<>> = Failed
        BY <2>1, <2>4 DEF TypeOK, Validate, EarlyAnswer
      <3> QED
        BY <2>4, <3>1, <3>2 DEF Validate
    <2>5. CASE Copy(v)
      <3> DEFINE part == Slice(data[v], call[v].off, call[v].len)
      <3>1. data[v] \in Seq(Nat) /\ call[v].off \in Nat /\ call[v].len \in Nat
        BY <2>5, CopyHasData, CallInProgress DEF Copy
      <3>2. part \in Seq(Nat)
        BY ONLY <3>1, SliceIsSeq
      <3>3. result'[v] = part
        BY <2>1, <2>5 DEF TypeOK, Copy
      <3> QED
        BY <3>2, <3>3
    <2>6. CASE CrcMismatch(v)
      <3> DEFINE n == node(v)
      <3>1. /\ n \in Files /\ bytes[v] \in Seq(Nat)
            /\ Len(bytes[v]) <= size[n]
            /\ bytes[v] # <<>> => data_start[n] + Len(bytes[v]) <= Len(File) + 1
            /\ \A i \in 1..Len(bytes[v]) : bytes[v][i] = File[data_start[n] + i - 1]
            /\ ~(Len(bytes[v]) < size[n] /\ data_start[n] + Len(bytes[v]) <= Len(File))
        BY <2>1, <2>6 DEF TypeOK, CrcMismatch, MoreToDecode, WorkerInv, ServesFile,
             DecodesItsEntry
      <3>2. bytes[v] = OnDisk(n)
        BY <3>1, WholeEntryRead
      <3>3. ~Sound(n)
        BY <2>6, <3>2 DEF CrcMismatch, CrcMatches, Sound
      <3> QED
        BY <2>6, <3>3 DEF CrcMismatch, Fail, node, Sound, OnDisk, Held
    <2>7. CASE RefuseEntry(v)
      BY <2>7 DEF RefuseEntry, Fail, node, Sound
    <2>8. CASE Panic(v)
      BY <2>8 DEF Panic, Fail, node
    <2>9. CASE ReadFault(v)
      BY <2>1, <2>9 DEF TypeOK, ReadFault
    <2>10. CASE \/ \E c \in Calls : Call(v, c)
                \/ Lock(v) \/ Hit(v) \/ OpenEntry(v) \/ Decode(v) \/ EndOfEntry(v)
                \/ Insert(v) \/ Return(v)
      BY <2>1, <2>10 DEF TypeOK, Call, Lock, Hit, OpenEntry, Decode, EndOfEntry, Insert, Return
    <2>11. CASE UNCHANGED vars
      BY <2>2, <2>11 DEF vars
    <2> QED
      BY <2>2, <2>3, <2>4, <2>5, <2>6, <2>7, <2>8, <2>9, <2>10, <2>11 DEF Next, Proceed
  <1> QED
    BY <1>1, <1>2, Invariance, PTL DEF Spec

(***************************************************************************)
(* The refinement.                                                         *)
(***************************************************************************)
\* What the checks before content() answer, and what the copy at the end does,
\* is what the promise expects.
LEMMA EarlyAnswerExpected ==
    ASSUME NEW c \in Calls, Rejected(c) \/ c.id \notin Files
    PROVE  EarlyAnswer(c) = ExpectedAnswer(c)
  <1>1. CASE Rejected(c)
    BY <1>1 DEF EarlyAnswer, ExpectedAnswer
  <1>2. CASE ~Rejected(c)
    BY <1>2 DEF EarlyAnswer, ExpectedAnswer
  <1> QED
    BY <1>1, <1>2

\* The copy a worker is about to return is the answer its call should have.
LEMMA CopyExpected ==
    ASSUME IInv, NEW w \in Workers, pc[w] = "copying"
    PROVE  Slice(data[w], call[w].off, call[w].len) = ExpectedAnswer(call[w])
  <1>1. /\ ~Rejected(call[w]) /\ call[w].id \in Files
        /\ Sound(call[w].id)
        /\ data[w] = OnDisk(call[w].id)
        /\ data[w] \in Seq(Nat)
    BY CopyHasData DEF node
  <1>2. call[w].off \in Nat /\ call[w].len \in Nat
    BY CallInProgress
  <1>3. data[w] = crc32[call[w].id]
    BY <1>1 DEF Sound
  <1>4. Slice(data[w], call[w].off, call[w].len) = Part(data[w], call[w].off, call[w].len)
    BY ONLY <1>1, <1>2, SliceIsPart
  <1>5. ExpectedAnswer(call[w]) = Part(crc32[call[w].id], call[w].off, call[w].len)
    BY <1>1 DEF ExpectedAnswer
  <1> QED
    BY <1>3, <1>4, <1>5

\* FileSystem::read_at of ZipVfs implements the abstract positioned read: with
\* any number of workers, every call is answered on its own with its slice of
\* its node's content, or fails.
THEOREM Refinement == Spec => KeepsPromise
  <1>1. Init => Promise!Init
    BY DEF Init, Promise!Init
  <1>2. IInv /\ [Next]_vars => [Promise!Next]_<<call, result>>
    <2> SUFFICES ASSUME IInv, Next PROVE Promise!Next \/ UNCHANGED <<call, result>>
      BY DEF vars
    <2>1. PICK w \in Workers :
              \/ \E c \in Calls : Call(w, c)
              \/ Proceed(w)
              \/ ReadFault(w)
              \/ Panic(w)
      BY DEF Next
    <2>2. TypeOK /\ InCall(w)
      BY DEF IInv, WorkerInv
    <2>3. ASSUME NEW c \in Calls, Call(w, c) PROVE Promise!Ask(w, c)
      BY <2>2, <2>3 DEF Call, InCall, Promise!Ask
    <2>4. ASSUME pc[w] # "idle", pc[w] # "returned", call' = call,
                 \/ result' = [result EXCEPT ![w] = Failed]
                 \/ result' = [result EXCEPT ![w] = ExpectedAnswer(call[w])]
          PROVE  Promise!Answer(w)
      BY <2>2, <2>4 DEF InCall, Promise!Answer
    <2>5. CASE Validate(w)
      <3>1. pc[w] # "idle" /\ call[w] \in Calls /\ call' = call
        BY <2>5, CallInProgress DEF Validate
      <3>2. CASE Rejected(call[w]) \/ node(w) \notin Files
        <4>1. EarlyAnswer(call[w]) = ExpectedAnswer(call[w])
          BY <3>1, <3>2, EarlyAnswerExpected DEF node
        <4> QED
          BY <2>4, <2>5, <3>1, <3>2, <4>1 DEF Validate, Promise!Next
      <3>3. CASE ~(Rejected(call[w]) \/ node(w) \notin Files)
        BY <2>5, <3>1, <3>3 DEF Validate
      <3> QED
        BY <3>2, <3>3
    <2>6. CASE Copy(w)
      <3>1. Slice(data[w], call[w].off, call[w].len) = ExpectedAnswer(call[w])
        BY <2>6, CopyExpected DEF Copy
      <3> QED
        BY <2>4, <2>6, <3>1 DEF Copy, Promise!Next
    <2>7. CASE RefuseEntry(w) \/ CrcMismatch(w) \/ ReadFault(w) \/ Panic(w)
      BY <2>4, <2>7 DEF RefuseEntry, CrcMismatch, ReadFault, Panic, Fail, Promise!Next
    <2>8. CASE Return(w)
      <3>1. Promise!Return(w)
        BY <2>2, <2>8 DEF Return, InCall, Promise!Return
      <3> QED
        BY <3>1 DEF Promise!Next
    <2>9. CASE Lock(w) \/ Hit(w) \/ OpenEntry(w) \/ Decode(w) \/ EndOfEntry(w) \/ Insert(w)
      BY <2>9 DEF Lock, Hit, OpenEntry, Decode, EndOfEntry, Insert
    <2> QED
      BY <2>1, <2>3, <2>5, <2>6, <2>7, <2>8, <2>9 DEF Proceed, Promise!Next
  <1> QED
    BY <1>1, <1>2, Invariance, PTL DEF Spec, KeepsPromise, Promise!Spec

(***************************************************************************)
(* The calls move on.                                                      *)
(***************************************************************************)
\* A worker is where content holds the guard.
Inside(w) == pc[w] \in {"locked", "decoding", "caching"}

\* Whoever holds the guard is at work on the archive: nobody waits for a worker
\* that has returned, failed or panicked.
GuardIsInside == holder # None => Inside(holder)

\* vfs.rs lock, content: the guard is dropped on every way out of content, for any
\* number of workers, and it is held by the one worker inside and by nobody when
\* no worker is.
THEOREM GuardNeverLeaks == Spec => [](GuardIsInside /\ \A w \in Workers : Inside(w) => holder = w)
  <1> USE VfsAssumption
  <1>1. Init => GuardIsInside
    BY DEF Init, GuardIsInside
  <1>2. IInv /\ GuardIsInside /\ [Next]_vars => GuardIsInside'
    <2> SUFFICES ASSUME IInv, GuardIsInside, Next PROVE GuardIsInside'
      BY DEF vars, GuardIsInside, Inside
    <2>1. PICK w \in Workers :
              \/ \E c \in Calls : Call(w, c)
              \/ Proceed(w)
              \/ ReadFault(w)
              \/ Panic(w)
      BY DEF Next
    <2>2. pc \in [Workers -> PCs] /\ holder \in Workers \union {None}
      BY DEF IInv, TypeOK
    <2>3. CASE Lock(w)
      BY <2>2, <2>3 DEF Lock, lock, GuardIsInside, Inside
    <2>4. CASE Hit(w) \/ Insert(w) \/ RefuseEntry(w) \/ CrcMismatch(w) \/ ReadFault(w) \/ Panic(w)
      BY <2>4 DEF Hit, Insert, RefuseEntry, CrcMismatch, ReadFault, Panic, Fail, unlock,
                  GuardIsInside
    <2>5. ASSUME holder' = holder, pc' = pc \/ \E p \in PCs : pc' = [pc EXCEPT ![w] = p],
                 Inside(w) => pc'[w] \in {"locked", "decoding", "caching"}
          PROVE  GuardIsInside'
      BY <2>2, <2>5 DEF GuardIsInside, Inside
    <2>6. CASE \E c \in Calls : Call(w, c)
      BY <2>2, <2>5, <2>6 DEF Call, Inside, PCs
    <2>7. CASE Validate(w) \/ Copy(w) \/ Return(w)
      BY <2>2, <2>5, <2>7 DEF Validate, Copy, Return, Inside, PCs
    <2>8. CASE OpenEntry(w) \/ EndOfEntry(w)
      BY <2>2, <2>5, <2>8 DEF OpenEntry, EndOfEntry, PCs
    <2>9. CASE Decode(w)
      BY <2>2, <2>5, <2>9 DEF Decode
    <2> QED
      BY <2>1, <2>3, <2>4, <2>6, <2>7, <2>8, <2>9 DEF Proceed
  <1>3. IInv => \A w \in Workers : Inside(w) => holder = w
    BY DEF IInv, WorkerInv, Guarded, Inside
  <1> QED
    BY <1>1, <1>2, <1>3, Invariance, PTL DEF Spec

\* How far a call is.
Place(p) ==
    CASE p = "idle"     -> 0
      [] p = "called"   -> 1
      [] p = "locking"  -> 2
      [] p = "locked"   -> 3
      [] p = "decoding" -> 4
      [] p = "caching"  -> 5
      [] p = "copying"  -> 6
      [] p = "returned" -> 7

\* What a step, of anybody, may do to worker w's call: nothing, take it further,
\* decode one more unit of the entry's span, or hand the result over.
MovesOn(w) ==
    \/ pc'[w] = pc[w] /\ bytes'[w] = bytes[w]
    \/ Place(pc'[w]) > Place(pc[w])
    \/ /\ pc[w] = "decoding" /\ pc'[w] = "decoding" /\ call'[w] = call[w]
       /\ Len(bytes'[w]) = Len(bytes[w]) + 1
       /\ Len(bytes'[w]) <= size[node(w)]
    \/ pc[w] = "returned" /\ pc'[w] = "idle"

\* vfs.rs read_at: no call goes back or round again, whatever the other workers
\* do; the only loop, read_to_end, takes at most the entry's size in turns.
THEOREM CallsMoveOn == Spec => [][\A w \in Workers : MovesOn(w)]_vars
  <1> USE VfsAssumption
  <1>1. IInv /\ [Next]_vars => [\A w \in Workers : MovesOn(w)]_vars
    <2> SUFFICES ASSUME IInv, Next, NEW v \in Workers PROVE MovesOn(v)
      BY DEF vars
    <2>1. PICK w \in Workers :
              \/ \E c \in Calls : Call(w, c)
              \/ Proceed(w)
              \/ ReadFault(w)
              \/ Panic(w)
      BY DEF Next
    <2>2. /\ pc \in [Workers -> PCs] /\ bytes \in [Workers -> Seq(Nat)]
          /\ pos \in Nat \ {0} /\ TypeOK
      BY DEF IInv, TypeOK
    <2>3. CASE v # w
      <3>1. pc'[v] = pc[v] /\ bytes'[v] = bytes[v]
        BY <2>1, <2>2, <2>3 DEF Call, Proceed, Validate, Lock, Hit, OpenEntry, RefuseEntry, Decode,
             EndOfEntry, CrcMismatch, Insert, Copy, Return, ReadFault, Panic, Fail
      <3> QED
        BY <3>1 DEF MovesOn
    <2>4. CASE v = w
      <3>1. CASE Decode(w)
        <4>1. /\ pc[w] = "decoding" /\ pc'[w] = "decoding" /\ call'[w] = call[w]
              /\ Len(bytes[w]) < size[node(w)] /\ pos <= Len(File)
              /\ bytes' = [bytes EXCEPT ![w] = Append(@, File[pos])]
          BY <3>1 DEF Decode, MoreToDecode
        <4>2. node(w) \in Files
          BY <4>1 DEF IInv, WorkerInv, ServesFile
        <4>3. bytes'[w] = Append(bytes[w], File[pos]) /\ bytes[w] \in Seq(Nat)
          BY <2>2, <4>1
        <4>4. Len(bytes'[w]) = Len(bytes[w]) + 1 /\ Len(bytes[w]) \in Nat
          BY <4>3
        <4>5. size[node(w)] \in Nat
          BY <4>2
        <4> QED
          BY <2>4, <4>1, <4>4, <4>5 DEF MovesOn
      <3>2. CASE Return(w)
        BY <2>2, <2>4, <3>2 DEF Return, MovesOn
      <3>3. CASE (\E c \in Calls : Call(w, c)) \/ Validate(w) \/ Lock(w) \/ Copy(w)
        <4>1. Place(pc'[w]) > Place(pc[w])
          BY <2>2, <3>3 DEF Call, Validate, Lock, Copy, Place
        <4> QED
          BY <2>4, <4>1 DEF MovesOn
      <3>4. CASE Hit(w) \/ OpenEntry(w) \/ EndOfEntry(w) \/ Insert(w)
        <4>1. Place(pc'[w]) > Place(pc[w])
          BY <2>2, <3>4 DEF Hit, OpenEntry, EndOfEntry, Insert, Place
        <4> QED
          BY <2>4, <4>1 DEF MovesOn
      <3>5. CASE RefuseEntry(w) \/ CrcMismatch(w) \/ ReadFault(w) \/ Panic(w)
        <4>1. Place(pc'[w]) > Place(pc[w])
          BY <2>2, <3>5 DEF RefuseEntry, CrcMismatch, ReadFault, Panic, Fail, Place
        <4> QED
          BY <2>4, <4>1 DEF MovesOn
      <3> QED
        BY <2>1, <3>1, <3>2, <3>3, <3>4, <3>5 DEF Proceed
    <2> QED
      BY <2>3, <2>4
  <1> QED
    BY <1>1, Invariance, PTL DEF Spec
===============================================================================
