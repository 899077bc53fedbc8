-------------------------- MODULE EntryReaderProofs --------------------------
(***************************************************************************)
(* Proofs about StrongHeader for all headers and about EntryReader for all *)
(* entries, archives and buffer sizes.  The ends of reading are about      *)
(* callers that never pass an empty buffer.                                *)
(***************************************************************************)
EXTENDS EntryReader, Lemmas, TLAPS

\* For every header, whatever numbers are in it: parse_strong_layout and
\* read_strong_header never index behind the buffer.
THEOREM HeaderIndexesInside == \A h \in Headers : IndexesInside(h)
  <1> SUFFICES ASSUME NEW h \in Headers, RemAccepted(h) PROVE IndexesInside(h)
    BY DEF IndexesInside
  <1>1. /\ h.rem_size \in Nat /\ h.rd_size \in Nat /\ h.valid_size \in Nat
        /\ h.alg \in Nat /\ h.rem_size >= 16
    BY DEF Headers, U16, RemAccepted
  <1>2. ErdAccepted(h) => reserved_off(h) + 5 < h.rem_size
    BY <1>1 DEF ErdAccepted, reserved_off, AES_BLOCK
  <1>3. ASSUME parse_strong_layout(h)
        PROVE  /\ key_size(h) \in {16, 24, 32}
               /\ h.rd_size - AES_BLOCK >= 0
               /\ h.valid_size - 4 >= 0
               /\ valid_off(h) + h.valid_size <= h.rem_size
               /\ valid_off(h) <= h.rem_size - AES_BLOCK
    <2>1. key_size(h) \in {16, 24, 32}
      BY <1>1, <1>3 DEF parse_strong_layout, FixedAccepted, key_size, ALG_AES128
    <2>2. h.rd_size >= 16
      BY <1>3 DEF parse_strong_layout, ErdAccepted, AES_BLOCK
    <2>3. h.valid_size >= 4 /\ h.valid_size % 16 = 0 /\ valid_off(h) + h.valid_size = h.rem_size
      BY <1>3 DEF parse_strong_layout, ValidAccepted, AES_BLOCK
    <2>4. h.valid_size >= 16
      BY <1>1, <2>3
    <2> QED
      BY <1>1, <2>1, <2>2, <2>3, <2>4 DEF valid_off, reserved_off, AES_BLOCK
  <1> QED
    BY <1>1, <1>2, <1>3 DEF IndexesInside

(***************************************************************************)
(* What opening settles.  Nothing is said of the layer or the decoder: the *)
(* facts below hold whatever bytes they give.                              *)
(***************************************************************************)
\* The last open got as far as a ZipFile only for an entry it may resolve.
Resolved ==
    /\ check_local_disk(entry, summary)
    /\ entry.encrypted \/ entry.aes # "none" => key # "none" /\ ~entry.masked

OpenInv ==
    /\ entry \in Entries
    /\ st = "open" => Resolved
    /\ st # "open" => delivered = <<>>

\* A method the decoder does not know never gives a ZipFile.
LEMMA BuildResolves ==
    ASSUME NEW k, NEW m, NEW l, NEW vc, Build(k, m, l, vc)
    PROVE  /\ entry' = entry /\ summary' = summary /\ key' = k /\ delivered' = <<>>
           /\ st' = "open" => m # "Other"
  <1>1. PICK d \in NewDecoder(entry, k, m, l) :
          \/ d.ok /\ st' = "open" /\ key' = k /\ Fresh
          \/ ~d.ok /\ Refuse(k)
    BY DEF Build
  <1>2. /\ entry' = entry /\ summary' = summary /\ key' = k /\ delivered' = <<>>
    BY <1>1 DEF Refuse, Fresh
  <1>3. ASSUME st' = "open", m = "Other" PROVE FALSE
    <2>1. d.ok
      BY <1>1, <1>3 DEF Refuse
    <2>2. NewDecoder(entry, k, m, l) = {[ok |-> FALSE, layer |-> l, dec |-> NoDecoder]}
      BY <1>3 DEF NewDecoder, Streaming
    <2> QED
      BY <1>1, <2>1, <2>2
  <1> QED
    BY <1>2, <1>3

\* Refusing an entry leaves no byte delivered.
LEMMA RefuseKeeps ==
    ASSUME NEW k, Refuse(k)
    PROVE  entry' = entry /\ delivered' = <<>> /\ st' = "refused"
  BY DEF Refuse, Fresh

\* ZipArchive::open gives a ZipFile only for an unencrypted entry; an AES one
\* has method 99, which the decoder refuses.
LEMMA OpenResolves == ASSUME OpenInv, Open PROVE OpenInv'
  <1>1. CASE Refuse("none")
    BY <1>1, RefuseKeeps DEF OpenInv
  <1>2. CASE /\ check_local_disk(entry, summary) /\ ~entry.encrypted
             /\ Build("none", entry.method, NewLayer("plain", Available(entry)), TRUE)
    <2>1. /\ entry' = entry /\ summary' = summary /\ delivered' = <<>>
          /\ st' = "open" => entry.method # "Other"
      BY <1>2, BuildResolves
    <2>2. entry.aes # "none" => entry.method = "Other"
      BY EntriesAssumption DEF OpenInv
    <2> QED
      BY <1>2, <2>1, <2>2 DEF OpenInv, Resolved, check_local_disk
  <1> QED
    BY <1>1, <1>2 DEF Open

\* The decrypting open gives a ZipFile only behind the disk and mask tests.
LEMMA OpenDecryptResolves ==
    ASSUME OpenInv, NEW k \in {"right", "wrong"}, OpenDecrypt(k)
    PROVE  OpenInv'
  <1>1. CASE Refuse(k)
    BY <1>1, RefuseKeeps DEF OpenInv
  <1>2. CASE Open
    BY <1>2, OpenResolves
  <1>3. CASE /\ check_local_disk(entry, summary) /\ ~entry.masked
             /\ OpenStrong(k) \/ OpenAes(k) \/ OpenZipCrypto(k)
    <2>1. Refuse(k) \/ \E m, l, vc : Build(k, m, l, vc)
      BY <1>3 DEF OpenStrong, OpenAes, OpenZipCrypto
    <2>2. CASE \E m, l, vc : Build(k, m, l, vc)
      <3>1. entry' = entry /\ summary' = summary /\ key' = k /\ delivered' = <<>>
        BY <2>2, BuildResolves
      <3> QED
        BY <1>3, <3>1 DEF OpenInv, Resolved, check_local_disk
    <2> QED
      BY <1>1, <2>1, <2>2
  <1> QED
    BY <1>1, <1>2, <1>3 DEF OpenDecrypt

\* OpenInv is an invariant: a read changes neither the entry nor the key.
LEMMA OpenInvHolds == Spec => []OpenInv
  <1>1. Init => OpenInv
    BY DEF Init, OpenInv
  <1>2. OpenInv /\ [Next]_vars => OpenInv'
    <2> SUFFICES ASSUME OpenInv, [Next]_vars PROVE OpenInv'
      OBVIOUS
    <2>1. CASE by_index
      BY <2>1, OpenResolves DEF by_index
    <2>2. CASE \E k \in {"right", "wrong"} : by_index_decrypt(k)
      BY <2>2, OpenDecryptResolves DEF by_index_decrypt
    <2>3. CASE \E n \in BufSizes : Read(n)
      <3>1. st = "open" /\ UNCHANGED <<st, entry, summary, key>>
        BY <2>3 DEF Read
      <3> QED
        BY <3>1 DEF OpenInv, Resolved, check_local_disk
    <2>4. CASE Drop
      BY <2>4 DEF Drop, Fresh, OpenInv
    <2>5. CASE UNCHANGED vars
      BY <2>5 DEF vars, OpenInv, Resolved, check_local_disk
    <2> QED
      BY <2>1, <2>2, <2>3, <2>4, <2>5 DEF Next
  <1> QED
    BY <1>1, <1>2, PTL DEF Spec

\* check_local_disk, the flag tests of open and open_decrypt and the refusal of
\* method 99: for all entries and archives, no byte is returned of an entry of a
\* split archive, of an encrypted or AES entry without a password, or of a
\* masked one.
THEOREM NothingUnresolvedIsRead == Spec => []ReadsOnlyWhatItCanResolve
  <1>1. OpenInv => ReadsOnlyWhatItCanResolve
    BY DEF OpenInv, Resolved, check_local_disk, ReadsOnlyWhatItCanResolve
  <1> QED
    BY <1>1, OpenInvHolds, PTL

\* read_strong_header never indexes behind its buffer, whatever entries an
\* archive holds.
THEOREM StrongHeaderIsInside == Spec => []StrongHeaderInside
  <1>1. OpenInv => StrongHeaderInside
    <2> SUFFICES ASSUME OpenInv PROVE IndexesInside(entry.header)
      BY DEF StrongHeaderInside
    <2>1. entry.header \in Headers
      BY EntriesAssumption DEF OpenInv, EntryRecords
    <2> QED
      BY <2>1, HeaderIndexesInside
  <1> QED
    BY <1>1, OpenInvHolds, PTL

(***************************************************************************)
(* What holds of a layer and of the decoder on top of it.                  *)
(***************************************************************************)
\* The layer gives no more units than the entry has; the code behind them is
\* read once; auth is the truth.
GoodLayer(e, k, l) ==
    /\ l \in Layers
    /\ l.pos <= l.limit /\ l.limit <= Len(e.bytes)
    /\ l.codes = IF l.done THEN 0 ELSE 1
    /\ l.auth => e.authentic /\ k = "right"

\* What a streaming decoder has decoded or buffered is what came through the
\* layer.
GoodDecoder(d, l) ==
    /\ d \in Decoders
    /\ Len(d.queue) <= MaxBuffered
    /\ d.kind = "Streaming" => d.consumed + d.buffered = l.pos

\* A read of the layer reports its end again and changes nothing.
StaysAtEnd(e, k, l) == AtEnd(l) /\ LayerEnd(e, k, l) = [ok |-> TRUE, layer |-> l]

\* A streaming decoder without input: its end mark is behind it, or it does not
\* mind the input's early end.
RunsOut(d) == IF d.consumed >= d.need THEN ~d.breaks ELSE ~d.strict

\* The decoder has nothing more to give, and says so without an error.
Ended(e, k, l, d) ==
    \/ d.kind = "Stored" /\ StaysAtEnd(e, k, l)
    \/ d.kind = "Streaming" /\ d.buffered = 0 /\ StaysAtEnd(e, k, l) /\ RunsOut(d)
    \/ d.kind = "Streaming" /\ d.buffered > 0 /\ d.consumed >= d.need /\ ~d.breaks
    \/ d.kind = "Buffered" /\ d.queue = <<>>

(***************************************************************************)
(* The inductive invariant.                                                *)
(***************************************************************************)
\* The types of TypeOK that need no argument.
Typed ==
    /\ st \in {"idle", "open", "refused"}
    /\ entry \in Entries
    /\ summary \in Summaries
    /\ key \in {"none", "right", "wrong"}
    /\ hasher \in Seq(Output)
    /\ verified \in BOOLEAN
    /\ verify_crc \in BOOLEAN
    /\ last \in {"none", "data", "eof", "err"}
    /\ outcome \in {"none", "clean", "failed"}

\* The decoder a method asks for.
KindOf(m) ==
    IF m = "Stored" THEN "Stored" ELSE IF m \in Streaming THEN "Streaming" ELSE "Buffered"

\* Which protection the layer is for, and which decoder stands on it.
Stacked ==
    /\ (key = "none") <=> (layer.kind = "plain")
    /\ layer.kind = "plain" => ~entry.encrypted /\ entry.aes = "none"
    /\ layer.kind # "plain" => entry.encrypted \/ entry.aes # "none"
    /\ (layer.kind = "aes") <=> (entry.aes # "none")
    /\ dec.kind = KindOf(RealMethod)
    /\ verify_crc => entry.aes # "AE2"

\* An end was noticed once, everything up to it was compared, and nothing can
\* come behind it.
EndInv ==
    /\ verified => outcome # "none"
    /\ outcome = "clean" =>
          /\ verified
          /\ Ended(entry, key, layer, dec)
          /\ verify_crc => delivered = entry.crc32

\* The auth code was compared at the end of the ciphertext, and a mismatch made
\* that read, or the open, fail.  A streaming decoder may end before it is read.
AuthInv ==
    layer.kind = "aes" /\ dec.kind # "Streaming" =>
        /\ layer.done => layer.auth \/ outcome = "failed"
        /\ dec.kind = "Stored" /\ outcome = "clean" => layer.done
        /\ RealMethod \in ReadToEnd => layer.done

NothingHeld ==
    /\ layer = NoLayer
    /\ dec = NoDecoder
    /\ delivered = <<>>
    /\ verified = FALSE
    /\ outcome = "none"

IInv ==
    /\ Typed
    /\ GoodLayer(entry, key, layer)
    /\ GoodDecoder(dec, layer)
    /\ hasher = delivered
    /\ st = "open" => Stacked /\ AuthInv /\ (0 \notin BufSizes => EndInv)
    /\ st # "open" => NothingHeld


\* What the read r of layer l at its end leaves: a good layer, and an end that
\* the next read reports again.
GoodEnd(e, k, l, r) ==
    /\ r.ok \in BOOLEAN
    /\ GoodLayer(e, k, r.layer)
    /\ r.layer.kind = l.kind /\ r.layer.pos = l.pos /\ r.layer.limit = l.limit
    /\ r.ok => LayerEnd(e, k, r.layer) = [ok |-> TRUE, layer |-> r.layer]
    /\ r.ok /\ l.kind = "aes" => r.layer.done
    /\ r.layer.done => r.layer.auth \/ ~r.ok \/ l.done
    /\ l.done => r.layer = l
    /\ l.kind # "aes" => r.layer = l

\* For all entries, keys and layers, AesReader::finish and the end of the strong
\* layer included.
LEMMA LayerEndIsGood ==
    ASSUME NEW e \in EntryRecords, NEW k, NEW l, GoodLayer(e, k, l)
    PROVE  GoodEnd(e, k, l, LayerEnd(e, k, l))
  <1> DEFINE r == LayerEnd(e, k, l)
  <1> HIDE DEF r
  <1>0. SUFFICES GoodEnd(e, k, l, r)
    BY DEF r
  <1> USE DEF GoodEnd
  <1>1. /\ l \in Layers /\ Len(e.bytes) \in Nat /\ e.bytes \in Seq(Byte)
        /\ e.authentic \in BOOLEAN /\ e.uncompressed_size \in Nat
    BY DEF GoodLayer, EntryRecords
  <1>2. CASE l.kind = "aes"
    <2>1. r = AesEnd(e, k, l)
      BY <1>2 DEF LayerEnd, r
    <2>2. CASE Remaining(e, l) > 0
      <3>1. r = [ok |-> FALSE, layer |-> l]
        BY <2>1, <2>2 DEF AesEnd
      <3> QED
        BY <3>1, <1>2
    <2>3. CASE ~(Remaining(e, l) > 0) /\ l.done
      <3>1. r = [ok |-> TRUE, layer |-> l]
        BY <2>1, <2>3 DEF AesEnd
      <3>2. r.ok = TRUE /\ r.layer = l
        BY <3>1
      <3>3. LayerEnd(e, k, r.layer) = [ok |-> TRUE, layer |-> r.layer]
        BY <3>1, <3>2 DEF r
      <3> QED
        BY <3>2, <3>3, <2>3, <1>2
    <2>4. CASE ~(Remaining(e, l) > 0) /\ ~l.done
      <3> DEFINE ok == l.codes = 1 /\ e.authentic /\ k = "right"
                 m  == finish(l, ok)
      <3>1. r = [ok |-> ok, layer |-> m]
        BY <2>1, <2>4 DEF AesEnd
      <3>2. /\ m \in Layers /\ m.kind = "aes" /\ m.pos = l.pos /\ m.limit = l.limit
            /\ m.codes = 0 /\ m.done /\ m.auth = ok
        <4>1. l.codes = 1
          BY <2>4 DEF GoodLayer
        <4>2. ok \in BOOLEAN
          BY <1>1
        <4> HIDE DEF ok
        <4> DEFINE a == [l EXCEPT !.codes = @ - 1]
                   b == [a EXCEPT !.done = TRUE]
        <4>3. a \in Layers /\ a.kind = "aes" /\ a.pos = l.pos /\ a.limit = l.limit /\ a.codes = 0
          BY <1>1, <1>2, <4>1 DEF Layers
        <4>4. m = [b EXCEPT !.auth = ok]
          BY DEF finish
        <4> HIDE DEF a, m
        <4>5. /\ b \in Layers /\ b.kind = "aes" /\ b.pos = l.pos /\ b.limit = l.limit
              /\ b.codes = 0 /\ b.done
          BY <4>3 DEF Layers
        <4> HIDE DEF b
        <4> QED
          BY <4>2, <4>4, <4>5 DEF Layers
      <3>3. GoodLayer(e, k, m)
        BY <3>2 DEF GoodLayer
      <3>4. LayerEnd(e, k, m) = [ok |-> TRUE, layer |-> m]
        <4>1. Remaining(e, m) = Remaining(e, l)
          BY <3>2 DEF Remaining
        <4> QED
          BY <3>2, <2>4, <4>1 DEF LayerEnd, AesEnd
      <3> HIDE DEF m
      <3> QED
        BY <1>2, <2>4, <3>1, <3>2, <3>3, <3>4
    <2> QED
      BY <2>2, <2>3, <2>4
  <1>3. CASE l.kind # "aes"
    <2>1. r.layer = l /\ r.ok \in BOOLEAN /\ r = [ok |-> r.ok, layer |-> l]
      <3>1. CASE l.kind = "strong"
        BY <1>1, <1>3, <3>1 DEF LayerEnd, StrongEnd, r
      <3>2. CASE l.kind # "strong"
        BY <1>1, <1>3, <3>2 DEF LayerEnd, r
      <3> QED
        BY <3>1, <3>2
    <2>2. r.ok => LayerEnd(e, k, r.layer) = [ok |-> TRUE, layer |-> r.layer]
      BY <2>1 DEF r
    <2> QED
      BY <1>3, <2>1, <2>2
  <1> QED
    BY <1>2, <1>3

\* Units that lie in the payload decode to bytes.
LEMMA UnitsAreOutput ==
    ASSUME NEW e \in EntryRecords, NEW k, NEW i \in Nat, NEW n \in Nat, i + n <= Len(e.bytes)
    PROVE  Units(e, k, i, n) \in Seq(Output) /\ Len(Units(e, k, i, n)) = n
  <1>1. e.bytes \in Seq(Byte)
    BY DEF EntryRecords
  <1>2. \A j \in 1..n : (IF k = "wrong" THEN Garbage ELSE e.bytes[i + j]) \in Output
    BY <1>1 DEF Output
  <1> QED
    BY <1>2 DEF Units

\* Units read through a good layer leave a good layer.
LEMMA PulledIsGood ==
    ASSUME NEW e \in EntryRecords, NEW k, NEW l, GoodLayer(e, k, l),
           NEW n \in Nat, l.pos + n <= l.limit
    PROVE  /\ GoodLayer(e, k, Pulled(l, n))
           /\ Pulled(l, n).pos = l.pos + n
           /\ Pulled(l, n).kind = l.kind /\ Pulled(l, n).limit = l.limit
           /\ Pulled(l, n).done = l.done /\ Pulled(l, n).auth = l.auth
           /\ Pulled(l, n).codes = l.codes
  <1>1. l \in Layers
    BY DEF GoodLayer
  <1> QED
    BY <1>1 DEF GoodLayer, Pulled, Layers

\* What a read r of n bytes, taken with layer l and decoder d, leaves.
GoodRead(n, r, l, d) ==
    /\ r.res \in {"data", "eof", "err"}
    /\ r.bytes \in Seq(Output)
    /\ GoodLayer(entry, key, r.layer)
    /\ GoodDecoder(r.dec, r.layer)
    /\ r.layer.kind = l.kind /\ r.dec.kind = d.kind
    /\ r.res = "eof" /\ n # 0 => Ended(entry, key, r.layer, r.dec)
    /\ Ended(entry, key, l, d) => r.res = "eof"
    /\ r.layer.done => r.layer.auth \/ r.res = "err" \/ l.done
    /\ l.done => r.layer.done /\ r.layer.auth = l.auth
    /\ d.kind = "Stored" /\ l.kind = "aes" /\ r.res = "eof" => r.layer.done

\* A decoder whose input has ended.
LEMMA AtLayerEndIsGood ==
    ASSUME entry \in EntryRecords, GoodLayer(entry, key, layer), GoodDecoder(dec, layer),
           dec.kind \in {"Stored", "Streaming"}, AtEnd(layer),
           dec.kind = "Streaming" => dec.buffered = 0,
           NEW n, NEW ifEnd \in {"eof", "err"},
           dec.kind = "Stored" => ifEnd = "eof",
           dec.kind = "Streaming" => (ifEnd = "eof" <=> RunsOut(dec))
    PROVE  GoodRead(n, AtLayerEnd(layer, dec, ifEnd), layer, dec)
  <1> DEFINE end == LayerEnd(entry, key, layer)
             r   == AtLayerEnd(layer, dec, ifEnd)
  <1>1. /\ end.ok \in BOOLEAN
        /\ GoodLayer(entry, key, end.layer)
        /\ end.layer.kind = layer.kind /\ end.layer.pos = layer.pos
        /\ end.layer.limit = layer.limit
        /\ end.ok => LayerEnd(entry, key, end.layer) = [ok |-> TRUE, layer |-> end.layer]
        /\ end.ok /\ layer.kind = "aes" => end.layer.done
        /\ end.layer.done => end.layer.auth \/ ~end.ok \/ layer.done
        /\ layer.done => end.layer = layer
    <2>1. GoodEnd(entry, key, layer, end)
      BY LayerEndIsGood
    <2> HIDE DEF end
    <2> QED
      BY <2>1 DEF GoodEnd
  <1>2. /\ r.res = IF end.ok THEN ifEnd ELSE "err"
        /\ r.bytes = <<>> /\ r.layer = end.layer /\ r.dec = dec
    BY DEF AtLayerEnd, Result
  <1>3. AtEnd(end.layer)
    BY <1>1 DEF AtEnd
  <1>4. end.ok => StaysAtEnd(entry, key, end.layer)
    BY <1>1, <1>3 DEF StaysAtEnd
  <1>5. StaysAtEnd(entry, key, layer) => end.ok
    BY DEF StaysAtEnd
  <1> HIDE DEF end, r
  <1>6. r.res = "eof" <=> end.ok /\ ifEnd = "eof"
    BY <1>1, <1>2
  <1>7. r.res = "eof" => Ended(entry, key, r.layer, r.dec)
    BY <1>2, <1>4, <1>6 DEF Ended
  <1>8. Ended(entry, key, layer, dec) => r.res = "eof"
    <2>1. dec.kind = "Streaming" => dec.buffered = 0
      OBVIOUS
    <2> QED
      BY <1>5, <1>6, <2>1 DEF Ended
  <1>9. GoodDecoder(dec, r.layer)
    BY <1>1, <1>2 DEF GoodDecoder
  <1> QED
    BY <1>1, <1>2, <1>6, <1>7, <1>8, <1>9 DEF GoodRead, r

\* Decoder::Stored.
LEMMA StoredReadIsGood ==
    ASSUME entry \in EntryRecords, GoodLayer(entry, key, layer), GoodDecoder(dec, layer),
           dec.kind = "Stored", NEW n \in Nat, NEW r \in StoredRead(n)
    PROVE  GoodRead(n, r, layer, dec)
  <1>1. CASE AtEnd(layer)
    BY <1>1, AtLayerEndIsGood DEF StoredRead
  <1>2. CASE ~AtEnd(layer) /\ n = 0
    <2>1. r = Result(IF layer.kind = "aes" THEN "err" ELSE "eof", <<>>, layer, dec)
      BY <1>2 DEF StoredRead
    <2>2. /\ r.res = (IF layer.kind = "aes" THEN "err" ELSE "eof") /\ r.bytes = <<>>
          /\ r.layer = layer /\ r.dec = dec
      BY <2>1 DEF Result
    <2>3. ~Ended(entry, key, layer, dec)
      BY <1>2 DEF Ended, StaysAtEnd
    <2> QED
      BY <1>2, <2>2, <2>3 DEF GoodRead
  <1>3. CASE ~AtEnd(layer) /\ n # 0
    <2>1. layer.pos \in Nat /\ layer.limit \in Nat /\ layer.limit <= Len(entry.bytes)
          /\ layer.pos < layer.limit /\ Len(entry.bytes) \in Nat
      BY <1>3 DEF AtEnd, GoodLayer, Layers, EntryRecords
    <2>2. PICK i \in 1..MinOf(n, layer.limit - layer.pos) :
            r = Result("data", Units(entry, key, layer.pos, i), Pulled(layer, i), dec)
      BY <1>3 DEF StoredRead
    <2>3. i \in Nat /\ i >= 1 /\ layer.pos + i <= layer.limit
      BY <2>1, <2>2 DEF MinOf
    <2>4. Units(entry, key, layer.pos, i) \in Seq(Output)
      BY <2>1, <2>3, UnitsAreOutput
    <2>5. /\ GoodLayer(entry, key, Pulled(layer, i))
          /\ Pulled(layer, i).kind = layer.kind
          /\ Pulled(layer, i).done = layer.done /\ Pulled(layer, i).auth = layer.auth
      BY <2>3, PulledIsGood
    <2>6. GoodDecoder(dec, Pulled(layer, i))
      BY DEF GoodDecoder
    <2>7. ~Ended(entry, key, layer, dec)
      BY <1>3 DEF Ended, StaysAtEnd
    <2>8. /\ r.res = "data" /\ r.bytes = Units(entry, key, layer.pos, i)
          /\ r.layer = Pulled(layer, i) /\ r.dec = dec
      BY <2>2 DEF Result
    <2> QED
      BY <2>4, <2>5, <2>6, <2>7, <2>8 DEF GoodRead
  <1> QED
    BY <1>1, <1>2, <1>3

\* The input buffer is filled from the layer, and only when it is empty.
LEMMA FilledFacts ==
    ASSUME entry \in EntryRecords, GoodLayer(entry, key, layer), GoodDecoder(dec, layer),
           dec.kind = "Streaming", NEW f \in Filled
    PROVE  /\ GoodLayer(entry, key, f.l) /\ GoodDecoder(f.d, f.l)
           /\ f.l.kind = layer.kind /\ f.l.done = layer.done /\ f.l.auth = layer.auth
           /\ f.l.limit = layer.limit
           /\ f.d.kind = "Streaming" /\ f.d.buffered > 0
           /\ f.d.consumed = dec.consumed /\ f.d.need = dec.need
           /\ f.d.breaks = dec.breaks /\ f.d.strict = dec.strict
           /\ dec.buffered > 0 => f.l = layer /\ f.d = dec
  <1>1. dec \in Decoders /\ dec.buffered \in Nat /\ dec.consumed \in Nat
        /\ layer.pos \in Nat /\ layer.limit \in Nat
    BY DEF GoodDecoder, Decoders, GoodLayer, Layers
  <1>2. CASE dec.buffered > 0
    BY <1>2 DEF Filled
  <1>3. CASE ~(dec.buffered > 0)
    <2>1. PICK i \in 1..(layer.limit - layer.pos) :
            f = [l |-> Pulled(layer, i), d |-> [dec EXCEPT !.buffered = i]]
      BY <1>3 DEF Filled
    <2>2. i \in Nat /\ i >= 1 /\ layer.pos + i <= layer.limit
      BY <1>1, <2>1
    <2> DEFINE l == Pulled(layer, i)
               d == [dec EXCEPT !.buffered = i]
    <2>3. /\ GoodLayer(entry, key, l) /\ l.kind = layer.kind /\ l.done = layer.done
          /\ l.auth = layer.auth /\ l.limit = layer.limit /\ l.pos = layer.pos + i
      BY <2>2, PulledIsGood
    <2>4. /\ d \in Decoders /\ d.kind = "Streaming" /\ d.buffered = i
          /\ d.consumed = dec.consumed /\ d.need = dec.need /\ d.breaks = dec.breaks
          /\ d.strict = dec.strict /\ d.queue = dec.queue
      BY <1>1, <2>2 DEF Decoders
    <2>5. dec.consumed = layer.pos
      BY <1>1, <1>3 DEF GoodDecoder
    <2>6. GoodDecoder(d, l)
      BY <1>1, <2>2, <2>3, <2>4, <2>5 DEF GoodDecoder
    <2>7. f.l = l /\ f.d = d
      BY <2>1
    <2> HIDE DEF l, d
    <2> QED
      BY <1>3, <2>2, <2>3, <2>4, <2>6, <2>7
  <1> QED
    BY <1>2, <1>3

\* One decoding step with input in the buffer.
LEMMA StreamingStepIsGood ==
    ASSUME entry \in EntryRecords, NEW l, NEW d,
           GoodLayer(entry, key, l), GoodDecoder(d, l), d.kind = "Streaming", d.buffered > 0,
           NEW n \in Nat
    PROVE  GoodRead(n, StreamingStep(l, d, n), l, d)
  <1> DEFINE r == StreamingStep(l, d, n)
             i == MinOf(n, MinOf(d.buffered, d.need - d.consumed))
  <1>1. /\ d \in Decoders /\ d.buffered \in Nat /\ d.consumed \in Nat /\ d.need \in Nat
        /\ d.breaks \in BOOLEAN /\ d.consumed + d.buffered = l.pos
        /\ l.pos \in Nat /\ l.pos <= Len(entry.bytes) /\ Len(entry.bytes) \in Nat
    <2>1. l \in Layers /\ l.pos <= l.limit /\ l.limit <= Len(entry.bytes)
      BY DEF GoodLayer
    <2>2. d \in Decoders /\ d.consumed + d.buffered = l.pos
      BY DEF GoodDecoder
    <2>3. Len(entry.bytes) \in Nat
      BY DEF EntryRecords
    <2> QED
      BY <2>1, <2>2, <2>3 DEF Layers, Decoders
  <1>2. CASE d.consumed >= d.need
    <2>1. r = Result(IF d.breaks THEN "err" ELSE "eof", <<>>, l, d)
      BY <1>2 DEF StreamingStep
    <2>2. /\ r.res = (IF d.breaks THEN "err" ELSE "eof") /\ r.bytes = <<>>
          /\ r.layer = l /\ r.dec = d
      BY <2>1 DEF Result
    <2> HIDE DEF r
    <2> QED
      BY <1>1, <1>2, <2>2 DEF GoodRead, Ended, r
  <1>3. CASE ~(d.consumed >= d.need) /\ n = 0
    <2>1. i = 0
      BY <1>1, <1>3 DEF MinOf
    <2>2. r = Result("eof", <<>>, l, d)
      BY <1>3, <2>1 DEF StreamingStep
    <2>3. r.res = "eof" /\ r.bytes = <<>> /\ r.layer = l /\ r.dec = d
      BY <2>2 DEF Result
    <2>4. <<>> \in Seq(Output)
      OBVIOUS
    <2> HIDE DEF r
    <2>5. GoodRead(n, r, l, d)
      BY <1>3, <2>3, <2>4 DEF GoodRead
    <2> QED
      BY <2>5 DEF r
  <1>4. CASE ~(d.consumed >= d.need) /\ n # 0
    <2>1. i \in Nat /\ i >= 1 /\ i <= d.buffered /\ i <= d.need - d.consumed
      BY <1>1, <1>4 DEF MinOf
    <2> HIDE DEF i
    <2> DEFINE e == [d EXCEPT !.consumed = @ + i, !.buffered = @ - i]
    <2>2. r = Result("data", Units(entry, key, d.consumed, i), l, e)
      BY <1>4, <2>1 DEF StreamingStep, i
    <2>3. /\ e \in Decoders /\ e.kind = "Streaming" /\ e.queue = d.queue
          /\ e.consumed = d.consumed + i /\ e.buffered = d.buffered - i
      <3> DEFINE a == [d EXCEPT !.consumed = @ + i]
      <3>1. /\ a \in Decoders /\ a.kind = "Streaming" /\ a.queue = d.queue
            /\ a.consumed = d.consumed + i /\ a.buffered = d.buffered
        <4>1. d.consumed + i \in Nat
          BY <1>1, <2>1
        <4> QED
          BY <1>1, <4>1 DEF Decoders
      <3>2. e = [a EXCEPT !.buffered = @ - i]
        OBVIOUS
      <3> HIDE DEF a, e
      <3>3. d.buffered - i \in Nat
        BY <1>1, <2>1
      <3> QED
        BY <3>1, <3>2, <3>3 DEF Decoders
    <2>4. GoodDecoder(e, l)
      BY <1>1, <2>1, <2>3 DEF GoodDecoder
    <2>5. Units(entry, key, d.consumed, i) \in Seq(Output)
      BY <1>1, <2>1, UnitsAreOutput
    <2>6. ~Ended(entry, key, l, d)
      BY <1>1, <1>4 DEF Ended
    <2>7. /\ r.res = "data" /\ r.bytes = Units(entry, key, d.consumed, i)
          /\ r.layer = l /\ r.dec = e
      BY <2>2 DEF Result
    <2> HIDE DEF r, e
    <2> QED
      BY <2>3, <2>4, <2>5, <2>6, <2>7 DEF GoodRead, r
  <1> QED
    BY <1>2, <1>3, <1>4

\* Decoder::Deflated and Decoder::Deflate64.
LEMMA StreamingReadIsGood ==
    ASSUME entry \in EntryRecords, GoodLayer(entry, key, layer), GoodDecoder(dec, layer),
           dec.kind = "Streaming", NEW n \in Nat, NEW r \in StreamingRead(n)
    PROVE  GoodRead(n, r, layer, dec)
  <1>1. CASE dec.buffered = 0 /\ AtEnd(layer)
    <2> DEFINE ifEnd == IF dec.consumed >= dec.need THEN IF dec.breaks THEN "err" ELSE "eof"
                        ELSE IF dec.strict THEN "err" ELSE "eof"
    <2>1. r = AtLayerEnd(layer, dec, ifEnd)
      BY <1>1 DEF StreamingRead
    <2>2. ifEnd \in {"eof", "err"} /\ (ifEnd = "eof" <=> RunsOut(dec))
      BY DEF RunsOut
    <2> HIDE DEF ifEnd
    <2> QED
      BY <1>1, <2>1, <2>2, AtLayerEndIsGood
  <1>2. CASE ~(dec.buffered = 0 /\ AtEnd(layer))
    <2>1. PICK f \in Filled : r = StreamingStep(f.l, f.d, n)
      BY <1>2 DEF StreamingRead
    <2>2. /\ GoodLayer(entry, key, f.l) /\ GoodDecoder(f.d, f.l)
          /\ f.l.kind = layer.kind /\ f.l.done = layer.done /\ f.l.auth = layer.auth
          /\ f.d.kind = "Streaming" /\ f.d.buffered > 0
          /\ dec.buffered > 0 => f.l = layer /\ f.d = dec
      BY FilledFacts
    <2>3. GoodRead(n, r, f.l, f.d)
      BY <2>1, <2>2, StreamingStepIsGood
    <2>4. Ended(entry, key, layer, dec) => f.l = layer /\ f.d = dec
      BY <1>2, <2>2 DEF Ended, StaysAtEnd
    <2> QED
      BY <2>2, <2>3, <2>4 DEF GoodRead
  <1> QED
    BY <1>1, <1>2

\* The one-shot codecs, served from a Cursor.
LEMMA BufferedReadIsGood ==
    ASSUME entry \in EntryRecords, GoodLayer(entry, key, layer), GoodDecoder(dec, layer),
           dec.kind = "Buffered", NEW n \in Nat, NEW r \in BufferedRead(n)
    PROVE  GoodRead(n, r, layer, dec)
  <1> DEFINE i == MinOf(n, Len(dec.queue))
             d == [dec EXCEPT !.queue = SubSeq(@, i + 1, Len(@))]
  <1>1. dec \in Decoders /\ dec.queue \in Seq(Output) /\ Len(dec.queue) \in Nat
        /\ Len(dec.queue) <= MaxBuffered /\ MaxBuffered \in Nat
    BY EntriesAssumption DEF GoodDecoder, Decoders
  <1>2. i \in Nat /\ i <= Len(dec.queue) /\ (i = 0 <=> dec.queue = <<>> \/ n = 0)
    BY <1>1 DEF MinOf
  <1>3. r = IF i = 0 THEN Result("eof", <<>>, layer, dec)
            ELSE Result("data", SubSeq(dec.queue, 1, i), layer, d)
    BY DEF BufferedRead
  <1> HIDE DEF i
  <1>4. CASE i = 0
    <2>1. r.res = "eof" /\ r.bytes = <<>> /\ r.layer = layer /\ r.dec = dec
      BY <1>3, <1>4 DEF Result
    <2> QED
      BY <1>2, <1>4, <2>1 DEF GoodRead, Ended
  <1>5. CASE i # 0
    <2>1. SubSeq(dec.queue, 1, i) \in Seq(Output)
      BY <1>1, <1>2
    <2>2. /\ SubSeq(dec.queue, i + 1, Len(dec.queue)) \in Seq(Output)
          /\ Len(SubSeq(dec.queue, i + 1, Len(dec.queue))) <= MaxBuffered
      BY <1>1, <1>2
    <2>3. /\ d \in Decoders /\ d.kind = "Buffered"
          /\ d.queue = SubSeq(dec.queue, i + 1, Len(dec.queue))
      BY <1>1, <2>2 DEF Decoders
    <2>4. GoodDecoder(d, layer)
      BY <2>2, <2>3 DEF GoodDecoder
    <2>5. /\ r.res = "data" /\ r.bytes = SubSeq(dec.queue, 1, i)
          /\ r.layer = layer /\ r.dec = d
      BY <1>3, <1>5 DEF Result
    <2> HIDE DEF d
    <2> QED
      BY <1>2, <1>5, <2>1, <2>3, <2>4, <2>5 DEF GoodRead, Ended
  <1> QED
    BY <1>4, <1>5

\* Every read of a decoder: an end it gives a non-empty buffer is the last thing
\* it gives, and an AES entry's code was compared on the way to it.
LEMMA DecoderReadIsGood ==
    ASSUME entry \in EntryRecords, GoodLayer(entry, key, layer), GoodDecoder(dec, layer),
           NEW n \in Nat, NEW r \in DecoderRead(n)
    PROVE  GoodRead(n, r, layer, dec)
  <1>1. dec.kind \in {"Stored", "Streaming", "Buffered"}
    BY DEF GoodDecoder, Decoders
  <1>2. CASE dec.kind = "Stored"
    BY <1>2, StoredReadIsGood DEF DecoderRead
  <1>3. CASE dec.kind = "Streaming"
    BY <1>3, StreamingReadIsGood DEF DecoderRead
  <1>4. CASE dec.kind = "Buffered"
    BY <1>4, BufferedReadIsGood DEF DecoderRead
  <1> QED
    BY <1>1, <1>2, <1>3, <1>4

\* The parts of an entry the stack is built from.
LEMMA EntryFields ==
    ASSUME NEW e \in Entries
    PROVE  /\ e \in EntryRecords
           /\ e.bytes \in Seq(Byte) /\ Len(e.bytes) \in Nat /\ e.crc32 \in Seq(Byte)
           /\ e.present \in Nat /\ e.need \in Nat /\ e.uncompressed_size \in Nat
           /\ e.breaks \in BOOLEAN /\ e.authentic \in BOOLEAN /\ e.encrypted \in BOOLEAN
           /\ e.method \in Methods /\ e.actual_method \in Methods
           /\ e.aes \in {"none", "AE1", "AE2"}
           /\ Available(e) \in Nat /\ Available(e) <= Len(e.bytes)
           /\ \A m : StrongLimit(e, m) \in Nat /\ StrongLimit(e, m) <= Len(e.bytes)
  <1>1. e \in EntryRecords
    BY EntriesAssumption
  <1>2. /\ e.bytes \in Seq(Byte) /\ Len(e.bytes) \in Nat /\ e.crc32 \in Seq(Byte)
        /\ e.present \in Nat /\ e.need \in Nat /\ e.uncompressed_size \in Nat
        /\ e.breaks \in BOOLEAN /\ e.authentic \in BOOLEAN /\ e.encrypted \in BOOLEAN
        /\ e.method \in Methods /\ e.actual_method \in Methods
        /\ e.aes \in {"none", "AE1", "AE2"}
    BY <1>1 DEF EntryRecords
  <1>3. Available(e) \in Nat /\ Available(e) <= Len(e.bytes)
    BY <1>2 DEF Available, MinOf
  <1>4. \A m : StrongLimit(e, m) \in Nat /\ StrongLimit(e, m) <= Len(e.bytes)
    BY <1>2, <1>3 DEF StrongLimit, MinOf
  <1> QED
    BY <1>1, <1>2, <1>3, <1>4

\* A layer as an open builds it.
LEMMA NewLayerIsGood ==
    ASSUME NEW e \in Entries, NEW k,
           NEW kind \in {"plain", "zipcrypto", "aes", "strong"},
           NEW limit \in Nat, limit <= Len(e.bytes)
    PROVE  /\ GoodLayer(e, k, NewLayer(kind, limit))
           /\ NewLayer(kind, limit).kind = kind /\ NewLayer(kind, limit).limit = limit
           /\ NewLayer(kind, limit).pos = 0 /\ ~NewLayer(kind, limit).done
           /\ ~NewLayer(kind, limit).auth
  BY DEF NewLayer, GoodLayer, Layers

\* The decoder of a Stored entry, and of no entry.
LEMMA NoDecoderIsGood ==
    /\ NoDecoder \in Decoders /\ Len(NoDecoder.queue) = 0 /\ NoDecoder.kind = "Stored"
    /\ NoDecoder.queue = <<>>
  <1>1. <<>> \in Seq(Output) /\ Len(<<>>) = 0
    OBVIOUS
  <1> QED
    BY <1>1 DEF NoDecoder, DecoderOf, Decoders

\* What a decoder built over the fresh layer l leaves of it.
GoodBuild(e, k, m, l, b) ==
    /\ b.ok \in BOOLEAN
    /\ b.ok =>
        /\ GoodLayer(e, k, b.layer)
        /\ GoodDecoder(b.dec, b.layer)
        /\ b.layer.kind = l.kind
        /\ b.layer.limit = l.limit
        /\ b.dec.kind = KindOf(m)
        /\ b.layer.kind = "aes" /\ b.layer.done => b.layer.auth
        /\ b.layer.kind = "aes" /\ m \in ReadToEnd => b.layer.done

\* The one-shot codecs: an auth code that was reached matched, the cap held.
LEMMA DecodeAllIsGood ==
    ASSUME NEW e \in Entries, NEW k, NEW m \in Methods, NEW l, GoodLayer(e, k, l),
           l.pos = 0, ~l.done, KindOf(m) = "Buffered",
           NEW need \in Nat, NEW breaks \in BOOLEAN, NEW strict \in BOOLEAN,
           NEW atEnd \in ReachesEnd(m, need, l.limit)
    PROVE  GoodBuild(e, k, m, l, DecodeAll(e, k, m, l, need, breaks, strict, atEnd))
  <1> DEFINE n   == MinOf(need, l.limit)
             out == IF m = "Lzma" THEN MinOf(n, e.uncompressed_size) ELSE n
             end == IF atEnd THEN LayerEnd(e, k, Pulled(l, l.limit))
                             ELSE [ok |-> TRUE, layer |-> Pulled(l, n)]
             d   == DecoderOf("Buffered", need, FALSE, FALSE, Units(e, k, 0, out))
             b   == DecodeAll(e, k, m, l, need, breaks, strict, atEnd)
  <1>1. /\ e \in EntryRecords /\ e.uncompressed_size \in Nat /\ Len(e.bytes) \in Nat
    BY EntryFields
  <1>2. l.limit \in Nat /\ l.limit <= Len(e.bytes) /\ l \in Layers
    BY DEF GoodLayer, Layers
  <1>3. n \in Nat /\ n <= l.limit
    BY <1>2 DEF MinOf
  <1>4. out \in Nat /\ out <= Len(e.bytes)
    BY <1>1, <1>2, <1>3 DEF MinOf
  <1>5. Units(e, k, 0, out) \in Seq(Output) /\ Len(Units(e, k, 0, out)) = out
    BY <1>1, <1>4, UnitsAreOutput
  <1>6. /\ end.ok \in BOOLEAN /\ GoodLayer(e, k, end.layer) /\ end.layer.kind = l.kind
        /\ end.layer.limit = l.limit
        /\ end.ok /\ end.layer.done => end.layer.auth
        /\ end.ok /\ l.kind = "aes" /\ atEnd = TRUE => end.layer.done
    <2>1. CASE atEnd
      <3> DEFINE p == Pulled(l, l.limit)
      <3>1. GoodLayer(e, k, p) /\ p.kind = l.kind /\ p.limit = l.limit /\ p.done = l.done
        BY <1>1, <1>2, PulledIsGood
      <3>2. end = LayerEnd(e, k, p)
        BY <2>1
      <3> HIDE DEF p, end
      <3>3. /\ end.ok \in BOOLEAN /\ GoodLayer(e, k, end.layer)
            /\ end.layer.kind = p.kind /\ end.layer.limit = p.limit
            /\ end.ok /\ p.kind = "aes" => end.layer.done
            /\ end.layer.done => end.layer.auth \/ ~end.ok \/ p.done
        <4>1. GoodEnd(e, k, p, end)
          BY <1>1, <3>1, <3>2, LayerEndIsGood
        <4> QED
          BY <4>1 DEF GoodEnd
      <3> QED
        BY <3>1, <3>3
    <2>2. CASE ~atEnd
      <3> DEFINE p == Pulled(l, n)
      <3>1. GoodLayer(e, k, p) /\ p.kind = l.kind /\ p.limit = l.limit /\ p.done = l.done
        BY <1>1, <1>2, <1>3, PulledIsGood
      <3>2. end = [ok |-> TRUE, layer |-> p]
        BY <2>2
      <3> HIDE DEF p, end
      <3> QED
        BY <2>2, <3>1, <3>2
    <2> QED
      BY <2>1, <2>2
  <1> HIDE DEF n, end
  <1>7. /\ d \in Decoders /\ d.kind = "Buffered" /\ d.queue = Units(e, k, 0, out)
    <2> HIDE DEF out
    <2> QED
      BY <1>5 DEF DecoderOf, Decoders
  <1> HIDE DEF out, d
  <1>8. /\ b.ok = (/\ end.ok
                   /\ IF need > l.limit THEN ~strict ELSE ~breaks
                   /\ m = "Lzma" => out = e.uncompressed_size
                   /\ WithinCap(out))
        /\ b.layer = end.layer /\ b.dec = d
    BY DEF DecodeAll, d, out, end, n
  <1> HIDE DEF b
  <1>9. b.ok => end.ok /\ out <= MaxBuffered
    BY <1>8 DEF WithinCap
  <1>10. b.ok \in BOOLEAN
    BY <1>6, <1>8
  <1>11. m \in ReadToEnd => atEnd = TRUE
    BY DEF ReachesEnd
  <1>12. b.ok => GoodDecoder(d, end.layer)
    BY <1>5, <1>7, <1>9 DEF GoodDecoder
  <1> QED
    BY <1>6, <1>7, <1>8, <1>9, <1>10, <1>11, <1>12 DEF GoodBuild, b

\* Decoder::new, for every method.
LEMMA NewDecoderIsGood ==
    ASSUME NEW e \in Entries, NEW k, NEW m \in Methods, NEW l, GoodLayer(e, k, l),
           l.pos = 0, ~l.done, NEW b \in NewDecoder(e, k, m, l)
    PROVE  GoodBuild(e, k, m, l, b)
  <1>1. /\ e.need \in Nat /\ e.breaks \in BOOLEAN /\ Len(e.bytes) \in Nat
    BY EntryFields
  <1>2. SeenNeed(e, k) \subseteq Nat /\ SeenBreaks(e, k) \subseteq BOOLEAN
    BY <1>1 DEF SeenNeed, SeenBreaks
  <1>3. CASE m = "Stored"
    <2>1. b = [ok |-> TRUE, layer |-> l, dec |-> NoDecoder]
      BY <1>3 DEF NewDecoder, Streaming
    <2>2. GoodDecoder(NoDecoder, l) /\ NoDecoder.kind = "Stored"
      BY NoDecoderIsGood, EntriesAssumption DEF GoodDecoder
    <2>3. KindOf(m) = "Stored" /\ m \notin ReadToEnd
      BY <1>3 DEF KindOf, ReadToEnd
    <2> QED
      BY <2>1, <2>2, <2>3 DEF GoodBuild
  <1>4. CASE m \in Streaming
    <2>1. PICK n \in SeenNeed(e, k), f \in SeenBreaks(e, k), s \in BOOLEAN :
            b = [ok |-> TRUE, layer |-> l, dec |-> DecoderOf("Streaming", n, f, s, <<>>)]
      <3>1. NewDecoder(e, k, m, l) = StreamingDecoders(e, k, l)
        BY <1>4 DEF NewDecoder, Streaming
      <3> QED
        BY <3>1 DEF StreamingDecoders
    <2> DEFINE d == DecoderOf("Streaming", n, f, s, <<>>)
    <2>2. /\ d \in Decoders /\ d.kind = "Streaming" /\ d.queue = <<>>
          /\ d.consumed = 0 /\ d.buffered = 0
      <3>1. n \in Nat /\ f \in BOOLEAN /\ s \in BOOLEAN
        BY <1>2, <2>1
      <3>2. <<>> \in Seq(Output)
        OBVIOUS
      <3> QED
        BY <3>1, <3>2 DEF DecoderOf, Decoders
    <2> HIDE DEF d
    <2>3. GoodDecoder(d, l)
      BY <2>2, EntriesAssumption DEF GoodDecoder
    <2>4. KindOf(m) = "Streaming" /\ m \notin ReadToEnd
      BY <1>4 DEF KindOf, ReadToEnd, Streaming
    <2>5. b.ok = TRUE /\ b.layer = l /\ b.dec = d
      BY <2>1 DEF d
    <2> QED
      BY <2>2, <2>3, <2>4, <2>5 DEF GoodBuild
  <1>5. CASE m = "Other"
    <2>1. b = [ok |-> FALSE, layer |-> l, dec |-> NoDecoder]
      BY <1>5 DEF NewDecoder, Streaming
    <2> QED
      BY <2>1 DEF GoodBuild
  <1>6. CASE m \notin {"Stored", "Other"} \union Streaming
    <2>1. KindOf(m) = "Buffered"
      BY <1>6 DEF KindOf
    <2>2. PICK n \in SeenNeed(e, k) :
            b \in { DecodeAll(e, k, m, l, n, f, s, a) :
                    f \in SeenBreaks(e, k), s \in BOOLEAN, a \in ReachesEnd(m, n, l.limit) }
      BY <1>6 DEF NewDecoder, BufferedDecoders
    <2>3. PICK f \in SeenBreaks(e, k), s \in BOOLEAN, a \in ReachesEnd(m, n, l.limit) :
            b = DecodeAll(e, k, m, l, n, f, s, a)
      BY <2>2
    <2> QED
      BY <1>2, <2>1, <2>2, <2>3, DecodeAllIsGood
  <1> QED
    BY <1>3, <1>4, <1>5, <1>6

(***************************************************************************)
(* IInv is an invariant.                                                   *)
(***************************************************************************)
\* The layer and the method an open chooses are the ones the entry asks for.
StackedOn(k, m, l, vc) ==
    /\ (k = "none") <=> (l.kind = "plain")
    /\ l.kind = "plain" => ~entry.encrypted /\ entry.aes = "none"
    /\ l.kind # "plain" => entry.encrypted \/ entry.aes # "none"
    /\ (l.kind = "aes") <=> (entry.aes # "none")
    /\ m = RealMethod
    /\ vc => entry.aes # "AE2"

\* Nothing is a sequence of output bytes.
LEMMA EmptyIsOutput == <<>> \in Seq(Output)
  OBVIOUS

\* What is held when nothing is.
LEMMA NothingHeldIsGood ==
    ASSUME NEW e \in Entries, NEW k
    PROVE  GoodLayer(e, k, NoLayer) /\ GoodDecoder(NoDecoder, NoLayer)
  <1>1. 0 <= Len(e.bytes)
    BY EntryFields
  <1>2. GoodLayer(e, k, NoLayer)
    BY <1>1, NewLayerIsGood DEF NoLayer
  <1>3. GoodDecoder(NoDecoder, NoLayer)
    BY NoDecoderIsGood, EntriesAssumption DEF GoodDecoder
  <1> QED
    BY <1>2, <1>3

\* Refusing, and dropping what is held, leave nothing behind.
LEMMA ReleaseKeeps ==
    ASSUME IInv, NEW k \in {"none", "right", "wrong"}, Fresh,
           st' \in {"idle", "refused"}, key' = k, layer' = NoLayer, dec' = NoDecoder,
           verify_crc' = TRUE
    PROVE  IInv'
  <1>1. /\ entry \in Entries /\ summary \in Summaries
    BY DEF IInv, Typed
  <1>2. /\ entry' = entry /\ summary' = summary /\ hasher' = <<>> /\ delivered' = <<>>
        /\ verified' = FALSE /\ last' = "none" /\ outcome' = "none"
    BY DEF Fresh
  <1>3. Typed'
    BY <1>1, <1>2, EmptyIsOutput DEF Typed
  <1>4. GoodLayer(entry', key', layer') /\ GoodDecoder(dec', layer')
    BY <1>1, <1>2, NothingHeldIsGood
  <1>5. NothingHeld'
    BY <1>2 DEF NothingHeld, NoLayer, NewLayer, NoDecoder, DecoderOf
  <1> QED
    BY <1>2, <1>3, <1>4, <1>5 DEF IInv, GoodLayer, GoodDecoder

\* An open that fails.
LEMMA RefuseKeepsInv ==
    ASSUME IInv, NEW k \in {"none", "right", "wrong"}, Refuse(k)
    PROVE  IInv'
  BY ReleaseKeeps DEF Refuse

\* A decoder over a fresh layer of the entry's own protection.
LEMMA BuildKeeps ==
    ASSUME IInv, NEW k \in {"none", "right", "wrong"}, NEW m \in Methods, NEW l,
           GoodLayer(entry, k, l), l.pos = 0, ~l.done, NEW vc \in BOOLEAN,
           m # "Other" => StackedOn(k, m, l, vc),
           Build(k, m, l, vc)
    PROVE  IInv'
  <1>1. PICK b \in NewDecoder(entry, k, m, l) :
          \/ /\ b.ok /\ st' = "open" /\ key' = k /\ layer' = b.layer /\ dec' = b.dec
             /\ verify_crc' = vc /\ Fresh
          \/ ~b.ok /\ Refuse(k)
    BY DEF Build
  <1>2. CASE Refuse(k)
    BY <1>2, RefuseKeepsInv
  <1>3. CASE /\ b.ok /\ st' = "open" /\ key' = k /\ layer' = b.layer /\ dec' = b.dec
             /\ verify_crc' = vc /\ Fresh
    <2>1. entry \in Entries /\ summary \in Summaries
      BY DEF IInv, Typed
    <2>2. GoodBuild(entry, k, m, l, b)
      BY <1>1, <2>1, NewDecoderIsGood
    <2>3. /\ GoodLayer(entry, k, b.layer) /\ GoodDecoder(b.dec, b.layer)
          /\ b.layer.kind = l.kind /\ b.dec.kind = KindOf(m)
          /\ b.layer.kind = "aes" /\ b.layer.done => b.layer.auth
          /\ b.layer.kind = "aes" /\ m \in ReadToEnd => b.layer.done
      BY <1>3, <2>2 DEF GoodBuild
    <2>4. m # "Other"
      <3>1. ASSUME m = "Other" PROVE FALSE
        <4>1. NewDecoder(entry, k, m, l) = {[ok |-> FALSE, layer |-> l, dec |-> NoDecoder]}
          BY <3>1 DEF NewDecoder, Streaming
        <4> QED
          BY <1>1, <1>3, <4>1
      <3> QED
        BY <3>1
    <2>5. /\ entry' = entry /\ summary' = summary /\ hasher' = <<>> /\ delivered' = <<>>
          /\ verified' = FALSE /\ last' = "none" /\ outcome' = "none"
      BY <1>3 DEF Fresh
    <2>6. Typed'
      BY <1>3, <2>1, <2>5, EmptyIsOutput DEF Typed
    <2>7. RealMethod' = m
      BY <2>4, <2>5 DEF StackedOn, RealMethod
    <2>8. Stacked'
      BY <1>3, <2>3, <2>4, <2>5, <2>7 DEF StackedOn, Stacked, KindOf
    <2>9. AuthInv'
      BY <1>3, <2>3, <2>5, <2>7 DEF AuthInv
    <2>10. EndInv'
      BY <2>5 DEF EndInv
    <2>11. GoodLayer(entry', key', layer') /\ GoodDecoder(dec', layer')
      BY <1>3, <2>3, <2>5
    <2> QED
      BY <1>3, <2>5, <2>6, <2>8, <2>9, <2>10, <2>11 DEF IInv, GoodLayer, GoodDecoder
  <1> QED
    BY <1>1, <1>2, <1>3

\* ZipArchive::open.
LEMMA OpenKeeps == ASSUME IInv, Open PROVE IInv'
  <1>1. entry \in Entries
    BY DEF IInv, Typed
  <1>2. CASE Refuse("none")
    BY <1>2, RefuseKeepsInv
  <1>3. CASE /\ ~entry.encrypted
             /\ Build("none", entry.method, NewLayer("plain", Available(entry)), TRUE)
    <2> DEFINE l == NewLayer("plain", Available(entry))
    <2>1. /\ Available(entry) \in Nat /\ Available(entry) <= Len(entry.bytes)
          /\ entry.method \in Methods
      BY <1>1, EntryFields
    <2>2. GoodLayer(entry, "none", l) /\ l.pos = 0 /\ ~l.done /\ l.kind = "plain"
      <3>1. GoodLayer(entry, "none", l)
        BY <1>1, <2>1, NewLayerIsGood
      <3> QED
        BY <3>1 DEF NewLayer
    <2>3. entry.aes # "none" => entry.method = "Other"
      BY <1>1, EntriesAssumption
    <2> HIDE DEF l
    <2>4. entry.method # "Other" => StackedOn("none", entry.method, l, TRUE)
      BY <1>3, <2>2, <2>3 DEF StackedOn, RealMethod
    <2>5. Build("none", entry.method, l, TRUE)
      BY <1>3 DEF l
    <2> QED
      BY <2>1, <2>2, <2>4, <2>5, BuildKeeps
  <1> QED
    BY <1>2, <1>3 DEF Open

\* The three arms of open_decrypt that decrypt.
LEMMA OpenCodedKeeps ==
    ASSUME IInv, NEW k \in {"right", "wrong"}, entry.encrypted \/ entry.aes # "none",
           \/ entry.aes = "none" /\ OpenStrong(k)
           \/ entry.aes # "none" /\ OpenAes(k)
           \/ entry.aes = "none" /\ OpenZipCrypto(k)
    PROVE  IInv'
  <1>1. entry \in Entries
    BY DEF IInv, Typed
  <1>2. CASE Refuse(k)
    BY <1>2, RefuseKeepsInv
  <1>3. CASE \E kind \in {"zipcrypto", "aes", "strong"}, limit \in Nat, vc \in BOOLEAN :
               /\ limit <= Len(entry.bytes)
               /\ (kind = "aes") <=> (entry.aes # "none")
               /\ vc => entry.aes # "AE2"
               /\ Build(k, RealMethod, NewLayer(kind, limit), vc)
    <2>1. PICK kind \in {"zipcrypto", "aes", "strong"}, limit \in Nat, vc \in BOOLEAN :
               /\ limit <= Len(entry.bytes)
               /\ (kind = "aes") <=> (entry.aes # "none")
               /\ vc => entry.aes # "AE2"
               /\ Build(k, RealMethod, NewLayer(kind, limit), vc)
      BY <1>3
    <2> DEFINE l == NewLayer(kind, limit)
    <2>2. GoodLayer(entry, k, l) /\ l.pos = 0 /\ ~l.done /\ l.kind = kind
      <3>1. GoodLayer(entry, k, l)
        BY <1>1, <2>1, NewLayerIsGood
      <3> QED
        BY <3>1 DEF NewLayer
    <2> HIDE DEF l
    <2>3. StackedOn(k, RealMethod, l, vc)
      BY <2>1, <2>2 DEF StackedOn
    <2>4. RealMethod \in Methods
      BY <1>1, EntryFields DEF RealMethod
    <2>5. Build(k, RealMethod, l, vc)
      BY <2>1 DEF l
    <2> QED
      BY <2>1, <2>2, <2>3, <2>4, <2>5, BuildKeeps
  <1>4. Refuse(k) \/ \E kind \in {"zipcrypto", "aes", "strong"}, limit \in Nat, vc \in BOOLEAN :
               /\ limit <= Len(entry.bytes)
               /\ (kind = "aes") <=> (entry.aes # "none")
               /\ vc => entry.aes # "AE2"
               /\ Build(k, RealMethod, NewLayer(kind, limit), vc)
    <2>1. /\ Available(entry) \in Nat /\ Available(entry) <= Len(entry.bytes)
          /\ StrongLimit(entry, entry.method) \in Nat
          /\ StrongLimit(entry, entry.method) <= Len(entry.bytes)
      BY <1>1, EntryFields
    <2>2. CASE entry.aes = "none" /\ OpenStrong(k)
      <3>1. RealMethod = entry.method
        BY <2>2 DEF RealMethod
      <3> QED
        BY <2>1, <2>2, <3>1 DEF OpenStrong
    <2>3. CASE entry.aes # "none" /\ OpenAes(k)
      <3>1. RealMethod = entry.actual_method /\ (entry.aes = "AE1") \in BOOLEAN
        BY <2>3 DEF RealMethod
      <3> QED
        BY <2>1, <2>3, <3>1 DEF OpenAes
    <2>4. CASE entry.aes = "none" /\ OpenZipCrypto(k)
      <3>1. RealMethod = entry.method
        BY <2>4 DEF RealMethod
      <3> QED
        BY <2>1, <2>4, <3>1 DEF OpenZipCrypto
    <2> QED
      BY <2>2, <2>3, <2>4
  <1> QED
    BY <1>2, <1>3, <1>4

\* ZipArchive::open_decrypt.
LEMMA OpenDecryptKeeps ==
    ASSUME IInv, NEW k \in {"right", "wrong"}, OpenDecrypt(k)
    PROVE  IInv'
  <1>1. CASE Refuse(k)
    BY <1>1, RefuseKeepsInv
  <1>2. CASE Open
    BY <1>2, OpenKeeps
  <1>3. CASE /\ ~(~entry.encrypted /\ entry.aes = "none")
             /\ \/ entry.aes = "none" /\ OpenStrong(k)
                \/ entry.aes # "none" /\ OpenAes(k)
                \/ entry.aes = "none" /\ OpenZipCrypto(k)
    BY <1>3, OpenCodedKeeps
  <1> QED
    BY <1>1, <1>2, <1>3 DEF OpenDecrypt

\* ZipFile::read.
LEMMA ReadKeeps ==
    ASSUME IInv, NEW n \in BufSizes, Read(n)
    PROVE  IInv'
  <1>1. PICK r \in DecoderRead(n) :
        /\ layer' = r.layer
        /\ dec' = r.dec
        /\ \/ /\ r.res = "err"
              /\ last' = "err"
              /\ outcome' = EndsWith("failed")
              /\ UNCHANGED <<hasher, verified, delivered>>
           \/ /\ IsEof(r)
              /\ verified' = TRUE
              /\ last' = IF verified \/ CrcOk THEN "eof" ELSE "err"
              /\ outcome' = EndsWith(IF verified \/ CrcOk THEN "clean" ELSE "failed")
              /\ UNCHANGED <<hasher, delivered>>
           \/ /\ r.res # "err" /\ ~IsEof(r)
              /\ hasher' = HasherUpdate(hasher, r.bytes)
              /\ delivered' = delivered \o r.bytes
              /\ last' = "data"
              /\ UNCHANGED <<verified, outcome>>
    BY DEF Read
  <1>2. /\ st = "open" /\ st' = st /\ entry' = entry /\ summary' = summary /\ key' = key
        /\ verify_crc' = verify_crc
    BY DEF Read
  <1>3. /\ Typed /\ Stacked /\ AuthInv /\ hasher = delivered
        /\ GoodLayer(entry, key, layer) /\ GoodDecoder(dec, layer)
        /\ 0 \notin BufSizes => EndInv
    BY <1>2 DEF IInv
  <1>4. n \in Nat /\ entry \in EntryRecords
    BY <1>3, EntriesAssumption DEF Typed
  <1>5. GoodRead(n, r, layer, dec)
    BY <1>1, <1>3, <1>4, DecoderReadIsGood
  <1>6. /\ r.res \in {"data", "eof", "err"} /\ r.bytes \in Seq(Output)
        /\ GoodLayer(entry, key, r.layer) /\ GoodDecoder(r.dec, r.layer)
        /\ r.layer.kind = layer.kind /\ r.dec.kind = dec.kind
        /\ r.res = "eof" /\ n # 0 => Ended(entry, key, r.layer, r.dec)
        /\ Ended(entry, key, layer, dec) => r.res = "eof"
        /\ r.layer.done => r.layer.auth \/ r.res = "err" \/ layer.done
        /\ layer.done => r.layer.done /\ r.layer.auth = layer.auth
        /\ dec.kind = "Stored" /\ layer.kind = "aes" /\ r.res = "eof" => r.layer.done
    BY <1>5 DEF GoodRead
  <1>7. hasher' = delivered' /\ hasher' \in Seq(Output)
    <2>1. hasher \in Seq(Output)
      BY <1>3 DEF Typed
    <2>2. hasher \o r.bytes \in Seq(Output)
      BY <2>1, <1>6
    <2> QED
      BY <1>1, <1>3, <2>1, <2>2 DEF HasherUpdate
  <1>8. outcome' \in {"none", "clean", "failed"} /\ (outcome # "none" => outcome' = outcome)
        /\ verified' \in BOOLEAN /\ last' \in {"none", "data", "eof", "err"}
    BY <1>1, <1>3 DEF Typed, EndsWith
  <1>9. Typed'
    BY <1>2, <1>3, <1>7, <1>8 DEF Typed
  <1>10. Stacked'
    BY <1>1, <1>2, <1>3, <1>6 DEF Stacked, RealMethod, KindOf
  <1>11. AuthInv'
    <2>1. r.res = "err" => outcome' = "failed" \/ outcome = "clean"
      BY <1>1, <1>3 DEF EndsWith, IsEof, Typed
    <2>2. outcome' = "clean" => outcome = "clean" \/ r.res = "eof"
      BY <1>1, <1>3 DEF EndsWith, IsEof, Typed
    <2>3. RealMethod' = RealMethod
      BY <1>2 DEF RealMethod
    <2> QED
      <3> SUFFICES ASSUME layer.kind = "aes", dec.kind # "Streaming"
                   PROVE  /\ r.layer.done => r.layer.auth \/ outcome' = "failed"
                          /\ dec.kind = "Stored" /\ outcome' = "clean" => r.layer.done
                          /\ RealMethod \in ReadToEnd => r.layer.done
        BY <1>1, <1>6, <2>3 DEF AuthInv
      <3>1. /\ layer.done => layer.auth \/ outcome = "failed"
            /\ dec.kind = "Stored" /\ outcome = "clean" => layer.done
            /\ RealMethod \in ReadToEnd => layer.done
        BY <1>3 DEF AuthInv
      <3>2. CASE layer.done
        BY <1>6, <1>8, <3>1, <3>2
      <3>3. CASE ~layer.done
        <4>1. dec.kind = "Stored" => outcome # "clean"
          BY <3>1, <3>3
        <4>2. dec.kind = "Buffered" => r.layer = layer
          <5>1. ASSUME dec.kind = "Buffered" PROVE r.layer = layer
            <6>1. r \in BufferedRead(n)
              BY <1>1, <5>1 DEF DecoderRead
            <6> QED
              BY <6>1 DEF BufferedRead, Result
          <5> QED
            BY <5>1
        <4>3. dec.kind \in {"Stored", "Buffered"}
          BY <1>3 DEF GoodDecoder, Decoders
        <4> QED
          BY <1>6, <2>1, <2>2, <3>1, <3>3, <4>1, <4>2, <4>3
      <3> QED
        BY <3>2, <3>3
  <1>12. ASSUME 0 \notin BufSizes PROVE EndInv'
    <2>1. n # 0 /\ EndInv
      BY <1>3, <1>12
    <2>2. CASE outcome = "clean"
      <3>1. r.res = "eof" /\ verified
        BY <1>6, <2>1, <2>2 DEF EndInv
      <3>2. verified' = TRUE /\ delivered' = delivered /\ outcome' = "clean"
        BY <1>1, <1>8, <2>2, <3>1 DEF IsEof
      <3> QED
        BY <1>1, <1>2, <1>6, <2>1, <2>2, <3>1, <3>2 DEF EndInv
    <2>3. CASE outcome # "clean" /\ r.res = "eof"
      <3>1. /\ verified' = TRUE /\ delivered' = delivered
            /\ outcome' = EndsWith(IF verified \/ CrcOk THEN "clean" ELSE "failed")
        BY <1>1, <2>3 DEF IsEof
      <3>2. outcome' # "none"
        BY <3>1 DEF EndsWith
      <3>3. outcome' = "clean" => CrcOk
        BY <2>1, <2>3, <3>1 DEF EndsWith, EndInv
      <3>4. outcome' = "clean" /\ verify_crc => delivered = entry.crc32
        BY <1>3, <3>3 DEF CrcOk
      <3> QED
        BY <1>1, <1>2, <1>6, <2>1, <2>3, <3>1, <3>2, <3>4 DEF EndInv
    <2>4. CASE outcome # "clean" /\ r.res # "eof"
      <3>1. outcome' # "clean" /\ verified' = verified
        BY <1>1, <2>4 DEF EndsWith, IsEof
      <3> QED
        BY <1>8, <2>1, <3>1 DEF EndInv
    <2> QED
      BY <2>2, <2>3, <2>4
  <1>13. GoodLayer(entry', key', layer') /\ GoodDecoder(dec', layer')
    BY <1>1, <1>2, <1>6
  <1> QED
    BY <1>2, <1>7, <1>9, <1>10, <1>11, <1>12, <1>13 DEF IInv, GoodLayer, GoodDecoder

\* IInv holds at the start.
LEMMA InitIsGood == Init => IInv
  <1> SUFFICES ASSUME Init PROVE IInv
    OBVIOUS
  <1>1. Typed /\ hasher = delivered /\ st # "open"
    BY EmptyIsOutput DEF Init, Typed
  <1>2. GoodLayer(entry, key, layer) /\ GoodDecoder(dec, layer)
    BY NothingHeldIsGood DEF Init
  <1>3. NothingHeld
    BY DEF Init, NothingHeld
  <1> QED
    BY <1>1, <1>2, <1>3 DEF IInv

\* Every step keeps IInv.
LEMMA NextKeeps == IInv /\ [Next]_vars => IInv'
  <1> SUFFICES ASSUME IInv, [Next]_vars PROVE IInv'
    OBVIOUS
  <1>1. CASE by_index
    BY <1>1, OpenKeeps DEF by_index
  <1>2. CASE \E k \in {"right", "wrong"} : by_index_decrypt(k)
    BY <1>2, OpenDecryptKeeps DEF by_index_decrypt
  <1>3. CASE \E n \in BufSizes : Read(n)
    BY <1>3, ReadKeeps
  <1>4. CASE Drop
    BY <1>4, ReleaseKeeps DEF Drop
  <1>5. CASE UNCHANGED vars
    BY <1>5 DEF vars, IInv, Typed, GoodLayer, GoodDecoder, Stacked, AuthInv, EndInv,
                NothingHeld, RealMethod, KindOf, Ended, StaysAtEnd, RunsOut
  <1> QED
    BY <1>1, <1>2, <1>3, <1>4, <1>5 DEF Next

\* The inductive invariant: the layer and the decoder agree on how far they are,
\* the stack is the one the entry asks for, and an end is final.
THEOREM Invariant == Spec => []IInv
  BY InitIsGood, NextKeeps, PTL DEF Spec

\* Every variable keeps its type, and no one-shot codec's output is larger than
\* MAX_BUFFERED_DECODE, for all entries and caps.
THEOREM TypeCorrect == Spec => []TypeOK
  <1>1. IInv => TypeOK
    <2> SUFFICES ASSUME IInv PROVE TypeOK
      OBVIOUS
    <2>1. /\ Typed /\ hasher = delivered /\ layer \in Layers /\ dec \in Decoders
          /\ Len(dec.queue) <= MaxBuffered
      BY DEF IInv, GoodLayer, GoodDecoder
    <2> QED
      BY <2>1, EntriesAssumption DEF TypeOK, Typed
  <1> QED
    BY <1>1, Invariant, PTL

\* AesReader::finish: for all entries, keys and buffer sizes, an AES entry whose
\* decoder reads its input to the end ends cleanly only after its auth code was
\* compared and matched.
THEOREM CleanMeansAuthentic == Spec => []AuthenticatedAtEof
  <1>1. IInv => AuthenticatedAtEof
    <2> SUFFICES ASSUME IInv, outcome = "clean", layer.kind = "aes",
                        RealMethod \in {"Stored"} \union ReadToEnd
                 PROVE  layer.auth /\ entry.authentic /\ key = "right"
      BY DEF AuthenticatedAtEof
    <2>1. st = "open"
      BY DEF IInv, NothingHeld
    <2>2. Stacked /\ AuthInv
      BY <2>1 DEF IInv
    <2>3. dec.kind # "Streaming" /\ (dec.kind = "Stored" \/ RealMethod \in ReadToEnd)
      BY <2>2 DEF Stacked, KindOf, ReadToEnd, Streaming
    <2>4. layer.auth
      BY <2>2, <2>3 DEF AuthInv
    <2> QED
      BY <2>4 DEF IInv, GoodLayer
  <1> QED
    BY <1>1, Invariant, PTL

\* ZipFile::read: for all entries, and all the ways a caller may cut up its
\* reads without passing an empty buffer, what a clean end delivered is what the
\* CRC in force was taken of.
THEOREM CleanIsVerified == 0 \notin BufSizes => (Spec => []CleanMeansVerified)
  <1> SUFFICES ASSUME 0 \notin BufSizes PROVE Spec => []CleanMeansVerified
    OBVIOUS
  <1>1. IInv => CleanMeansVerified
    <2> SUFFICES ASSUME IInv, outcome = "clean", verify_crc PROVE delivered = entry.crc32
      BY DEF CleanMeansVerified
    <2>1. st = "open"
      BY DEF IInv, NothingHeld
    <2> QED
      BY <2>1 DEF IInv, EndInv
  <1> QED
    BY <1>1, Invariant, PTL

\* For all entries and buffer sizes but 0: once a ZipFile's reading has ended
\* cleanly, every later read returns Ok(0) again and delivers nothing.
THEOREM EndIsFinal == 0 \notin BufSizes => (Spec => EofIsFinal)
  <1> SUFFICES ASSUME 0 \notin BufSizes PROVE Spec => EofIsFinal
    OBVIOUS
  <1>1. IInv /\ [Next]_vars =>
          [outcome = "clean" /\ st' = "open" => delivered' = delivered /\ last' = "eof"]_vars
    <2> SUFFICES ASSUME IInv, Next, outcome = "clean", st' = "open"
                 PROVE  delivered' = delivered /\ last' = "eof"
      OBVIOUS
    <2>1. st = "open" /\ EndInv
      BY DEF IInv, NothingHeld
    <2>2. PICK n \in BufSizes : Read(n)
      BY <2>1 DEF Next, by_index, by_index_decrypt, Drop
    <2>3. PICK r \in DecoderRead(n) :
           \/ r.res = "err"
           \/ /\ r.res = "eof" /\ delivered' = delivered
              /\ last' = IF verified \/ CrcOk THEN "eof" ELSE "err"
           \/ r.res # "err" /\ r.res # "eof"
      BY <2>2 DEF Read, IsEof
    <2>4. GoodRead(n, r, layer, dec)
      <3>1. /\ GoodLayer(entry, key, layer) /\ GoodDecoder(dec, layer)
            /\ n \in Nat /\ entry \in EntryRecords
        BY EntriesAssumption DEF IInv, Typed
      <3> QED
        BY <2>3, <3>1, DecoderReadIsGood
    <2>5. r.res = "eof" /\ verified
      BY <2>1, <2>4 DEF GoodRead, EndInv
    <2> QED
      BY <2>3, <2>5
  <1> QED
    BY <1>1, Invariant, PTL DEF Spec, EofIsFinal

(***************************************************************************)
(* An undamaged entry.                                                     *)
(***************************************************************************)
Fit == Intact /\ (key = "right" \/ (~entry.encrypted /\ entry.aes = "none"))

\* The length of the plaintext.
PlainLen == IF RealMethod = "Stored" THEN entry.uncompressed_size ELSE entry.need

\* How many bytes have been delivered, as the layer and the decoder count them.
Progress(l, d) ==
    CASE d.kind = "Stored"    -> l.pos
      [] d.kind = "Streaming" -> d.consumed
      [] d.kind = "Buffered"  -> entry.need - Len(d.queue)

\* The layer gives the whole span, and the decoder stands before its end mark.
FitStack(l, d) ==
    /\ l.limit = IF RealMethod = "Stored" THEN entry.uncompressed_size ELSE Len(entry.bytes)
    /\ d.kind = "Streaming" =>
          d.need = entry.need /\ ~d.breaks /\ d.consumed <= entry.need
    /\ d.kind = "Buffered" =>
          /\ Len(d.queue) <= entry.need
          /\ \A j \in 1..Len(d.queue) :
                d.queue[j] = entry.bytes[entry.need - Len(d.queue) + j]

\* What was delivered is the plaintext up to where the decoder stands.
FitInv ==
    Fit =>
        /\ st # "refused"
        /\ outcome # "failed"
        /\ outcome = "clean" => delivered = Plaintext
        /\ st = "open" =>
              /\ FitStack(layer, dec)
              /\ delivered = SubSeq(entry.bytes, 1, Progress(layer, dec))

\* A writer's decryption header passes the checks of read_strong_header.
LEMMA WellFormedIsAccepted ==
    ASSUME NEW h \in Headers, WellFormed(h) PROVE read_strong_header(h)
  <1>1. /\ h.rem_size \in Nat /\ h.rd_size \in Nat /\ h.valid_size \in Nat /\ h.alg \in Nat
        /\ h.bit_len \in Nat /\ h.rd_size < 65536 /\ h.valid_size < 65536
    BY DEF Headers, U16
  <1>2. /\ h.rd_size > 0 /\ h.valid_size > 0 /\ h.rd_size % 16 = 0 /\ h.valid_size % 16 = 0
        /\ h.rem_size = 16 + h.rd_size + h.valid_size
        /\ h.iv_size \in {0, 16} /\ h.format = 3 /\ h.password /\ h.reserved = 0
        /\ ~h.triple_des /\ ~h.certificate
        /\ <<h.alg, h.bit_len>> \in {<<26126, 128>>, <<26127, 192>>, <<26128, 256>>}
    BY DEF WellFormed
  <1>3. h.rd_size >= 16 /\ h.valid_size >= 16
    BY <1>1, <1>2
  <1>4. \/ h.alg = 26126 /\ h.bit_len = 128
        \/ h.alg = 26127 /\ h.bit_len = 192
        \/ h.alg = 26128 /\ h.bit_len = 256
    BY <1>2
  <1>5. FixedAccepted(h)
    BY <1>1, <1>2, <1>4 DEF FixedAccepted, key_size, ALG_AES128
  <1>6. IvAccepted(h) /\ RemAccepted(h)
    BY <1>1, <1>2 DEF IvAccepted, RemAccepted, MAX_STRONG_REM
  <1>7. ErdAccepted(h)
    BY <1>1, <1>2, <1>3 DEF ErdAccepted, AES_BLOCK
  <1>8. ValidAccepted(h)
    BY <1>1, <1>2, <1>3 DEF ValidAccepted, valid_off, reserved_off, AES_BLOCK
  <1> QED
    BY <1>2, <1>5, <1>6, <1>7, <1>8 DEF read_strong_header, parse_strong_layout

\* What Intact says whatever layer its plaintext was read through.
Whole ==
    /\ check_local_disk(entry, summary)
    /\ entry.readable /\ entry.header_ok /\ WellFormed(entry.header) /\ entry.authentic
    /\ entry.check_byte = (IF entry.descriptor THEN "time" ELSE "crc")
    /\ Available(entry) = Len(entry.bytes)
    /\ entry.need <= Len(entry.bytes)
    /\ entry.uncompressed_size <= Len(entry.bytes)
    /\ ~entry.breaks
    /\ ~(entry.masked /\ (entry.encrypted \/ entry.aes # "none"))
    /\ RealMethod # "Other"
    /\ RealMethod # "Stored" => entry.uncompressed_size = entry.need
    /\ KindOf(RealMethod) = "Buffered" => entry.need <= MaxBuffered

\* Facts of an undamaged entry that its plaintext's length is part of.
Sized ==
    /\ Plaintext = SubSeq(entry.bytes, 1, PlainLen)
    /\ RealMethod = "Stored" /\ layer.kind # "strong" =>
          entry.uncompressed_size = Len(entry.bytes)
    /\ entry.aes # "AE2" => entry.crc32 = Plaintext

\* Intact, taken apart.
LEMMA IntactIsWhole == entry \in Entries /\ Intact => Whole /\ Sized
  <1> SUFFICES ASSUME entry \in Entries, Intact PROVE Whole /\ Sized
    OBVIOUS
  <1>1. /\ entry.bytes \in Seq(Byte) /\ Len(entry.bytes) \in Nat /\ entry.need \in Nat
        /\ entry.uncompressed_size \in Nat /\ entry.present \in Nat
    BY EntryFields
  <1> DEFINE n == IF RealMethod # "Stored" THEN entry.need
                  ELSE IF layer.kind = "strong" THEN entry.uncompressed_size
                  ELSE Len(entry.bytes)
  <1>2. Plaintext = SubSeq(entry.bytes, 1, n)
    BY DEF Plaintext
  <1>3. /\ check_local_disk(entry, summary)
        /\ entry.readable /\ entry.header_ok /\ WellFormed(entry.header) /\ entry.authentic
        /\ entry.check_byte = (IF entry.descriptor THEN "time" ELSE "crc")
        /\ entry.present >= Len(entry.bytes)
        /\ entry.need <= Len(entry.bytes)
        /\ entry.uncompressed_size <= Len(entry.bytes)
        /\ ~entry.breaks
        /\ ~(entry.masked /\ (entry.encrypted \/ entry.aes # "none"))
        /\ RealMethod # "Other"
        /\ entry.uncompressed_size = Len(Plaintext)
        /\ RealMethod \notin Streaming \union {"Stored"} => Len(Plaintext) <= MaxBuffered
        /\ entry.aes # "AE2" => entry.crc32 = Plaintext
    BY DEF Intact
  <1>4. n \in Nat /\ n <= Len(entry.bytes)
    BY <1>1, <1>3
  <1>5. Len(SubSeq(entry.bytes, 1, n)) = n
    <2> HIDE DEF n
    <2> QED
      BY <1>1, <1>4
  <1>6. n = entry.uncompressed_size
    BY <1>2, <1>3, <1>5
  <1>7. Available(entry) = Len(entry.bytes)
    BY <1>1, <1>3 DEF Available, MinOf
  <1>8. RealMethod # "Stored" => entry.uncompressed_size = entry.need
    BY <1>6
  <1>9. KindOf(RealMethod) = "Buffered" => entry.need <= MaxBuffered
    <2>1. KindOf(RealMethod) = "Buffered" => RealMethod \notin Streaming \union {"Stored"}
      BY DEF KindOf
    <2> QED
      BY <1>3, <1>8, <2>1
  <1>10. Whole
    BY <1>3, <1>7, <1>8, <1>9 DEF Whole
  <1>11. n = PlainLen
    BY <1>6 DEF PlainLen
  <1> QED
    BY <1>2, <1>3, <1>6, <1>10, <1>11 DEF Sized

\* The end of the span is reached without an error.
LEMMA FitEnds ==
    ASSUME entry \in Entries, Whole, NEW k \in {"none", "right"}, NEW l, GoodLayer(entry, k, l),
           l.kind = "aes" => k = "right" /\ entry.aes # "none",
           l.kind = "strong" => entry.aes = "none",
           l.limit = IF RealMethod = "Stored" THEN entry.uncompressed_size ELSE Len(entry.bytes),
           l.kind # "strong" => l.limit = Len(entry.bytes),
           AtEnd(l)
    PROVE  LayerEnd(entry, k, l).ok
  <1>1. /\ l.pos \in Nat /\ l.limit \in Nat /\ l.pos = l.limit /\ Len(entry.bytes) \in Nat
        /\ entry.uncompressed_size \in Nat /\ l \in Layers
    BY EntryFields DEF GoodLayer, Layers, AtEnd
  <1>2. CASE l.kind = "aes"
    <2>1. Remaining(entry, l) = 0
      BY <1>1, <1>2 DEF Remaining
    <2>2. entry.authentic /\ k = "right"
      BY <1>2 DEF Whole
    <2>3. ~l.done => l.codes = 1
      BY DEF GoodLayer
    <2>4. LayerEnd(entry, k, l) = AesEnd(entry, k, l)
      BY <1>2 DEF LayerEnd
    <2>5. CASE l.done
      BY <2>1, <2>4, <2>5 DEF AesEnd
    <2>6. CASE ~l.done
      <3> DEFINE matches == l.codes = 1 /\ entry.authentic /\ k = "right"
      <3>1. AesEnd(entry, k, l) = [ok |-> matches, layer |-> finish(l, matches)]
        BY <2>1, <2>6 DEF AesEnd
      <3>2. matches
        BY <2>2, <2>3, <2>6
      <3> HIDE DEF matches
      <3> QED
        BY <2>4, <3>1, <3>2
    <2> QED
      BY <2>5, <2>6
  <1>3. CASE l.kind = "strong"
    <2>1. LayerEnd(entry, k, l) = StrongEnd(entry, l)
      BY <1>3 DEF LayerEnd
    <2>2. RealMethod = entry.method
      BY <1>3 DEF RealMethod
    <2> DEFINE ended == (entry.method = "Stored" /\ l.pos >= entry.uncompressed_size)
                          \/ Remaining(entry, l) = 0
    <2>3. StrongEnd(entry, l) = [ok |-> ended, layer |-> l]
      BY DEF StrongEnd
    <2>4. ended
      <3>1. CASE RealMethod = "Stored"
        BY <1>1, <2>2, <3>1
      <3>2. CASE RealMethod # "Stored"
        BY <1>1, <3>2 DEF Remaining
      <3> QED
        BY <3>1, <3>2
    <2> HIDE DEF ended
    <2> QED
      BY <2>1, <2>3, <2>4
  <1>4. CASE l.kind \notin {"aes", "strong"}
    BY <1>4 DEF LayerEnd
  <1> QED
    BY <1>2, <1>3, <1>4

\* A layer over an undamaged entry, not yet read.
FitLayer(k, l) ==
    /\ GoodLayer(entry, k, l)
    /\ l.pos = 0 /\ ~l.done
    /\ l.kind = "aes" => k = "right" /\ entry.aes # "none"
    /\ l.kind = "strong" => entry.aes = "none"
    /\ l.limit = IF RealMethod = "Stored" THEN entry.uncompressed_size ELSE Len(entry.bytes)
    /\ l.kind # "strong" => l.limit = Len(entry.bytes)

\* An undamaged entry's decoder is built, and stands at its start.
LEMMA FitBuild ==
    ASSUME entry \in Entries, Whole, NEW k \in {"none", "right"}, NEW l, FitLayer(k, l),
           NEW b \in NewDecoder(entry, k, RealMethod, l)
    PROVE  b.ok = TRUE /\ FitStack(b.layer, b.dec) /\ Progress(b.layer, b.dec) = 0
  <1>1. /\ entry.bytes \in Seq(Byte) /\ Len(entry.bytes) \in Nat /\ entry.need \in Nat
        /\ entry.uncompressed_size \in Nat /\ RealMethod \in Methods /\ entry \in EntryRecords
        /\ MaxBuffered \in Nat
    BY EntryFields, EntriesAssumption DEF RealMethod
  <1>2. SeenNeed(entry, k) = {entry.need} /\ SeenBreaks(entry, k) = {FALSE}
    BY <1>1, EntryFields DEF SeenNeed, SeenBreaks, Whole
  <1>3. CASE RealMethod = "Stored"
    <2>1. b = [ok |-> TRUE, layer |-> l, dec |-> NoDecoder]
      BY <1>3 DEF NewDecoder, Streaming
    <2>2. NoDecoder.kind = "Stored"
      BY NoDecoderIsGood
    <2> QED
      BY <1>3, <2>1, <2>2 DEF FitStack, Progress, FitLayer
  <1>4. CASE RealMethod \in Streaming
    <2>1. PICK s \in BOOLEAN :
            b = [ok |-> TRUE, layer |-> l, dec |-> DecoderOf("Streaming", entry.need, FALSE, s, <<>>)]
      <3>1. NewDecoder(entry, k, RealMethod, l) = StreamingDecoders(entry, k, l)
        BY <1>4 DEF NewDecoder, Streaming
      <3>2. PICK n \in SeenNeed(entry, k), f \in SeenBreaks(entry, k), s \in BOOLEAN :
              b = [ok |-> TRUE, layer |-> l, dec |-> DecoderOf("Streaming", n, f, s, <<>>)]
        BY <3>1 DEF StreamingDecoders
      <3>3. n = entry.need /\ f = FALSE
        BY <1>2, <3>2
      <3> QED
        BY <3>2, <3>3
    <2> DEFINE d == DecoderOf("Streaming", entry.need, FALSE, s, <<>>)
    <2>2. d.kind = "Streaming" /\ d.need = entry.need /\ d.breaks = FALSE /\ d.consumed = 0
      BY DEF DecoderOf
    <2>3. b.ok = TRUE /\ b.layer = l /\ b.dec = d
      BY <2>1
    <2> HIDE DEF d
    <2>4. RealMethod # "Stored"
      BY <1>4 DEF Streaming
    <2> QED
      BY <1>1, <2>2, <2>3, <2>4 DEF FitStack, Progress, FitLayer
  <1>5. CASE RealMethod \notin {"Stored", "Other"} \union Streaming
    <2>1. PICK s \in BOOLEAN, a \in BOOLEAN :
            b = DecodeAll(entry, k, RealMethod, l, entry.need, FALSE, s, a)
      <3>1. NewDecoder(entry, k, RealMethod, l) = BufferedDecoders(entry, k, RealMethod, l)
        BY <1>5 DEF NewDecoder
      <3>2. PICK n \in SeenNeed(entry, k) :
              b \in { DecodeAll(entry, k, RealMethod, l, n, f, s, a) :
                      f \in SeenBreaks(entry, k), s \in BOOLEAN,
                      a \in ReachesEnd(RealMethod, n, l.limit) }
        BY <3>1 DEF BufferedDecoders
      <3>3. PICK f \in SeenBreaks(entry, k), s \in BOOLEAN, a \in ReachesEnd(RealMethod, n, l.limit) :
              b = DecodeAll(entry, k, RealMethod, l, n, f, s, a)
        BY <3>2
      <3>4. n = entry.need /\ f = FALSE
        BY <1>2, <3>2, <3>3
      <3>5. a \in BOOLEAN
        BY <3>3 DEF ReachesEnd
      <3> QED
        BY <3>3, <3>4, <3>5
    <2>2. /\ l.limit = Len(entry.bytes) /\ entry.need <= Len(entry.bytes)
          /\ entry.uncompressed_size = entry.need /\ entry.need <= MaxBuffered
      BY <1>5 DEF FitLayer, Whole, KindOf
    <2> DEFINE n   == MinOf(entry.need, l.limit)
               out == IF RealMethod = "Lzma" THEN MinOf(n, entry.uncompressed_size) ELSE n
               end == IF a THEN LayerEnd(entry, k, Pulled(l, l.limit))
                           ELSE [ok |-> TRUE, layer |-> Pulled(l, n)]
               q   == Units(entry, k, 0, out)
               d   == DecoderOf("Buffered", entry.need, FALSE, FALSE, q)
    <2>3. n = entry.need /\ out = entry.need
      BY <1>1, <2>2 DEF MinOf
    <2>4. end.ok = TRUE /\ end.layer.limit = l.limit
      <3>1. l \in Layers /\ l.limit \in Nat /\ GoodLayer(entry, k, l) /\ l.pos = 0
        BY DEF FitLayer, GoodLayer, Layers
      <3>2. CASE a
        <4> DEFINE p == Pulled(l, l.limit)
        <4>1. GoodLayer(entry, k, p) /\ p.kind = l.kind /\ p.limit = l.limit /\ p.pos = l.limit
          BY <1>1, <3>1, PulledIsGood
        <4> HIDE DEF p
        <4>2. GoodEnd(entry, k, p, LayerEnd(entry, k, p))
          BY <1>1, <4>1, LayerEndIsGood
        <4>3. LayerEnd(entry, k, p).ok
          BY <3>1, <4>1, FitEnds DEF FitLayer, AtEnd
        <4>4. end = LayerEnd(entry, k, p)
          BY <3>2 DEF p
        <4> HIDE DEF end
        <4> QED
          BY <4>1, <4>2, <4>3, <4>4 DEF GoodEnd
      <3>3. CASE ~a
        <4>1. Pulled(l, n).limit = l.limit
          BY <1>1, <2>2, <2>3, <3>1, PulledIsGood
        <4> QED
          BY <3>3, <4>1
      <3> QED
        BY <3>2, <3>3
    <2>5. q \in Seq(Output) /\ Len(q) = entry.need
      BY <1>1, <2>2, <2>3, UnitsAreOutput
    <2>6. \A j \in 1..entry.need : q[j] = entry.bytes[j]
      BY <1>1, <2>3 DEF Units
    <2>7. b.ok = (/\ end.ok
                  /\ IF entry.need > l.limit THEN ~s ELSE ~FALSE
                  /\ RealMethod = "Lzma" => out = entry.uncompressed_size
                  /\ WithinCap(out))
          /\ b.layer = end.layer /\ b.dec = d
      BY <2>1 DEF DecodeAll
    <2>8. d.kind = "Buffered" /\ d.queue = q
      BY DEF DecoderOf
    <2> HIDE DEF n, out, end, q, d
    <2>9. b.ok = TRUE
      BY <1>1, <2>2, <2>3, <2>4, <2>7 DEF WithinCap
    <2>10. FitStack(b.layer, b.dec)
      <3>1. \A j \in 1..entry.need : q[j] = entry.bytes[entry.need - entry.need + j]
        BY <1>1, <2>6
      <3> QED
        BY <1>1, <1>5, <2>2, <2>4, <2>5, <2>7, <2>8, <3>1 DEF FitStack
    <2>11. Progress(b.layer, b.dec) = 0
      BY <1>1, <2>5, <2>7, <2>8 DEF Progress
    <2> QED
      BY <2>9, <2>10, <2>11
  <1>6. RealMethod # "Other"
    BY DEF Whole
  <1> QED
    BY <1>3, <1>4, <1>5, <1>6

\* The same of the state behind a step.
LEMMA IntactIsWholeNext == (entry \in Entries /\ Intact => Whole /\ Sized)'
  BY IntactIsWhole, PTL

\* Fit reads the layer only for which protection it is.
LEMMA FitIsStable ==
    ASSUME entry' = entry, summary' = summary, key' = key, layer'.kind = layer.kind
    PROVE  (Fit' <=> Fit) /\ Plaintext' = Plaintext
  <1>1. RealMethod' = RealMethod
    BY DEF RealMethod
  <1>2. Plaintext' = Plaintext
    BY <1>1 DEF Plaintext
  <1>3. Intact' <=> Intact
    BY <1>1, <1>2 DEF Intact, check_local_disk
  <1> QED
    BY <1>2, <1>3 DEF Fit

\* Whole does not read the layer at all.
LEMMA FitIsWhole ==
    ASSUME entry \in Entries, entry' = entry, summary' = summary, Fit'
    PROVE  /\ Whole
           /\ RealMethod = "Stored" /\ layer'.kind # "strong" =>
                 entry.uncompressed_size = Len(entry.bytes)
           /\ key' = "right" \/ (~entry.encrypted /\ entry.aes = "none")
  <1>1. RealMethod' = RealMethod
    BY DEF RealMethod
  <1>2. Intact'
    BY DEF Fit
  <1>3. Whole' /\ Sized'
    BY <1>2, IntactIsWholeNext
  <1>4. Whole
    BY <1>1, <1>3 DEF Whole, check_local_disk, Available, KindOf
  <1>5. RealMethod = "Stored" /\ layer'.kind # "strong" =>
          entry.uncompressed_size = Len(entry.bytes)
    BY <1>1, <1>3 DEF Sized
  <1> QED
    BY <1>4, <1>5 DEF Fit

\* The new ZipFile of an undamaged entry stands at its start.
LEMMA FitOpened ==
    ASSUME entry \in Entries, Whole, NEW k \in {"none", "right"}, NEW l, FitLayer(k, l),
           NEW vc, Build(k, RealMethod, l, vc)
    PROVE  FitInv'
  <1>1. PICK b \in NewDecoder(entry, k, RealMethod, l) :
          \/ /\ b.ok /\ st' = "open" /\ key' = k /\ layer' = b.layer /\ dec' = b.dec
             /\ verify_crc' = vc /\ Fresh
          \/ ~b.ok /\ Refuse(k)
    BY DEF Build
  <1>2. b.ok = TRUE /\ FitStack(b.layer, b.dec) /\ Progress(b.layer, b.dec) = 0
    BY <1>1, FitBuild
  <1>3. st' = "open" /\ layer' = b.layer /\ dec' = b.dec /\ Fresh
    BY <1>1, <1>2
  <1>4. entry' = entry /\ delivered' = <<>> /\ outcome' = "none"
    BY <1>3 DEF Fresh
  <1>5. RealMethod' = RealMethod
    BY <1>4 DEF RealMethod
  <1>6. FitStack(layer, dec)'
    BY <1>2, <1>3, <1>4, <1>5 DEF FitStack
  <1>7. Progress(layer, dec)' = 0
    BY <1>2, <1>3, <1>4 DEF Progress
  <1>8. SubSeq(entry.bytes, 1, 0) = <<>>
    <2>1. entry.bytes \in Seq(Byte)
      BY EntryFields
    <2> QED
      BY <2>1
  <1> QED
    BY <1>3, <1>4, <1>6, <1>7, <1>8 DEF FitInv

\* Building a decoder keeps the layer's kind.
LEMMA BuildKind ==
    ASSUME entry \in Entries, NEW k, NEW m \in Methods, NEW l, GoodLayer(entry, k, l),
           l.pos = 0, ~l.done, NEW vc, Build(k, m, l, vc)
    PROVE  /\ entry' = entry /\ summary' = summary /\ key' = k
           /\ layer'.kind = l.kind \/ layer'.kind = "plain"
  <1>1. PICK b \in NewDecoder(entry, k, m, l) :
          \/ /\ b.ok /\ st' = "open" /\ key' = k /\ layer' = b.layer /\ dec' = b.dec
             /\ verify_crc' = vc /\ Fresh
          \/ ~b.ok /\ Refuse(k)
    BY DEF Build
  <1>2. entry' = entry /\ summary' = summary /\ key' = k
    BY BuildResolves
  <1>3. CASE Refuse(k)
    <2>1. layer' = NoLayer
      BY <1>3 DEF Refuse
    <2> QED
      BY <1>2, <2>1 DEF NoLayer, NewLayer
  <1>4. CASE b.ok /\ layer' = b.layer
    <2>1. GoodBuild(entry, k, m, l, b)
      BY <1>1, NewDecoderIsGood
    <2> QED
      BY <1>2, <1>4, <2>1 DEF GoodBuild
  <1> QED
    BY <1>1, <1>3, <1>4

\* A layer over an undamaged entry gives all of it.
LEMMA FitNewLayer ==
    ASSUME entry \in Entries, Whole, NEW k \in {"none", "right"},
           NEW kind \in {"plain", "zipcrypto", "aes", "strong"},
           NEW limit, limit = IF kind = "strong" THEN StrongLimit(entry, entry.method)
                              ELSE Available(entry),
           kind = "aes" => k = "right" /\ entry.aes # "none",
           kind = "strong" => entry.aes = "none",
           RealMethod = "Stored" /\ kind # "strong" =>
              entry.uncompressed_size = Len(entry.bytes)
    PROVE  FitLayer(k, NewLayer(kind, limit))
  <1> DEFINE l == NewLayer(kind, limit)
  <1>1. /\ Available(entry) = Len(entry.bytes) /\ entry.uncompressed_size <= Len(entry.bytes)
        /\ Len(entry.bytes) \in Nat /\ entry.uncompressed_size \in Nat
    BY EntryFields DEF Whole
  <1>2. limit = IF RealMethod = "Stored" THEN entry.uncompressed_size ELSE Len(entry.bytes)
    BY <1>1 DEF StrongLimit, MinOf, RealMethod
  <1>3. limit \in Nat /\ limit <= Len(entry.bytes) /\ (kind # "strong" => limit = Len(entry.bytes))
    BY <1>1, <1>2
  <1>4. GoodLayer(entry, k, l)
    BY <1>3, NewLayerIsGood
  <1>5. l.pos = 0 /\ ~l.done /\ l.kind = kind /\ l.limit = limit
    BY DEF NewLayer
  <1> HIDE DEF l
  <1> QED
    BY <1>2, <1>3, <1>4, <1>5 DEF FitLayer, l

\* ZipArchive::open of an undamaged, unencrypted entry.
LEMMA FitOpen == ASSUME IInv, Open PROVE FitInv'
  <1> SUFFICES ASSUME Fit' PROVE FitInv'
    BY DEF FitInv
  <1> DEFINE l == NewLayer("plain", Available(entry))
  <1>1. entry \in Entries
    BY DEF IInv, Typed
  <1>2. Refuse("none") \/ Build("none", entry.method, l, TRUE)
    BY DEF Open
  <1>3. entry' = entry /\ summary' = summary /\ key' = "none"
    <2>1. CASE Refuse("none")
      BY <2>1 DEF Refuse, Fresh
    <2>2. CASE Build("none", entry.method, l, TRUE)
      BY <2>2, BuildResolves
    <2> QED
      BY <1>2, <2>1, <2>2
  <1>4. Whole /\ ~entry.encrypted /\ entry.aes = "none"
    BY <1>1, <1>3, FitIsWhole
  <1>5. RealMethod = entry.method
    BY <1>4 DEF RealMethod
  <1>6. Build("none", RealMethod, l, TRUE)
    BY <1>4, <1>5 DEF Open, Whole
  <1>7. layer'.kind = "plain"
    <2>1. GoodLayer(entry, "none", l) /\ RealMethod \in Methods
      BY <1>1, <1>5, EntryFields, NewLayerIsGood
    <2>2. l.pos = 0 /\ ~l.done /\ l.kind = "plain"
      BY DEF NewLayer
    <2> HIDE DEF l
    <2> QED
      BY <1>1, <1>6, <2>1, <2>2, BuildKind
  <1>8. RealMethod = "Stored" => entry.uncompressed_size = Len(entry.bytes)
    BY <1>1, <1>3, <1>7, FitIsWhole
  <1>9. FitLayer("none", l)
    BY <1>1, <1>4, <1>8, FitNewLayer
  <1> HIDE DEF l
  <1> QED
    BY <1>1, <1>4, <1>6, <1>9, FitOpened

\* A decrypting arm that gets as far as the decoder.
LEMMA FitCoded ==
    ASSUME entry \in Entries, Fit', NEW kind \in {"zipcrypto", "aes", "strong"}, NEW limit, NEW vc,
           limit = IF kind = "strong" THEN StrongLimit(entry, entry.method) ELSE Available(entry),
           kind = "aes" => entry.aes # "none",
           kind = "strong" => entry.aes = "none",
           Build("right", RealMethod, NewLayer(kind, limit), vc)
    PROVE  FitInv'
  <1> DEFINE l == NewLayer(kind, limit)
  <1>1. limit \in Nat /\ limit <= Len(entry.bytes) /\ RealMethod \in Methods
    BY EntryFields DEF RealMethod
  <1>2. GoodLayer(entry, "right", l)
    BY <1>1, NewLayerIsGood
  <1>3. l.pos = 0 /\ ~l.done /\ l.kind = kind
    BY DEF NewLayer
  <1>4. Build("right", RealMethod, l, vc)
    OBVIOUS
  <1>5. /\ entry' = entry /\ summary' = summary
        /\ layer'.kind = l.kind \/ layer'.kind = "plain"
    <2> HIDE DEF l
    <2> QED
      BY <1>1, <1>2, <1>3, <1>4, BuildKind
  <1>6. /\ Whole
        /\ RealMethod = "Stored" /\ layer'.kind # "strong" =>
              entry.uncompressed_size = Len(entry.bytes)
    BY <1>5, FitIsWhole
  <1>7. RealMethod = "Stored" /\ kind # "strong" => entry.uncompressed_size = Len(entry.bytes)
    BY <1>3, <1>5, <1>6
  <1>8. FitLayer("right", l)
    BY <1>6, <1>7, FitNewLayer
  <1> HIDE DEF l
  <1> QED
    BY <1>4, <1>6, <1>8, FitOpened

\* ZipArchive::open_decrypt of an undamaged entry with its password.
LEMMA FitOpenDecrypt ==
    ASSUME IInv, NEW k \in {"right", "wrong"}, OpenDecrypt(k)
    PROVE  FitInv'
  <1>1. CASE Open
    BY <1>1, FitOpen
  <1>2. CASE ~Open
    <2> SUFFICES ASSUME Fit' PROVE FitInv'
      BY DEF FitInv
    <2>1. entry \in Entries
      BY DEF IInv, Typed
    <2>2. entry' = entry /\ summary' = summary /\ key' = k
      <3>1. CASE Refuse(k)
        BY <3>1 DEF Refuse, Fresh
      <3>2. CASE \E m, l, vc : Build(k, m, l, vc)
        BY <3>2, BuildResolves
      <3>3. Refuse(k) \/ \E m, l, vc : Build(k, m, l, vc)
        BY <1>2 DEF OpenDecrypt, OpenStrong, OpenAes, OpenZipCrypto
      <3> QED
        BY <3>1, <3>2, <3>3
    <2>3. Whole /\ (k = "right" \/ (~entry.encrypted /\ entry.aes = "none"))
      BY <2>1, <2>2, FitIsWhole
    <2>4. /\ check_local_disk(entry, summary)
          /\ ~(entry.masked /\ (entry.encrypted \/ entry.aes # "none"))
          /\ entry.readable /\ entry.header_ok /\ WellFormed(entry.header)
          /\ entry.check_byte = (IF entry.descriptor THEN "time" ELSE "crc")
      BY <2>3 DEF Whole
    <2>5. /\ ~(~entry.encrypted /\ entry.aes = "none")
          /\ \/ entry.aes = "none" /\ OpenStrong(k)
             \/ entry.aes # "none" /\ OpenAes(k)
             \/ entry.aes = "none" /\ OpenZipCrypto(k)
      BY <1>2, <2>4 DEF OpenDecrypt
    <2>6. k = "right"
      BY <2>3, <2>5
    <2>7. CASE entry.aes = "none" /\ OpenStrong(k)
      <3>1. entry.header \in Headers
        BY <2>1, EntryFields DEF EntryRecords
      <3>2. read_strong_header(entry.header)
        BY <2>4, <3>1, WellFormedIsAccepted
      <3>3. RealMethod = entry.method
        BY <2>7 DEF RealMethod
      <3>4. Build("right", RealMethod, NewLayer("strong", StrongLimit(entry, entry.method)), TRUE)
        BY <2>4, <2>6, <2>7, <3>2, <3>3 DEF OpenStrong, PasswordPasses
      <3> QED
        BY <2>1, <2>7, <3>4, FitCoded
    <2>8. CASE entry.aes # "none" /\ OpenAes(k)
      <3>1. RealMethod = entry.actual_method
        BY <2>8 DEF RealMethod
      <3>2. Build("right", RealMethod, NewLayer("aes", Available(entry)), entry.aes = "AE1")
        BY <2>4, <2>6, <2>8, <3>1 DEF OpenAes, PasswordPasses
      <3> QED
        BY <2>1, <2>8, <3>2, FitCoded
    <2>9. CASE entry.aes = "none" /\ OpenZipCrypto(k)
      <3>1. RealMethod = entry.method
        BY <2>9 DEF RealMethod
      <3>2. Build("right", RealMethod, NewLayer("zipcrypto", Available(entry)), TRUE)
        BY <2>4, <2>6, <2>9, <3>1 DEF OpenZipCrypto, zipcrypto_check_byte
      <3> QED
        BY <2>1, <2>9, <3>2, FitCoded
    <2> QED
      BY <2>5, <2>7, <2>8, <2>9
  <1> QED
    BY <1>1, <1>2

\* What a read r leaves of an undamaged entry: the next bytes of its plaintext,
\* or its end.
FitRead(r, l, d) ==
    /\ r.res \in {"data", "eof"}
    /\ FitStack(r.layer, r.dec)
    /\ r.res = "eof" =>
          Progress(r.layer, r.dec) = Progress(l, d) /\ Progress(l, d) = PlainLen
    /\ r.res = "data" =>
          \E i \in Nat :
              /\ Progress(r.layer, r.dec) = Progress(l, d) + i
              /\ Progress(l, d) + i <= Len(entry.bytes)
              /\ r.bytes = [j \in 1..i |-> entry.bytes[Progress(l, d) + j]]

\* The state an undamaged entry is read in.
FitOpenState ==
    /\ entry \in Entries /\ Whole /\ key \in {"none", "right"}
    /\ GoodLayer(entry, key, layer) /\ GoodDecoder(dec, layer) /\ Stacked
    /\ layer.kind = "aes" => key = "right"
    /\ RealMethod = "Stored" /\ layer.kind # "strong" =>
          entry.uncompressed_size = Len(entry.bytes)
    /\ FitStack(layer, dec)

\* The layer of such a state ends without an error and stays as it is, but for
\* the auth code.
LEMMA FitLayerEnd ==
    ASSUME FitOpenState, AtEnd(layer)
    PROVE  /\ LayerEnd(entry, key, layer).ok
           /\ LayerEnd(entry, key, layer).layer.limit = layer.limit
           /\ LayerEnd(entry, key, layer).layer.pos = layer.pos
  <1>1. entry \in EntryRecords /\ GoodLayer(entry, key, layer)
    BY EntryFields DEF FitOpenState
  <1>2. GoodEnd(entry, key, layer, LayerEnd(entry, key, layer))
    BY <1>1, LayerEndIsGood
  <1>3. layer.kind = "strong" => entry.aes = "none"
    BY DEF FitOpenState, Stacked
  <1>4. layer.limit = IF RealMethod = "Stored" THEN entry.uncompressed_size ELSE Len(entry.bytes)
    BY DEF FitOpenState, FitStack
  <1>5. layer.kind # "strong" => layer.limit = Len(entry.bytes)
    BY <1>4 DEF FitOpenState
  <1>6. layer.kind = "aes" => key = "right" /\ entry.aes # "none"
    BY DEF FitOpenState, Stacked
  <1>7. LayerEnd(entry, key, layer).ok
    BY <1>3, <1>4, <1>5, <1>6, FitEnds DEF FitOpenState
  <1> QED
    BY <1>2, <1>7 DEF GoodEnd

\* Decoder::Stored over an undamaged entry.
LEMMA FitStoredRead ==
    ASSUME FitOpenState, dec.kind = "Stored", NEW n \in Nat \ {0}, NEW r \in StoredRead(n)
    PROVE  FitRead(r, layer, dec)
  <1>1. /\ layer.pos \in Nat /\ layer.limit \in Nat /\ layer.pos <= layer.limit
        /\ layer.limit <= Len(entry.bytes) /\ Len(entry.bytes) \in Nat
        /\ entry \in EntryRecords /\ GoodLayer(entry, key, layer)
    BY EntryFields DEF FitOpenState, GoodLayer, Layers
  <1>2. RealMethod = "Stored" /\ layer.limit = PlainLen
    BY DEF FitOpenState, Stacked, KindOf, FitStack, PlainLen
  <1>3. CASE AtEnd(layer)
    <2> DEFINE end == LayerEnd(entry, key, layer)
    <2>1. end.ok /\ end.layer.limit = layer.limit /\ end.layer.pos = layer.pos
      BY <1>3, FitLayerEnd
    <2>2. r = Result(IF end.ok THEN "eof" ELSE "err", <<>>, end.layer, dec)
      BY <1>3 DEF StoredRead, AtLayerEnd
    <2> HIDE DEF end
    <2>3. r.res = "eof" /\ r.layer = end.layer /\ r.dec = dec
      BY <2>1, <2>2 DEF Result
    <2>4. layer.pos = layer.limit
      BY <1>1, <1>3 DEF AtEnd
    <2> QED
      BY <1>2, <2>1, <2>3, <2>4 DEF FitRead, FitStack, Progress, FitOpenState
  <1>4. CASE ~AtEnd(layer)
    <2>1. PICK i \in 1..MinOf(n, layer.limit - layer.pos) :
            r = Result("data", Units(entry, key, layer.pos, i), Pulled(layer, i), dec)
      BY <1>4 DEF StoredRead
    <2>2. i \in Nat /\ layer.pos + i <= layer.limit
      BY <1>1, <1>4, <2>1 DEF MinOf, AtEnd
    <2>3. Pulled(layer, i).limit = layer.limit /\ Pulled(layer, i).pos = layer.pos + i
      BY <1>1, <2>2, PulledIsGood
    <2>4. Units(entry, key, layer.pos, i) = [j \in 1..i |-> entry.bytes[layer.pos + j]]
      BY DEF Units, FitOpenState
    <2>5. /\ r.res = "data" /\ r.layer = Pulled(layer, i) /\ r.dec = dec
          /\ r.bytes = [j \in 1..i |-> entry.bytes[layer.pos + j]]
      BY <2>1, <2>4 DEF Result
    <2>6. Progress(layer, dec) = layer.pos /\ Progress(r.layer, r.dec) = layer.pos + i
      BY <2>3, <2>5 DEF Progress
    <2>7. FitStack(r.layer, r.dec)
      BY <2>3, <2>5 DEF FitStack, FitOpenState
    <2>8. layer.pos + i <= Len(entry.bytes)
      BY <1>1, <2>2
    <2> QED
      BY <2>2, <2>5, <2>6, <2>7, <2>8 DEF FitRead
  <1> QED
    BY <1>3, <1>4

\* The streaming codecs over an undamaged entry: the end mark comes first.
LEMMA FitStreamingRead ==
    ASSUME FitOpenState, dec.kind = "Streaming", NEW n \in Nat \ {0}, NEW r \in StreamingRead(n)
    PROVE  FitRead(r, layer, dec)
  <1>1. /\ layer.pos \in Nat /\ layer.limit \in Nat /\ layer.pos <= layer.limit
        /\ Len(entry.bytes) \in Nat /\ entry.need \in Nat /\ entry.need <= Len(entry.bytes)
        /\ entry \in EntryRecords /\ GoodLayer(entry, key, layer) /\ GoodDecoder(dec, layer)
        /\ dec \in Decoders /\ dec.consumed \in Nat /\ dec.buffered \in Nat
        /\ dec.consumed + dec.buffered = layer.pos
    BY EntryFields DEF FitOpenState, Whole, GoodLayer, Layers, GoodDecoder, Decoders
  <1>2. /\ RealMethod # "Stored" /\ layer.limit = Len(entry.bytes) /\ PlainLen = entry.need
        /\ dec.need = entry.need /\ ~dec.breaks /\ dec.consumed <= entry.need
    BY DEF FitOpenState, Stacked, KindOf, FitStack, PlainLen
  <1>3. CASE dec.buffered = 0 /\ AtEnd(layer)
    <2> DEFINE end == LayerEnd(entry, key, layer)
    <2>1. end.ok /\ end.layer.limit = layer.limit /\ end.layer.pos = layer.pos
      BY <1>3, FitLayerEnd
    <2>2. dec.consumed = entry.need /\ dec.consumed >= dec.need
      BY <1>1, <1>2, <1>3 DEF AtEnd
    <2>3. r = Result(IF end.ok THEN "eof" ELSE "err", <<>>, end.layer, dec)
      BY <1>2, <1>3, <2>2 DEF StreamingRead, AtLayerEnd
    <2> HIDE DEF end
    <2>4. r.res = "eof" /\ r.layer = end.layer /\ r.dec = dec
      BY <2>1, <2>3 DEF Result
    <2> QED
      BY <1>2, <2>1, <2>2, <2>4 DEF FitRead, FitStack, Progress, FitOpenState
  <1>4. CASE ~(dec.buffered = 0 /\ AtEnd(layer))
    <2>1. PICK f \in Filled : r = StreamingStep(f.l, f.d, n)
      BY <1>4 DEF StreamingRead
    <2>2. /\ GoodLayer(entry, key, f.l) /\ GoodDecoder(f.d, f.l) /\ f.l.limit = layer.limit
          /\ f.d.kind = "Streaming" /\ f.d.buffered > 0
          /\ f.d.consumed = dec.consumed /\ f.d.need = dec.need /\ f.d.breaks = dec.breaks
      BY <1>1, FilledFacts
    <2>3. /\ f.d \in Decoders /\ f.d.buffered \in Nat /\ f.d.consumed + f.d.buffered = f.l.pos
          /\ f.l.pos \in Nat
      BY <2>2 DEF GoodDecoder, GoodLayer, Layers, Decoders
    <2>4. CASE f.d.consumed >= f.d.need
      <3>1. r = Result("eof", <<>>, f.l, f.d)
        BY <1>2, <2>1, <2>2, <2>4 DEF StreamingStep
      <3>2. r.res = "eof" /\ r.layer = f.l /\ r.dec = f.d
        BY <3>1 DEF Result
      <3>3. dec.consumed = entry.need
        BY <1>1, <1>2, <2>2, <2>4
      <3> QED
        BY <1>2, <2>2, <3>2, <3>3 DEF FitRead, FitStack, Progress
    <2>5. CASE ~(f.d.consumed >= f.d.need)
      <3> DEFINE i == MinOf(n, MinOf(f.d.buffered, f.d.need - f.d.consumed))
                 d == [f.d EXCEPT !.consumed = @ + i, !.buffered = @ - i]
      <3>1. i \in Nat /\ i >= 1 /\ i <= f.d.need - f.d.consumed
        BY <1>1, <1>2, <2>2, <2>3, <2>5 DEF MinOf
      <3>2. r = Result("data", Units(entry, key, f.d.consumed, i), f.l, d)
        BY <2>1, <2>5, <3>1 DEF StreamingStep
      <3> HIDE DEF i
      <3>3. /\ d.kind = "Streaming" /\ d.need = f.d.need /\ d.breaks = f.d.breaks
            /\ d.consumed = f.d.consumed + i
        <4> DEFINE a == [f.d EXCEPT !.consumed = @ + i]
        <4>1. /\ a \in Decoders /\ a.kind = "Streaming" /\ a.need = f.d.need
              /\ a.breaks = f.d.breaks /\ a.consumed = f.d.consumed + i
          <5>1. f.d.consumed + i \in Nat
            BY <1>1, <2>2, <3>1
          <5> QED
            BY <2>2, <2>3, <5>1 DEF Decoders
        <4>2. d = [a EXCEPT !.buffered = @ - i]
          OBVIOUS
        <4> HIDE DEF a, d
        <4> QED
          BY <4>1, <4>2 DEF Decoders
      <3> HIDE DEF d
      <3>4. Units(entry, key, f.d.consumed, i) = [j \in 1..i |-> entry.bytes[dec.consumed + j]]
        BY <2>2 DEF Units, FitOpenState
      <3>5. /\ r.res = "data" /\ r.layer = f.l /\ r.dec = d
            /\ r.bytes = [j \in 1..i |-> entry.bytes[dec.consumed + j]]
        BY <3>2, <3>4 DEF Result
      <3>6. Progress(layer, dec) = dec.consumed /\ Progress(r.layer, r.dec) = dec.consumed + i
        BY <2>2, <3>3, <3>5 DEF Progress
      <3>7. dec.consumed + i <= entry.need /\ dec.consumed + i <= Len(entry.bytes)
        BY <1>1, <1>2, <2>2, <3>1
      <3>8. FitStack(r.layer, r.dec)
        BY <1>2, <2>2, <3>3, <3>5, <3>7 DEF FitStack
      <3> QED
        BY <3>1, <3>5, <3>6, <3>7, <3>8 DEF FitRead
    <2> QED
      BY <2>4, <2>5
  <1> QED
    BY <1>3, <1>4

\* The one-shot codecs: the Cursor holds what is left of the plaintext.
LEMMA FitBufferedRead ==
    ASSUME FitOpenState, dec.kind = "Buffered", NEW n \in Nat \ {0}, NEW r \in BufferedRead(n)
    PROVE  FitRead(r, layer, dec)
  <1> DEFINE q == dec.queue
             m == Len(q)
             i == MinOf(n, m)
             t == SubSeq(q, i + 1, m)
             d == [dec EXCEPT !.queue = t]
  <1>1. dec \in Decoders /\ q \in Seq(Output) /\ m \in Nat
    BY DEF FitOpenState, GoodDecoder, Decoders
  <1>2. /\ entry.need \in Nat /\ entry.need <= Len(entry.bytes) /\ Len(entry.bytes) \in Nat
        /\ RealMethod # "Stored" /\ PlainLen = entry.need
        /\ m <= entry.need
        /\ \A j \in 1..m : q[j] = entry.bytes[entry.need - m + j]
    <2>1. entry \in Entries /\ Whole /\ FitStack(layer, dec) /\ Stacked
      BY DEF FitOpenState
    <2>2. RealMethod # "Stored"
      BY <2>1 DEF Stacked, KindOf
    <2> QED
      BY <2>1, <2>2, EntryFields DEF Whole, FitStack, PlainLen
  <1>3. r = IF i = 0 THEN Result("eof", <<>>, layer, dec)
            ELSE Result("data", SubSeq(q, 1, i), layer, d)
    BY DEF BufferedRead
  <1>4. i \in Nat /\ i <= m /\ (i = 0 <=> m = 0)
    BY <1>1 DEF MinOf
  <1>5. Progress(layer, dec) = entry.need - m
    BY DEF Progress
  <1> HIDE DEF i
  <1>6. CASE i = 0
    <2>1. r.res = "eof" /\ r.layer = layer /\ r.dec = dec
      BY <1>3, <1>6 DEF Result
    <2>2. Progress(layer, dec) = PlainLen
      BY <1>2, <1>4, <1>5, <1>6
    <2> QED
      BY <2>1, <2>2 DEF FitRead, FitOpenState
  <1>7. CASE i # 0
    <2>1. /\ t \in Seq(Output) /\ Len(t) = m - i
          /\ \A j \in 1..(m - i) : t[j] = q[i + j]
      <3> HIDE DEF q
      <3> QED
        BY <1>1, <1>4
    <2>2. d.kind = "Buffered" /\ d.queue = t
      <3> HIDE DEF t
      <3> QED
        BY <1>1 DEF Decoders
    <2>3. SubSeq(q, 1, i) = [j \in 1..i |-> entry.bytes[entry.need - m + j]]
      <3>1. SubSeq(q, 1, i) = [j \in 1..i |-> q[j]]
        <4> HIDE DEF q, m
        <4> QED
          BY <1>1, <1>4 DEF m
      <3>2. \A j \in 1..i : q[j] = entry.bytes[entry.need - m + j]
        BY <1>1, <1>2, <1>4
      <3> HIDE DEF q, m
      <3> QED
        BY <3>1, <3>2
    <2>4. \A j \in 1..Len(t) : t[j] = entry.bytes[entry.need - Len(t) + j]
      <3> SUFFICES ASSUME NEW j \in 1..(m - i) PROVE t[j] = entry.bytes[entry.need - (m - i) + j]
        BY <2>1
      <3> HIDE DEF q, m, t
      <3>1. t[j] = q[i + j] /\ i + j \in 1..m
        BY <1>1, <1>4, <2>1
      <3>2. q[i + j] = entry.bytes[entry.need - m + (i + j)]
        BY <1>2, <3>1
      <3>3. entry.need - m + (i + j) = entry.need - (m - i) + j
        BY <1>1, <1>2, <1>4
      <3> QED
        BY <3>1, <3>2, <3>3
    <2> HIDE DEF d, t, m, q
    <2>5. /\ r.res = "data" /\ r.layer = layer /\ r.dec = d
          /\ r.bytes = [j \in 1..i |-> entry.bytes[entry.need - m + j]]
      BY <1>3, <1>7, <2>3 DEF Result
    <2>6. FitStack(r.layer, r.dec)
      <3>1. Len(t) <= entry.need
        BY <1>1, <1>2, <1>4, <2>1
      <3> QED
        BY <2>2, <2>4, <2>5, <3>1 DEF FitStack, FitOpenState
    <2>7. Progress(r.layer, r.dec) = entry.need - m + i
      <3>1. Progress(r.layer, r.dec) = entry.need - Len(t)
        BY <2>2, <2>5 DEF Progress
      <3> QED
        BY <1>1, <1>2, <1>4, <2>1, <3>1
    <2>8. entry.need - m + i <= Len(entry.bytes)
      BY <1>1, <1>2, <1>4
    <2> QED
      BY <1>4, <1>5, <2>5, <2>6, <2>7, <2>8 DEF FitRead
  <1> QED
    BY <1>6, <1>7

\* The plaintext up to p and the i bytes behind it are the plaintext up to p + i.
LEMMA SliceGrows ==
    ASSUME NEW s \in Seq(Byte), NEW p \in Nat, NEW i \in Nat, p + i <= Len(s)
    PROVE  SubSeq(s, 1, p) \o [j \in 1..i |-> s[p + j]] = SubSeq(s, 1, p + i)
  <1> DEFINE a == SubSeq(s, 1, p)
             t == [j \in 1..i |-> s[p + j]]
             b == SubSeq(s, 1, p + i)
  <1>1. a \in Seq(Byte) /\ Len(a) = p /\ \A j \in 1..p : a[j] = s[j]
    OBVIOUS
  <1>2. t \in Seq(Byte) /\ Len(t) = i /\ \A j \in 1..i : t[j] = s[p + j]
    OBVIOUS
  <1>3. b \in Seq(Byte) /\ Len(b) = p + i /\ \A j \in 1..(p + i) : b[j] = s[j]
    OBVIOUS
  <1> HIDE DEF a, t, b
  <1>4. a \o t \in Seq(Byte) /\ Len(a \o t) = p + i
    <2>1. a \in Seq(Byte) /\ t \in Seq(Byte)
      BY <1>1, <1>2
    <2>2. a \o t \in Seq(Byte)
      BY <2>1
    <2>3. Len(a \o t) = Len(a) + Len(t)
      BY <2>1
    <2> QED
      BY <1>1, <1>2, <2>2, <2>3
  <1>5. ASSUME NEW j \in 1..(p + i) PROVE (a \o t)[j] = b[j]
    <2>1. CASE j <= p
      <3>1. j \in 1..p /\ j \in 1..Len(a)
        BY <1>1, <2>1
      <3>2. (a \o t)[j] = a[j]
        BY <1>1, <1>2, <3>1
      <3> QED
        BY <1>1, <1>3, <3>1, <3>2
    <2>2. CASE ~(j <= p)
      <3>1. j - p \in 1..i /\ p + (j - p) = j
        BY <2>2
      <3>2. (a \o t)[j] = t[j - p]
        BY <1>1, <1>2, <2>2, <3>1, SMTT(30)
      <3> QED
        BY <1>2, <1>3, <3>1, <3>2
    <2> QED
      BY <2>1, <2>2
  <1> QED
    BY <1>3, <1>4, <1>5 DEF a, t, b

\* ZipFile::read of an undamaged entry.
LEMMA FitReadKeeps ==
    ASSUME IInv, FitInv, 0 \notin BufSizes, NEW n \in BufSizes, Read(n)
    PROVE  FitInv'
  <1> SUFFICES ASSUME Fit' PROVE FitInv'
    BY DEF FitInv
  <1>1. PICK r \in DecoderRead(n) :
        /\ layer' = r.layer
        /\ dec' = r.dec
        /\ \/ r.res = "err"
           \/ /\ r.res = "eof"
              /\ outcome' = EndsWith(IF verified \/ CrcOk THEN "clean" ELSE "failed")
              /\ delivered' = delivered
           \/ /\ r.res # "err" /\ r.res # "eof"
              /\ delivered' = delivered \o r.bytes
              /\ outcome' = outcome
    BY DEF Read, IsEof
  <1>2. /\ st = "open" /\ st' = st /\ entry' = entry /\ summary' = summary /\ key' = key
    BY DEF Read
  <1>3. /\ Typed /\ Stacked /\ hasher = delivered /\ EndInv
        /\ GoodLayer(entry, key, layer) /\ GoodDecoder(dec, layer)
    BY <1>2 DEF IInv
  <1>4. n \in Nat \ {0} /\ entry \in Entries /\ entry \in EntryRecords
        /\ entry.bytes \in Seq(Byte) /\ Len(entry.bytes) \in Nat
    BY <1>3, EntriesAssumption, EntryFields DEF Typed
  <1>5. GoodRead(n, r, layer, dec)
    BY <1>1, <1>3, <1>4, DecoderReadIsGood
  <1>6. layer'.kind = layer.kind
    BY <1>1, <1>5 DEF GoodRead
  <1>7. Fit /\ Plaintext' = Plaintext /\ RealMethod' = RealMethod
    BY <1>2, <1>6, FitIsStable DEF RealMethod
  <1>8. /\ outcome # "failed" /\ (outcome = "clean" => delivered = Plaintext)
        /\ FitStack(layer, dec) /\ delivered = SubSeq(entry.bytes, 1, Progress(layer, dec))
    BY <1>2, <1>7 DEF FitInv
  <1>9. Whole /\ Sized
    BY <1>4, <1>7, IntactIsWhole DEF Fit
  <1>10. FitOpenState
    <2>1. key = "right" \/ (~entry.encrypted /\ entry.aes = "none")
      BY <1>7 DEF Fit
    <2>2. key \in {"none", "right"}
      <3>1. ~entry.encrypted /\ entry.aes = "none" => key = "none"
        BY <1>3 DEF Stacked
      <3> QED
        BY <2>1, <3>1
    <2>3. layer.kind = "aes" => key = "right"
      BY <1>3, <2>2 DEF Stacked
    <2> QED
      BY <1>3, <1>4, <1>8, <1>9, <2>2, <2>3 DEF FitOpenState, Sized
  <1>11. FitRead(r, layer, dec)
    <2>1. dec.kind \in {"Stored", "Streaming", "Buffered"}
      BY <1>3 DEF GoodDecoder, Decoders
    <2>2. CASE dec.kind = "Stored"
      BY <1>1, <1>4, <1>10, <2>2, FitStoredRead DEF DecoderRead
    <2>3. CASE dec.kind = "Streaming"
      BY <1>1, <1>4, <1>10, <2>3, FitStreamingRead DEF DecoderRead
    <2>4. CASE dec.kind = "Buffered"
      BY <1>1, <1>4, <1>10, <2>4, FitBufferedRead DEF DecoderRead
    <2> QED
      BY <2>1, <2>2, <2>3, <2>4
  <1>12. FitStack(layer, dec)'
    BY <1>1, <1>2, <1>7, <1>11 DEF FitRead, FitStack
  <1>13. Progress(layer, dec)' = Progress(r.layer, r.dec)
    BY <1>1, <1>2 DEF Progress
  <1>14. CASE r.res = "eof"
    <2>1. delivered' = delivered /\ delivered = Plaintext
      BY <1>1, <1>8, <1>9, <1>11, <1>14 DEF FitRead, Sized
    <2>2. verified \/ CrcOk
      <3>1. verify_crc => delivered = entry.crc32
        BY <1>3, <1>9, <2>1 DEF Stacked, Sized
      <3> QED
        BY <1>3, <3>1 DEF CrcOk
    <2>3. outcome' # "failed"
      BY <1>1, <1>8, <1>14, <2>2 DEF EndsWith
    <2>4. delivered' = SubSeq(entry.bytes, 1, Progress(r.layer, r.dec))
      BY <1>8, <1>11, <1>14, <2>1 DEF FitRead
    <2> QED
      BY <1>2, <1>7, <1>12, <1>13, <2>1, <2>3, <2>4 DEF FitInv
  <1>15. CASE r.res = "data"
    <2>1. PICK i \in Nat :
              /\ Progress(r.layer, r.dec) = Progress(layer, dec) + i
              /\ Progress(layer, dec) + i <= Len(entry.bytes)
              /\ r.bytes = [j \in 1..i |-> entry.bytes[Progress(layer, dec) + j]]
      BY <1>11, <1>15 DEF FitRead
    <2>2. delivered' = delivered \o r.bytes /\ outcome' = outcome
      BY <1>1, <1>15
    <2>3. outcome # "clean"
      BY <1>3, <1>5, <1>15 DEF GoodRead, EndInv
    <2>4. Progress(layer, dec) \in Nat
      <3>1. layer.pos \in Nat /\ dec.consumed \in Nat /\ Len(dec.queue) \in Nat
            /\ dec.kind \in {"Stored", "Streaming", "Buffered"} /\ entry.need \in Nat
        BY <1>3, <1>4, EntryFields DEF GoodLayer, Layers, GoodDecoder, Decoders
      <3>2. dec.kind = "Buffered" => Len(dec.queue) <= entry.need
        BY <1>8 DEF FitStack
      <3> QED
        BY <3>1, <3>2 DEF Progress
    <2>5. delivered' = SubSeq(entry.bytes, 1, Progress(r.layer, r.dec))
      <3> DEFINE p == Progress(layer, dec)
      <3>1. p \in Nat /\ p + i <= Len(entry.bytes) /\ Progress(r.layer, r.dec) = p + i
            /\ delivered' = SubSeq(entry.bytes, 1, p) \o [j \in 1..i |-> entry.bytes[p + j]]
        BY <1>8, <2>1, <2>2, <2>4
      <3> HIDE DEF p
      <3> QED
        BY <1>4, <3>1, SliceGrows
    <2> QED
      BY <1>2, <1>8, <1>12, <1>13, <2>2, <2>3, <2>5 DEF FitInv
  <1> QED
    BY <1>11, <1>14, <1>15 DEF FitRead

\* For all undamaged entries, protections, methods and buffer sizes but 0: an
\* entry opened the way it asks to be is not refused, no read of it fails, and a
\* clean end has delivered its plaintext.
THEOREM IntactIsRead == 0 \notin BufSizes => (Spec => []IntactReadsClean)
  <1> SUFFICES ASSUME 0 \notin BufSizes PROVE Spec => []IntactReadsClean
    OBVIOUS
  <1>1. Init => FitInv
    BY DEF Init, FitInv
  <1>2. IInv /\ FitInv /\ [Next]_vars => FitInv'
    <2> SUFFICES ASSUME IInv, FitInv, [Next]_vars PROVE FitInv'
      OBVIOUS
    <2>1. CASE by_index
      BY <2>1, FitOpen DEF by_index
    <2>2. CASE \E k \in {"right", "wrong"} : by_index_decrypt(k)
      BY <2>2, FitOpenDecrypt DEF by_index_decrypt
    <2>3. CASE \E n \in BufSizes : Read(n)
      BY <2>3, FitReadKeeps
    <2>4. CASE Drop
      BY <2>4 DEF Drop, Fresh, FitInv
    <2>5. CASE UNCHANGED vars
      <3>1. (Fit' <=> Fit) /\ Plaintext' = Plaintext
        BY <2>5, FitIsStable DEF vars
      <3>2. FitStack(layer, dec)' = FitStack(layer, dec)
        BY <2>5 DEF vars, FitStack, RealMethod
      <3>3. Progress(layer, dec)' = Progress(layer, dec)
        BY <2>5 DEF vars, Progress
      <3> QED
        BY <2>5, <3>1, <3>2, <3>3 DEF vars, FitInv
    <2> QED
      BY <2>1, <2>2, <2>3, <2>4, <2>5 DEF Next
  <1>3. FitInv => IntactReadsClean
    BY DEF FitInv, Fit, IntactReadsClean
  <1> QED
    BY <1>1, <1>2, <1>3, Invariant, PTL DEF Spec

(***************************************************************************)
(* The reads move on.                                                      *)
(***************************************************************************)
\* The bytes that layer l and decoder d can still give, at most.
Left(l, d) ==
    CASE d.kind = "Stored"    -> l.limit - l.pos
      [] d.kind = "Streaming" -> l.limit - d.consumed
      [] d.kind = "Buffered"  -> Len(d.queue)

\* A read that is neither an end nor an error gives a byte or more, and takes as
\* many from what is left.
Shrinks(r) ==
    /\ Len(r.bytes) \in Nat /\ Len(r.bytes) >= 1
    /\ Left(r.layer, r.dec) \in Nat
    /\ Left(layer, dec) = Left(r.layer, r.dec) + Len(r.bytes)

\* Decoder::Stored.
LEMMA StoredShrinks ==
    ASSUME entry \in EntryRecords, GoodLayer(entry, key, layer), dec.kind = "Stored",
           NEW n \in Nat, NEW r \in StoredRead(n), r.res = "data"
    PROVE  Shrinks(r)
  <1>1. ~AtEnd(layer) /\ n # 0
    BY DEF StoredRead, AtLayerEnd, Result
  <1>2. layer.pos \in Nat /\ layer.limit \in Nat /\ layer.limit <= Len(entry.bytes)
        /\ layer.pos < layer.limit /\ Len(entry.bytes) \in Nat
    BY <1>1 DEF AtEnd, GoodLayer, Layers, EntryRecords
  <1>3. PICK i \in 1..MinOf(n, layer.limit - layer.pos) :
          r = Result("data", Units(entry, key, layer.pos, i), Pulled(layer, i), dec)
    BY <1>1 DEF StoredRead
  <1>4. i \in Nat /\ i >= 1 /\ layer.pos + i <= layer.limit
    BY <1>2, <1>3 DEF MinOf
  <1>5. Len(Units(entry, key, layer.pos, i)) = i
    BY <1>2, <1>4, UnitsAreOutput
  <1>6. Pulled(layer, i).pos = layer.pos + i /\ Pulled(layer, i).limit = layer.limit
    BY <1>4, PulledIsGood
  <1>7. Left(layer, dec) = layer.limit - layer.pos
    BY DEF Left
  <1>8. r.dec = dec /\ r.layer = Pulled(layer, i) /\ Len(r.bytes) = i
    BY <1>3, <1>5 DEF Result
  <1>9. Left(r.layer, r.dec) = layer.limit - (layer.pos + i)
    BY <1>6, <1>8 DEF Left
  <1> QED
    BY <1>2, <1>4, <1>7, <1>8, <1>9 DEF Shrinks

\* Decoder::Deflated and Decoder::Deflate64, a refill of the input buffer included.
LEMMA StreamingShrinks ==
    ASSUME entry \in EntryRecords, GoodLayer(entry, key, layer), GoodDecoder(dec, layer),
           dec.kind = "Streaming", NEW n \in Nat, NEW r \in StreamingRead(n), r.res = "data"
    PROVE  Shrinks(r)
  <1>1. ~(dec.buffered = 0 /\ AtEnd(layer))
    BY DEF StreamingRead, AtLayerEnd, Result
  <1>2. PICK f \in Filled : r = StreamingStep(f.l, f.d, n)
    BY <1>1 DEF StreamingRead
  <1> DEFINE l == f.l
             d == f.d
             i == MinOf(n, MinOf(d.buffered, d.need - d.consumed))
             e == [d EXCEPT !.consumed = @ + i, !.buffered = @ - i]
  <1>3. /\ GoodLayer(entry, key, l) /\ GoodDecoder(d, l) /\ l.limit = layer.limit
        /\ d.kind = "Streaming" /\ d.buffered > 0 /\ d.consumed = dec.consumed
    BY FilledFacts
  <1> HIDE DEF l, d
  <1>4. /\ d \in Decoders /\ d.buffered \in Nat /\ d.consumed \in Nat /\ d.need \in Nat
        /\ d.consumed + d.buffered = l.pos /\ l.pos \in Nat /\ l.limit \in Nat
        /\ l.pos <= l.limit /\ l.limit <= Len(entry.bytes) /\ Len(entry.bytes) \in Nat
    BY <1>3 DEF GoodLayer, Layers, GoodDecoder, Decoders, EntryRecords
  <1>5. ~(d.consumed >= d.need) /\ i # 0
    BY <1>2 DEF StreamingStep, Result, l, d
  <1>6. i \in Nat /\ i >= 1 /\ i <= d.buffered
    BY <1>4, <1>5 DEF MinOf
  <1>7. r = Result("data", Units(entry, key, d.consumed, i), l, e)
    BY <1>2, <1>5 DEF StreamingStep, l, d
  <1> HIDE DEF i
  <1>8. e.kind = "Streaming" /\ e.consumed = d.consumed + i
    BY <1>3, <1>4 DEF Decoders
  <1> HIDE DEF e
  <1>9. Len(Units(entry, key, d.consumed, i)) = i
    BY <1>4, <1>6, UnitsAreOutput
  <1>10. r.dec = e /\ r.layer = l /\ Len(r.bytes) = i
    BY <1>7, <1>9 DEF Result
  <1>11. Left(layer, dec) = l.limit - d.consumed
    BY <1>3 DEF Left
  <1>12. Left(r.layer, r.dec) = l.limit - (d.consumed + i)
    BY <1>8, <1>10 DEF Left
  <1> QED
    BY <1>4, <1>6, <1>10, <1>11, <1>12 DEF Shrinks

\* The one-shot codecs.
LEMMA BufferedShrinks ==
    ASSUME GoodDecoder(dec, layer), dec.kind = "Buffered", NEW n \in Nat,
           NEW r \in BufferedRead(n), r.res = "data"
    PROVE  Shrinks(r)
  <1> DEFINE i == MinOf(n, Len(dec.queue))
             d == [dec EXCEPT !.queue = SubSeq(@, i + 1, Len(@))]
  <1>1. dec \in Decoders /\ dec.queue \in Seq(Output) /\ Len(dec.queue) \in Nat
    BY DEF GoodDecoder, Decoders
  <1>2. i # 0 /\ r = Result("data", SubSeq(dec.queue, 1, i), layer, d)
    BY DEF BufferedRead, Result
  <1>3. i \in Nat /\ i >= 1 /\ i <= Len(dec.queue)
    BY <1>1, <1>2 DEF MinOf
  <1> HIDE DEF i
  <1>4. /\ Len(SubSeq(dec.queue, 1, i)) = i
        /\ Len(SubSeq(dec.queue, i + 1, Len(dec.queue))) = Len(dec.queue) - i
    BY <1>1, <1>3
  <1>5. d.kind = "Buffered" /\ d.queue = SubSeq(dec.queue, i + 1, Len(dec.queue))
    BY <1>1 DEF Decoders
  <1> HIDE DEF d
  <1>6. r.dec = d /\ r.layer = layer /\ Len(r.bytes) = i
    BY <1>2, <1>4 DEF Result
  <1>7. Left(layer, dec) = Len(dec.queue) /\ Left(r.layer, r.dec) = Len(dec.queue) - i
    BY <1>4, <1>5, <1>6 DEF Left
  <1> QED
    BY <1>1, <1>3, <1>6, <1>7 DEF Shrinks

\* What a read that does not end the reading has done: the caller has more than
\* before, and the stack has exactly that much less to give.
MovesOn ==
    st = "open" /\ st' = "open" /\ outcome' = "none" =>
        /\ Len(delivered') > Len(delivered)
        /\ Len(delivered') + Left(layer', dec') = Len(delivered) + Left(layer, dec)
        /\ Left(layer', dec') \in Nat

\* ZipFile::read: for all entries, keys and buffer sizes, a read that reports
\* neither the end nor an error gives the caller a byte or more.  A caller that
\* keeps reading makes at most as many reads as the stack it opened holds bytes.
THEOREM ReadsMoveOn == Spec => [][MovesOn]_vars
  <1>1. IInv /\ [Next]_vars => [MovesOn]_vars
    <2> SUFFICES ASSUME IInv, Next, st = "open", st' = "open", outcome' = "none"
                 PROVE  /\ Len(delivered') > Len(delivered)
                        /\ Len(delivered') + Left(layer', dec') = Len(delivered) + Left(layer, dec)
                        /\ Left(layer', dec') \in Nat
      BY DEF MovesOn
    <2>1. PICK n \in BufSizes : Read(n)
      BY DEF Next, by_index, by_index_decrypt, Drop
    <2>2. PICK r \in DecoderRead(n) :
            /\ layer' = r.layer /\ dec' = r.dec
            /\ r.res # "err" /\ r.res # "eof"
            /\ delivered' = delivered \o r.bytes
      BY <2>1 DEF Read, IsEof, EndsWith
    <2>3. /\ GoodLayer(entry, key, layer) /\ GoodDecoder(dec, layer)
          /\ n \in Nat /\ entry \in EntryRecords /\ delivered \in Seq(Output)
      BY EntriesAssumption DEF IInv, Typed
    <2>4. r.res = "data" /\ r.bytes \in Seq(Output)
      <3>1. GoodRead(n, r, layer, dec)
        BY <2>3, DecoderReadIsGood
      <3> QED
        BY <2>2, <3>1 DEF GoodRead
    <2>5. Shrinks(r)
      <3>1. dec.kind \in {"Stored", "Streaming", "Buffered"}
        BY <2>3 DEF GoodDecoder, Decoders
      <3>2. CASE dec.kind = "Stored"
        BY <2>3, <2>4, <3>2, StoredShrinks DEF DecoderRead
      <3>3. CASE dec.kind = "Streaming"
        BY <2>3, <2>4, <3>3, StreamingShrinks DEF DecoderRead
      <3>4. CASE dec.kind = "Buffered"
        BY <2>3, <2>4, <3>4, BufferedShrinks DEF DecoderRead
      <3> QED
        BY <3>1, <3>2, <3>3, <3>4
    <2>6. Len(delivered') = Len(delivered) + Len(r.bytes) /\ Len(delivered) \in Nat
      BY <2>2, <2>3, <2>4
    <2> QED
      BY <2>2, <2>5, <2>6 DEF Shrinks
  <1> QED
    BY <1>1, Invariant, PTL DEF Spec
================================================================================
