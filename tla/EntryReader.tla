------------------------------ MODULE EntryReader ------------------------------
(***************************************************************************)
(* Opening one entry of an archive and reading it to its end: the stack    *)
(* ZipArchive::open / open_decrypt / open_strong_decrypt builds (a Take of *)
(* the compressed span, a decryption layer, a Decoder, a ZipFile) and the  *)
(* reads a caller then makes of it.                                        *)
(*                                                                         *)
(* An entry is a record: the central-directory fields the code branches on *)
(* and what the archive's bytes hold.  A payload is a sequence of units;   *)
(* unit i, decrypted with the right key and decoded, is the output byte    *)
(* bytes[i].  A CRC-32 or an HMAC is ideal: equal exactly when what was    *)
(* digested is equal, so crc32 is the byte sequence the CRC was taken of.  *)
(***************************************************************************)
EXTENDS Sequences, StrongHeader

CONSTANTS
    Byte,         \* output byte values of the entries
    Entries,      \* the entries a caller may open
    Summaries,    \* the EOCD disk fields of the archives a caller may hold
    BufSizes,     \* the buffer lengths a caller passes to read
    MaxBuffered   \* MAX_BUFFERED_DECODE

\* Output of a payload decrypted with a wrong key that passed its check.
Garbage == "garbage"

Streaming  == {"Deflated", "Deflate64"}
ReadToEnd  == {"Lzma", "Xz"}
SelfEnding == {"Bzip2", "Zstd"}

\* Methods Decoder::new knows.  "Other" is every id it refuses: the legacy
\* methods, unknown ids and Aes (99), whose real method is actual_method.
Methods == {"Stored", "Other"} \union Streaming \union ReadToEnd \union SelfEnding

EntryRecords ==
    [ method        : Methods,            \* the central directory's method
      actual_method : Methods,            \* the method inside the AE-x extra field
      aes           : {"none", "AE1", "AE2"},
      encrypted     : BOOLEAN,            \* GP flag bit 0
      descriptor    : BOOLEAN,            \* GP flag bit 3
      strong        : BOOLEAN,            \* GP flag bit 6
      masked        : BOOLEAN,            \* GP flag bit 13
      disk_start    : Nat,
      uncompressed_size : Nat,
      crc32         : Seq(Byte),          \* what the recorded CRC is the CRC of
      readable      : BOOLEAN,            \* its local file header parses
      header_ok     : BOOLEAN,            \* its encryption header is all there
      header        : Headers,            \* what it says, under strong encryption
      check_byte    : {"crc", "time"},    \* the check byte the encrypter wrote
      collides      : BOOLEAN,            \* a wrong password passes the check
      authentic     : BOOLEAN,            \* its auth code is present and matches
      bytes         : Seq(Byte),
      present       : Nat,                \* units the file really holds
      need          : Nat,                \* units up to the codec's end mark
      breaks        : BOOLEAN ]           \* the codec finds a data error there

ASSUME EntriesAssumption ==
    /\ Garbage \notin Byte
    /\ Entries \subseteq EntryRecords
    /\ \A e \in Entries : e.aes # "none" => e.method = "Other"
    /\ Summaries \subseteq [disk_number : Nat, cd_start_disk : Nat]
    /\ BufSizes \subseteq Nat
    /\ MaxBuffered \in Nat

VARIABLES
    st,          \* "idle", "open" (a ZipFile is held) or "refused" (open failed)
    entry,       \* meta: the entry opened last
    summary,     \* the archive's EOCD fields
    key,         \* "none", "right" or "wrong": the password of the last open
    layer,       \* the decryption layer over the Take
    dec,         \* the Decoder
    hasher,      \* what the CRC hasher has been fed
    verified,    \* ZipFile::verified
    verify_crc,  \* ZipFile::verify_crc
    delivered,   \* history: the bytes returned to the caller
    last,        \* the result of the last read
    outcome      \* history: how the reading first ended

vars == <<st, entry, summary, key, layer, dec, hasher, verified, verify_crc,
          delivered, last, outcome>>

Output == Byte \union {Garbage}

Layers ==
    [ kind  : {"plain", "zipcrypto", "aes", "strong"},
      pos   : Nat,        \* payload units pulled through it
      limit : Nat,        \* units it will give before it reports its end
      codes : 0..1,       \* auth codes still unread behind the payload
      done  : BOOLEAN,    \* AesReader::done
      auth  : BOOLEAN ]   \* history: finish compared the code and it matched

Decoders ==
    [ kind     : {"Stored", "Streaming", "Buffered"},
      need     : Nat,          \* units up to the end mark, as the codec sees it
      breaks   : BOOLEAN,
      strict   : BOOLEAN,      \* reports input that ends early as an error
      consumed : Nat,
      buffered : Nat,          \* units in its input BufReader
      queue    : Seq(Output) ] \* Buffered: what the Cursor has not yet served

\* Types, and the bound on what a one-shot codec's output may take (read_capped,
\* CappedWriter).
TypeOK ==
    /\ st \in {"idle", "open", "refused"}
    /\ entry \in EntryRecords
    /\ summary \in Summaries
    /\ key \in {"none", "right", "wrong"}
    /\ layer \in Layers
    /\ dec \in Decoders
    /\ Len(dec.queue) <= MaxBuffered
    /\ hasher \in Seq(Output)
    /\ verified \in BOOLEAN
    /\ verify_crc \in BOOLEAN
    /\ delivered \in Seq(Output)
    /\ last \in {"none", "data", "eof", "err"}
    /\ outcome \in {"none", "clean", "failed"}

MinOf(a, b) == IF a <= b THEN a ELSE b

(***************************************************************************)
(* Guards of the open functions.                                           *)
(***************************************************************************)
\* Seeded fault: only the entry's own disk number is looked at.
EntryDiskOnly(e, s) == e.disk_start = 0

check_local_disk(e, s) ==
    /\ e.disk_start = 0
    /\ s.cd_start_disk = 0
    /\ s.disk_number = 0

\* Seeded fault: the data-descriptor flag is forgotten.
CrcCheckByte(e) == "crc"

zipcrypto_check_byte(e) == IF e.descriptor THEN "time" ELSE "crc"

(***************************************************************************)
(* The decryption layer.                                                   *)
(***************************************************************************)
\* Units of the span the Take can really give.
Available(e) == MinOf(e.present, Len(e.bytes))

\* A Stored entry under strong encryption is capped at its uncompressed size,
\* which drops the CBC pad.
StrongLimit(e, m) ==
    IF m = "Stored" THEN MinOf(e.uncompressed_size, Available(e)) ELSE Available(e)

NewLayer(kind, limit) ==
    [kind |-> kind, pos |-> 0, limit |-> limit, codes |-> 1, done |-> FALSE, auth |-> FALSE]

AtEnd(l) == l.pos >= l.limit

Remaining(e, l) == Len(e.bytes) - l.pos

\* Seeded fault: the auth code is compared but `done` stays unset.
FinishLeavesDone(l, ok) == [l EXCEPT !.codes = @ - 1, !.auth = ok]

\* AesReader::finish, called with `done` just set.
finish(l, ok) == [l EXCEPT !.codes = @ - 1, !.done = TRUE, !.auth = ok]

\* Seeded fault: the end of the ciphertext is reported without the auth code.
EndWithoutCode(e, k, l) == [ok |-> TRUE, layer |-> l]

\* AesReader::read with nothing left to read.
AesEnd(e, k, l) ==
    LET matches == l.codes = 1 /\ e.authentic /\ k = "right"
    IN  IF Remaining(e, l) > 0 THEN [ok |-> FALSE, layer |-> l]  \* truncated ciphertext
        ELSE IF l.done THEN [ok |-> TRUE, layer |-> l]
        ELSE [ok |-> matches, layer |-> finish(l, matches)]

\* StrongAesReader::read with nothing left to read: a missing block is an
\* error unless the cap on a Stored entry already ended the stream.
StrongEnd(e, l) ==
    LET capped == e.method = "Stored" /\ l.pos >= e.uncompressed_size
    IN  [ok |-> capped \/ Remaining(e, l) = 0, layer |-> l]

\* A read of the layer that can give no unit: its end, or an error.
LayerEnd(e, k, l) ==
    CASE l.kind = "aes"    -> AesEnd(e, k, l)
      [] l.kind = "strong" -> StrongEnd(e, l)
      [] OTHER             -> [ok |-> TRUE, layer |-> l]

Pulled(l, n) == [l EXCEPT !.pos = @ + n]

\* The output bytes of units i+1 .. i+n.
Units(e, k, i, n) ==
    [j \in 1..n |-> IF k = "wrong" THEN Garbage ELSE e.bytes[i + j]]

(***************************************************************************)
(* Decoder::new.  The codecs are library code: all that is said of one is  *)
(* that it turns units into bytes in order up to its end mark, and there   *)
(* stops or reports a data error.  Of a payload decrypted with a wrong key *)
(* it may make anything.                                                   *)
(***************************************************************************)
SeenNeed(e, k)   == IF k = "wrong" THEN 0..(Len(e.bytes) + 1) ELSE {e.need}
SeenBreaks(e, k) == IF k = "wrong" THEN BOOLEAN ELSE {e.breaks}

DecoderOf(kind, need, breaks, strict, queue) ==
    [kind |-> kind, need |-> need, breaks |-> breaks, strict |-> strict,
     consumed |-> 0, buffered |-> 0, queue |-> queue]

NoDecoder == DecoderOf("Stored", 0, FALSE, FALSE, <<>>)

StreamingDecoders(e, k, l) ==
    { [ok |-> TRUE, layer |-> l, dec |-> DecoderOf("Streaming", n, b, s, <<>>)] :
      n \in SeenNeed(e, k), b \in SeenBreaks(e, k), s \in BOOLEAN }

\* Seeded fault: the cap admits one byte too many.
CapOffByOne(n) == n <= MaxBuffered + 1

\* read_capped and CappedWriter: the decoded length a one-shot codec may have.
WithinCap(n) == n <= MaxBuffered

\* Whether a one-shot codec reads on to the end of its input: Lzma and Xz are
\* given what read_to_end returned; a self-ending one may stop at its end mark.
ReachesEnd(m, need, limit) ==
    IF m \in ReadToEnd \/ need > limit THEN {TRUE} ELSE BOOLEAN

\* One decoding of the whole payload at open time.
DecodeAll(e, k, m, l, need, breaks, strict, atEnd) ==
    LET n   == MinOf(need, l.limit)
        out == IF m = "Lzma" THEN MinOf(n, e.uncompressed_size) ELSE n
        end == IF atEnd THEN LayerEnd(e, k, Pulled(l, l.limit))
                        ELSE [ok |-> TRUE, layer |-> Pulled(l, n)]
    IN  [ ok    |-> /\ end.ok
                    /\ IF need > l.limit THEN ~strict ELSE ~breaks
                    /\ m = "Lzma" => out = e.uncompressed_size
                    /\ WithinCap(out),
          layer |-> end.layer,
          dec   |-> DecoderOf("Buffered", need, FALSE, FALSE, Units(e, k, 0, out)) ]

BufferedDecoders(e, k, m, l) ==
    UNION { { DecodeAll(e, k, m, l, n, b, s, a) :
              b \in SeenBreaks(e, k), s \in BOOLEAN, a \in ReachesEnd(m, n, l.limit) } :
            n \in SeenNeed(e, k) }

NewDecoder(e, k, m, l) ==
    CASE m = "Stored"       -> {[ok |-> TRUE, layer |-> l, dec |-> NoDecoder]}
      [] m \in Streaming    -> StreamingDecoders(e, k, l)
      [] m = "Other"        -> {[ok |-> FALSE, layer |-> l, dec |-> NoDecoder]}
      [] OTHER              -> BufferedDecoders(e, k, m, l)

(***************************************************************************)
(* Opening.                                                                *)
(***************************************************************************)
NoLayer == NewLayer("plain", 0)

Fresh ==
    /\ hasher' = <<>>
    /\ verified' = FALSE
    /\ delivered' = <<>>
    /\ last' = "none"
    /\ outcome' = "none"
    /\ UNCHANGED <<entry, summary>>

Refuse(k) ==
    /\ st' = "refused"
    /\ key' = k
    /\ layer' = NoLayer
    /\ dec' = NoDecoder
    /\ verify_crc' = TRUE
    /\ Fresh

\* Build the decoder for method m over layer l, or fail with its error.
Build(k, m, l, vc) ==
    \E d \in NewDecoder(entry, k, m, l) :
        \/ /\ d.ok
           /\ st' = "open"
           /\ key' = k
           /\ layer' = d.layer
           /\ dec' = d.dec
           /\ verify_crc' = vc
           /\ Fresh
        \/ ~d.ok /\ Refuse(k)

\* ZipArchive::open.
Open ==
    IF check_local_disk(entry, summary) /\ ~entry.encrypted /\ entry.readable
    THEN Build("none", entry.method, NewLayer("plain", Available(entry)), TRUE)
    ELSE Refuse("none")

PasswordPasses(k) == k = "right" \/ entry.collides

\* open_strong_decrypt: the method field is the real method.
OpenStrong(k) ==
    IF entry.readable /\ entry.header_ok /\ read_strong_header(entry.header) /\ PasswordPasses(k)
    THEN Build(k, entry.method,
               NewLayer("strong", StrongLimit(entry, entry.method)), TRUE)
    ELSE Refuse(k)

\* The WinZip AES arm of open_decrypt, AesReader::new included.
OpenAes(k) ==
    IF entry.readable /\ entry.header_ok /\ PasswordPasses(k)
    THEN Build(k, entry.actual_method, NewLayer("aes", Available(entry)),
               entry.aes = "AE1")
    ELSE Refuse(k)

\* The traditional arm of open_decrypt, ZipCryptoReader::new included.
OpenZipCrypto(k) ==
    IF /\ entry.readable
       /\ entry.header_ok
       /\ IF k = "right" THEN zipcrypto_check_byte(entry) = entry.check_byte
                         ELSE entry.collides
    THEN Build(k, entry.method, NewLayer("zipcrypto", Available(entry)), TRUE)
    ELSE Refuse(k)

OpenDecrypt(k) ==
    LET local == check_local_disk(entry, summary)
        plain == ~entry.encrypted /\ entry.aes = "none"
        coded == local /\ ~plain /\ ~entry.masked
    IN  \/ ~local /\ Refuse(k)
        \/ local /\ plain /\ Open
        \/ local /\ ~plain /\ entry.masked /\ Refuse(k)
        \/ coded /\ entry.aes = "none" /\ entry.strong /\ OpenStrong(k)
        \/ coded /\ entry.aes # "none" /\ OpenAes(k)
        \/ coded /\ entry.aes = "none" /\ ~entry.strong /\ OpenZipCrypto(k)

by_index == st = "idle" /\ Open

by_index_decrypt(k) == st = "idle" /\ OpenDecrypt(k)

\* The ZipFile, or the error, is dropped; the archive may be asked again.
Drop ==
    /\ st # "idle"
    /\ st' = "idle"
    /\ key' = "none"
    /\ layer' = NoLayer
    /\ dec' = NoDecoder
    /\ verify_crc' = TRUE
    /\ Fresh

(***************************************************************************)
(* Reading.  A decoder's read is the set of results it may have:           *)
(* res "data" with bytes, "eof" (Ok(0)) or "err".                          *)
(***************************************************************************)
Result(res, bs, l, d) == [res |-> res, bytes |-> bs, layer |-> l, dec |-> d]

\* What a decoder without input returns: the layer's error, or `ifEnd`.
AtLayerEnd(l, d, ifEnd) ==
    LET end == LayerEnd(entry, key, l)
    IN  Result(IF end.ok THEN ifEnd ELSE "err", <<>>, end.layer, d)

\* Decoder::Stored passes the buffer down: an empty one reaches AesReader,
\* which takes the 0 bytes it got for truncated ciphertext.
StoredRead(n) ==
    IF AtEnd(layer) THEN {AtLayerEnd(layer, dec, "eof")}
    ELSE IF n = 0 THEN {Result(IF layer.kind = "aes" THEN "err" ELSE "eof", <<>>, layer, dec)}
    ELSE { Result("data", Units(entry, key, layer.pos, i), Pulled(layer, i), dec) :
           i \in 1..MinOf(n, layer.limit - layer.pos) }

\* The streaming codecs fill their BufReader before each decoding step, the
\* step at the end mark included.
Filled ==
    IF dec.buffered > 0 THEN {[l |-> layer, d |-> dec]}
    ELSE { [l |-> Pulled(layer, i), d |-> [dec EXCEPT !.buffered = i]] :
           i \in 1..(layer.limit - layer.pos) }

StreamingStep(l, d, n) ==
    LET i == MinOf(n, MinOf(d.buffered, d.need - d.consumed))
    IN  CASE d.consumed >= d.need -> Result(IF d.breaks THEN "err" ELSE "eof", <<>>, l, d)
          [] OTHER -> IF i = 0 THEN Result("eof", <<>>, l, d)
                      ELSE Result("data", Units(entry, key, d.consumed, i), l,
                                  [d EXCEPT !.consumed = @ + i, !.buffered = @ - i])

StreamingRead(n) ==
    IF dec.buffered = 0 /\ AtEnd(layer)
    THEN {AtLayerEnd(layer, dec,
              IF dec.consumed >= dec.need THEN IF dec.breaks THEN "err" ELSE "eof"
              ELSE IF dec.strict THEN "err" ELSE "eof")}
    ELSE { StreamingStep(f.l, f.d, n) : f \in Filled }

BufferedRead(n) ==
    LET i == MinOf(n, Len(dec.queue))
    IN  {IF i = 0 THEN Result("eof", <<>>, layer, dec)
         ELSE Result("data", SubSeq(dec.queue, 1, i), layer,
                     [dec EXCEPT !.queue = SubSeq(@, i + 1, Len(@))])}

DecoderRead(n) ==
    CASE dec.kind = "Stored"    -> StoredRead(n)
      [] dec.kind = "Streaming" -> StreamingRead(n)
      [] dec.kind = "Buffered"  -> BufferedRead(n)

\* Seeded fault: the hasher keeps only the last chunk.
HashLastChunk(h, bs) == bs

HasherUpdate(h, bs) == h \o bs

\* Seeded fault: the end is noticed only after it has been verified.
EofOnceVerified(r) == r.res = "eof" /\ verified

IsEof(r) == r.res = "eof"

CrcOk == verify_crc => hasher = entry.crc32

EndsWith(res) == IF outcome = "none" THEN res ELSE outcome

\* Read for ZipFile.
Read(n) ==
    /\ st = "open"
    /\ \E r \in DecoderRead(n) :
        /\ layer' = r.layer
        /\ dec' = r.dec
        /\ \/ /\ r.res = "err"
              /\ last' = "err"
              /\ outcome' = EndsWith("failed")
              /\ UNCHANGED <<hasher, verified, delivered>>
           \/ /\ IsEof(r)
              /\ verified' = TRUE
              /\ last' = IF verified \/ CrcOk THEN "eof" ELSE "err"
              /\ outcome' = EndsWith(IF verified \/ CrcOk THEN "clean" ELSE "failed")
              /\ UNCHANGED <<hasher, delivered>>
           \/ /\ r.res # "err" /\ ~IsEof(r)
              /\ hasher' = HasherUpdate(hasher, r.bytes)
              /\ delivered' = delivered \o r.bytes
              /\ last' = "data"
              /\ UNCHANGED <<verified, outcome>>
    /\ UNCHANGED <<st, entry, summary, key, verify_crc>>

Init ==
    /\ st = "idle"
    /\ entry \in Entries
    /\ summary \in Summaries
    /\ key = "none"
    /\ layer = NoLayer
    /\ dec = NoDecoder
    /\ hasher = <<>>
    /\ verified = FALSE
    /\ verify_crc = TRUE
    /\ delivered = <<>>
    /\ last = "none"
    /\ outcome = "none"

Next ==
    \/ by_index
    \/ \E k \in {"right", "wrong"} : by_index_decrypt(k)
    \/ \E n \in BufSizes : Read(n)
    \/ Drop

Spec == Init /\ [][Next]_vars

\* Callers that decode (audit_reader, ZipVfs::content, the fallback read_at)
\* use io::copy or read_to_end: they read with a non-empty buffer until the end.
Fairness == WF_vars(\E n \in BufSizes \ {0} : Read(n))

LiveSpec == Spec /\ Fairness

(***************************************************************************)
(* Properties.                                                             *)
(***************************************************************************)
\* ZipFile::read: when the reading of an entry whose CRC is in force ends in
\* Ok(0), the bytes the caller was given are the bytes the CRC was taken of,
\* however the reads were cut up, whatever the codec did at its end and
\* whichever key was used.
CleanMeansVerified ==
    outcome = "clean" /\ verify_crc => delivered = entry.crc32

RealMethod == IF entry.aes = "none" THEN entry.method ELSE entry.actual_method

\* AesReader::finish: when the decoder reads its input to the end (Stored, and
\* the methods whose input is taken with read_to_end), a clean end of an AES
\* entry means that the auth code was compared and matched, and a key that is
\* wrong in spite of its verifier never gets that far.
AuthenticatedAtEof ==
    outcome = "clean" /\ layer.kind = "aes" /\ RealMethod \in {"Stored"} \union ReadToEnd
        => layer.auth /\ entry.authentic /\ key = "right"

\* What the entry was made from, when nothing about it is damaged.
Plaintext ==
    SubSeq(entry.bytes, 1,
        IF RealMethod # "Stored" THEN entry.need
        ELSE IF layer.kind = "strong" THEN entry.uncompressed_size ELSE Len(entry.bytes))

Intact ==
    /\ check_local_disk(entry, summary)
    /\ entry.readable /\ entry.header_ok /\ WellFormed(entry.header) /\ entry.authentic
    /\ entry.check_byte = (IF entry.descriptor THEN "time" ELSE "crc")
    /\ entry.present >= Len(entry.bytes)
    /\ entry.need <= Len(entry.bytes)
    /\ entry.uncompressed_size <= Len(entry.bytes)
    /\ ~entry.breaks
    /\ ~(entry.masked /\ (entry.encrypted \/ entry.aes # "none"))
    /\ RealMethod # "Other"
    /\ entry.uncompressed_size = Len(Plaintext)
    /\ RealMethod \notin Streaming \union {"Stored"} => Len(Plaintext) <= MaxBuffered
    /\ entry.aes # "AE2" => entry.crc32 = Plaintext

\* An undamaged, supported entry opened the way it asks to be (by_index when it
\* is not encrypted, with the right password when it is) is never refused, no
\* read of it fails, and what a clean end delivered is its plaintext.
IntactReadsClean ==
    Intact /\ (key = "right" \/ (~entry.encrypted /\ entry.aes = "none")) =>
        /\ st # "refused"
        /\ outcome # "failed"
        /\ outcome = "clean" => delivered = Plaintext

\* check_local_disk, the flag tests of open and open_decrypt and the refusal of
\* method 99 in Decoder::new together: no byte is ever returned of an entry of a
\* split archive, of an encrypted or AES entry opened without a password, or of
\* a masked one.
ReadsOnlyWhatItCanResolve ==
    delivered # <<>> =>
        /\ entry.disk_start = 0 /\ summary.disk_number = 0 /\ summary.cd_start_disk = 0
        /\ entry.encrypted \/ entry.aes # "none" => key # "none" /\ ~entry.masked

\* parse_strong_layout, read_strong_header (README: "panic-free on untrusted
\* input"): no header makes them index behind the buffer they read it into, or
\* compute a negative length, though sizes inside it and its own length are
\* chosen independently; what they accept has room for a block of each part.
StrongHeaderInside == entry.strong => IndexesInside(entry.header)

\* Once reading ended cleanly, every later read of the same ZipFile returns
\* Ok(0) again: no byte and no error comes after the end (AesReader::done and
\* ZipFile::verified keep the two end-of-stream checks from running twice).
EofIsFinal ==
    [][outcome = "clean" /\ st' = "open" => delivered' = delivered /\ last' = "eof"]_vars

\* A caller that keeps reading reaches the end of the entry or an error,
\* however damaged the entry is.
EveryReadEnds == st = "open" ~> (outcome # "none" \/ st # "open")

\* docs/validation.md on WinZip AES: the auth code "is verified at EOF".
HmacVerifiedAtEof ==
    outcome = "clean" /\ layer.kind = "aes" => layer.auth
================================================================================
