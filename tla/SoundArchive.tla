----------------------------- MODULE SoundArchive -----------------------------
(***************************************************************************)
(* What a file holds, and which files are sound archives.                  *)
(*                                                                         *)
(* A file is its length and the records in it, by offset: recs[p] is the   *)
(* record whose signature starts at p, and no signature starts anywhere    *)
(* else.  Record lengths are the real ones; the widths of integers are     *)
(* scaled down.                                                            *)
(*                                                                         *)
(* wrote says what the writer put into a file and where:                   *)
(*   entries   the members, with the places of their local headers         *)
(*   data      where the data of each of them starts                       *)
(*   headers   the place of each header of the directory, and of their end *)
(*   dir       where the directory is, relative to the archive, and how    *)
(*             large                                                       *)
(*   eocd      the place of the end record                                 *)
(*   prefix    how many bytes lie in front of the archive                  *)
(*   sig_len   the length of the archive's signature, or None              *)
(*   listable  how many members open without a password in front of the    *)
(*             first that does not                                         *)
(* wrote = None stands for a file of which nothing is promised.            *)
(***************************************************************************)
EXTENDS ExtraFields

CONSTANTS
    U16_SENTINEL, U32_SENTINEL,
    Max64,          \* 2^64 - 1
    MAX_ENTRIES

EOCD_MIN          == 22
EOCD_SCAN_MAX     == EOCD_MIN + 65535
ZIP64_LOCATOR_LEN == 20
ZIP64_EOCD_LEN    == 56
CD_HEADER_FIXED   == 46
LFH_FIXED         == 30

\* Where the directory is and what it holds, as the EOCD or its Zip64 variant
\* records it.
Dirs == [ cd_offset : 0..Max64, cd_size : 0..Max64, total_entries : 0..Max64,
          disk_number : Nat, cd_start_disk : Nat ]

DirOf(rec) ==
    [ cd_offset |-> rec.cd_offset, cd_size |-> rec.cd_size, total_entries |-> rec.total_entries,
      disk_number |-> rec.disk_number, cd_start_disk |-> rec.cd_start_disk ]

CentralEntries ==
    [ name : STRING, encrypted : BOOLEAN, disk_start : Nat,
      decodes : BOOLEAN,      \* Decoder::new takes its method (and data, if it decodes at once)
      uncompressed_size : 0..Max64, compressed_size : 0..Max64, lfh_offset : 0..Max64,
      aes : AesRecords \union {None}, extra : ExtraRecords ]

\* What a directory header may hold: numbers of their width, and in the extra
\* block whatever a file can hold there.
IsHeader(r) ==
    /\ r.name \in STRING /\ r.encrypted \in BOOLEAN /\ r.decodes \in BOOLEAN
    /\ r.var_len \in Nat /\ r.disk_start \in Nat
    /\ {r.uncompressed_size, r.compressed_size, r.lfh_offset} \subseteq 0..Max64
    /\ r.extra \in Blocks
    /\ \A i \in 1..Len(r.extra.fields) :
          r.extra.fields[i].id = "zip64" => r.extra.fields[i].words \in Seq(0..Max64)

RecordsIn(a) ==
    \A p \in DOMAIN a.recs :
        /\ p \in Nat
        /\ a.recs[p].sig \in {"EOCD", "ZIP64_EOCD"} => DirOf(a.recs[p]) \in Dirs
        /\ a.recs[p].sig = "CD_HEADER" => IsHeader(a.recs[p])

(***************************************************************************)
(* Sound archives, as the ZIP format has them.                             *)
(***************************************************************************)
RecordAt(a, p, sig) == p \in DOMAIN a.recs /\ a.recs[p].sig = sig

\* The end record with its comment is in the file and within reach of a search
\* from the end, and nothing behind it looks like another.
SoundEnd(a) ==
    LET w == a.wrote
    IN  /\ RecordAt(a, w.eocd, "EOCD")
        /\ a.recs[w.eocd].comment_len \in Nat
        /\ w.eocd + EOCD_MIN + a.recs[w.eocd].comment_len <= a.len
        /\ a.len <= w.eocd + EOCD_SCAN_MAX
        /\ \A p \in DOMAIN a.recs :
              p > w.eocd /\ p + EOCD_MIN <= a.len => a.recs[p].sig # "EOCD"

\* The end record says so where a number of it is in the Zip64 record.
InZip64(end) ==
    \/ end.cd_offset = U32_SENTINEL
    \/ end.cd_size = U32_SENTINEL
    \/ end.total_entries = U16_SENTINEL

\* The Zip64 record: found over a locator right in front of the end record.
SoundZip64(a) ==
    LET loc == a.wrote.eocd - ZIP64_LOCATOR_LEN
        z   == a.recs[loc].z64_eocd_offset
    IN  /\ RecordAt(a, loc, "ZIP64_LOCATOR")
        /\ a.len <= loc + EOCD_SCAN_MAX
        /\ RecordAt(a, z, "ZIP64_EOCD")
        /\ z + ZIP64_EOCD_LEN <= a.len
        /\ DirOf(a.recs[z]) = a.wrote.dir

\* The directory lies between the members and the end record, and no header of
\* another one behind it.  In front of an archive with a prefix the directory
\* ends at the end record, and is not where the end record says.
SoundDirectory(a) ==
    LET w     == a.wrote
        n     == Len(w.entries)
        first == w.headers[1]
    IN  /\ w.dir.total_entries = n /\ n <= MAX_ENTRIES
        /\ first = w.dir.cd_offset + w.prefix
        /\ w.headers[n + 1] <= first + w.dir.cd_size
        /\ first + w.dir.cd_size <= w.eocd
        /\ IF InZip64(a.recs[w.eocd]) THEN SoundZip64(a) ELSE DirOf(a.recs[w.eocd]) = w.dir
        /\ \A p \in DOMAIN a.recs :
              a.recs[p].sig = "CD_HEADER" /\ p >= first => \E i \in 1..n : p = w.headers[i]
        /\ w.prefix > 0 =>
              /\ n > 0 /\ ~InZip64(a.recs[w.eocd])
              /\ first + w.dir.cd_size = w.eocd
              /\ ~RecordAt(a, w.dir.cd_offset, "CD_HEADER")

\* The extra fields of a header agree with what the member has.
SoundExtra(fields, method, e) ==
    LET with(id) == {fields[i] : i \in {j \in 1..Len(fields) : fields[j].id = id}}
        whole    == {t \in UNION {{f.attrs[i] : i \in 1..Len(f.attrs)} : f \in with("ntfs")} : t.tag = 1}
        ntfs     == e.extra.ntfs
        unix     == e.extra.unix
        \* of a flagged time that is not there, later ones are not either
        given(f, c) == IF c \in f.flags /\ unix[c] # None THEN <<unix[c]>> ELSE <<>>
    IN  /\ IF method = 99
           THEN /\ with("aes") # {} /\ e.aes # None
                /\ \A f \in with("aes") :
                      f.words = <<IF e.aes.is_ae2 THEN 2 ELSE 1, e.aes.strength, e.aes.actual_method>>
           ELSE e.aes = None
        /\ \A t \in whole : t.words = <<ntfs["mtime"], ntfs["atime"], ntfs["ctime"]>>
        /\ whole = {} => ntfs = NoExtra.ntfs
        /\ \A f \in with("unix") :
              /\ f.words = given(f, "mtime") \o given(f, "atime") \o given(f, "ctime")
              /\ \A c \in Clocks : unix[c] # None =>
                    \A d \in f.flags : Order[d] < Order[c] => unix[d] # None
        /\ \A c \in Clocks : unix[c] # None => \E f \in with("unix") : c \in f.flags
        /\ \A name \in {"unicode_path", "unicode_comment"} :
              /\ \A f \in with(name) : f.text = e.extra[name]
              /\ with(name) = {} => e.extra[name] = None

\* A header holds its member; a number that is not in its place is in the Zip64
\* field, behind those in front of it that are there too.
SoundHeader(h, e, prefix) ==
    LET stored == <<h.uncompressed_size, h.compressed_size, h.lfh_offset>>
        real   == <<e.uncompressed_size, e.compressed_size, e.lfh_offset - prefix>>
        moved(k) == IF stored[k] = U32_SENTINEL THEN <<real[k]>> ELSE <<>>
        zip64  == {f \in {h.extra.fields[i] : i \in 1..Len(h.extra.fields)} : f.id = "zip64"}
    IN  /\ h.name = e.name /\ h.encrypted = e.encrypted
        /\ h.decodes = e.decodes /\ h.disk_start = e.disk_start
        /\ prefix <= e.lfh_offset
        /\ \A k \in 1..3 : stored[k] \in {real[k], U32_SENTINEL}
        /\ \A f \in zip64 : f.words = moved(1) \o moved(2) \o moved(3)
        /\ zip64 = {} => \A k \in 1..3 : stored[k] # U32_SENTINEL
        /\ SoundExtra(h.extra.fields, h.method, e)

\* The headers follow one another, each with its own local header in the file.
SoundMember(a, i) ==
    LET w == a.wrote
        e == w.entries[i]
        h == a.recs[w.headers[i]]
        l == a.recs[e.lfh_offset]
    IN  /\ RecordAt(a, w.headers[i], "CD_HEADER")
        /\ w.headers[i + 1] = w.headers[i] + CD_HEADER_FIXED + h.var_len
        /\ SoundHeader(h, e, w.prefix)
        /\ RecordAt(a, e.lfh_offset, "LFH")
        /\ l.name = e.name /\ l.name_len \in Nat /\ l.extra_len \in Nat
        /\ w.data[i] = e.lfh_offset + LFH_FIXED + l.name_len + l.extra_len
        /\ w.data[i] <= a.len

\* A signature of the archive follows the last header, as a part of the
\* directory or behind it.
SoundSignature(a) ==
    LET w   == a.wrote
        p   == w.headers[Len(w.entries) + 1]
        end == w.headers[1] + w.dir.cd_size
    IN  IF w.sig_len = None THEN ~RecordAt(a, p, "ARCHIVE_SIG")
        ELSE /\ RecordAt(a, p, "ARCHIVE_SIG")
             /\ a.recs[p].sig_len = w.sig_len /\ w.sig_len \in Nat
             /\ p + 6 + w.sig_len <= IF p = end THEN w.eocd ELSE end

\* A member that by_index can open without a password.
Opens(a, i) ==
    LET e == a.wrote.entries[i]
    IN  /\ a.wrote.dir.disk_number = 0 /\ a.wrote.dir.cd_start_disk = 0 /\ e.disk_start = 0
        /\ ~e.encrypted /\ e.decodes

Sound(a) ==
    LET w == a.wrote
        n == Len(w.entries)
    IN  /\ w.entries \in Seq(CentralEntries)
        /\ w.prefix \in Nat /\ w.eocd \in Nat /\ w.dir \in Dirs
        /\ w.headers \in Seq(Nat) /\ Len(w.headers) = n + 1
        /\ SoundEnd(a)
        /\ SoundDirectory(a)
        /\ \A i \in 1..n : SoundMember(a, i)
        /\ SoundSignature(a)
        /\ w.listable \in 0..n
        /\ \A i \in 1..w.listable : Opens(a, i)
        /\ w.listable < n => ~Opens(a, w.listable + 1)
================================================================================
