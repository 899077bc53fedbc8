--------------------------- MODULE CentralDirectory ---------------------------
(***************************************************************************)
(* ZipArchive::new: from the end-of-central-directory record (EOCD),       *)
(* found backwards from the end of the file, over its Zip64 variant and a  *)
(* prefix in front of the archive, to the list of entries; then what the   *)
(* two clients of the list do with it: structural_view (the audit and the  *)
(* mount) and the list command.                                            *)
(***************************************************************************)
EXTENDS SoundArchive

CONSTANT Archives   \* the files that may be opened

ASSUME DirectoryAssumption ==
    /\ U16_SENTINEL \in Nat /\ U32_SENTINEL \in Nat /\ MAX_ENTRIES \in Nat
    /\ Max64 \in Nat /\ U32_SENTINEL <= Max64 /\ U16_SENTINEL <= Max64
    /\ \A a \in Archives : a.len \in 0..Max64 /\ RecordsIn(a)
    /\ \A a \in Archives : a.wrote # None => Sound(a)

VARIABLES
    archive,    \* the file, and what its writer put into it (None: nothing is promised)
    pc,         \* the step parse_central_directory, or a client, stands at
    error,      \* the error returned
    eocd_pos,
    dir,
    prefix,
    cursor,     \* the position of the Reader over the directory
    entries,
    summary,
    out         \* what the client has produced: layouts, or printed lines

vars == <<archive, pc, error, eocd_pos, dir, prefix, cursor, entries, summary, out>>

file_len == archive.len
SigAt(p) == IF p \in DOMAIN archive.recs THEN archive.recs[p].sig ELSE "none"

\* Steps up to the return of ZipArchive::new.
Opening == {"scanning", "resolving", "locating", "parsing"}

TypeOK ==
    /\ pc \in Opening \union {"parsed", "viewing", "listing", "viewed", "listed", "error"}
    /\ eocd_pos \in 0..file_len
    /\ dir \in Dirs
    /\ prefix \in 0..file_len
    /\ cursor \in 0..dir.cd_size
    /\ entries \in Seq(CentralEntries)
    /\ Len(out) <= Len(entries)
    /\ (error # "none") <=> (pc = "error")

Fail(e) == pc' = "error" /\ error' = e

(***************************************************************************)
(* The EOCD.                                                               *)
(***************************************************************************)
scan_start == IF file_len <= EOCD_SCAN_MAX THEN 0 ELSE file_len - EOCD_SCAN_MAX

EocdsInTail ==
    {p \in DOMAIN archive.recs :
        SigAt(p) = "EOCD" /\ p >= scan_start /\ p + EOCD_MIN <= file_len}

find_eocd == CHOOSE p \in EocdsInTail : \A q \in EocdsInTail : q <= p

FindEocd ==
    /\ pc = "scanning"
    /\ \/ EocdsInTail = {} /\ Fail("NoEocd") /\ UNCHANGED eocd_pos
       \/ /\ EocdsInTail # {}
          /\ eocd_pos' = find_eocd
          /\ pc' = "resolving"
          /\ UNCHANGED error
    /\ UNCHANGED <<archive, dir, prefix, cursor, entries, summary, out>>

eocd == archive.recs[eocd_pos]

is_zip64 ==
    \/ eocd.cd_offset = U32_SENTINEL
    \/ eocd.cd_size = U32_SENTINEL
    \/ eocd.total_entries = U16_SENTINEL

(***************************************************************************)
(* resolve_zip64_eocd: the locator right in front of the EOCD, the record  *)
(* it points at.                                                           *)
(***************************************************************************)
HasLocator ==
    /\ eocd_pos >= scan_start + ZIP64_LOCATOR_LEN
    /\ SigAt(eocd_pos - ZIP64_LOCATOR_LEN) = "ZIP64_LOCATOR"

z64_eocd_offset == archive.recs[eocd_pos - ZIP64_LOCATOR_LEN].z64_eocd_offset

zip64_eocd_error ==
    IF ~HasLocator THEN "Zip64Unsupported"
    ELSE IF z64_eocd_offset + ZIP64_EOCD_LEN > file_len THEN "Io"
    ELSE IF SigAt(z64_eocd_offset) # "ZIP64_EOCD" THEN "BadSignature"
    ELSE "none"

Resolved(d) == dir' = d /\ pc' = "locating" /\ UNCHANGED error

ResolveEocd ==
    /\ pc = "resolving"
    /\ \/ ~is_zip64 /\ Resolved(DirOf(eocd))
       \/ /\ is_zip64 /\ zip64_eocd_error = "none"
          /\ Resolved(DirOf(archive.recs[z64_eocd_offset]))
       \/ is_zip64 /\ zip64_eocd_error # "none" /\ Fail(zip64_eocd_error) /\ UNCHANGED dir
    /\ UNCHANGED <<archive, eocd_pos, prefix, cursor, entries, summary, out>>

(***************************************************************************)
(* The place of the directory.                                             *)
(***************************************************************************)
cd_header_at(p) == p + 4 <= file_len /\ SigAt(p) = "CD_HEADER"

\* What is missing between the recorded end of the directory and the EOCD.
RecordedEnd == dir.cd_offset + dir.cd_size
Gap         == eocd_pos - RecordedEnd
HasGap      == ~is_zip64 /\ RecordedEnd < eocd_pos

\* Seeded fault: a gap is a prefix whatever lies at the recorded offset.
AnyGap == IF HasGap THEN Gap ELSE 0

DetectPrefix ==
    IF HasGap /\ ~cd_header_at(dir.cd_offset) /\ cd_header_at(dir.cd_offset + Gap)
    THEN Gap ELSE 0

\* Seeded fault: the end of the directory is computed modulo 2^64.
WrappedEndInFile(start) == (start + dir.cd_size) % (Max64 + 1) <= file_len

\* checked_add.
EndInFile(start) == start + dir.cd_size <= Max64 /\ start + dir.cd_size <= file_len

LocateDirectory ==
    /\ pc = "locating"
    /\ prefix' = DetectPrefix
    /\ LET fits == EndInFile(dir.cd_offset + DetectPrefix)
       IN  \/ ~fits /\ Fail("CentralDirOutOfRange")
           \/ fits /\ dir.total_entries > MAX_ENTRIES /\ Fail("TooManyEntries")
           \/ /\ fits /\ dir.total_entries <= MAX_ENTRIES
              /\ pc' = "parsing"
              /\ UNCHANGED error
    /\ UNCHANGED <<archive, eocd_pos, dir, cursor, entries, summary, out>>

(***************************************************************************)
(* parse_cd_entries.                                                       *)
(***************************************************************************)
actual_cd_offset == dir.cd_offset + prefix
remaining        == dir.cd_size - cursor
Takes(n)         == n <= remaining
HeaderPos        == actual_cd_offset + cursor
header           == archive.recs[HeaderPos]

Base == <<header.uncompressed_size, header.compressed_size, header.lfh_offset>>
Need == [k \in 1..3 |-> Base[k] = U32_SENTINEL]
Sentinels == \E k \in 1..3 : Need[k]

\* Seeded fault: the name, extra field and comment of a header are not checked
\* against the end of the directory.
FixedPartOnly ==
    IF ~Takes(CD_HEADER_FIXED) THEN "Truncated"
    ELSE IF SigAt(HeaderPos) # "CD_HEADER" THEN "BadSignature" ELSE "none"

header_error ==
    IF ~Takes(CD_HEADER_FIXED) THEN "Truncated"
    ELSE IF SigAt(HeaderPos) # "CD_HEADER" THEN "BadSignature"
    ELSE IF ~Takes(CD_HEADER_FIXED + header.var_len) THEN "Truncated"
    ELSE IF Sentinels THEN zip64_error(header.extra, Need) ELSE "none"

Entry ==
    LET v == IF Sentinels THEN apply_zip64_extra(header.extra, Need, Base) ELSE Base
    IN  [ name |-> header.name, encrypted |-> header.encrypted, decodes |-> header.decodes,
          disk_start |-> header.disk_start, uncompressed_size |-> v[1],
          compressed_size |-> v[2], lfh_offset |-> v[3],
          aes |-> IF header.method = 99 THEN parse_aes_extra(header.extra) ELSE None,
          extra |-> parse_extra_fields(header.extra) ]

ParseHeader ==
    /\ pc = "parsing"
    /\ Len(entries) < dir.total_entries
    /\ \/ header_error # "none" /\ Fail(header_error) /\ UNCHANGED <<cursor, entries>>
       \/ /\ header_error = "none"
          /\ entries' = Append(entries, Entry)
          /\ cursor' = cursor + CD_HEADER_FIXED + header.var_len
          /\ UNCHANGED <<pc, error>>
    /\ UNCHANGED <<archive, eocd_pos, dir, prefix, summary, out>>

\* Where the headers ended: inside cd_size, or, if they fill it, behind it.
archive_signature_len ==
    IF /\ SigAt(HeaderPos) = "ARCHIVE_SIG"
       /\ Takes(6) \/ (remaining = 0 /\ HeaderPos + 6 <= file_len)
    THEN archive.recs[HeaderPos].sig_len ELSE None

Shifted(e) == [e EXCEPT !.lfh_offset = (@ + prefix) % (Max64 + 1)]

FinishParse ==
    /\ pc = "parsing"
    /\ Len(entries) = dir.total_entries
    /\ entries' = [i \in 1..Len(entries) |-> Shifted(entries[i])]
    /\ summary' = [ file_len |-> file_len, central_dir_offset |-> actual_cd_offset,
                    eocd_end_offset |-> eocd_pos + EOCD_MIN + eocd.comment_len,
                    archive_signature_len |-> archive_signature_len ]
    /\ pc' = "parsed"
    /\ UNCHANGED <<archive, error, eocd_pos, dir, prefix, cursor, out>>

(***************************************************************************)
(* read_lfh_fields and its clients.                                        *)
(***************************************************************************)
lfh_error(p) ==
    IF p + LFH_FIXED > file_len THEN "Io"
    ELSE IF SigAt(p) # "LFH" THEN "BadSignature"
    ELSE IF p + LFH_FIXED + archive.recs[p].name_len > file_len THEN "Io"
    ELSE "none"

data_start(p) == p + LFH_FIXED + archive.recs[p].name_len + archive.recs[p].extra_len

at == entries[Len(out) + 1]

Layout ==
    [ name |-> at.name, local_name |-> archive.recs[at.lfh_offset].name,
      lfh_offset |-> at.lfh_offset, data_start |-> data_start(at.lfh_offset) ]

Asks(client) ==
    /\ pc = "parsed"
    /\ pc' = client
    /\ UNCHANGED <<archive, error, eocd_pos, dir, prefix, cursor, entries, summary, out>>

ClientStep(client) ==
    /\ pc = client
    /\ UNCHANGED <<archive, eocd_pos, dir, prefix, cursor, entries, summary>>

structural_view ==
    /\ ClientStep("viewing")
    /\ Len(out) < Len(entries)
    /\ LET e == lfh_error(at.lfh_offset)
       IN  \/ e # "none" /\ Fail(e) /\ out' = <<>>
           \/ e = "none" /\ out' = Append(out, Layout) /\ UNCHANGED <<pc, error>>

\* Seeded fault: the encrypted flag is not looked at.
EncryptedOpens(e) ==
    IF e.disk_start # 0 \/ dir.disk_number # 0 \/ dir.cd_start_disk # 0 THEN "SpannedArchive"
    ELSE IF lfh_error(e.lfh_offset) # "none" THEN lfh_error(e.lfh_offset)
    ELSE IF ~e.decodes THEN "Unsupported" ELSE "none"

\* by_index without a password, as EntryReader has it.
by_index_error(e) ==
    IF e.disk_start # 0 \/ dir.disk_number # 0 \/ dir.cd_start_disk # 0 THEN "SpannedArchive"
    ELSE IF e.encrypted THEN "EncryptedNoPassword"
    ELSE IF lfh_error(e.lfh_offset) # "none" THEN lfh_error(e.lfh_offset)
    ELSE IF ~e.decodes THEN "Unsupported" ELSE "none"

\* The list command: a line per entry.
list ==
    /\ ClientStep("listing")
    /\ Len(out) < Len(entries)
    /\ LET e == by_index_error(at)
       IN  \/ e # "none" /\ Fail(e) /\ UNCHANGED out
           \/ /\ e = "none"
              /\ out' = Append(out, [name |-> at.name, size |-> at.uncompressed_size])
              /\ UNCHANGED <<pc, error>>

ClientReturns ==
    /\ \E c \in {"viewing", "listing"} : ClientStep(c)
    /\ Len(out) = Len(entries)
    /\ pc' = IF pc = "viewing" THEN "viewed" ELSE "listed"
    /\ UNCHANGED <<error, out>>

Init ==
    /\ archive \in Archives
    /\ pc = "scanning"
    /\ error = "none"
    /\ eocd_pos = 0
    /\ dir = [cd_offset |-> 0, cd_size |-> 0, total_entries |-> 0, disk_number |-> 0,
              cd_start_disk |-> 0]
    /\ prefix = 0
    /\ cursor = 0
    /\ entries = <<>>
    /\ summary = None
    /\ out = <<>>

Next ==
    \/ FindEocd \/ ResolveEocd \/ LocateDirectory \/ ParseHeader \/ FinishParse
    \/ \E c \in {"viewing", "listing"} : Asks(c)
    \/ structural_view \/ list \/ ClientReturns

Spec == Init /\ [][Next]_vars

(***************************************************************************)
(* Properties.                                                             *)
(***************************************************************************)
\* What is to be reported of a sound archive.
WrittenSummary ==
    [ file_len |-> archive.len, central_dir_offset |-> archive.wrote.headers[1],
      eocd_end_offset |-> archive.wrote.eocd + EOCD_MIN + archive.recs[archive.wrote.eocd].comment_len,
      archive_signature_len |-> archive.wrote.sig_len ]

WrittenLayouts ==
    [i \in 1..Len(archive.wrote.entries) |->
        LET e == archive.wrote.entries[i]
        IN  [ name |-> e.name, local_name |-> e.name, lfh_offset |-> e.lfh_offset,
              data_start |-> archive.wrote.data[i] ]]

WrittenLines ==
    [i \in 1..Len(archive.wrote.entries) |->
        [name |-> archive.wrote.entries[i].name, size |-> archive.wrote.entries[i].uncompressed_size]]

\* ZipArchive::new and structural_view against the writer of the archive.
\* Whatever lies in front of the archive and behind it, however long its
\* comment, wherever a signature record is and whichever numbers are in Zip64
\* records, in the EOCD or in single headers: opening it does not fail, its
\* entries are the members in order, with their sizes, extra fields and the
\* place of their local header in the file, the summary is right, and the view
\* pairs each of them with its own local header and data.
WrittenIsRead ==
    archive.wrote # None =>
        /\ error \in {"none", "SpannedArchive", "EncryptedNoPassword", "Unsupported"}
        /\ summary # None => entries = archive.wrote.entries /\ summary = WrittenSummary
        /\ pc = "viewed" => out = WrittenLayouts

\* For every file, damaged ones included: both offsets that the prefix test
\* reads at are in the file (the "cov:unreachable" note of cd_header_at), the
\* directory that is then allocated and read is in the file, and the headers
\* parsed from it do not reach behind it, however many the EOCD promises.
ParserStaysInside ==
    /\ pc = "locating" /\ HasGap =>
          dir.cd_offset + 4 <= file_len /\ dir.cd_offset + Gap + 4 <= file_len
    /\ pc = "parsing" \/ summary # None =>
          /\ actual_cd_offset + dir.cd_size <= file_len
          /\ cursor <= dir.cd_size
          /\ CD_HEADER_FIXED * Len(entries) <= cursor

\* list opens each entry to print it, though it only prints what the directory
\* says: it prints, with the right names and sizes, the members in front of the
\* first one that cannot be opened without a password, and fails there.
ListsUpToRefused ==
    archive.wrote # None
    /\ (pc = "listed" \/ error \in {"SpannedArchive", "EncryptedNoPassword", "Unsupported"}) =>
        /\ out = SubSeq(WrittenLines, 1, archive.wrote.listable)
        /\ (pc = "listed") <=> (archive.wrote.listable = Len(archive.wrote.entries))
================================================================================
