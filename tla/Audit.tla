--------------------------------- MODULE Audit ---------------------------------
(***************************************************************************)
(* audit_reader: the structural view of an archive (both copies of each    *)
(* entry's header), the findings made of it, and the decode of every entry *)
(* for its CRC.                                                            *)
(*                                                                         *)
(* An entry is a record: what its central header says, what its local one  *)
(* says, where its data starts and how reading it with by_index ends       *)
(* (EntryReader's subject).  A name is the sequence of the pieces          *)
(* split(['/', '\\']) cuts it into.  The report is the set of its findings *)
(* (their order and wording are left out); entries count from 1.           *)
(***************************************************************************)
EXTENDS Naturals, Sequences

CONSTANTS
    Archives,      \* the archives that may be audited
    Sentinel,      \* 0xFFFFFFFF
    Max64,         \* 2^64 - 1
    DriveRooted,   \* pieces that begin with a drive letter
    Bidi, Control, \* pieces with a bidi override, with a control character,
                   \* as has_bidi_override and has_control_chars find them
    Nul            \* pieces with a NUL

HeaderFields ==
    [ name : Seq(STRING), method : STRING, descriptor : BOOLEAN, crc32 : Nat,
      compressed_size : 0..Max64, uncompressed_size : 0..Max64 ]

EntryRecords ==
    [ readable : BOOLEAN,          \* read_lfh_fields succeeds
      lfh_offset : 0..Max64,
      data_start : 0..(Max64 - 1), \* the local header was read in a file of < 2^63 bytes
      central : HeaderFields, local : HeaderFields,
      decode : {"fine", "bad_crc", "error", "refused"} ]  \* by_index and io::copy

ArchiveRecords ==
    [ opens : BOOLEAN,             \* ZipArchive::new succeeds
      entries : Seq(EntryRecords),
      file_len : Nat, eocd_end_offset : Nat, disk_number : Nat, cd_start_disk : Nat ]

ASSUME AuditAssumption ==
    /\ Max64 \in Nat /\ Sentinel \in 0..Max64
    /\ Nul \subseteq Control       \* NUL is a control character
    /\ \A a \in Archives : a \in ArchiveRecords
    /\ \A a \in Archives : \A i \in 1..Len(a.entries) :   \* the local fields are u32
          /\ a.entries[i].local.compressed_size <= Sentinel
          /\ a.entries[i].local.uncompressed_size <= Sentinel

VARIABLES
    archive,
    pc,       \* "opening", "viewing", "auditing", "decoding", "done" or "error"
    at,       \* the entry the loop stands at
    out       \* the findings so far

vars == <<archive, pc, at, out>>

Codes == { "ZIP-CD-LFH-MISMATCH", "ZIP-NAME-TRAVERSAL", "ZIP-NAME-ABSOLUTE",
           "ZIP-PREPENDED-DATA", "ZIP-TRAILING-DATA", "ZIP-OVERLAP",
           "ZIP-SPANNING-ANOMALY", "ZIP-NAME-BIDI", "ZIP-NAME-CONTROL", "ZIP-CRC-MISMATCH" }

FieldNames == {"", "name", "method", "crc32", "compressed_size", "uncompressed_size"}

\* index and other: the entries it is about (0: the container), at: a number
\* that belongs to it, field: the header field that disagrees.
Findings == [code : Codes, index : Nat, other : Nat, at : Nat, field : FieldNames]

Finding(code, i) == [code |-> code, index |-> i, other |-> 0, at |-> 0, field |-> ""]

TypeOK ==
    /\ archive \in ArchiveRecords
    /\ pc \in {"opening", "viewing", "auditing", "decoding", "done", "error"}
    /\ at \in 1..(Len(archive.entries) + 1)
    /\ \A f \in out : f \in Findings /\ {f.index, f.other} \subseteq 0..Len(archive.entries)

\* The findings {f} under condition c.
When(c, f) == IF c THEN {f} ELSE {}

(***************************************************************************)
(* audit_entry.                                                            *)
(***************************************************************************)
HasPiece(name, pieces) == \E k \in 1..Len(name) : name[k] \in pieces

\* Seeded fault: drive letters are not looked for.
RootedOnly(name) == Len(name) > 1 /\ name[1] = ""

is_absolute(name) ==
    \/ Len(name) > 1 /\ name[1] = ""
    \/ name[1] \in DriveRooted

audit_name(i, name) ==
    When(HasPiece(name, {".."}), Finding("ZIP-NAME-TRAVERSAL", i))
    \union When(is_absolute(name), Finding("ZIP-NAME-ABSOLUTE", i))
    \union When(HasPiece(name, Bidi), Finding("ZIP-NAME-BIDI", i))
    \union When(HasPiece(name, Control), Finding("ZIP-NAME-CONTROL", i))

mismatch(i, field) == [Finding("ZIP-CD-LFH-MISMATCH", i) EXCEPT !.field = field]

\* Seeded fault: a zip64 sentinel in the local header is compared as a size.
SizeDiffers(central, local) == central # local

compare_size(central, local) == local # Sentinel /\ central # local

audit_entry(i, e) ==
    LET c == e.central
        l == e.local
    IN  audit_name(i, c.name)
        \union When(c.name # l.name, mismatch(i, "name"))
        \union When(c.method # l.method, mismatch(i, "method"))
        \union IF l.descriptor THEN {} ELSE
            When(c.crc32 # l.crc32, mismatch(i, "crc32"))
            \union When(compare_size(c.compressed_size, l.compressed_size),
                        mismatch(i, "compressed_size"))
            \union When(compare_size(c.uncompressed_size, l.uncompressed_size),
                        mismatch(i, "uncompressed_size"))

(***************************************************************************)
(* audit_overlaps.                                                         *)
(***************************************************************************)
SpanEnd(e) ==
    IF e.data_start + e.central.compressed_size > Max64 THEN Max64
    ELSE e.data_start + e.central.compressed_size

\* Seeded fault: the spans are left in central-directory order.
InListOrder(es, i, j) == i < j

\* sort_by_key is stable.
SortsBefore(es, i, j) ==
    \/ es[i].data_start < es[j].data_start
    \/ es[i].data_start = es[j].data_start /\ i < j

\* windows(2): j comes right after i.
Neighbours(es, i, j) ==
    /\ SortsBefore(es, i, j)
    /\ \A k \in 1..Len(es) : ~(SortsBefore(es, i, k) /\ SortsBefore(es, k, j))

audit_overlaps(es) ==
    { [Finding("ZIP-OVERLAP", p[1]) EXCEPT !.other = p[2], !.at = es[p[2]].data_start] :
      p \in { q \in (1..Len(es)) \X (1..Len(es)) :
                /\ Neighbours(es, q[1], q[2])
                /\ es[q[2]].data_start < SpanEnd(es[q[1]]) } }

(***************************************************************************)
(* audit_layout, audit_container.                                          *)
(***************************************************************************)
PrependedData(es) ==
    { [Finding("ZIP-PREPENDED-DATA", 0) EXCEPT !.at = es[i].lfh_offset] :
      i \in { k \in 1..Len(es) : /\ es[k].lfh_offset > 0
                                 /\ \A j \in 1..Len(es) : es[k].lfh_offset <= es[j].lfh_offset } }

audit_layout(es) ==
    PrependedData(es)
    \union (UNION { audit_entry(i, es[i]) : i \in 1..Len(es) })
    \union audit_overlaps(es)

Spans(disk) == disk # 0 /\ disk # Sentinel

audit_container(a) ==
    When(a.file_len > a.eocd_end_offset,
         [Finding("ZIP-TRAILING-DATA", 0) EXCEPT !.at = a.file_len - a.eocd_end_offset])
    \union When(Spans(a.disk_number) \/ Spans(a.cd_start_disk), Finding("ZIP-SPANNING-ANOMALY", 0))

(***************************************************************************)
(* audit_reader.                                                           *)
(***************************************************************************)
Init ==
    /\ archive \in Archives
    /\ pc = "opening"
    /\ at = 1
    /\ out = {}

Open ==
    /\ pc = "opening"
    /\ pc' = IF archive.opens THEN "viewing" ELSE "error"
    /\ UNCHANGED <<archive, at, out>>

\* structural_view: one unreadable local header fails the whole view.
View ==
    /\ pc = "viewing"
    /\ \/ at > Len(archive.entries) /\ pc' = "auditing" /\ at' = 1
       \/ /\ at <= Len(archive.entries) /\ archive.entries[at].readable
          /\ at' = at + 1
          /\ UNCHANGED pc
       \/ /\ at <= Len(archive.entries) /\ ~archive.entries[at].readable
          /\ pc' = "error"
          /\ UNCHANGED at
    /\ UNCHANGED <<archive, out>>

AuditStructure ==
    /\ pc = "auditing"
    /\ out' = audit_layout(archive.entries) \union audit_container(archive)
    /\ pc' = "decoding"
    /\ UNCHANGED <<archive, at>>

\* Seeded fault: an entry by_index refuses ends the loop.
StopsAtRefused == IF archive.entries[at].decode = "refused" THEN Len(archive.entries) + 1 ELSE at + 1

\* Seeded fault: the index is advanced by the iterator and by hand.
SkipsOne == at + 2

\* The loop goes on to the next entry, whatever became of this one.
NextEntry == at + 1

\* Only a CRC mismatch is a finding; refused and broken entries are passed over.
DecodeEntry ==
    /\ pc = "decoding"
    /\ at <= Len(archive.entries)
    /\ out' = out \union When(archive.entries[at].decode = "bad_crc",
                              Finding("ZIP-CRC-MISMATCH", at))
    /\ at' = NextEntry
    /\ UNCHANGED <<archive, pc>>

Report ==
    /\ pc = "decoding"
    /\ at > Len(archive.entries)
    /\ pc' = "done"
    /\ UNCHANGED <<archive, at, out>>

Next == Open \/ View \/ AuditStructure \/ DecodeEntry \/ Report

Spec == Init /\ [][Next]_vars

(***************************************************************************)
(* enclosed_name, by which core itself tells a caller where to extract an  *)
(* entry to: whether it has a path for the name, or None.                  *)
(***************************************************************************)
\* Something is pushed to the path.
HasComponent(name) == \E k \in 1..Len(name) : name[k] \notin {"", "."}

enclosed_name_is_none(name) ==
    \/ name = <<"">> \/ HasPiece(name, Nul)
    \/ Len(name) > 1 /\ name[1] = ""
    \/ name[1] \in DriveRooted
    \/ HasPiece(name, {".."})
    \/ ~HasComponent(name)

(***************************************************************************)
(* Properties.                                                             *)
(***************************************************************************)
entries == archive.entries
Overlaps == {f \in out : f.code = "ZIP-OVERLAP"}

\* A byte belongs to the data of both entries.
ShareAByte(i, j) ==
    LET end(k) == entries[k].data_start + entries[k].central.compressed_size
        from == IF entries[i].data_start >= entries[j].data_start
                THEN entries[i].data_start ELSE entries[j].data_start
    IN  i # j /\ from < end(i) /\ from < end(j)

\* audit_overlaps compares neighbours only, and yet: in whatever order the
\* entries are listed, with equal starts, empty entries and sizes near 2^64, an
\* archive in which two entries share a byte has an overlap finding, and each
\* finding names two entries one of which starts inside the other's data.
OverlapsAreFound ==
    pc = "done" =>
        /\ (\E i, j \in 1..Len(entries) : ShareAByte(i, j)) => Overlaps # {}
        /\ \A f \in Overlaps :
              /\ f.index # f.other
              /\ f.at = entries[f.other].data_start
              /\ entries[f.index].data_start <= f.at
              /\ f.at < entries[f.index].data_start + entries[f.index].central.compressed_size

\* An archive as APPNOTE has it written: members one behind the other from the
\* start of the file on, with their sizes and CRC in both headers, or left to a
\* data descriptor, or (a size) to the zip64 extra field.
Conforming ==
    LET n == Len(entries)
        end(k) == entries[k].data_start + entries[k].central.compressed_size
        agree(e, field) == e.local[field] = e.central[field]
    IN  /\ n = 0 \/ \E i \in 1..n : entries[i].lfh_offset = 0
        /\ \A i, j \in 1..n : i # j =>
              end(i) <= entries[j].lfh_offset \/ end(j) <= entries[i].lfh_offset
        /\ \A i \in 1..n :
              LET e == entries[i]
              IN  /\ e.lfh_offset < e.data_start /\ e.decode # "bad_crc"
                  /\ e.central.name[1] \notin DriveRooted \union {""}
                  /\ ~HasPiece(e.central.name, Bidi \union Control \union {".."})
                  /\ \A field \in {"name", "method", "descriptor"} : agree(e, field)
                  /\ ~e.local.descriptor =>
                        /\ agree(e, "crc32")
                        /\ \A field \in {"compressed_size", "uncompressed_size"} :
                              agree(e, field) \/ e.local[field] = Sentinel
        /\ archive.file_len = archive.eocd_end_offset
        /\ archive.disk_number \in {0, Sentinel} /\ archive.cd_start_disk \in {0, Sentinel}

\* The exceptions of audit_entry and audit_container together: a conforming
\* archive, in whatever order its directory lists it, with data descriptors,
\* zip64 sizes, empty or undecodable entries, has an empty report.
QuietOnConforming == pc = "done" /\ Conforming => out = {}

\* Core and the audit decide separately which names escape an output directory,
\* and agree: a name that has components and that enclosed_name refuses is in the
\* report for its traversal, its root or its control characters, and a name
\* reported for one of the first two is one that enclosed_name refuses.
RefusedNamesReported ==
    pc = "done" =>
        \A i \in 1..Len(entries) :
            LET name    == entries[i].central.name
                refused == enclosed_name_is_none(name)
                codes   == {f.code : f \in {g \in out : g.index = i}}
                escapes == {"ZIP-NAME-TRAVERSAL", "ZIP-NAME-ABSOLUTE"}
            IN  /\ refused /\ HasComponent(name) =>
                      codes \intersect (escapes \union {"ZIP-NAME-CONTROL"}) # {}
                /\ codes \intersect escapes # {} => refused

\* The decode loop of audit_reader: an entry that by_index refuses, or whose
\* decode breaks, does not keep the CRC of a later one from being reported, and
\* is not itself reported.
CrcFindingsExact ==
    pc = "done" =>
        {f.index : f \in {g \in out : g.code = "ZIP-CRC-MISMATCH"}}
            = {i \in 1..Len(entries) : entries[i].decode = "bad_crc"}
================================================================================
