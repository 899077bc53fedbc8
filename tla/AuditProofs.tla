------------------------------ MODULE AuditProofs ------------------------------
(***************************************************************************)
(* Proofs about Audit for all archives.  The run of audit_reader builds    *)
(* one report (Shape); what the report says is then a matter of the        *)
(* operators that make it up.                                              *)
(***************************************************************************)
EXTENDS Audit, Lemmas

Structure(a) == audit_layout(a.entries) \union audit_container(a)

\* The CRC findings of the first n entries.
CrcFound(es, n) ==
    { Finding("ZIP-CRC-MISMATCH", i) : i \in {k \in 1..n : es[k].decode = "bad_crc"} }

Shape ==
    /\ archive \in Archives
    /\ pc \in {"opening", "viewing", "auditing", "decoding", "done", "error"}
    /\ at \in 1..(Len(entries) + 1)
    /\ pc \in {"opening", "auditing"} => at = 1
    /\ pc \in {"opening", "viewing", "auditing", "error"} => out = {}
    /\ pc \in {"decoding", "done"} => out = Structure(archive) \union CrcFound(entries, at - 1)
    /\ pc = "done" => at = Len(entries) + 1

(***************************************************************************)
(* The steps.                                                              *)
(***************************************************************************)
\* What the assumption says of one archive.
LEMMA ArchiveTyped ==
    ASSUME NEW a \in Archives
    PROVE  /\ a \in ArchiveRecords
           /\ a.entries \in Seq(EntryRecords)
           /\ Len(a.entries) \in Nat
           /\ \A i \in 1..Len(a.entries) : a.entries[i] \in EntryRecords
  <1>1. a \in ArchiveRecords
    BY AuditAssumption
  <1>2. a.entries \in Seq(EntryRecords)
    BY <1>1 DEF ArchiveRecords
  <1> QED
    BY <1>1, <1>2

\* One turn of the decode loop adds what its entry is due.
LEMMA CrcFoundStep ==
    ASSUME NEW es, NEW n \in Nat
    PROVE  CrcFound(es, n + 1)
             = CrcFound(es, n) \union When(es[n + 1].decode = "bad_crc",
                                           Finding("ZIP-CRC-MISMATCH", n + 1))
  <1>1. 1..(n + 1) = (1..n) \union {n + 1}
    OBVIOUS
  <1>2. {k \in 1..(n + 1) : es[k].decode = "bad_crc"}
          = {k \in 1..n : es[k].decode = "bad_crc"}
            \union IF es[n + 1].decode = "bad_crc" THEN {n + 1} ELSE {}
    BY <1>1
  <1> QED
    BY <1>2, Zenon DEF CrcFound, When

\* Shape is an invariant of audit_reader.
THEOREM ShapeHolds == Spec => []Shape
  <1>1. Init => Shape
    <2> SUFFICES ASSUME Init PROVE Shape
      OBVIOUS
    <2> QED
      BY ArchiveTyped DEF Init, Shape, entries
  <1>2. Shape /\ [Next]_vars => Shape'
    <2> SUFFICES ASSUME Shape, [Next]_vars PROVE Shape'
      OBVIOUS
    <2> USE DEF entries
    <2>1. Len(entries) \in Nat
      BY ArchiveTyped DEF Shape
    <2>2. CASE Open
      BY <2>1, <2>2 DEF Open, Shape
    <2>3. CASE View
      BY <2>1, <2>3 DEF View, Shape
    <2>4. CASE AuditStructure
      <3>1. at' - 1 = 0 /\ CrcFound(entries, 0) = {}
        BY <2>4, Zenon, SMT DEF AuditStructure, Shape, CrcFound
      <3>2. out' = Structure(archive') \union CrcFound(entries', at' - 1)
        BY <2>4, <3>1 DEF AuditStructure, Structure
      <3> QED
        BY <2>1, <2>4, <3>2 DEF AuditStructure, Shape
    <2>5. CASE DecodeEntry
      <3>1. out = Structure(archive) \union CrcFound(entries, at - 1)
        BY <2>5 DEF DecodeEntry, Shape
      <3>2. at - 1 \in Nat /\ at - 1 + 1 = at /\ at' - 1 = at
        BY <2>1, <2>5 DEF DecodeEntry, NextEntry, Shape
      <3>3. CrcFound(entries, at) = CrcFound(entries, at - 1)
              \union When(entries[at].decode = "bad_crc", Finding("ZIP-CRC-MISMATCH", at))
        BY <3>2, CrcFoundStep
      <3>4. out' = Structure(archive) \union CrcFound(entries, at' - 1)
        BY <2>5, <3>1, <3>2, <3>3 DEF DecodeEntry
      <3> QED
        BY <2>1, <2>5, <3>4 DEF DecodeEntry, NextEntry, Shape
    <2>6. CASE Report
      BY <2>1, <2>6 DEF Report, Shape
    <2>7. CASE UNCHANGED vars
      BY <2>7 DEF vars, Shape
    <2> QED
      BY <2>2, <2>3, <2>4, <2>5, <2>6, <2>7 DEF Next
  <1> QED
    BY <1>1, <1>2, PTL DEF Spec

\* When the audit is done.
FinalReport == Structure(archive) \union CrcFound(entries, Len(entries))

\* What every invariant below needs of Shape.
LEMMA DoneReport ==
    ASSUME Shape, pc = "done"
    PROVE  /\ out = FinalReport
           /\ archive \in Archives
           /\ Len(entries) \in Nat
           /\ \A i \in 1..Len(entries) : entries[i] \in EntryRecords
  <1>1. archive \in Archives /\ Len(entries) \in Nat
    BY ArchiveTyped DEF Shape, entries
  <1>2. \A i \in 1..Len(entries) : entries[i] \in EntryRecords
    BY <1>1, ArchiveTyped DEF entries
  <1> QED
    BY <1>1, <1>2 DEF Shape, FinalReport

(***************************************************************************)
(* What kind of finding each part of the audit makes.                      *)
(***************************************************************************)
EntryCodes == { "ZIP-CD-LFH-MISMATCH", "ZIP-NAME-TRAVERSAL", "ZIP-NAME-ABSOLUTE",
                "ZIP-NAME-BIDI", "ZIP-NAME-CONTROL" }

\* A finding and its fields.
LEMMA FindingFields ==
    ASSUME NEW c, NEW i
    PROVE  /\ Finding(c, i).code = c /\ Finding(c, i).index = i
           /\ Finding(c, i).other = 0 /\ Finding(c, i).at = 0
           /\ c \in Codes /\ i \in Nat => Finding(c, i) \in Findings
  BY DEF Finding, Findings, FieldNames

\* The findings of audit_entry name their entry and no other.
LEMMA EntryFindings ==
    ASSUME NEW i \in Nat, NEW e, NEW f \in audit_entry(i, e)
    PROVE  /\ f.code \in EntryCodes /\ f.index = i /\ f.other = 0
           /\ f \in Findings
  <1>1. ASSUME NEW c, NEW g, f \in When(c, g) PROVE f = g
    BY <1>1 DEF When
  <1>2. CASE f \in audit_name(i, e.central.name)
    <2>1. PICK c \in EntryCodes : f = Finding(c, i)
      BY <1>1, <1>2 DEF audit_name, EntryCodes
    <2>2. c \in Codes
      BY DEF EntryCodes, Codes
    <2> QED
      BY <2>1, <2>2, FindingFields
  <1>3. CASE f \notin audit_name(i, e.central.name)
    <2>1. PICK x \in FieldNames : f = mismatch(i, x)
      BY <1>1, <1>3 DEF audit_entry, FieldNames
    <2>2. f = [code |-> "ZIP-CD-LFH-MISMATCH", index |-> i, other |-> 0, at |-> 0, field |-> x]
      BY <2>1 DEF Finding, mismatch
    <2> QED
      BY <2>2 DEF EntryCodes, Findings, Codes
  <1> QED
    BY <1>2, <1>3

\* The findings of audit_overlaps are about two neighbours in the list.
LEMMA OverlapFindings ==
    ASSUME NEW es \in Seq(EntryRecords), NEW f \in audit_overlaps(es)
    PROVE  /\ f \in Findings /\ f.code = "ZIP-OVERLAP"
           /\ f.index \in 1..Len(es) /\ f.other \in 1..Len(es)
           /\ f.at = es[f.other].data_start
           /\ Neighbours(es, f.index, f.other)
           /\ f.at < SpanEnd(es[f.index])
  <1>1. PICK i \in 1..Len(es), j \in 1..Len(es) :
          /\ Neighbours(es, i, j)
          /\ es[j].data_start < SpanEnd(es[i])
          /\ f = [Finding("ZIP-OVERLAP", i) EXCEPT !.other = j, !.at = es[j].data_start]
    BY DEF audit_overlaps
  <1>2. i \in Nat /\ j \in Nat /\ es[j] \in EntryRecords
    OBVIOUS
  <1>3. es[j].data_start \in Nat
    BY <1>2, AuditAssumption DEF EntryRecords
  <1>4. "ZIP-OVERLAP" \in Codes
    BY DEF Codes
  <1>5. [Finding("ZIP-OVERLAP", i) EXCEPT !.other = j] \in Findings
    BY <1>2, <1>4, FindingFields DEF Findings
  <1>6. [[Finding("ZIP-OVERLAP", i) EXCEPT !.other = j] EXCEPT !.at = es[j].data_start] \in Findings
    BY <1>3, <1>5 DEF Findings
  <1>7. f \in Findings
    BY <1>1, <1>6
  <1>8. f.code = "ZIP-OVERLAP" /\ f.index = i /\ f.other = j /\ f.at = es[j].data_start
    BY <1>1 DEF Finding
  <1> QED
    BY <1>1, <1>7, <1>8

\* The findings about the container name no entry.
LEMMA ContainerFindings ==
    ASSUME NEW a \in ArchiveRecords, NEW f \in audit_container(a)
    PROVE  /\ f.code \in {"ZIP-TRAILING-DATA", "ZIP-SPANNING-ANOMALY"}
           /\ f.index = 0 /\ f.other = 0 /\ f \in Findings
  <1>1. ASSUME a.file_len > a.eocd_end_offset PROVE a.file_len - a.eocd_end_offset \in Nat
    BY <1>1 DEF ArchiveRecords
  <1>2. {"ZIP-TRAILING-DATA", "ZIP-SPANNING-ANOMALY"} \subseteq Codes
    BY DEF Codes
  <1>3. CASE f = Finding("ZIP-SPANNING-ANOMALY", 0)
    BY <1>2, <1>3, FindingFields
  <1>4. CASE /\ a.file_len > a.eocd_end_offset
             /\ f = [Finding("ZIP-TRAILING-DATA", 0) EXCEPT !.at = a.file_len - a.eocd_end_offset]
    <2>1. /\ f.code = "ZIP-TRAILING-DATA" /\ f.index = 0 /\ f.other = 0
      BY <1>4 DEF Finding
    <2>2. f \in Findings
      BY <1>1, <1>2, <1>4, FindingFields DEF Findings
    <2> QED
      BY <2>1, <2>2
  <1> QED
    BY <1>3, <1>4 DEF audit_container, When

\* The finding about prepended data, likewise.
LEMMA PrependedFindings ==
    ASSUME NEW es \in Seq(EntryRecords), NEW f \in PrependedData(es)
    PROVE  /\ f.code = "ZIP-PREPENDED-DATA" /\ f.index = 0 /\ f.other = 0
           /\ f \in Findings
           /\ \E i \in 1..Len(es) :
                /\ es[i].lfh_offset > 0
                /\ \A j \in 1..Len(es) : es[i].lfh_offset <= es[j].lfh_offset
  <1>1. PICK i \in 1..Len(es) :
          /\ es[i].lfh_offset > 0
          /\ \A j \in 1..Len(es) : es[i].lfh_offset <= es[j].lfh_offset
          /\ f = [Finding("ZIP-PREPENDED-DATA", 0) EXCEPT !.at = es[i].lfh_offset]
    BY DEF PrependedData
  <1>2. es[i] \in EntryRecords
    OBVIOUS
  <1>3. es[i].lfh_offset \in Nat
    BY <1>2, AuditAssumption DEF EntryRecords
  <1>4. f.code = "ZIP-PREPENDED-DATA" /\ f.index = 0 /\ f.other = 0
    BY <1>1 DEF Finding
  <1>5. Finding("ZIP-PREPENDED-DATA", 0) \in Findings
    BY FindingFields DEF Codes
  <1>6. f \in Findings
    BY <1>1, <1>3, <1>5 DEF Findings
  <1> QED
    BY <1>1, <1>4, <1>6

\* The four kinds of findings of the structural audit.
LEMMA StructureParts ==
    ASSUME NEW a, NEW f \in Structure(a)
    PROVE  \/ f \in audit_container(a)
           \/ f \in PrependedData(a.entries)
           \/ \E i \in 1..Len(a.entries) : f \in audit_entry(i, a.entries[i])
           \/ f \in audit_overlaps(a.entries)
  BY DEF Structure, audit_layout

\* Where a finding of the structural audit comes from, by its code.
LEMMA StructureCodes ==
    ASSUME NEW a \in Archives, NEW f \in Structure(a)
    PROVE  /\ f \in Findings
           /\ f.index \in 0..Len(a.entries) /\ f.other \in 0..Len(a.entries)
           /\ f.code # "ZIP-CRC-MISMATCH"
           /\ f.code = "ZIP-OVERLAP" => f \in audit_overlaps(a.entries)
           /\ f.code \in EntryCodes => /\ f.index \in 1..Len(a.entries)
                                       /\ f \in audit_entry(f.index, a.entries[f.index])
  <1>1. a \in ArchiveRecords /\ a.entries \in Seq(EntryRecords) /\ Len(a.entries) \in Nat
    BY ArchiveTyped
  <1>2. CASE f \in audit_container(a)
    BY <1>1, <1>2, ContainerFindings DEF EntryCodes
  <1>3. CASE f \in PrependedData(a.entries)
    BY <1>1, <1>3, PrependedFindings DEF EntryCodes
  <1>4. CASE \E i \in 1..Len(a.entries) : f \in audit_entry(i, a.entries[i])
    <2>1. PICK i \in 1..Len(a.entries) : f \in audit_entry(i, a.entries[i])
      BY <1>4
    <2>2. i \in Nat
      BY <1>1
    <2>3. f.code \in EntryCodes /\ f.index = i /\ f.other = 0 /\ f \in Findings
      BY <2>1, <2>2, EntryFindings
    <2> QED
      BY <1>1, <2>1, <2>3 DEF EntryCodes
  <1>5. CASE f \in audit_overlaps(a.entries)
    <2>1. /\ f \in Findings /\ f.code = "ZIP-OVERLAP"
          /\ f.index \in 1..Len(a.entries) /\ f.other \in 1..Len(a.entries)
      BY <1>1, <1>5, OverlapFindings
    <2> QED
      BY <1>1, <1>5, <2>1 DEF EntryCodes
  <1> QED
    BY <1>2, <1>3, <1>4, <1>5, StructureParts

\* The CRC findings of a list.
LEMMA CrcFindings ==
    ASSUME NEW es, NEW n \in Nat, NEW f \in CrcFound(es, n)
    PROVE  /\ f.code = "ZIP-CRC-MISMATCH" /\ f.index \in 1..n /\ f.other = 0
           /\ es[f.index].decode = "bad_crc" /\ f \in Findings
  <1>1. PICK i \in 1..n : es[i].decode = "bad_crc" /\ f = Finding("ZIP-CRC-MISMATCH", i)
    BY Zenon DEF CrcFound
  <1>2. i \in Nat /\ "ZIP-CRC-MISMATCH" \in Codes
    BY DEF Codes
  <1> QED
    BY <1>1, <1>2, FindingFields

(***************************************************************************)
(* The invariants of the run.                                              *)
(***************************************************************************)
\* audit_reader: every finding is well-formed and about entries there are.
THEOREM TypeCorrect == Spec => []TypeOK
  <1>1. Shape => TypeOK
    <2> SUFFICES ASSUME Shape PROVE TypeOK
      OBVIOUS
    <2>1. archive \in ArchiveRecords /\ Len(entries) \in Nat /\ archive \in Archives
      BY ArchiveTyped DEF Shape, entries
    <2>2. ASSUME NEW f \in out
          PROVE  f \in Findings /\ {f.index, f.other} \subseteq 0..Len(entries)
      <3>1. f \in Structure(archive) \/ f \in CrcFound(entries, at - 1)
        BY <2>2 DEF Shape
      <3>2. at - 1 \in Nat /\ at - 1 <= Len(entries)
        BY <2>1 DEF Shape
      <3>3. CASE f \in CrcFound(entries, at - 1)
        <4>1. f.index \in 1..(at - 1) /\ f.other = 0 /\ f \in Findings
          BY <3>2, <3>3, CrcFindings
        <4> QED
          BY <2>1, <3>2, <4>1
      <3>4. CASE f \in Structure(archive)
        BY <2>1, <3>4, StructureCodes DEF entries
      <3> QED
        BY <3>1, <3>3, <3>4
    <2> QED
      BY <2>1, <2>2 DEF TypeOK, Shape, entries
  <1> QED
    BY <1>1, ShapeHolds, PTL

\* The decode loop of audit_reader: the CRC findings are exactly those of the
\* entries whose CRC is wrong, whatever became of the others.
THEOREM CrcFindingsAreExact == Spec => []CrcFindingsExact
  <1>1. Shape => CrcFindingsExact
    <2> SUFFICES ASSUME Shape, pc = "done"
                 PROVE  {f.index : f \in {g \in out : g.code = "ZIP-CRC-MISMATCH"}}
                          = {i \in 1..Len(entries) : entries[i].decode = "bad_crc"}
      BY DEF CrcFindingsExact
    <2>1. out = FinalReport /\ Len(entries) \in Nat /\ archive \in Archives
      BY DoneReport
    <2>2. ASSUME NEW f \in out, f.code = "ZIP-CRC-MISMATCH"
          PROVE  f.index \in 1..Len(entries) /\ entries[f.index].decode = "bad_crc"
      <3>1. f \in CrcFound(entries, Len(entries))
        BY <2>1, <2>2, StructureCodes DEF FinalReport
      <3> QED
        BY <2>1, <3>1, CrcFindings
    <2>3. ASSUME NEW i \in 1..Len(entries), entries[i].decode = "bad_crc"
          PROVE  \E f \in out : f.code = "ZIP-CRC-MISMATCH" /\ f.index = i
      <3>1. Finding("ZIP-CRC-MISMATCH", i) \in out
        BY <2>1, <2>3, Zenon DEF FinalReport, CrcFound
      <3> QED
        BY <3>1 DEF Finding
    <2> QED
      BY <2>2, <2>3
  <1> QED
    BY <1>1, ShapeHolds, PTL

(***************************************************************************)
(* Overlaps.                                                               *)
(***************************************************************************)
\* What the types say of one entry.
LEMMA EntryNumbers ==
    ASSUME NEW e \in EntryRecords
    PROVE  /\ e.data_start \in Nat /\ e.data_start < Max64
           /\ e.lfh_offset \in Nat
           /\ e.central.compressed_size \in Nat
           /\ SpanEnd(e) \in Nat
           /\ SpanEnd(e) <= e.data_start + e.central.compressed_size
           /\ e.data_start + e.central.compressed_size <= Max64
                => SpanEnd(e) = e.data_start + e.central.compressed_size
           /\ e.data_start + e.central.compressed_size > Max64 => SpanEnd(e) = Max64
  <1>1. Max64 \in Nat
    BY AuditAssumption
  <1>2. /\ e.data_start \in 0..(Max64 - 1) /\ e.lfh_offset \in 0..Max64
        /\ e.central \in HeaderFields
    BY DEF EntryRecords
  <1>3. e.central.compressed_size \in 0..Max64
    BY <1>2 DEF HeaderFields
  <1> QED
    BY <1>1, <1>2, <1>3 DEF SpanEnd

\* sort_by_key and windows(2): an entry that another sorts after has a neighbour,
\* which starts no later than that one.
LEMMA NextNeighbour ==
    ASSUME NEW es \in Seq(EntryRecords), NEW i \in 1..Len(es), NEW j \in 1..Len(es),
           SortsBefore(es, i, j)
    PROVE  \E m \in 1..Len(es) :
              Neighbours(es, i, m) /\ es[m].data_start <= es[j].data_start
  <1> DEFINE after == {k \in 1..Len(es) : SortsBefore(es, i, k)}
  <1>1. \A k \in 1..Len(es) : es[k].data_start \in Nat
    BY EntryNumbers
  <1>2. PICK d \in {es[k].data_start : k \in after} :
          \A c \in {es[k].data_start : k \in after} : d <= c
    <2>1. {es[k].data_start : k \in after} \subseteq Nat
      BY <1>1
    <2>2. {es[k].data_start : k \in after} # {}
      OBVIOUS
    <2> QED
      BY <2>1, <2>2, LeastOf
  <1>3. PICK m \in {k \in after : es[k].data_start = d} :
          \A k \in {l \in after : es[l].data_start = d} : m <= k
    <2>1. {k \in after : es[k].data_start = d} \subseteq Nat
      OBVIOUS
    <2>2. {k \in after : es[k].data_start = d} # {}
      BY <1>2
    <2> QED
      BY <2>1, <2>2, LeastOf
  <1>4. m \in 1..Len(es) /\ SortsBefore(es, i, m) /\ es[m].data_start = d
    BY <1>3
  <1>5. es[m].data_start <= es[j].data_start
    BY <1>2, <1>4
  <1>6. ASSUME NEW k \in 1..Len(es), SortsBefore(es, i, k), SortsBefore(es, k, m)
        PROVE  FALSE
    <2>1. es[m].data_start <= es[k].data_start
      BY <1>2, <1>4, <1>6
    <2>2. es[k].data_start = es[m].data_start /\ k < m
      BY <1>1, <1>4, <1>6, <2>1 DEF SortsBefore
    <2>3. m <= k
      BY <1>3, <1>4, <1>6, <2>2
    <2> QED
      BY <1>4, <2>2, <2>3
  <1> QED
    BY <1>4, <1>5, <1>6 DEF Neighbours

\* Of two entries that share a byte, the one that sorts first overlaps its
\* neighbour.
LEMMA SharedIsFound ==
    ASSUME NEW es \in Seq(EntryRecords), NEW i \in 1..Len(es), NEW j \in 1..Len(es),
           SortsBefore(es, i, j),
           es[j].data_start < es[i].data_start + es[i].central.compressed_size
    PROVE  audit_overlaps(es) # {}
  <1>1. PICK m \in 1..Len(es) : Neighbours(es, i, m) /\ es[m].data_start <= es[j].data_start
    BY NextNeighbour
  <1>2. es[i] \in EntryRecords /\ es[j] \in EntryRecords /\ es[m] \in EntryRecords
    OBVIOUS
  <1>3. es[m].data_start < SpanEnd(es[i])
    <2>1. /\ es[m].data_start \in Nat /\ es[m].data_start < Max64 /\ es[j].data_start \in Nat
          /\ es[i].data_start \in Nat /\ es[i].central.compressed_size \in Nat
          /\ Max64 \in Nat
      BY <1>2, EntryNumbers, AuditAssumption
    <2>2. \/ SpanEnd(es[i]) = es[i].data_start + es[i].central.compressed_size
          \/ SpanEnd(es[i]) = Max64
      BY DEF SpanEnd
    <2> QED
      BY <1>1, <2>1, <2>2, SMTT(30)
  <1>4. [Finding("ZIP-OVERLAP", i) EXCEPT !.other = m, !.at = es[m].data_start]
          \in audit_overlaps(es)
    <2>1. <<i, m>> \in { q \in (1..Len(es)) \X (1..Len(es)) :
                            /\ Neighbours(es, q[1], q[2])
                            /\ es[q[2]].data_start < SpanEnd(es[q[1]]) }
      BY <1>1, <1>3
    <2>2. <<i, m>>[1] = i /\ <<i, m>>[2] = m
      OBVIOUS
    <2> QED
      BY <2>1, <2>2, Zenon DEF audit_overlaps
  <1> QED
    BY <1>4

\* audit_overlaps: although only neighbours are compared, an archive in which two
\* entries share a byte has an overlap finding, and each finding names an entry
\* that starts inside another's data.
THEOREM OverlapsFound == Spec => []OverlapsAreFound
  <1>1. Shape => OverlapsAreFound
    <2> SUFFICES ASSUME Shape, pc = "done" PROVE OverlapsAreFound
      BY DEF OverlapsAreFound
    <2>1. out = FinalReport /\ archive \in Archives /\ Len(entries) \in Nat
      BY DoneReport
    <2>2. entries \in Seq(EntryRecords) /\ \A i \in 1..Len(entries) : entries[i] \in EntryRecords
      BY <2>1, ArchiveTyped DEF entries
    <2>3. ASSUME NEW i \in 1..Len(entries), NEW j \in 1..Len(entries), ShareAByte(i, j)
          PROVE  Overlaps # {}
      <3>1. /\ entries[i].data_start \in Nat /\ entries[j].data_start \in Nat
            /\ entries[i].central.compressed_size \in Nat
            /\ entries[j].central.compressed_size \in Nat
        BY <2>2, EntryNumbers
      <3>2. \/ /\ SortsBefore(entries, i, j)
               /\ entries[j].data_start < entries[i].data_start + entries[i].central.compressed_size
            \/ /\ SortsBefore(entries, j, i)
               /\ entries[i].data_start < entries[j].data_start + entries[j].central.compressed_size
        BY <2>1, <2>3, <3>1 DEF ShareAByte, SortsBefore
      <3>3. PICK f : f \in audit_overlaps(entries)
        BY <2>2, <3>2, SharedIsFound
      <3>4. f.code = "ZIP-OVERLAP"
        BY <2>2, <3>3, OverlapFindings
      <3>5. f \in out
        BY <2>1, <3>3 DEF FinalReport, Structure, audit_layout, entries
      <3> QED
        BY <3>4, <3>5 DEF Overlaps
    <2>4. ASSUME NEW f \in Overlaps
          PROVE  /\ f.index # f.other
                 /\ f.at = entries[f.other].data_start
                 /\ entries[f.index].data_start <= f.at
                 /\ f.at < entries[f.index].data_start + entries[f.index].central.compressed_size
      <3>1. f \in audit_overlaps(entries)
        <4>1. f.code = "ZIP-OVERLAP" /\ f \in FinalReport
          BY <2>1, <2>4 DEF Overlaps
        <4>2. f \notin CrcFound(entries, Len(entries))
          BY <2>1, <4>1, CrcFindings
        <4> QED
          BY <2>1, <4>1, <4>2, StructureCodes DEF FinalReport, entries
      <3>2. /\ f.index \in 1..Len(entries) /\ f.other \in 1..Len(entries)
            /\ f.at = entries[f.other].data_start
            /\ SortsBefore(entries, f.index, f.other)
            /\ f.at < SpanEnd(entries[f.index])
        BY <2>2, <3>1, OverlapFindings DEF Neighbours
      <3>3. entries[f.index] \in EntryRecords /\ entries[f.other] \in EntryRecords
        BY <2>2, <3>2
      <3>4. /\ entries[f.index].data_start \in Nat /\ entries[f.other].data_start \in Nat
            /\ entries[f.index].central.compressed_size \in Nat
            /\ SpanEnd(entries[f.index]) \in Nat
            /\ SpanEnd(entries[f.index])
                 <= entries[f.index].data_start + entries[f.index].central.compressed_size
        BY <3>3, EntryNumbers
      <3> QED
        BY <3>2, <3>4, SMTT(30) DEF SortsBefore
    <2> QED
      BY <2>3, <2>4 DEF OverlapsAreFound
  <1> QED
    BY <1>1, ShapeHolds, PTL

(***************************************************************************)
(* Conforming archives and names.                                          *)
(***************************************************************************)
\* audit_name and audit_entry find nothing in a conforming entry.
LEMMA ConformingEntryQuiet ==
    ASSUME NEW i, NEW e \in EntryRecords,
           e.central.name[1] \notin DriveRooted \union {""},
           ~HasPiece(e.central.name, Bidi \union Control \union {".."}),
           e.local.name = e.central.name, e.local.method = e.central.method,
           ~e.local.descriptor => /\ e.local.crc32 = e.central.crc32
                                  /\ \/ e.local.compressed_size = e.central.compressed_size
                                     \/ e.local.compressed_size = Sentinel
                                  /\ \/ e.local.uncompressed_size = e.central.uncompressed_size
                                     \/ e.local.uncompressed_size = Sentinel
    PROVE  audit_entry(i, e) = {}
  <1>1. audit_name(i, e.central.name) = {}
    <2>1. /\ ~HasPiece(e.central.name, {".."}) /\ ~HasPiece(e.central.name, Bidi)
          /\ ~HasPiece(e.central.name, Control)
      BY DEF HasPiece
    <2>2. ~is_absolute(e.central.name)
      BY DEF is_absolute
    <2> QED
      BY <2>1, <2>2 DEF audit_name, When
  <1> QED
    BY <1>1 DEF audit_entry, When, compare_size

\* The conforming members do not overlap, so no neighbours do.
LEMMA DisjointQuiet ==
    ASSUME NEW es \in Seq(EntryRecords),
           \A i \in 1..Len(es) : es[i].lfh_offset < es[i].data_start,
           \A i, j \in 1..Len(es) : i # j =>
              \/ es[i].data_start + es[i].central.compressed_size <= es[j].lfh_offset
              \/ es[j].data_start + es[j].central.compressed_size <= es[i].lfh_offset
    PROVE  audit_overlaps(es) = {}
  <1> SUFFICES ASSUME NEW f \in audit_overlaps(es) PROVE FALSE
    OBVIOUS
  <1>1. PICK i \in 1..Len(es), j \in 1..Len(es) :
          SortsBefore(es, i, j) /\ es[j].data_start < SpanEnd(es[i])
    BY OverlapFindings DEF Neighbours
  <1>2. es[i] \in EntryRecords /\ es[j] \in EntryRecords /\ i \in Nat /\ j \in Nat
    OBVIOUS
  <1>3. /\ es[i].data_start \in Nat /\ es[j].data_start \in Nat
        /\ es[i].lfh_offset \in Nat /\ es[j].lfh_offset \in Nat
        /\ es[i].central.compressed_size \in Nat /\ es[j].central.compressed_size \in Nat
        /\ SpanEnd(es[i]) \in Nat
        /\ SpanEnd(es[i]) <= es[i].data_start + es[i].central.compressed_size
    BY <1>2, EntryNumbers
  <1>4. i # j /\ es[i].data_start <= es[j].data_start
    BY <1>1, <1>2, <1>3 DEF SortsBefore
  <1>5. es[i].lfh_offset < es[i].data_start /\ es[j].lfh_offset < es[j].data_start
    OBVIOUS
  <1>6. \/ es[i].data_start + es[i].central.compressed_size <= es[j].lfh_offset
        \/ es[j].data_start + es[j].central.compressed_size <= es[i].lfh_offset
    BY <1>4
  <1>7. CASE es[i].data_start + es[i].central.compressed_size <= es[j].lfh_offset
    BY <1>1, <1>3, <1>5, <1>7, SMTT(30)
  <1>8. CASE es[j].data_start + es[j].central.compressed_size <= es[i].lfh_offset
    BY <1>3, <1>4, <1>5, <1>8, SMTT(30)
  <1> QED
    BY <1>6, <1>7, <1>8

\* The exceptions of audit_entry and audit_container together: the report on a
\* conforming archive of any size is empty.
THEOREM ConformingIsQuiet == Spec => []QuietOnConforming
  <1>1. Shape => QuietOnConforming
    <2> SUFFICES ASSUME Shape, pc = "done", Conforming PROVE out = {}
      BY DEF QuietOnConforming
    <2>1. out = FinalReport /\ archive \in Archives /\ Len(entries) \in Nat
      BY DoneReport
    <2>2. entries \in Seq(EntryRecords) /\ \A i \in 1..Len(entries) : entries[i] \in EntryRecords
      BY <2>1, ArchiveTyped DEF entries
    <2>3. audit_container(archive) = {}
      <3>1. /\ archive.file_len = archive.eocd_end_offset /\ archive.file_len \in Nat
            /\ archive.disk_number \in {0, Sentinel} /\ archive.cd_start_disk \in {0, Sentinel}
        BY <2>1, AuditAssumption DEF Conforming, ArchiveRecords
      <3> QED
        BY <3>1 DEF audit_container, When, Spans
    <2>4. PrependedData(entries) = {}
      <3> SUFFICES ASSUME NEW f \in PrependedData(entries) PROVE FALSE
        OBVIOUS
      <3>1. PICK i \in 1..Len(entries) :
              /\ entries[i].lfh_offset > 0
              /\ \A j \in 1..Len(entries) : entries[i].lfh_offset <= entries[j].lfh_offset
        BY <2>2, PrependedFindings
      <3>2. \E j \in 1..Len(entries) : entries[j].lfh_offset = 0
        <4>1. Len(entries) = 0 \/ \E j \in 1..Len(entries) : entries[j].lfh_offset = 0
          BY DEF Conforming
        <4> QED
          BY <2>1, <3>1, <4>1
      <3>3. entries[i].lfh_offset \in Nat
        BY <2>2, EntryNumbers
      <3> QED
        BY <3>1, <3>2, <3>3
    <2>5. ASSUME NEW i \in 1..Len(entries) PROVE audit_entry(i, entries[i]) = {}
      <3> DEFINE e == entries[i]
      <3>1. /\ e.central.name[1] \notin DriveRooted \union {""}
            /\ ~HasPiece(e.central.name, Bidi \union Control \union {".."})
            /\ e.local.name = e.central.name /\ e.local.method = e.central.method
            /\ ~e.local.descriptor => /\ e.local.crc32 = e.central.crc32
                                      /\ \/ e.local.compressed_size = e.central.compressed_size
                                         \/ e.local.compressed_size = Sentinel
                                      /\ \/ e.local.uncompressed_size = e.central.uncompressed_size
                                         \/ e.local.uncompressed_size = Sentinel
        BY DEF Conforming
      <3>2. e \in EntryRecords
        BY <2>2
      <3> HIDE DEF e
      <3>3. audit_entry(i, e) = {}
        BY <3>1, <3>2, ConformingEntryQuiet
      <3> QED
        BY <3>3 DEF e
    <2>6. audit_overlaps(entries) = {}
      <3>1. \A i \in 1..Len(entries) : entries[i].lfh_offset < entries[i].data_start
        BY DEF Conforming
      <3>2. \A i, j \in 1..Len(entries) : i # j =>
              \/ entries[i].data_start + entries[i].central.compressed_size <= entries[j].lfh_offset
              \/ entries[j].data_start + entries[j].central.compressed_size <= entries[i].lfh_offset
        BY DEF Conforming
      <3> QED
        BY <2>2, <3>1, <3>2, DisjointQuiet
    <2>7. CrcFound(entries, Len(entries)) = {}
      <3>1. \A i \in 1..Len(entries) : entries[i].decode # "bad_crc"
        BY DEF Conforming
      <3> QED
        BY <2>1, <3>1, CrcFindings
    <2>8. Structure(archive) = {}
      <3>1. \A f \in Structure(archive) : FALSE
        BY <2>3, <2>4, <2>5, <2>6, StructureParts DEF entries
      <3> QED
        BY <3>1
    <2> QED
      BY <2>1, <2>7, <2>8 DEF FinalReport
  <1> QED
    BY <1>1, ShapeHolds, PTL

\* A finding of audit_name is in the report.
LEMMA NameFindingReported ==
    ASSUME Shape, pc = "done", NEW i \in 1..Len(entries),
           NEW f \in audit_name(i, entries[i].central.name)
    PROVE  f \in out
  <1>1. f \in audit_entry(i, entries[i])
    BY DEF audit_entry
  <1>2. f \in Structure(archive)
    BY <1>1 DEF Structure, audit_layout, entries
  <1> QED
    BY <1>2, DoneReport DEF FinalReport

\* What a traversal or an absolute finding means.
LEMMA EscapeFindings ==
    ASSUME NEW i \in Nat, NEW e, NEW f \in audit_entry(i, e)
    PROVE  /\ f.code = "ZIP-NAME-TRAVERSAL" => HasPiece(e.central.name, {".."})
           /\ f.code = "ZIP-NAME-ABSOLUTE" => is_absolute(e.central.name)
  <1>1. ASSUME NEW c, NEW g, f \in When(c, g) PROVE f = g /\ c
    BY <1>1 DEF When
  <1>2. CASE f \in audit_name(i, e.central.name)
    <2>1. \/ f = Finding("ZIP-NAME-TRAVERSAL", i) /\ HasPiece(e.central.name, {".."})
          \/ f = Finding("ZIP-NAME-ABSOLUTE", i) /\ is_absolute(e.central.name)
          \/ f = Finding("ZIP-NAME-BIDI", i)
          \/ f = Finding("ZIP-NAME-CONTROL", i)
      BY <1>1, <1>2 DEF audit_name
    <2> QED
      BY <2>1, FindingFields
  <1>3. CASE f \notin audit_name(i, e.central.name)
    <2>1. PICK x \in FieldNames : f = mismatch(i, x)
      BY <1>1, <1>3 DEF audit_entry, FieldNames
    <2>2. f.code = "ZIP-CD-LFH-MISMATCH"
      BY <2>1 DEF Finding, mismatch
    <2> QED
      BY <2>2
  <1> QED
    BY <1>2, <1>3

\* The empty name has no component: is_absolute need not look at it.
LEMMA EmptyNameHasNoComponent == ~HasComponent(<<"">>)
  <1>1. Len(<<"">>) = 1
    OBVIOUS
  <1>2. <<"">>[1] = ""
    OBVIOUS
  <1>3. ASSUME NEW k \in 1..1 PROVE <<"">>[k] \in {"", "."}
    <2>1. k = 1
      OBVIOUS
    <2>2. <<"">>[k] = ""
      BY <2>1, <1>2, Zenon
    <2> QED
      BY <2>2
  <1>4. \A k \in 1..1 : <<"">>[k] \in {"", "."}
    BY <1>3, Zenon
  <1> QED
    BY <1>1, <1>4, Zenon DEF HasComponent

\* Core's enclosed_name and the audit agree on the names that escape.
THEOREM RefusedNamesAreReported == Spec => []RefusedNamesReported
  <1>1. Shape => RefusedNamesReported
    <2> SUFFICES ASSUME Shape, pc = "done", NEW i \in 1..Len(entries)
                 PROVE
          LET name    == entries[i].central.name
              refused == enclosed_name_is_none(name)
              codes   == {f.code : f \in {g \in out : g.index = i}}
              escapes == {"ZIP-NAME-TRAVERSAL", "ZIP-NAME-ABSOLUTE"}
          IN  /\ refused /\ HasComponent(name) =>
                    codes \intersect (escapes \union {"ZIP-NAME-CONTROL"}) # {}
              /\ codes \intersect escapes # {} => refused
      BY DEF RefusedNamesReported
    <2> DEFINE name == entries[i].central.name
    <2>1. out = FinalReport /\ archive \in Archives /\ Len(entries) \in Nat /\ i \in Nat
      BY DoneReport
    <2>2. ASSUME enclosed_name_is_none(name), HasComponent(name)
          PROVE  \E f \in out : /\ f.index = i
                                /\ f.code \in {"ZIP-NAME-TRAVERSAL", "ZIP-NAME-ABSOLUTE",
                                               "ZIP-NAME-CONTROL"}
      <3>1. \/ HasPiece(name, Control) \/ is_absolute(name) \/ HasPiece(name, {".."})
        <4>1. name # <<"">>
          BY <2>2, EmptyNameHasNoComponent, Zenon
        <4>2. HasPiece(name, Nul) => HasPiece(name, Control)
          BY AuditAssumption DEF HasPiece
        <4> QED
          BY <2>2, <4>1, <4>2 DEF enclosed_name_is_none, is_absolute
      <3>2. \E c \in {"ZIP-NAME-TRAVERSAL", "ZIP-NAME-ABSOLUTE", "ZIP-NAME-CONTROL"} :
              Finding(c, i) \in audit_name(i, name)
        BY <3>1 DEF audit_name, When
      <3>3. \E c \in {"ZIP-NAME-TRAVERSAL", "ZIP-NAME-ABSOLUTE", "ZIP-NAME-CONTROL"} :
              Finding(c, i) \in out
        BY <3>2, NameFindingReported
      <3> QED
        BY <3>3, FindingFields
    <2>3. ASSUME NEW f \in out, f.index = i,
                 f.code \in {"ZIP-NAME-TRAVERSAL", "ZIP-NAME-ABSOLUTE"}
          PROVE  enclosed_name_is_none(name)
      <3>1. f \notin CrcFound(entries, Len(entries))
        BY <2>1, <2>3, CrcFindings
      <3>2. f \in audit_entry(i, entries[i])
        BY <2>1, <2>3, <3>1, StructureCodes DEF FinalReport, EntryCodes, entries
      <3>3. HasPiece(name, {".."}) \/ is_absolute(name)
        BY <2>1, <2>3, <3>2, EscapeFindings
      <3> QED
        BY <3>3 DEF enclosed_name_is_none, is_absolute
    <2> QED
      BY <2>2, <2>3
  <1> QED
    BY <1>1, ShapeHolds, PTL
================================================================================
