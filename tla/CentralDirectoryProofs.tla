------------------------ MODULE CentralDirectoryProofs ------------------------
(***************************************************************************)
(* Proofs that parse_central_directory stays inside the file and that what *)
(* it returns is well-formed, for all files: whatever records lie in one,  *)
(* wherever, and whatever is in them; and that of a sound archive, of any  *)
(* size, it returns what was written.                                      *)
(***************************************************************************)
EXTENDS CentralDirectory, Lemmas, FiniteSetTheorems, TLAPS

\* The steps behind the one that placed the directory.
Placed == pc \in {"parsing", "parsed", "viewing", "listing", "viewed", "listed"} \/ summary # None

\* The EOCD that was found, and all of its fixed part, is in the file.
EocdInside ==
    /\ eocd_pos \in Nat
    /\ pc = "resolving" => SigAt(eocd_pos) = "EOCD" /\ eocd_pos \in DOMAIN archive.recs
    /\ pc \in {"resolving", "locating"} => eocd_pos + EOCD_MIN <= file_len

\* The directory and what was parsed of it.
DirInside ==
    /\ dir.cd_offset \in Nat /\ dir.cd_size \in Nat /\ prefix \in Nat
    /\ cursor \in Nat
    /\ \E S : entries \in Seq(S)
    /\ pc \in {"scanning", "resolving", "locating"} => cursor = 0 /\ entries = <<>> /\ summary = None
    /\ Placed =>
          /\ actual_cd_offset + dir.cd_size <= file_len
          /\ cursor <= dir.cd_size
          /\ CD_HEADER_FIXED * Len(entries) <= cursor

IInv == archive \in Archives /\ EocdInside /\ DirInside

\* What every file has.
LEMMA ArchiveFacts ==
    ASSUME archive \in Archives
    PROVE  /\ file_len \in Nat /\ Max64 \in Nat
           /\ \A p \in DOMAIN archive.recs :
                 /\ p \in Nat
                 /\ SigAt(p) \in {"EOCD", "ZIP64_EOCD"} =>
                       /\ DirOf(archive.recs[p]) \in Dirs
                       /\ archive.recs[p].cd_offset \in Nat /\ archive.recs[p].cd_size \in Nat
                 /\ SigAt(p) = "CD_HEADER" =>
                       IsHeader(archive.recs[p]) /\ archive.recs[p].var_len \in Nat
           /\ \A p : SigAt(p) # "none" => p \in DOMAIN archive.recs
  <1>1. archive.len \in 0..Max64 /\ RecordsIn(archive) /\ Max64 \in Nat
    BY DirectoryAssumption
  <1>2. \A p \in DOMAIN archive.recs : SigAt(p) = archive.recs[p].sig
    BY DEF SigAt
  <1>3. \A p : SigAt(p) # "none" => p \in DOMAIN archive.recs
    BY DEF SigAt
  <1>4. \A d : DirOf(d) \in Dirs => d.cd_offset \in Nat /\ d.cd_size \in Nat
    <2> SUFFICES ASSUME NEW d, DirOf(d) \in Dirs PROVE d.cd_offset \in Nat /\ d.cd_size \in Nat
      OBVIOUS
    <2>1. DirOf(d).cd_offset \in 0..Max64 /\ DirOf(d).cd_size \in 0..Max64
      BY DEF Dirs
    <2> QED
      BY <1>1, <2>1 DEF DirOf
  <1>5. \A p \in DOMAIN archive.recs :
           /\ p \in Nat
           /\ SigAt(p) \in {"EOCD", "ZIP64_EOCD"} => DirOf(archive.recs[p]) \in Dirs
           /\ SigAt(p) = "CD_HEADER" => IsHeader(archive.recs[p])
    BY <1>1, <1>2 DEF RecordsIn
  <1>6. \A h : IsHeader(h) => h.var_len \in Nat
    BY DEF IsHeader
  <1> QED
    BY <1>1, <1>3, <1>4, <1>5, <1>6 DEF file_len

\* find_eocd: the last EOCD of the tail is one of them.
LEMMA FindEocdInTail ==
    ASSUME archive \in Archives, EocdsInTail # {}
    PROVE  find_eocd \in EocdsInTail
  <1>1. EocdsInTail \subseteq Nat /\ file_len \in Nat
    BY ArchiveFacts DEF EocdsInTail
  <1>2. \A p \in EocdsInTail : p <= file_len
    BY <1>1 DEF EocdsInTail, EOCD_MIN
  <1>3. \E p \in EocdsInTail : \A q \in EocdsInTail : q <= p
    BY <1>1, <1>2, GreatestOf
  <1> QED
    BY <1>3 DEF find_eocd

\* Backward search: nothing is parsed yet, and the position is of a whole EOCD.
LEMMA FindEocdStep == ASSUME IInv, FindEocd PROVE IInv'
  <1>1. /\ archive \in Archives /\ archive' = archive /\ pc = "scanning" /\ dir' = dir
        /\ prefix' = prefix /\ cursor' = cursor /\ entries' = entries /\ summary' = summary
    BY DEF IInv, FindEocd
  <1>2. CASE EocdsInTail = {} /\ pc' = "error" /\ eocd_pos' = eocd_pos
    BY <1>1, <1>2 DEF IInv, EocdInside, DirInside, Placed, SigAt, file_len, actual_cd_offset
  <1>3. CASE EocdsInTail # {} /\ eocd_pos' = find_eocd /\ pc' = "resolving"
    <2>1. eocd_pos' \in EocdsInTail
      BY <1>1, <1>3, FindEocdInTail
    <2>2. /\ eocd_pos' \in DOMAIN archive.recs /\ SigAt(eocd_pos') = "EOCD"
          /\ eocd_pos' + EOCD_MIN <= file_len
      BY <2>1 DEF EocdsInTail
    <2>3. eocd_pos' \in Nat
      BY <1>1, <2>2, ArchiveFacts
    <2>4. EocdInside'
      BY <1>1, <2>2, <2>3 DEF EocdInside, SigAt, file_len
    <2>5. DirInside'
      BY <1>1, <1>3 DEF IInv, DirInside, Placed
    <2> QED
      BY <1>1, <2>4, <2>5 DEF IInv
  <1> QED
    BY <1>2, <1>3 DEF FindEocd, Fail

\* The EOCD or the Zip64 EOCD: the directory's place is taken from a record
\* that is there, so its numbers are unsigned.
LEMMA ResolveEocdStep == ASSUME IInv, ResolveEocd PROVE IInv'
  <1>1. /\ archive \in Archives /\ archive' = archive /\ pc = "resolving" /\ eocd_pos' = eocd_pos
        /\ prefix' = prefix /\ cursor' = cursor /\ entries' = entries /\ summary' = summary
    BY DEF IInv, ResolveEocd
  <1>2. /\ eocd_pos \in Nat /\ SigAt(eocd_pos) = "EOCD" /\ eocd_pos \in DOMAIN archive.recs
        /\ eocd_pos + EOCD_MIN <= file_len
    BY <1>1 DEF IInv, EocdInside
  <1>3. /\ pc' \in {"locating", "error"}
        /\ dir'.cd_offset \in Nat /\ dir'.cd_size \in Nat
    <2>1. CASE Resolved(DirOf(eocd))
      <3>1. eocd.cd_offset \in Nat /\ eocd.cd_size \in Nat
        BY <1>1, <1>2, ArchiveFacts DEF eocd
      <3> QED
        BY <2>1, <3>1 DEF Resolved, DirOf
    <2>2. CASE zip64_eocd_error = "none" /\ Resolved(DirOf(archive.recs[z64_eocd_offset]))
      <3>1. SigAt(z64_eocd_offset) = "ZIP64_EOCD"
        BY <2>2 DEF zip64_eocd_error
      <3>2. /\ archive.recs[z64_eocd_offset].cd_offset \in Nat
            /\ archive.recs[z64_eocd_offset].cd_size \in Nat
        BY <1>1, <3>1, ArchiveFacts
      <3> QED
        BY <2>2, <3>2 DEF Resolved, DirOf
    <2>3. CASE pc' = "error" /\ dir' = dir
      BY <2>3 DEF IInv, DirInside
    <2> QED
      BY <2>1, <2>2, <2>3 DEF ResolveEocd, Fail
  <1>4. EocdInside'
    BY <1>1, <1>2, <1>3 DEF EocdInside, file_len
  <1>5. DirInside'
    BY <1>1, <1>3 DEF IInv, DirInside, Placed
  <1> QED
    BY <1>1, <1>4, <1>5 DEF IInv

\* The gap and the EOCD behind it are in the file, so the prefix is too.
LEMMA GapInside ==
    ASSUME archive \in Archives, eocd_pos \in Nat, eocd_pos + EOCD_MIN <= file_len,
           dir.cd_offset \in Nat, dir.cd_size \in Nat
    PROVE  /\ HasGap => /\ Gap \in Nat
                        /\ dir.cd_offset + 4 <= file_len
                        /\ dir.cd_offset + Gap + 4 <= file_len
           /\ DetectPrefix \in Nat
  <1>1. file_len \in Nat
    BY ArchiveFacts
  <1>2. HasGap => dir.cd_offset + dir.cd_size < eocd_pos
    BY DEF HasGap, RecordedEnd
  <1>3. HasGap => /\ Gap \in Nat
                  /\ dir.cd_offset + 4 <= file_len
                  /\ dir.cd_offset + Gap + 4 <= file_len
    BY <1>1, <1>2 DEF Gap, RecordedEnd, EOCD_MIN
  <1> QED
    BY <1>3 DEF DetectPrefix

\* The one test of the place of the directory, and nothing wraps around it.
LEMMA LocateStep == ASSUME IInv, LocateDirectory PROVE IInv'
  <1>1. /\ archive \in Archives /\ archive' = archive /\ pc = "locating" /\ eocd_pos' = eocd_pos
        /\ prefix' = DetectPrefix /\ cursor' = cursor /\ entries' = entries /\ summary' = summary
        /\ dir' = dir
    BY DEF IInv, LocateDirectory
  <1>2. /\ eocd_pos \in Nat /\ eocd_pos + EOCD_MIN <= file_len
        /\ dir.cd_offset \in Nat /\ dir.cd_size \in Nat
        /\ cursor = 0 /\ entries = <<>> /\ summary = None
    BY <1>1 DEF IInv, EocdInside, DirInside
  <1>3. prefix' \in Nat
    BY <1>1, <1>2, GapInside
  <1>4. pc' \in {"error", "parsing"}
    BY DEF LocateDirectory, Fail
  <1>5. pc' = "parsing" => (dir.cd_offset + DetectPrefix) + dir.cd_size <= file_len
    BY DEF LocateDirectory, Fail, EndInFile
  <1>6. pc' = "parsing" => (actual_cd_offset + dir.cd_size <= file_len)'
    BY <1>1, <1>5 DEF actual_cd_offset, file_len
  <1>7. CD_HEADER_FIXED * Len(entries') <= cursor' /\ cursor' <= dir'.cd_size /\ cursor' \in Nat
        /\ \E S : entries' \in Seq(S)
    <2>1. Len(<<>>) = 0 /\ <<>> \in Seq({})
      OBVIOUS
    <2> QED
      BY <1>1, <1>2, <2>1 DEF CD_HEADER_FIXED
  <1>8. EocdInside'
    BY <1>1, <1>2, <1>4 DEF EocdInside
  <1>9. DirInside'
    BY <1>1, <1>2, <1>3, <1>4, <1>6, <1>7 DEF DirInside, Placed
  <1> QED
    BY <1>1, <1>8, <1>9 DEF IInv

\* One header: the cursor moves by at least the fixed part, within the directory.
LEMMA ParseHeaderStep == ASSUME IInv, ParseHeader PROVE IInv'
  <1>1. /\ archive \in Archives /\ archive' = archive /\ pc = "parsing" /\ eocd_pos' = eocd_pos
        /\ prefix' = prefix /\ summary' = summary /\ dir' = dir
    BY DEF IInv, ParseHeader
  <1>2. /\ eocd_pos \in Nat /\ dir.cd_offset \in Nat /\ dir.cd_size \in Nat /\ prefix \in Nat
        /\ cursor \in Nat /\ cursor <= dir.cd_size
        /\ actual_cd_offset + dir.cd_size <= file_len
        /\ CD_HEADER_FIXED * Len(entries) <= cursor
    BY <1>1 DEF IInv, EocdInside, DirInside, Placed
  <1>3. PICK S : entries \in Seq(S)
    BY DEF IInv, DirInside
  <1>4. CASE pc' = "error" /\ cursor' = cursor /\ entries' = entries
    BY <1>1, <1>2, <1>3, <1>4 DEF IInv, EocdInside, DirInside, Placed, actual_cd_offset, file_len
  <1>5. CASE /\ header_error = "none" /\ entries' = Append(entries, Entry)
             /\ cursor' = cursor + CD_HEADER_FIXED + header.var_len /\ pc' = pc
    <2>1. SigAt(HeaderPos) = "CD_HEADER" /\ Takes(CD_HEADER_FIXED + header.var_len)
      BY <1>5 DEF header_error
    <2>2. header.var_len \in Nat
      BY <1>1, <2>1, ArchiveFacts DEF header
    <2>3. cursor' \in Nat /\ cursor' <= dir.cd_size
      BY <1>2, <1>5, <2>1, <2>2, SMTT(30) DEF Takes, remaining, CD_HEADER_FIXED
    <2>4. entries' \in Seq(S \union {Entry}) /\ Len(entries') = Len(entries) + 1
      <3>1. entries \in Seq(S \union {Entry})
        BY <1>3, SeqWidens
      <3> QED
        BY <1>5, <3>1, AppendIs
    <2>5. Len(entries) \in Nat
      BY <1>3
    <2>6. CD_HEADER_FIXED * Len(entries') <= cursor'
      BY <1>2, <1>5, <2>2, <2>4, <2>5 DEF CD_HEADER_FIXED
    <2>7. DirInside'
      <3>1. (actual_cd_offset + dir.cd_size <= file_len)'
        BY <1>1, <1>2 DEF actual_cd_offset, file_len
      <3>2. \E T : entries' \in Seq(T)
        BY <2>4
      <3> QED
        BY <1>1, <1>2, <1>5, <2>3, <2>6, <3>1, <3>2 DEF DirInside, Placed
    <2> QED
      BY <1>1, <1>2, <1>5, <2>7 DEF IInv, EocdInside
  <1> QED
    BY <1>4, <1>5 DEF ParseHeader, Fail

\* Shifting the offsets by the prefix leaves the directory where it is.
LEMMA FinishParseStep == ASSUME IInv, FinishParse PROVE IInv'
  <1>1. /\ archive \in Archives /\ archive' = archive /\ pc = "parsing" /\ eocd_pos' = eocd_pos
        /\ prefix' = prefix /\ dir' = dir /\ cursor' = cursor /\ pc' = "parsed"
        /\ entries' = [i \in 1..Len(entries) |-> Shifted(entries[i])]
    BY DEF IInv, FinishParse
  <1>2. /\ eocd_pos \in Nat /\ dir.cd_offset \in Nat /\ dir.cd_size \in Nat /\ prefix \in Nat
        /\ cursor \in Nat /\ cursor <= dir.cd_size
        /\ actual_cd_offset + dir.cd_size <= file_len
        /\ CD_HEADER_FIXED * Len(entries) <= cursor
    BY <1>1 DEF IInv, EocdInside, DirInside, Placed
  <1>3. PICK S : entries \in Seq(S)
    BY DEF IInv, DirInside
  <1> DEFINE T == {Shifted(entries[i]) : i \in 1..Len(entries)}
  <1>4. Len(entries) \in Nat
    BY <1>3
  <1>5. entries' \in Seq(T) /\ Len(entries') = Len(entries)
    BY <1>1, <1>4
  <1>6. (actual_cd_offset + dir.cd_size <= file_len)'
    BY <1>1, <1>2 DEF actual_cd_offset, file_len
  <1>7. DirInside'
    <2>1. \E U : entries' \in Seq(U)
      BY <1>5
    <2> HIDE DEF T
    <2> QED
      BY <1>1, <1>2, <1>5, <1>6, <2>1 DEF DirInside, Placed
  <1> QED
    BY <1>1, <1>2, <1>7 DEF IInv, EocdInside

\* The clients only read what was parsed.
LEMMA ClientSteps ==
    ASSUME IInv,
           UNCHANGED <<archive, eocd_pos, dir, prefix, cursor, entries, summary>>,
           pc \in {"parsed", "viewing", "listing"},
           pc' \in {"viewing", "listing", "viewed", "listed", "error"}
    PROVE  IInv'
  BY DEF IInv, EocdInside, DirInside, Placed, actual_cd_offset, file_len

\* IInv is an invariant of the parser and its clients.
THEOREM Invariant == Spec => []IInv
  <1>1. Init => IInv
    <2> SUFFICES ASSUME Init PROVE IInv
      OBVIOUS
    <2>1. <<>> \in Seq({})
      OBVIOUS
    <2>2. EocdInside
      BY DEF Init, EocdInside
    <2>3. DirInside
      BY <2>1 DEF Init, DirInside, Placed
    <2> QED
      BY <2>2, <2>3 DEF Init, IInv
  <1>2. IInv /\ [Next]_vars => IInv'
    <2> SUFFICES ASSUME IInv, [Next]_vars PROVE IInv'
      OBVIOUS
    <2>1. CASE FindEocd
      BY <2>1, FindEocdStep
    <2>2. CASE ResolveEocd
      BY <2>2, ResolveEocdStep
    <2>3. CASE LocateDirectory
      BY <2>3, LocateStep
    <2>4. CASE ParseHeader
      BY <2>4, ParseHeaderStep
    <2>5. CASE FinishParse
      BY <2>5, FinishParseStep
    <2>6. CASE \E c \in {"viewing", "listing"} : Asks(c)
      BY <2>6, ClientSteps DEF Asks
    <2>7. CASE structural_view
      BY <2>7, ClientSteps DEF structural_view, ClientStep, Fail
    <2>8. CASE list
      BY <2>8, ClientSteps DEF list, ClientStep, Fail
    <2>9. CASE ClientReturns
      BY <2>9, ClientSteps DEF ClientReturns, ClientStep
    <2>10. CASE UNCHANGED vars
      BY <2>10 DEF vars, IInv, EocdInside, DirInside, Placed, actual_cd_offset, file_len, SigAt
    <2> QED
      BY <2>1, <2>2, <2>3, <2>4, <2>5, <2>6, <2>7, <2>8, <2>9, <2>10 DEF Next
  <1> QED
    BY <1>1, <1>2, PTL DEF Spec

\* For every file: the prefix test reads inside it, the directory that is
\* allocated and read lies inside it, sums near 2^64 included, and the headers
\* parsed from the directory stay inside the directory, however many the EOCD
\* promises.
THEOREM ParserInside == Spec => []ParserStaysInside
  <1>1. IInv => ParserStaysInside
    <2> SUFFICES ASSUME IInv PROVE ParserStaysInside
      OBVIOUS
    <2>1. pc = "locating" /\ HasGap =>
            dir.cd_offset + 4 <= file_len /\ dir.cd_offset + Gap + 4 <= file_len
      BY GapInside DEF IInv, EocdInside, DirInside
    <2>2. pc = "parsing" \/ summary # None =>
            /\ actual_cd_offset + dir.cd_size <= file_len
            /\ cursor <= dir.cd_size
            /\ CD_HEADER_FIXED * Len(entries) <= cursor
      BY DEF IInv, DirInside, Placed
    <2> QED
      BY <2>1, <2>2 DEF ParserStaysInside
  <1> QED
    BY <1>1, Invariant, PTL

(***************************************************************************)
(* Types: what the parser makes of a header.                               *)
(***************************************************************************)
\* The first field of an id is a field of the block with that id.
LEMMA FirstFieldIs ==
    ASSUME NEW block \in Blocks, NEW id, Has(block, id)
    PROVE  \E i \in 1..Len(block.fields) :
              FirstField(block, id) = block.fields[i] /\ block.fields[i].id = id
  <1> DEFINE set == {i \in 1..Len(block.fields) : block.fields[i].id = id}
  <1>1. Len(block.fields) \in Nat
    BY DEF Blocks
  <1>2. set \subseteq Nat /\ set # {}
    BY <1>1 DEF Has
  <1>3. PICK n \in set : \A m \in set : n <= m
    <2> HIDE DEF set
    <2> QED
      BY <1>2, LeastOf
  <1>4. n \in 1..Len(block.fields) /\ block.fields[n].id = id
    OBVIOUS
  <1>5. \A j \in 1..(n - 1) : block.fields[j].id # id
    <2> SUFFICES ASSUME NEW j \in 1..(n - 1), block.fields[j].id = id PROVE FALSE
      OBVIOUS
    <2>1. j \in 1..Len(block.fields) /\ j < n
      BY <1>1, <1>4
    <2>2. j \in set
      BY <2>1
    <2>3. n <= j
      BY <1>3, <2>2
    <2> QED
      BY <1>1, <1>4, <2>1, <2>3
  <1> DEFINE P(i) == /\ block.fields[i].id = id
                     /\ \A j \in 1..(i - 1) : block.fields[j].id # id
             c == CHOOSE i \in 1..Len(block.fields) : P(i)
  <1>6. c \in 1..Len(block.fields) /\ P(c)
    <2>1. \E i \in 1..Len(block.fields) : P(i)
      BY <1>4, <1>5
    <2> HIDE DEF P
    <2> QED
      BY <2>1
  <1>7. FirstField(block, id) = block.fields[c]
    BY DEF FirstField
  <1> HIDE DEF c
  <1> QED
    BY <1>6, <1>7

\* The k-th value, if it is in the field at all, is among the numbers that the
\* length test has counted.
LEMMA RankIs ==
    ASSUME NEW need \in [1..3 -> BOOLEAN], NEW k \in 1..3, need[k]
    PROVE  Rank(need, k) \in Nat \ {0} /\ Rank(need, 3) \in Nat /\ Rank(need, k) <= Rank(need, 3)
  <1> DEFINE upto == {j \in 1..k : need[j]}
             all  == {j \in 1..3 : need[j]}
  <1>1. IsFiniteSet(1..3)
    <2>1. \A a, b \in Int : IsFiniteSet(a..b)
      BY FS_Interval
    <2>2. 1 \in Int /\ 3 \in Int
      OBVIOUS
    <2> QED
      BY <2>1, <2>2, Zenon
  <1>2. upto \subseteq all /\ all \subseteq 1..3 /\ k \in upto
    OBVIOUS
  <1>3. Rank(need, k) = Cardinality(upto) /\ Rank(need, 3) = Cardinality(all)
    BY DEF Rank
  <1> HIDE DEF upto, all
  <1>4. IsFiniteSet(all) /\ IsFiniteSet(upto) /\ Cardinality(upto) <= Cardinality(all)
    BY <1>1, <1>2, FS_Subset
  <1>5. Cardinality(upto) \in Nat /\ Cardinality(all) \in Nat /\ Cardinality(upto) # 0
    BY <1>2, <1>4, FS_CardinalityType, FS_EmptySet
  <1> QED
    BY <1>3, <1>4, <1>5

\* The three numbers of a header are 64-bit numbers, wherever they come from:
\* apply_zip64_extra takes none that its field does not hold.
LEMMA ValuesAreWords ==
    ASSUME NEW r, IsHeader(r), NEW base \in [1..3 -> 0..Max64], NEW need \in [1..3 -> BOOLEAN],
           zip64_error(r.extra, need) = "none"
    PROVE  \A k \in 1..3 : apply_zip64_extra(r.extra, need, base)[k] \in 0..Max64
  <1> SUFFICES ASSUME NEW k \in 1..3
               PROVE  apply_zip64_extra(r.extra, need, base)[k] \in 0..Max64
    OBVIOUS
  <1> DEFINE f == FirstField(r.extra, "zip64")
  <1>1. apply_zip64_extra(r.extra, need, base)[k]
          = IF need[k] THEN f.words[Rank(need, k)] ELSE base[k]
    BY DEF apply_zip64_extra
  <1>2. CASE need[k]
    <2>1. Has(r.extra, "zip64") /\ ~(Len(f.words) < Rank(need, 3))
      BY DEF zip64_error
    <2>2. r.extra \in Blocks /\ \A i \in 1..Len(r.extra.fields) :
            r.extra.fields[i].id = "zip64" => r.extra.fields[i].words \in Seq(0..Max64)
      BY DEF IsHeader
    <2>3. f.words \in Seq(0..Max64)
      <3>1. PICK i \in 1..Len(r.extra.fields) :
               f = r.extra.fields[i] /\ r.extra.fields[i].id = "zip64"
        BY <2>1, <2>2, FirstFieldIs
      <3> QED
        BY <2>2, <3>1
    <2> HIDE DEF f
    <2>4. Rank(need, k) \in Nat \ {0} /\ Rank(need, 3) \in Nat /\ Rank(need, k) <= Rank(need, 3)
      BY <1>2, RankIs
    <2>5. Len(f.words) \in Nat
      BY <2>3
    <2>6. Rank(need, k) \in 1..Len(f.words)
      BY <2>1, <2>4, <2>5
    <2>7. f.words[Rank(need, k)] \in 0..Max64
      BY <2>3, <2>6, ElementIs, Zenon
    <2> QED
      BY <1>1, <1>2, <2>7
  <1>3. CASE ~need[k]
    BY <1>1, <1>3
  <1> QED
    BY <1>2, <1>3

\* The AE-x parameters are complete or missing.
LEMMA AesTyped ==
    ASSUME NEW block \in Blocks
    PROVE  parse_aes_extra(block) \in AesRecords \union {None}
  <1> DEFINE w == FirstField(block, "aes").words
  <1>1. CASE Has(block, "aes") /\ Len(w) >= 3
    <2>1. PICK i \in 1..Len(block.fields) : FirstField(block, "aes") = block.fields[i]
      BY <1>1, FirstFieldIs
    <2>2. block.fields \in Seq(Fields)
      BY DEF Blocks
    <2>3. block.fields[i] \in Fields
      BY <2>2, ElementIs, Zenon
    <2>4. w \in Seq(Int)
      BY <2>1, <2>3 DEF Fields
    <2>5. parse_aes_extra(block) = [is_ae2 |-> w[1] = 2, strength |-> w[2], actual_method |-> w[3]]
      BY <1>1 DEF parse_aes_extra
    <2> HIDE DEF w
    <2>6. w[1] \in Int /\ w[2] \in Int /\ w[3] \in Int
      BY <1>1, <2>4
    <2> DEFINE a == (w[1] = 2)
    <2>7. a \in BOOLEAN
      OBVIOUS
    <2> HIDE DEF a
    <2>8. [is_ae2 |-> a, strength |-> w[2], actual_method |-> w[3]] \in AesRecords
      BY <2>6, <2>7 DEF AesRecords
    <2> QED
      BY <2>5, <2>8 DEF a
  <1>2. CASE ~(Has(block, "aes") /\ Len(w) >= 3)
    BY <1>2 DEF parse_aes_extra
  <1> QED
    BY <1>1, <1>2

\* The last of some positions is one of them.
LEMMA LastIs ==
    ASSUME NEW n \in Nat, NEW s, s \subseteq 1..n, s # {}
    PROVE  LastOf(s) \in s
  <1>1. s \subseteq Nat /\ \A j \in s : j <= n
    OBVIOUS
  <1>2. \E i \in s : \A j \in s : j <= i
    BY <1>1, GreatestOf
  <1> QED
    BY <1>2 DEF LastOf

\* The NTFS times of a block are all there or all missing.
LEMMA NtfsTimes ==
    ASSUME NEW block \in Blocks
    PROVE  \/ parse_ntfs_times(block) = [c \in Clocks |-> None]
           \/ parse_ntfs_times(block) \in [Clocks -> Int]
  <1> DEFINE set   == {i \in FieldsOf(block, "ntfs") : WholeAttrs(block.fields[i]) # {}}
             field == block.fields[LastOf(set)]
             attr  == field.attrs[LastOf(WholeAttrs(field))]
  <1>1. parse_ntfs_times(block) = [c \in Clocks |-> IF set = {} THEN None ELSE attr.words[Order[c]]]
    BY DEF parse_ntfs_times
  <1>2. CASE set = {}
    BY <1>1, <1>2
  <1>3. CASE set # {}
    <2>1. block.fields \in Seq(Fields) /\ Len(block.fields) \in Nat
      BY DEF Blocks
    <2>2. set \subseteq 1..Len(block.fields)
      BY DEF FieldsOf
    <2>3. LastOf(set) \in set
      <3> HIDE DEF set
      <3> QED
        BY <1>3, <2>1, <2>2, LastIs
    <2>4. field \in Fields /\ WholeAttrs(field) # {}
      <3>1. LastOf(set) \in 1..Len(block.fields) /\ WholeAttrs(block.fields[LastOf(set)]) # {}
        BY <2>2, <2>3
      <3> HIDE DEF set
      <3> QED
        BY <2>1, <3>1
    <2> HIDE DEF set, field
    <2>5. field.attrs \in Seq([tag : Nat, words : Seq(Int)]) /\ Len(field.attrs) \in Nat
      BY <2>4 DEF Fields
    <2>6. WholeAttrs(field) \subseteq 1..Len(field.attrs)
      BY DEF WholeAttrs
    <2>7. LastOf(WholeAttrs(field)) \in WholeAttrs(field)
      BY <2>4, <2>5, <2>6, LastIs
    <2>8. attr.words \in Seq(Int) /\ Len(attr.words) >= 3
      <3> DEFINE n == LastOf(WholeAttrs(field))
      <3>1. n \in 1..Len(field.attrs) /\ Len(field.attrs[n].words) >= 3
        BY <2>7 DEF WholeAttrs
      <3> HIDE DEF n
      <3>2. field.attrs[n] \in [tag : Nat, words : Seq(Int)]
        BY <2>5, <3>1, ElementIs, Zenon
      <3>3. field.attrs[n].words \in Seq(Int)
        BY <3>2
      <3> QED
        BY <3>1, <3>3 DEF n
    <2>9. \A c \in Clocks : Order[c] \in 1..3
      BY DEF Order, Clocks
    <2>10. \A c \in Clocks : attr.words[Order[c]] \in Int
      <3> HIDE DEF attr
      <3> QED
        BY <2>8, <2>9
    <2> QED
      BY <1>1, <1>3, <2>10
  <1> QED
    BY <1>2, <1>3

\* A Unix time is a number or missing, each for itself.
LEMMA UnixTimes ==
    ASSUME NEW block \in Blocks
    PROVE  parse_unix_times(block) \in [Clocks -> Int \union {None}]
  <1> SUFFICES ASSUME NEW c \in Clocks
               PROVE  parse_unix_times(block)[c] \in Int \union {None}
    BY DEF parse_unix_times
  <1> DEFINE set   == {i \in FieldsOf(block, "unix") : c \in block.fields[i].flags}
             field == block.fields[LastOf(set)]
             low   == {d \in field.flags : Order[d] <= Order[c]}
  <1>1. parse_unix_times(block)[c] = IF set = {} THEN None ELSE take_i32le(field, c)
    BY DEF parse_unix_times
  <1>2. CASE set = {}
    BY <1>1, <1>2
  <1>3. CASE set # {}
    <2>1. block.fields \in Seq(Fields) /\ Len(block.fields) \in Nat
      BY DEF Blocks
    <2>2. set \subseteq 1..Len(block.fields)
      BY DEF FieldsOf
    <2>3. LastOf(set) \in set
      <3> HIDE DEF set
      <3> QED
        BY <1>3, <2>1, <2>2, LastIs
    <2>4. field \in Fields /\ c \in field.flags
      <3>1. LastOf(set) \in 1..Len(block.fields) /\ c \in block.fields[LastOf(set)].flags
        BY <2>2, <2>3
      <3> HIDE DEF set
      <3> QED
        BY <2>1, <3>1
    <2> HIDE DEF set, field
    <2>5. field.words \in Seq(Int) /\ field.flags \subseteq Clocks
      BY <2>4 DEF Fields
    <2>6. IsFiniteSet(Clocks)
      <3>1. IsFiniteSet({"mtime"}) /\ IsFiniteSet({"mtime"} \union {"atime"})
            /\ IsFiniteSet(({"mtime"} \union {"atime"}) \union {"ctime"})
        BY FS_Singleton, FS_AddElement
      <3>2. Clocks = ({"mtime"} \union {"atime"}) \union {"ctime"}
        BY DEF Clocks
      <3> QED
        BY <3>1, <3>2
    <2>7. IsFiniteSet(low)
      BY <2>5, <2>6, FS_Subset
    <2>8. Order[c] \in 1..3
      BY DEF Order, Clocks
    <2>9. c \in low
      BY <2>4, <2>8
    <2> HIDE DEF low
    <2>10. Cardinality(low) \in Nat /\ Cardinality(low) # 0
      BY <2>7, <2>9, FS_CardinalityType, FS_EmptySet
    <2>11. take_i32le(field, c) = IF Cardinality(low) <= Len(field.words)
                                  THEN field.words[Cardinality(low)] ELSE None
      BY DEF take_i32le, low
    <2>12. take_i32le(field, c) \in Int \union {None}
      BY <2>5, <2>10, <2>11
    <2> QED
      BY <1>1, <1>3, <2>12
  <1> QED
    BY <1>2, <1>3

\* A Unicode name is text or missing.
LEMMA UnicodeName ==
    ASSUME NEW block \in Blocks, NEW id
    PROVE  parse_unicode_extra(block, id) \in STRING \union {None}
  <1> DEFINE set == FieldsOf(block, id)
  <1>1. CASE set = {}
    BY <1>1 DEF parse_unicode_extra
  <1>2. CASE set # {}
    <2>1. block.fields \in Seq(Fields) /\ Len(block.fields) \in Nat
      BY DEF Blocks
    <2>2. set \subseteq 1..Len(block.fields)
      BY DEF FieldsOf
    <2>3. parse_unicode_extra(block, id) = block.fields[LastOf(set)].text
      BY <1>2 DEF parse_unicode_extra
    <2> HIDE DEF set
    <2>4. LastOf(set) \in 1..Len(block.fields)
      BY <1>2, <2>1, <2>2, LastIs
    <2>5. block.fields[LastOf(set)] \in Fields
      BY <2>1, <2>4, ElementIs, Zenon
    <2> QED
      BY <2>3, <2>5 DEF Fields
  <1> QED
    BY <1>1, <1>2

\* What parse_extra_fields returns.
LEMMA ExtraTyped ==
    ASSUME NEW block \in Blocks
    PROVE  parse_extra_fields(block) \in ExtraRecords
  <1>1. parse_ntfs_times(block) \in [Clocks -> Int \union {None}]
    BY NtfsTimes
  <1>2. parse_unix_times(block) \in [Clocks -> Int \union {None}]
    BY UnixTimes
  <1>3. /\ parse_unicode_extra(block, "unicode_path") \in STRING \union {None}
        /\ parse_unicode_extra(block, "unicode_comment") \in STRING \union {None}
    BY UnicodeName
  <1> QED
    BY <1>1, <1>2, <1>3 DEF parse_extra_fields, ExtraRecords

\* A header without an error makes a well-formed entry.
LEMMA EntryTyped ==
    ASSUME IsHeader(header), header_error = "none"
    PROVE  Entry \in CentralEntries
  <1> DEFINE v == IF Sentinels THEN apply_zip64_extra(header.extra, Need, Base) ELSE Base
             aes == IF header.method = 99 THEN parse_aes_extra(header.extra) ELSE None
             extra == parse_extra_fields(header.extra)
  <1>1. /\ header.name \in STRING /\ header.encrypted \in BOOLEAN /\ header.decodes \in BOOLEAN
        /\ header.disk_start \in Nat /\ header.extra \in Blocks
        /\ header.uncompressed_size \in 0..Max64 /\ header.compressed_size \in 0..Max64
        /\ header.lfh_offset \in 0..Max64
    BY DEF IsHeader
  <1>2. Base \in [1..3 -> 0..Max64] /\ Need \in [1..3 -> BOOLEAN]
    BY <1>1 DEF Base, Need
  <1>3. v[1] \in 0..Max64 /\ v[2] \in 0..Max64 /\ v[3] \in 0..Max64
    <2>1. CASE Sentinels
      <3>1. zip64_error(header.extra, Need) = "none"
        BY <2>1 DEF header_error
      <3>2. \A k \in 1..3 : apply_zip64_extra(header.extra, Need, Base)[k] \in 0..Max64
        BY <1>2, <3>1, ValuesAreWords
      <3> QED
        BY <2>1, <3>2
    <2>2. CASE ~Sentinels
      BY <1>2, <2>2
    <2> QED
      BY <2>1, <2>2
  <1>4. aes \in AesRecords \union {None} /\ extra \in ExtraRecords
    BY <1>1, AesTyped, ExtraTyped
  <1>5. Entry = [ name |-> header.name, encrypted |-> header.encrypted, decodes |-> header.decodes,
                  disk_start |-> header.disk_start, uncompressed_size |-> v[1],
                  compressed_size |-> v[2], lfh_offset |-> v[3], aes |-> aes, extra |-> extra ]
    BY DEF Entry
  <1> HIDE DEF v, aes, extra
  <1> QED
    BY <1>1, <1>3, <1>4, <1>5 DEF CentralEntries

\* The offset that is shifted by the prefix is a 64-bit number again.
LEMMA ShiftedTyped ==
    ASSUME NEW e \in CentralEntries, prefix \in Nat
    PROVE  Shifted(e) \in CentralEntries
  <1>1. e.lfh_offset \in 0..Max64 /\ Max64 \in Nat
    BY DirectoryAssumption DEF CentralEntries
  <1> DEFINE o == (e.lfh_offset + prefix) % (Max64 + 1)
  <1>2. o \in 0..Max64
    BY <1>1
  <1>3. Shifted(e) = [e EXCEPT !.lfh_offset = o]
    BY DEF Shifted, CentralEntries
  <1> HIDE DEF o
  <1> QED
    BY <1>2, <1>3 DEF CentralEntries

\* TypeOK, and what the client has produced is a list.
Typed == TypeOK /\ \E S : out \in Seq(S)

\* What TypeOK says besides the place of the EOCD, the directory and the entries.
LEMMA TypedKept ==
    ASSUME Typed, archive' = archive, eocd_pos' = eocd_pos, dir' = dir, prefix' = prefix,
           cursor' = cursor, entries' = entries, out' \in {out, <<>>},
           pc' \in Opening \union {"parsed", "viewing", "listing", "viewed", "listed", "error"},
           (error' # "none") <=> (pc' = "error")
    PROVE  Typed'
  <1>1. PICK S : out \in Seq(S)
    BY DEF Typed
  <1>2. out' \in Seq(S) /\ Len(out') <= Len(out) /\ Len(out') \in Nat /\ Len(out) \in Nat
    <2>1. Len(out) \in Nat
      BY <1>1
    <2>2. CASE out' = out
      BY <1>1, <2>1, <2>2
    <2>3. CASE out' = <<>>
      BY <2>1, <2>3
    <2> QED
      BY <2>2, <2>3
  <1>3. entries \in Seq(CentralEntries) /\ Len(out) <= Len(entries)
    BY DEF Typed, TypeOK
  <1>4. Len(out') <= Len(entries')
    BY <1>2, <1>3
  <1> QED
    BY <1>2, <1>4 DEF Typed, TypeOK, file_len

\* Every step of the parser keeps the types.
LEMMA ParserTyped ==
    ASSUME IInv, Typed, FindEocd \/ ResolveEocd \/ LocateDirectory \/ ParseHeader \/ FinishParse
    PROVE  Typed'
  <1>1. /\ archive \in Archives /\ file_len \in Nat /\ archive' = archive /\ file_len' = file_len
        /\ out' = out
    BY ArchiveFacts DEF IInv, FindEocd, ResolveEocd, LocateDirectory, ParseHeader, FinishParse, file_len
  <1>2. /\ eocd_pos \in 0..file_len /\ dir \in Dirs /\ prefix \in 0..file_len
        /\ cursor \in 0..dir.cd_size /\ entries \in Seq(CentralEntries) /\ Len(out) <= Len(entries)
        /\ (error # "none") <=> (pc = "error")
    BY DEF Typed, TypeOK
  <1>3. PICK S : out \in Seq(S)
    BY DEF Typed
  <1>4. CASE FindEocd
    <2>1. CASE EocdsInTail = {} /\ Fail("NoEocd") /\ UNCHANGED eocd_pos
      BY <1>4, <2>1, TypedKept DEF FindEocd, Fail
    <2>2. CASE EocdsInTail # {} /\ eocd_pos' = find_eocd /\ pc' = "resolving" /\ UNCHANGED error
      <3>1. find_eocd \in EocdsInTail
        BY <1>1, <2>2, FindEocdInTail
      <3>2. find_eocd \in Nat /\ find_eocd + EOCD_MIN <= file_len
        BY <1>1, <3>1, ArchiveFacts DEF EocdsInTail
      <3>3. eocd_pos' \in 0..file_len
        BY <1>1, <2>2, <3>2 DEF EOCD_MIN
      <3> QED
        BY <1>1, <1>2, <1>3, <1>4, <2>2, <3>3 DEF FindEocd, Typed, TypeOK, Opening
    <2> QED
      BY <1>4, <2>1, <2>2 DEF FindEocd
  <1>5. CASE ResolveEocd
    <2>1. cursor = 0 /\ SigAt(eocd_pos) = "EOCD"
      BY <1>5 DEF IInv, DirInside, EocdInside, ResolveEocd
    <2>2. ASSUME NEW d, d \in Dirs, Resolved(d) PROVE Typed'
      <3>1. dir' \in Dirs /\ dir'.cd_size \in 0..Max64
        BY <2>2 DEF Resolved, Dirs
      <3>2. cursor' \in 0..dir'.cd_size
        BY <1>5, <2>1, <3>1, DirectoryAssumption DEF ResolveEocd
      <3> QED
        BY <1>1, <1>2, <1>3, <1>5, <2>2, <3>1, <3>2 DEF ResolveEocd, Resolved, Typed, TypeOK, Opening
    <2>3. CASE Resolved(DirOf(eocd))
      BY <1>1, <2>1, <2>2, <2>3, ArchiveFacts DEF eocd
    <2>4. CASE zip64_eocd_error = "none" /\ Resolved(DirOf(archive.recs[z64_eocd_offset]))
      <3>1. SigAt(z64_eocd_offset) = "ZIP64_EOCD"
        BY <2>4 DEF zip64_eocd_error
      <3> QED
        BY <1>1, <2>2, <2>4, <3>1, ArchiveFacts
    <2>5. CASE zip64_eocd_error # "none" /\ Fail(zip64_eocd_error) /\ UNCHANGED dir
      BY <1>5, <2>5, TypedKept DEF ResolveEocd, Fail
    <2> QED
      BY <1>5, <2>3, <2>4, <2>5 DEF ResolveEocd
  <1>6. CASE LocateDirectory
    <2>1. eocd_pos \in Nat /\ eocd_pos + EOCD_MIN <= file_len
          /\ dir.cd_offset \in Nat /\ dir.cd_size \in Nat
      BY <1>6 DEF IInv, EocdInside, DirInside, LocateDirectory
    <2>2. DetectPrefix \in 0..file_len
      <3>1. HasGap => Gap \in Nat /\ Gap <= eocd_pos
        BY <1>1, <2>1, GapInside DEF Gap, RecordedEnd
      <3>2. HasGap => Gap \in 0..file_len
        BY <1>1, <1>2, <3>1
      <3> QED
        BY <1>1, <3>2 DEF DetectPrefix
    <2>3. pc' \in {"error", "parsing"} /\ ((error' # "none") <=> (pc' = "error"))
      BY <1>2, <1>6 DEF LocateDirectory, Fail
    <2> QED
      BY <1>1, <1>2, <1>3, <1>6, <2>2, <2>3 DEF LocateDirectory, Typed, TypeOK, Opening
  <1>7. CASE ParseHeader
    <2>1. CASE header_error # "none" /\ Fail(header_error) /\ UNCHANGED <<cursor, entries>>
      BY <1>7, <2>1, TypedKept DEF ParseHeader, Fail
    <2>2. CASE /\ header_error = "none" /\ entries' = Append(entries, Entry) /\ UNCHANGED <<pc, error>>
               /\ cursor' = cursor + CD_HEADER_FIXED + header.var_len
      <3>1. SigAt(HeaderPos) = "CD_HEADER" /\ Takes(CD_HEADER_FIXED + header.var_len)
        BY <2>2 DEF header_error
      <3>2. IsHeader(header) /\ header.var_len \in Nat
        BY <1>1, <3>1, ArchiveFacts DEF header
      <3>3. Entry \in CentralEntries
        BY <2>2, <3>2, EntryTyped
      <3>4. entries' \in Seq(CentralEntries) /\ Len(entries') = Len(entries) + 1
        BY <1>2, <2>2, <3>3, AppendIs
      <3>5. Len(out) \in Nat /\ Len(entries) \in Nat
        BY <1>2, <1>3
      <3>6. Len(out') <= Len(entries')
        BY <1>1, <1>2, <3>4, <3>5
      <3>7. dir.cd_size \in Nat
        BY DEF IInv, DirInside
      <3>8. cursor' \in 0..dir'.cd_size
        <4> DEFINE n == header.var_len
        <4>1. cursor \in Nat /\ n \in Nat /\ 46 + n <= dir.cd_size - cursor /\ dir' = dir
          BY <1>2, <1>7, <3>1, <3>2, <3>7 DEF ParseHeader, Takes, remaining, CD_HEADER_FIXED
        <4>2. cursor' = cursor + 46 + n
          BY <2>2 DEF CD_HEADER_FIXED
        <4> HIDE DEF n
        <4> QED
          BY <3>7, <4>1, <4>2
      <3> QED
        BY <1>1, <1>2, <1>3, <1>7, <2>2, <3>4, <3>6, <3>8 DEF ParseHeader, Typed, TypeOK, Opening
    <2> QED
      BY <1>7, <2>1, <2>2 DEF ParseHeader
  <1>8. CASE FinishParse
    <2>1. Len(entries) \in Nat /\ \A i \in 1..Len(entries) : entries[i] \in CentralEntries
      <3>1. Len(entries) \in Nat
        BY <1>2
      <3>2. \A i \in 1..Len(entries) : entries[i] \in CentralEntries
        BY <1>2, ElementIs, Zenon
      <3> QED
        BY <3>1, <3>2
    <2>2. \A i \in 1..Len(entries) : Shifted(entries[i]) \in CentralEntries
      BY <1>1, <1>2, <2>1, ShiftedTyped
    <2>3. entries' \in Seq(CentralEntries) /\ Len(entries') = Len(entries)
      BY <1>8, <2>1, <2>2 DEF FinishParse
    <2>4. Len(out') <= Len(entries')
      BY <1>1, <1>2, <2>3
    <2> QED
      BY <1>1, <1>2, <1>3, <1>8, <2>3, <2>4 DEF FinishParse, Typed, TypeOK
  <1> QED
    BY <1>4, <1>5, <1>6, <1>7, <1>8

\* And so does every step of its clients.
LEMMA ClientTyped ==
    ASSUME Typed, (\E c \in {"viewing", "listing"} : Asks(c)) \/ structural_view \/ list \/ ClientReturns
    PROVE  Typed'
  <1>1. (error # "none") <=> (pc = "error")
    BY DEF Typed, TypeOK
  <1>2. ASSUME NEW e, UNCHANGED <<archive, eocd_pos, dir, prefix, cursor, entries, summary>>,
               pc \in {"viewing", "listing"}, Len(out) < Len(entries),
               out' = Append(out, e), UNCHANGED <<pc, error>>
        PROVE  Typed'
    <2>1. PICK S : out \in Seq(S)
      BY DEF Typed
    <2>2. out \in Seq(S \union {e}) /\ Len(out) \in Nat
      BY <2>1, SeqWidens
    <2>3. out' \in Seq(S \union {e}) /\ Len(out') = Len(out) + 1
      BY <1>2, <2>2, AppendIs
    <2>4. entries' = entries /\ Len(entries) \in Nat
      BY <1>2 DEF Typed, TypeOK
    <2>5. Len(out') <= Len(entries')
      BY <1>2, <2>2, <2>3, <2>4
    <2> QED
      BY <1>2, <2>3, <2>5 DEF Typed, TypeOK, file_len
  <1>3. CASE \E c \in {"viewing", "listing"} : Asks(c)
    BY <1>1, <1>3, TypedKept DEF Asks
  <1>4. CASE structural_view
    <2>1. CASE lfh_error(at.lfh_offset) # "none" /\ Fail(lfh_error(at.lfh_offset)) /\ out' = <<>>
      BY <1>4, <2>1, TypedKept DEF structural_view, ClientStep, Fail
    <2>2. CASE out' = Append(out, Layout) /\ UNCHANGED <<pc, error>>
      BY <1>2, <1>4, <2>2 DEF structural_view, ClientStep
    <2> QED
      BY <1>4, <2>1, <2>2 DEF structural_view
  <1>5. CASE list
    <2>1. CASE by_index_error(at) # "none" /\ Fail(by_index_error(at)) /\ UNCHANGED out
      BY <1>5, <2>1, TypedKept DEF list, ClientStep, Fail
    <2>2. CASE /\ out' = Append(out, [name |-> at.name, size |-> at.uncompressed_size])
               /\ UNCHANGED <<pc, error>>
      BY <1>2, <1>5, <2>2 DEF list, ClientStep
    <2> QED
      BY <1>5, <2>1, <2>2 DEF list
  <1>6. CASE ClientReturns
    BY <1>1, <1>6, TypedKept DEF ClientReturns, ClientStep
  <1> QED
    BY <1>3, <1>4, <1>5, <1>6

\* Typed holds throughout.
LEMMA TypedAlways == Spec => []Typed
  <1>1. Init => Typed
    <2> SUFFICES ASSUME Init PROVE Typed
      OBVIOUS
    <2>1. file_len \in Nat /\ Max64 \in Nat
      BY ArchiveFacts DEF Init
    <2>2. dir \in Dirs
      BY <2>1 DEF Init, Dirs
    <2>3. entries \in Seq(CentralEntries) /\ out \in Seq({}) /\ Len(out) <= Len(entries)
      BY DEF Init
    <2> QED
      BY <2>1, <2>2, <2>3 DEF Init, Typed, TypeOK, Opening
  <1>2. IInv /\ Typed /\ [Next]_vars => Typed'
    <2>1. ASSUME Typed, UNCHANGED vars PROVE Typed'
      BY <2>1 DEF vars, Typed, TypeOK, file_len
    <2> QED
      BY <2>1, ParserTyped, ClientTyped DEF Next
  <1> QED
    BY <1>1, <1>2, Invariant, PTL DEF Spec

\* For every file, what is parsed of it is well-formed: positions in the file,
\* 64-bit sizes and offsets, complete or missing extra fields, and an error is
\* returned exactly where the parser or its client stops with one.
THEOREM TypeCorrect == Spec => []TypeOK
  <1>1. Typed => TypeOK
    BY DEF Typed
  <1> QED
    BY <1>1, TypedAlways, PTL

(***************************************************************************)
(* Sound archives: what is made of the fields of a header.                 *)
(***************************************************************************)
\* How many of three things a set holds.
LEMMA CountOfThree ==
    ASSUME NEW a, NEW b, NEW c, a # b, a # c, b # c, NEW S, S \subseteq {a, b, c}
    PROVE  Cardinality(S) = (IF a \in S THEN 1 ELSE 0) + (IF b \in S THEN 1 ELSE 0)
                            + (IF c \in S THEN 1 ELSE 0)
  <1>1. IsFiniteSet({a, b, c})
    <2>1. IsFiniteSet({a}) /\ IsFiniteSet({a} \union {b})
          /\ IsFiniteSet(({a} \union {b}) \union {c})
      BY FS_Singleton, FS_AddElement
    <2>2. {a, b, c} = ({a} \union {b}) \union {c}
      OBVIOUS
    <2> QED
      BY <2>1, <2>2
  <1> DEFINE T == S \ {a}
             U == T \ {b}
             V == U \ {c}
  <1>2. IsFiniteSet(S) /\ IsFiniteSet(T) /\ IsFiniteSet(U)
    BY <1>1, FS_Subset
  <1>3. V = {}
    OBVIOUS
  <1>4. Cardinality(T) = IF a \in S THEN Cardinality(S) - 1 ELSE Cardinality(S)
    BY <1>2, FS_RemoveElement
  <1>5. Cardinality(U) = IF b \in S THEN Cardinality(T) - 1 ELSE Cardinality(T)
    <2>1. b \in T <=> b \in S
      OBVIOUS
    <2> HIDE DEF T
    <2> QED
      BY <1>2, <2>1, FS_RemoveElement
  <1>6. Cardinality(V) = IF c \in S THEN Cardinality(U) - 1 ELSE Cardinality(U)
    <2>1. c \in U <=> c \in S
      OBVIOUS
    <2> HIDE DEF U
    <2> QED
      BY <1>2, <2>1, FS_RemoveElement
  <1>7. Cardinality(V) = 0
    BY <1>3, FS_EmptySet
  <1>8. Cardinality(S) \in Nat /\ Cardinality(T) \in Nat /\ Cardinality(U) \in Nat
    BY <1>2, FS_CardinalityType
  <1> HIDE DEF T, U, V
  <1> QED
    BY <1>4, <1>5, <1>6, <1>7, <1>8

\* Where the numbers of a Zip64 field are: each behind those in front of it.
LEMMA RankOf ==
    ASSUME NEW need \in [1..3 -> BOOLEAN]
    PROVE  /\ Rank(need, 1) = (IF need[1] THEN 1 ELSE 0)
           /\ Rank(need, 2) = (IF need[1] THEN 1 ELSE 0) + (IF need[2] THEN 1 ELSE 0)
           /\ Rank(need, 3) = (IF need[1] THEN 1 ELSE 0) + (IF need[2] THEN 1 ELSE 0)
                              + (IF need[3] THEN 1 ELSE 0)
  <1>1. ASSUME NEW k \in 1..3
        PROVE  Rank(need, k) = (IF 1 <= k /\ need[1] THEN 1 ELSE 0) + (IF 2 <= k /\ need[2] THEN 1 ELSE 0)
                               + (IF 3 <= k /\ need[3] THEN 1 ELSE 0)
    <2> DEFINE S == {j \in 1..k : need[j]}
    <2>1. S \subseteq {1, 2, 3}
      OBVIOUS
    <2>2. /\ (1 \in S) <=> (1 <= k /\ need[1])
          /\ (2 \in S) <=> (2 <= k /\ need[2])
          /\ (3 \in S) <=> (3 <= k /\ need[3])
      OBVIOUS
    <2>3. Rank(need, k) = Cardinality(S)
      BY DEF Rank
    <2> HIDE DEF S
    <2>4. Cardinality(S) = (IF 1 \in S THEN 1 ELSE 0) + (IF 2 \in S THEN 1 ELSE 0)
                            + (IF 3 \in S THEN 1 ELSE 0)
      <3> DEFINE a == 1
                 b == 2
                 c == 3
      <3>1. a # b /\ a # c /\ b # c /\ S \subseteq {a, b, c}
        BY <2>1
      <3> HIDE DEF a, b, c
      <3>2. Cardinality(S) = (IF a \in S THEN 1 ELSE 0) + (IF b \in S THEN 1 ELSE 0)
                             + (IF c \in S THEN 1 ELSE 0)
        BY <3>1, CountOfThree
      <3> QED
        BY <3>2 DEF a, b, c
    <2> QED
      BY <2>2, <2>3, <2>4
  <1> QED
    BY <1>1

\* Up to three numbers, the missing ones left out, and where each of them is.
LEMMA JoinedAre ==
    ASSUME NEW S, NEW x \in S, NEW y \in S, NEW z \in S, NEW p \in BOOLEAN, NEW q \in BOOLEAN, NEW r \in BOOLEAN,
           NEW s, s = (IF p THEN <<x>> ELSE <<>>) \o (IF q THEN <<y>> ELSE <<>>) \o (IF r THEN <<z>> ELSE <<>>)
    PROVE  /\ Len(s) = (IF p THEN 1 ELSE 0) + (IF q THEN 1 ELSE 0) + (IF r THEN 1 ELSE 0)
           /\ p => s[1] = x
           /\ q => s[(IF p THEN 1 ELSE 0) + 1] = y
           /\ r => s[(IF p THEN 1 ELSE 0) + (IF q THEN 1 ELSE 0) + 1] = z
  <1> DEFINE P == IF p THEN <<x>> ELSE <<>>
             Q == IF q THEN <<y>> ELSE <<>>
             R == IF r THEN <<z>> ELSE <<>>
  <1>1. /\ P \in Seq(S) /\ Len(P) = (IF p THEN 1 ELSE 0) /\ (p => P[1] = x)
        /\ Q \in Seq(S) /\ Len(Q) = (IF q THEN 1 ELSE 0) /\ (q => Q[1] = y)
        /\ R \in Seq(S) /\ Len(R) = (IF r THEN 1 ELSE 0) /\ (r => R[1] = z)
    OBVIOUS
  <1>2. s = P \o Q \o R
    OBVIOUS
  <1> HIDE DEF P, Q, R
  <1>3. /\ P \o Q \in Seq(S) /\ Len(P \o Q) = Len(P) + Len(Q)
        /\ p => (P \o Q)[1] = x
        /\ q => (P \o Q)[Len(P) + 1] = y
    <2>1. P \in Seq(S) /\ Q \in Seq(S)
      BY <1>1
    <2>2. Len(P) \in Nat /\ Len(Q) \in Nat /\ Len(P \o Q) = Len(P) + Len(Q) /\ P \o Q \in Seq(S)
      BY <2>1
    <2>3. \A k \in 1..(Len(P) + Len(Q)) : (P \o Q)[k] = IF k <= Len(P) THEN P[k] ELSE Q[k - Len(P)]
      BY <2>1
    <2>4. p => (P \o Q)[1] = x
      BY <1>1, <2>2, <2>3
    <2>5. q => (P \o Q)[Len(P) + 1] = Q[1]
      BY <1>1, <2>2, <2>3
    <2> QED
      BY <1>1, <2>2, <2>4, <2>5
  <1> DEFINE PQ == P \o Q
  <1> HIDE DEF PQ
  <1>4. Len(s) = Len(PQ) + Len(R) /\ (p => s[1] = x) /\ (q => s[Len(P) + 1] = y)
        /\ (r => s[Len(PQ) + 1] = z)
    BY <1>1, <1>2, <1>3 DEF PQ
  <1> QED
    BY <1>1, <1>3, <1>4 DEF PQ

\* The numbers of a sound header are its member's, whichever of them are in the
\* Zip64 field.
LEMMA NumbersRead ==
    ASSUME NEW h, IsHeader(h), NEW e \in CentralEntries, NEW q \in Nat, SoundHeader(h, e, q),
           NEW base, base = <<h.uncompressed_size, h.compressed_size, h.lfh_offset>>,
           NEW need, need = [k \in 1..3 |-> base[k] = U32_SENTINEL],
           NEW real, real = <<e.uncompressed_size, e.compressed_size, e.lfh_offset - q>>
    PROVE  /\ (\E k \in 1..3 : need[k]) =>
                 /\ zip64_error(h.extra, need) = "none"
                 /\ \A k \in 1..3 : apply_zip64_extra(h.extra, need, base)[k] = real[k]
           /\ ~(\E k \in 1..3 : need[k]) => \A k \in 1..3 : base[k] = real[k]
  <1> DEFINE fields == h.extra.fields
             zip64 == {f \in {fields[i] : i \in 1..Len(fields)} : f.id = "zip64"}
             n1 == IF need[1] THEN 1 ELSE 0
             n2 == IF need[2] THEN 1 ELSE 0
  <1>1. real[1] \in Int /\ real[2] \in Int /\ real[3] \in Int
    BY DirectoryAssumption DEF CentralEntries
  <1>2. need \in [1..3 -> BOOLEAN] /\ \A k \in 1..3 : need[k] <=> base[k] = U32_SENTINEL
    OBVIOUS
  <1>3. /\ \A k \in 1..3 : base[k] \in {real[k], U32_SENTINEL}
        /\ zip64 = {} => \A k \in 1..3 : base[k] # U32_SENTINEL
    BY DEF SoundHeader
  <1>4. \A f \in zip64 : f.words = (IF need[1] THEN <<real[1]>> ELSE <<>>)
           \o (IF need[2] THEN <<real[2]>> ELSE <<>>) \o (IF need[3] THEN <<real[3]>> ELSE <<>>)
    <2>1. \A f \in zip64 : f.words = (IF base[1] = U32_SENTINEL THEN <<real[1]>> ELSE <<>>)
           \o (IF base[2] = U32_SENTINEL THEN <<real[2]>> ELSE <<>>)
           \o (IF base[3] = U32_SENTINEL THEN <<real[3]>> ELSE <<>>)
      BY DEF SoundHeader
    <2> HIDE DEF zip64
    <2> QED
      BY <1>2, <2>1
  <1>5. ASSUME \E k \in 1..3 : need[k]
        PROVE  /\ zip64_error(h.extra, need) = "none"
               /\ \A k \in 1..3 : apply_zip64_extra(h.extra, need, base)[k] = real[k]
    <2> DEFINE f == FirstField(h.extra, "zip64")
    <2>1. h.extra \in Blocks
      BY DEF IsHeader
    <2>2. Has(h.extra, "zip64")
      <3>1. zip64 # {}
        BY <1>2, <1>3, <1>5
      <3> QED
        BY <3>1 DEF Has
    <2>3. f \in zip64
      <3>1. PICK i \in 1..Len(fields) : f = fields[i] /\ fields[i].id = "zip64"
        BY <2>1, <2>2, FirstFieldIs
      <3> HIDE DEF f
      <3> QED
        BY <3>1
    <2> HIDE DEF f, zip64
    <2>4. f.words = (IF need[1] THEN <<real[1]>> ELSE <<>>)
           \o (IF need[2] THEN <<real[2]>> ELSE <<>>) \o (IF need[3] THEN <<real[3]>> ELSE <<>>)
      BY <1>4, <2>3
    <2>5. need[1] \in BOOLEAN /\ need[2] \in BOOLEAN /\ need[3] \in BOOLEAN
      BY <1>2
    <2>6. /\ Len(f.words) = n1 + n2 + (IF need[3] THEN 1 ELSE 0)
          /\ need[1] => f.words[1] = real[1]
          /\ need[2] => f.words[n1 + 1] = real[2]
          /\ need[3] => f.words[n1 + n2 + 1] = real[3]
      <3> DEFINE x == real[1]
                 y == real[2]
                 z == real[3]
                 a == need[1]
                 b == need[2]
                 c == need[3]
                 s == f.words
      <3>1. x \in Int /\ y \in Int /\ z \in Int /\ a \in BOOLEAN /\ b \in BOOLEAN /\ c \in BOOLEAN
            /\ s = (IF a THEN <<x>> ELSE <<>>) \o (IF b THEN <<y>> ELSE <<>>) \o (IF c THEN <<z>> ELSE <<>>)
        BY <1>1, <2>4, <2>5
      <3> HIDE DEF x, y, z, a, b, c, s
      <3>2. /\ Len(s) = (IF a THEN 1 ELSE 0) + (IF b THEN 1 ELSE 0) + (IF c THEN 1 ELSE 0)
            /\ a => s[1] = x
            /\ b => s[(IF a THEN 1 ELSE 0) + 1] = y
            /\ c => s[(IF a THEN 1 ELSE 0) + (IF b THEN 1 ELSE 0) + 1] = z
        BY <3>1, JoinedAre
      <3> QED
        BY <3>2 DEF x, y, z, a, b, c, s
    <2>7. /\ Rank(need, 1) = n1
          /\ Rank(need, 2) = n1 + (IF need[2] THEN 1 ELSE 0)
          /\ Rank(need, 3) = n1 + n2 + (IF need[3] THEN 1 ELSE 0)
      BY <1>2, RankOf
    <2>8. n1 \in Nat /\ n2 \in Nat
      OBVIOUS
    <2>9. zip64_error(h.extra, need) = "none"
      BY <2>2, <2>6, <2>7, <2>8 DEF zip64_error, f
    <2>10. \A k \in 1..3 : apply_zip64_extra(h.extra, need, base)[k]
              = IF need[k] THEN f.words[Rank(need, k)] ELSE base[k]
      BY DEF apply_zip64_extra, f
    <2>11. \A k \in 1..3 : ~need[k] => base[k] = real[k]
      BY <1>2, <1>3
    <2> HIDE DEF n1, n2
    <2>12. /\ need[1] => f.words[Rank(need, 1)] = real[1]
           /\ need[2] => f.words[Rank(need, 2)] = real[2]
           /\ need[3] => f.words[Rank(need, 3)] = real[3]
      <3>1. need[1] => Rank(need, 1) = 1
        BY <2>7 DEF n1
      <3>2. need[2] => Rank(need, 2) = n1 + 1
        BY <2>7, <2>8
      <3>3. need[3] => Rank(need, 3) = n1 + n2 + 1
        BY <2>7, <2>8
      <3> QED
        BY <2>6, <3>1, <3>2, <3>3
    <2> QED
      BY <2>9, <2>10, <2>11, <2>12
  <1>6. ASSUME ~(\E k \in 1..3 : need[k]) PROVE \A k \in 1..3 : base[k] = real[k]
    BY <1>2, <1>3, <1>6
  <1> QED
    BY <1>5, <1>6

\* The AE-x parameters of a sound header are its member's.
LEMMA AesRead ==
    ASSUME NEW block \in Blocks, NEW e \in CentralEntries, NEW method,
           SoundExtra(block.fields, method, e)
    PROVE  (IF method = 99 THEN parse_aes_extra(block) ELSE None) = e.aes
  <1>1. CASE method # 99
    BY <1>1 DEF SoundExtra
  <1>2. CASE method = 99
    <2> DEFINE fields == block.fields
               with == {fields[i] : i \in {j \in 1..Len(fields) : fields[j].id = "aes"}}
               f == FirstField(block, "aes")
    <2>1. /\ with # {} /\ e.aes # None
          /\ \A g \in with :
                g.words = <<IF e.aes.is_ae2 THEN 2 ELSE 1, e.aes.strength, e.aes.actual_method>>
      BY <1>2 DEF SoundExtra
    <2>2. Has(block, "aes")
      BY <2>1 DEF Has
    <2>3. f \in with
      <3>1. PICK i \in 1..Len(fields) : f = fields[i] /\ fields[i].id = "aes"
        BY <2>2, FirstFieldIs
      <3> HIDE DEF f
      <3> QED
        BY <3>1
    <2> HIDE DEF with
    <2>4. f.words = <<IF e.aes.is_ae2 THEN 2 ELSE 1, e.aes.strength, e.aes.actual_method>>
      BY <2>1, <2>3
    <2>5. e.aes \in AesRecords
      BY <2>1 DEF CentralEntries
    <2> DEFINE v == e.aes
    <2>6. v \in AesRecords
      BY <2>5
    <2> HIDE DEF f, v
    <2>7. f.words = <<IF v.is_ae2 THEN 2 ELSE 1, v.strength, v.actual_method>>
      BY <2>4 DEF v
    <2>8. v.is_ae2 \in BOOLEAN /\ v = [is_ae2 |-> v.is_ae2, strength |-> v.strength,
                                       actual_method |-> v.actual_method]
      BY <2>6 DEF AesRecords
    <2>9. Len(f.words) = 3 /\ f.words[2] = v.strength /\ f.words[3] = v.actual_method
          /\ (f.words[1] = 2) = v.is_ae2
      BY <2>7, <2>8
    <2>10. parse_aes_extra(block)
             = [is_ae2 |-> f.words[1] = 2, strength |-> f.words[2], actual_method |-> f.words[3]]
      BY <2>2, <2>9 DEF parse_aes_extra, f
    <2>11. parse_aes_extra(block) = v
      BY <2>8, <2>9, <2>10
    <2> QED
      BY <1>2, <2>11 DEF v
  <1> QED
    BY <1>1, <1>2

\* So are the NTFS times, ...
LEMMA NtfsRead ==
    ASSUME NEW block \in Blocks, NEW e \in CentralEntries, NEW method,
           SoundExtra(block.fields, method, e)
    PROVE  parse_ntfs_times(block) = e.extra.ntfs
  <1> DEFINE fields == block.fields
             ntfs  == e.extra.ntfs
             with  == {fields[i] : i \in {j \in 1..Len(fields) : fields[j].id = "ntfs"}}
             whole == {t \in UNION {{f.attrs[i] : i \in 1..Len(f.attrs)} : f \in with} : t.tag = 1}
             set   == {i \in FieldsOf(block, "ntfs") : WholeAttrs(block.fields[i]) # {}}
             field == block.fields[LastOf(set)]
             attr  == field.attrs[LastOf(WholeAttrs(field))]
  <1>1. /\ \A t \in whole : t.words = <<ntfs["mtime"], ntfs["atime"], ntfs["ctime"]>>
        /\ whole = {} => ntfs = NoExtra.ntfs
    BY DEF SoundExtra
  <1>2. ntfs \in [Clocks -> Int \union {None}]
    BY DEF CentralEntries, ExtraRecords
  <1>3. parse_ntfs_times(block) = [c \in Clocks |-> IF set = {} THEN None ELSE attr.words[Order[c]]]
    BY DEF parse_ntfs_times
  <1>4. CASE set = {}
    <2>1. ASSUME NEW t \in whole PROVE FALSE
      <3>1. PICK i \in 1..Len(fields), k \in Int :
               /\ fields[i].id = "ntfs" /\ k \in 1..Len(fields[i].attrs)
               /\ t = fields[i].attrs[k] /\ t.tag = 1
        OBVIOUS
      <3>2. Len(t.words) = 3
        <4> HIDE DEF whole
        <4>1. t.words = <<ntfs["mtime"], ntfs["atime"], ntfs["ctime"]>>
          BY <1>1, <2>1
        <4> QED
          BY <4>1
      <3>3. k \in WholeAttrs(fields[i])
        <4>1. fields[i].attrs[k].tag = 1 /\ Len(fields[i].attrs[k].words) >= 3
          BY <3>1, <3>2
        <4> HIDE DEF fields, whole
        <4> QED
          BY <3>1, <4>1 DEF WholeAttrs
      <3>4. i \in set
        BY <3>1, <3>3 DEF FieldsOf
      <3> QED
        BY <1>4, <3>4
    <2>2. ntfs = NoExtra.ntfs
      <3> HIDE DEF whole
      <3> QED
        BY <1>1, <2>1
    <2>3. NoExtra.ntfs = [c \in Clocks |-> None]
      BY DEF NoExtra
    <2> QED
      BY <1>3, <1>4, <2>2, <2>3
  <1>5. CASE set # {}
    <2>1. Len(fields) \in Nat /\ fields \in Seq(Fields)
      BY DEF Blocks
    <2>2. set \subseteq 1..Len(fields)
      BY DEF FieldsOf
    <2>3. LastOf(set) \in set
      <3> HIDE DEF set
      <3> QED
        BY <1>5, <2>1, <2>2, LastIs
    <2> DEFINE i == LastOf(set)
               k == LastOf(WholeAttrs(field))
    <2>4. i \in 1..Len(fields) /\ fields[i].id = "ntfs" /\ WholeAttrs(fields[i]) # {}
      BY <2>3 DEF FieldsOf
    <2> HIDE DEF set, i
    <2>5. fields[i] \in Fields
      BY <2>1, <2>4, ElementIs, Zenon
    <2>6. Len(fields[i].attrs) \in Nat
      BY <2>5 DEF Fields
    <2>7. WholeAttrs(fields[i]) \subseteq 1..Len(fields[i].attrs)
      BY DEF WholeAttrs
    <2>8. field = fields[i] /\ k \in WholeAttrs(field)
      BY <2>4, <2>6, <2>7, LastIs DEF i
    <2> HIDE DEF k
    <2>9. k \in 1..Len(fields[i].attrs) /\ fields[i].attrs[k].tag = 1
      BY <2>8 DEF WholeAttrs
    <2>10. fields[i].attrs[k] \in whole
      BY <2>4, <2>9
    <2> HIDE DEF whole
    <2>11. attr = fields[i].attrs[k]
      BY <2>8 DEF k
    <2>12. attr.words = <<ntfs["mtime"], ntfs["atime"], ntfs["ctime"]>>
      BY <1>1, <2>10, <2>11
    <2> HIDE DEF attr, ntfs
    <2>13. \A c \in Clocks : attr.words[Order[c]] = ntfs[c]
      BY <2>12 DEF Order, Clocks
    <2>14. parse_ntfs_times(block) = [c \in Clocks |-> ntfs[c]]
      BY <1>3, <1>5, <2>13
    <2> QED
      BY <1>2, <2>14 DEF ntfs
  <1> QED
    BY <1>4, <1>5

\* ... and the names in Unicode.
LEMMA UnicodeRead ==
    ASSUME NEW block \in Blocks, NEW e \in CentralEntries, NEW method,
           SoundExtra(block.fields, method, e), NEW id \in {"unicode_path", "unicode_comment"}
    PROVE  parse_unicode_extra(block, id) = e.extra[id]
  <1> DEFINE fields == block.fields
             with == {fields[i] : i \in {j \in 1..Len(fields) : fields[j].id = id}}
             set == FieldsOf(block, id)
  <1>1. /\ \A f \in with : f.text = e.extra[id]
        /\ with = {} => e.extra[id] = None
    BY DEF SoundExtra
  <1>2. CASE set = {}
    <2>1. with = {}
      BY <1>2 DEF FieldsOf
    <2> QED
      BY <1>1, <1>2, <2>1 DEF parse_unicode_extra
  <1>3. CASE set # {}
    <2>1. Len(fields) \in Nat
      BY DEF Blocks
    <2>2. set \subseteq 1..Len(fields)
      BY DEF FieldsOf
    <2>3. LastOf(set) \in set
      <3> HIDE DEF set
      <3> QED
        BY <1>3, <2>1, <2>2, LastIs
    <2>4. fields[LastOf(set)] \in with
      BY <2>3 DEF FieldsOf
    <2>5. parse_unicode_extra(block, id) = fields[LastOf(set)].text
      BY <1>3 DEF parse_unicode_extra
    <2> HIDE DEF with
    <2> QED
      BY <1>1, <2>4, <2>5
  <1> QED
    BY <1>2, <1>3

\* The flagged times follow one another in the order of the clocks, and those
\* that a writer left out are missing at the end.
LEMMA UnixTimeRead ==
    ASSUME NEW f \in Fields, NEW unix \in [Clocks -> Int \union {None}], NEW c \in f.flags,
           f.words = (IF "mtime" \in f.flags /\ unix["mtime"] # None THEN <<unix["mtime"]>> ELSE <<>>)
                     \o (IF "atime" \in f.flags /\ unix["atime"] # None THEN <<unix["atime"]>> ELSE <<>>)
                     \o (IF "ctime" \in f.flags /\ unix["ctime"] # None THEN <<unix["ctime"]>> ELSE <<>>),
           \A x \in Clocks : unix[x] # None => \A d \in f.flags : Order[d] < Order[x] => unix[d] # None
    PROVE  take_i32le(f, c) = unix[c]
  <1> DEFINE low == {d \in f.flags : Order[d] <= Order[c]}
             T == Int \union {None}
             fm == "mtime" \in f.flags
             fa == "atime" \in f.flags
             fc == "ctime" \in f.flags
             gm == unix["mtime"] # None
             ga == unix["atime"] # None
             gc == unix["ctime"] # None
             x == unix["mtime"]
             y == unix["atime"]
             z == unix["ctime"]
             p == fm /\ gm
             q == fa /\ ga
             r == fc /\ gc
             s == f.words
             n == Cardinality(low)
  <1>1. f.flags \subseteq Clocks
    BY DEF Fields
  <1>2. take_i32le(f, c) = IF n <= Len(s) THEN s[n] ELSE None
    BY DEF take_i32le
  <1>3. x \in T /\ y \in T /\ z \in T /\ p \in BOOLEAN /\ q \in BOOLEAN /\ r \in BOOLEAN
    BY DEF Clocks
  <1>4. s = (IF p THEN <<x>> ELSE <<>>) \o (IF q THEN <<y>> ELSE <<>>) \o (IF r THEN <<z>> ELSE <<>>)
    OBVIOUS
  <1>5. /\ Len(s) = (IF p THEN 1 ELSE 0) + (IF q THEN 1 ELSE 0) + (IF r THEN 1 ELSE 0)
        /\ p => s[1] = x
        /\ q => s[(IF p THEN 1 ELSE 0) + 1] = y
        /\ r => s[(IF p THEN 1 ELSE 0) + (IF q THEN 1 ELSE 0) + 1] = z
    <2> HIDE DEF s, p, q, r, x, y, z, T
    <2> QED
      BY <1>3, <1>4, JoinedAre
  <1>6. Order["mtime"] = 1 /\ Order["atime"] = 2 /\ Order["ctime"] = 3
    BY DEF Order, Clocks
  <1>7. n = (IF "mtime" \in low THEN 1 ELSE 0) + (IF "atime" \in low THEN 1 ELSE 0)
            + (IF "ctime" \in low THEN 1 ELSE 0)
    <2>1. low \subseteq {"mtime", "atime", "ctime"}
      BY <1>1 DEF Clocks
    <2> DEFINE i == "mtime"
               j == "atime"
               k == "ctime"
    <2>2. i # j /\ i # k /\ j # k /\ low \subseteq {i, j, k}
      BY <2>1
    <2> HIDE DEF low, i, j, k
    <2>3. Cardinality(low) = (IF i \in low THEN 1 ELSE 0) + (IF j \in low THEN 1 ELSE 0)
                             + (IF k \in low THEN 1 ELSE 0)
      BY <2>2, CountOfThree
    <2> QED
      BY <2>3 DEF i, j, k
  <1>8. /\ "mtime" \in low <=> fm /\ 1 <= Order[c]
        /\ "atime" \in low <=> fa /\ 2 <= Order[c]
        /\ "ctime" \in low <=> fc /\ 3 <= Order[c]
    BY <1>6
  <1>9. /\ (ga \/ gc) /\ fm => gm
        /\ gc /\ fa => ga
    BY <1>6 DEF Clocks
  <1>10. fm \in BOOLEAN /\ fa \in BOOLEAN /\ fc \in BOOLEAN /\ gm \in BOOLEAN /\ ga \in BOOLEAN
         /\ gc \in BOOLEAN
    OBVIOUS
  <1>11. (gm <=> x # None) /\ (ga <=> y # None) /\ (gc <=> z # None)
    OBVIOUS
  <1>12. /\ c = "mtime" => fm
         /\ c = "atime" => fa
         /\ c = "ctime" => fc
    OBVIOUS
  <1>13. c \in {"mtime", "atime", "ctime"}
    BY <1>1 DEF Clocks
  <1>14. CASE c = "mtime"
    <2>1. fm /\ n = 1
      BY <1>6, <1>7, <1>8, <1>12, <1>14
    <2> HIDE DEF low, fm, fa, fc, gm, ga, gc, x, y, z, n, s
    <2>2. (IF n <= Len(s) THEN s[n] ELSE None) = x
      BY <1>5, <1>9, <1>10, <1>11, <2>1
    <2> QED
      BY <1>2, <1>14, <2>2 DEF x
  <1>15. CASE c = "atime"
    <2>1. fa /\ n = (IF fm THEN 1 ELSE 0) + 1
      BY <1>6, <1>7, <1>8, <1>12, <1>15
    <2> HIDE DEF low, fm, fa, fc, gm, ga, gc, x, y, z, n, s
    <2>2. (IF n <= Len(s) THEN s[n] ELSE None) = y
      BY <1>5, <1>9, <1>10, <1>11, <2>1
    <2> QED
      BY <1>2, <1>15, <2>2 DEF y
  <1>16. CASE c = "ctime"
    <2>1. fc /\ n = (IF fm THEN 1 ELSE 0) + (IF fa THEN 1 ELSE 0) + 1
      BY <1>6, <1>7, <1>8, <1>12, <1>16
    <2> HIDE DEF low, fm, fa, fc, gm, ga, gc, x, y, z, n, s
    <2>2. (IF n <= Len(s) THEN s[n] ELSE None) = z
      BY <1>5, <1>9, <1>10, <1>11, <2>1
    <2> QED
      BY <1>2, <1>16, <2>2 DEF z
  <1> QED
    BY <1>13, <1>14, <1>15, <1>16

\* The Unix times of a sound header are its member's.
LEMMA UnixRead ==
    ASSUME NEW block \in Blocks, NEW e \in CentralEntries, NEW method,
           SoundExtra(block.fields, method, e)
    PROVE  parse_unix_times(block) = e.extra.unix
  <1> DEFINE fields == block.fields
             unix == e.extra.unix
             with == {fields[i] : i \in {j \in 1..Len(fields) : fields[j].id = "unix"}}
             given(f, k) == IF k \in f.flags /\ unix[k] # None THEN <<unix[k]>> ELSE <<>>
  <1>1. /\ \A f \in with :
              /\ f.words = given(f, "mtime") \o given(f, "atime") \o given(f, "ctime")
              /\ \A k \in Clocks : unix[k] # None =>
                    \A d \in f.flags : Order[d] < Order[k] => unix[d] # None
        /\ \A k \in Clocks : unix[k] # None => \E f \in with : k \in f.flags
    BY DEF SoundExtra
  <1>2. unix \in [Clocks -> Int \union {None}]
    BY DEF CentralEntries, ExtraRecords
  <1>3. ASSUME NEW c \in Clocks PROVE parse_unix_times(block)[c] = unix[c]
    <2> DEFINE set == {i \in FieldsOf(block, "unix") : c \in block.fields[i].flags}
    <2>1. parse_unix_times(block)[c] = IF set = {} THEN None ELSE take_i32le(fields[LastOf(set)], c)
      BY DEF parse_unix_times
    <2>2. CASE set = {}
      <3>1. \A f \in with : c \notin f.flags
        BY <2>2 DEF FieldsOf
      <3>2. unix[c] = None
        <4> HIDE DEF with, unix
        <4> QED
          BY <1>1, <3>1
      <3> QED
        BY <2>1, <2>2, <3>2
    <2>3. CASE set # {}
      <3>1. Len(fields) \in Nat /\ fields \in Seq(Fields)
        BY DEF Blocks
      <3>2. set \subseteq 1..Len(fields)
        BY DEF FieldsOf
      <3>3. LastOf(set) \in set
        <4> HIDE DEF set
        <4> QED
          BY <2>3, <3>1, <3>2, LastIs
      <3> DEFINE f == fields[LastOf(set)]
      <3>4. f \in with /\ c \in f.flags /\ LastOf(set) \in 1..Len(fields)
        BY <3>3 DEF FieldsOf
      <3> HIDE DEF set, with
      <3>5. f \in Fields
        BY <3>1, <3>4, ElementIs, Zenon
      <3> HIDE DEF f, unix
      <3>6. /\ f.words = given(f, "mtime") \o given(f, "atime") \o given(f, "ctime")
            /\ \A k \in Clocks : unix[k] # None =>
                    \A d \in f.flags : Order[d] < Order[k] => unix[d] # None
        BY <1>1, <3>4
      <3>7. take_i32le(f, c) = unix[c]
        BY <1>2, <3>4, <3>5, <3>6, UnixTimeRead
      <3> QED
        BY <2>1, <2>3, <3>7 DEF f
    <2> QED
      BY <2>2, <2>3
  <1>4. parse_unix_times(block) = [c \in Clocks |-> parse_unix_times(block)[c]]
    BY DEF parse_unix_times
  <1>5. unix = [c \in Clocks |-> unix[c]]
    BY <1>2
  <1> HIDE DEF unix
  <1>6. parse_unix_times(block) = unix
    BY <1>3, <1>4, <1>5
  <1> QED
    BY <1>6 DEF unix

\* All of parse_extra_fields.
LEMMA ExtraRead ==
    ASSUME NEW block \in Blocks, NEW e \in CentralEntries, NEW method,
           SoundExtra(block.fields, method, e)
    PROVE  parse_extra_fields(block) = e.extra
  <1> DEFINE x == e.extra
  <1>1. parse_ntfs_times(block) = x.ntfs /\ parse_unix_times(block) = x.unix
    BY NtfsRead, UnixRead
  <1>2. /\ parse_unicode_extra(block, "unicode_path") = x["unicode_path"]
        /\ parse_unicode_extra(block, "unicode_comment") = x["unicode_comment"]
    BY UnicodeRead
  <1>3. x \in ExtraRecords
    BY DEF CentralEntries
  <1> HIDE DEF x
  <1>4. parse_extra_fields(block) = x
    BY <1>1, <1>2, <1>3 DEF parse_extra_fields, ExtraRecords
  <1> QED
    BY <1>4 DEF x

(***************************************************************************)
(* Sound archives: what the parser and its clients make of them.           *)
(***************************************************************************)
Wrote == archive.wrote
Count == Len(Wrote.entries)

\* A member as its header has it, before the prefix is added.
Unshifted(e) == [e EXCEPT !.lfh_offset = @ - Wrote.prefix]

Refusals == {"SpannedArchive", "EncryptedNoPassword", "Unsupported"}

\* The parser finds the end record, the directory and the prefix ...
PlacesFound ==
    /\ pc # "scanning" => eocd_pos = Wrote.eocd
    /\ pc \notin {"scanning", "resolving"} => dir = Wrote.dir
    /\ pc \notin {"scanning", "resolving", "locating"} => prefix = Wrote.prefix

\* ... its cursor is at a header, and what it has parsed is what was written ...
MembersParsed ==
    /\ pc \in Opening => out = <<>> /\ summary = None
    /\ pc = "parsing" =>
          /\ Len(entries) <= Count
          /\ cursor = Wrote.headers[Len(entries) + 1] - Wrote.headers[1]
          /\ \A i \in 1..Len(entries) : entries[i] = Unshifted(Wrote.entries[i])
    /\ pc \notin Opening => entries = Wrote.entries /\ summary = WrittenSummary
    /\ pc = "parsed" => out = <<>>

\* ... and so is what a client has produced of it; only list stops early.
ClientsServed ==
    /\ pc \in {"viewing", "viewed"} => \A i \in 1..Len(out) : out[i] = WrittenLayouts[i]
    /\ pc \in {"listing", "listed", "error"} =>
          \A i \in 1..Len(out) : out[i] = WrittenLines[i] /\ Opens(archive, i)
    /\ pc \in {"viewed", "listed"} => Len(out) = Count
    /\ pc = "error" => error \in Refusals /\ Len(out) < Count /\ ~Opens(archive, Len(out) + 1)

SoundInv == archive.wrote # None => PlacesFound /\ MembersParsed /\ ClientsServed

\* What is known of a sound archive.
LEMMA WroteIs ==
    ASSUME archive \in Archives, archive.wrote # None
    PROVE  /\ Wrote.entries \in Seq(CentralEntries) /\ Count \in Nat
           /\ Wrote.prefix \in Nat /\ Wrote.eocd \in Nat
           /\ Wrote.dir \in Dirs /\ Wrote.dir.cd_offset \in Nat /\ Wrote.dir.cd_size \in Nat
           /\ \A i \in 1..(Count + 1) : Wrote.headers[i] \in Nat
           /\ SoundEnd(archive) /\ SoundDirectory(archive) /\ SoundSignature(archive)
           /\ \A i \in 1..Count : SoundMember(archive, i)
           /\ Wrote.listable \in 0..Count
           /\ \A i \in 1..Wrote.listable : Opens(archive, i)
           /\ Wrote.listable < Count => ~Opens(archive, Wrote.listable + 1)
  <1>1. Sound(archive)
    BY DirectoryAssumption
  <1>2. /\ Wrote.entries \in Seq(CentralEntries)
        /\ Wrote.prefix \in Nat /\ Wrote.eocd \in Nat /\ Wrote.dir \in Dirs
        /\ Wrote.headers \in Seq(Nat) /\ Len(Wrote.headers) = Count + 1
        /\ SoundEnd(archive) /\ SoundDirectory(archive) /\ SoundSignature(archive)
        /\ \A i \in 1..Count : SoundMember(archive, i)
        /\ Wrote.listable \in 0..Count
        /\ \A i \in 1..Wrote.listable : Opens(archive, i)
        /\ Wrote.listable < Count => ~Opens(archive, Wrote.listable + 1)
    BY <1>1 DEF Sound, Wrote, Count
  <1>3. Count \in Nat
    BY <1>2 DEF Count
  <1>4. Wrote.dir.cd_offset \in Nat /\ Wrote.dir.cd_size \in Nat
    <2>1. Wrote.dir.cd_offset \in 0..Max64 /\ Wrote.dir.cd_size \in 0..Max64
      BY <1>2 DEF Dirs
    <2> QED
      BY <2>1, DirectoryAssumption
  <1>5. \A i \in 1..(Count + 1) : Wrote.headers[i] \in Nat
    <2>1. Wrote.headers \in Seq(Nat) /\ Len(Wrote.headers) = Count + 1
      BY <1>2
    <2> QED
      BY <2>1
  <1> QED
    BY <1>2, <1>3, <1>4, <1>5

\* A record of the file by its signature.
LEMMA SignatureAt ==
    ASSUME NEW p, NEW sig, sig # "none"
    PROVE  /\ RecordAt(archive, p, sig) <=> SigAt(p) = sig
           /\ RecordAt(archive, p, sig) => p \in DOMAIN archive.recs
  BY DEF RecordAt, SigAt

\* The search from the end of a sound archive stops at its end record: nothing
\* behind it passes for one, and the comment does not push it out of reach.
LEMMA EocdIsFound ==
    ASSUME archive \in Archives, archive.wrote # None
    PROVE  EocdsInTail # {} /\ find_eocd = Wrote.eocd
  <1> DEFINE w == Wrote.eocd
             c == archive.recs[w].comment_len
  <1>1. file_len \in Nat /\ w \in Nat /\ SoundEnd(archive)
    BY ArchiveFacts, WroteIs
  <1>2. /\ w \in DOMAIN archive.recs /\ SigAt(w) = "EOCD"
        /\ c \in Nat /\ w + 22 + c <= file_len /\ file_len <= w + (22 + 65535)
        /\ \A p \in DOMAIN archive.recs : p > w /\ p + 22 <= file_len => SigAt(p) # "EOCD"
    BY <1>1 DEF SoundEnd, RecordAt, SigAt, EOCD_MIN, EOCD_SCAN_MAX, file_len, Wrote
  <1> HIDE DEF w, c
  <1>3. w >= scan_start
    BY <1>1, <1>2 DEF scan_start, EOCD_SCAN_MAX, EOCD_MIN
  <1>4. w \in EocdsInTail
    BY <1>1, <1>2, <1>3 DEF EocdsInTail, EOCD_MIN
  <1>5. EocdsInTail \subseteq Nat
    BY ArchiveFacts DEF EocdsInTail
  <1>6. \A q \in EocdsInTail : q <= w
    BY <1>1, <1>2, <1>5 DEF EocdsInTail, EOCD_MIN
  <1>7. find_eocd \in EocdsInTail /\ \A q \in EocdsInTail : q <= find_eocd
    BY <1>4, <1>6 DEF find_eocd
  <1> QED
    BY <1>1, <1>4, <1>5, <1>6, <1>7 DEF w

\* From there the directory is read as it was written, from the end record or,
\* over the locator, from the Zip64 record.
LEMMA DirIsRead ==
    ASSUME archive \in Archives, archive.wrote # None, eocd_pos = Wrote.eocd
    PROVE  /\ is_zip64 <=> InZip64(archive.recs[Wrote.eocd])
           /\ ~is_zip64 => DirOf(eocd) = Wrote.dir
           /\ is_zip64 => /\ zip64_eocd_error = "none"
                          /\ DirOf(archive.recs[z64_eocd_offset]) = Wrote.dir
  <1>1. eocd = archive.recs[Wrote.eocd]
    BY DEF eocd
  <1>2. is_zip64 <=> InZip64(archive.recs[Wrote.eocd])
    BY <1>1 DEF is_zip64, InZip64
  <1>3. SoundDirectory(archive) /\ file_len \in Nat /\ Wrote.eocd \in Nat
    BY WroteIs, ArchiveFacts
  <1>4. ~is_zip64 => DirOf(eocd) = Wrote.dir
    BY <1>1, <1>2, <1>3 DEF SoundDirectory, Wrote
  <1>5. ASSUME is_zip64
        PROVE  zip64_eocd_error = "none" /\ DirOf(archive.recs[z64_eocd_offset]) = Wrote.dir
    <2> DEFINE loc == Wrote.eocd - 20
               z == archive.recs[loc].z64_eocd_offset
    <2>1. SoundZip64(archive)
      BY <1>2, <1>3, <1>5 DEF SoundDirectory, Wrote
    <2>2. /\ RecordAt(archive, loc, "ZIP64_LOCATOR") /\ file_len <= loc + (22 + 65535)
          /\ RecordAt(archive, z, "ZIP64_EOCD") /\ z + ZIP64_EOCD_LEN <= file_len
          /\ DirOf(archive.recs[z]) = Wrote.dir
      BY <2>1 DEF SoundZip64, Wrote, file_len, ZIP64_LOCATOR_LEN, EOCD_SCAN_MAX, EOCD_MIN
    <2>3. z64_eocd_offset = z
      BY DEF z64_eocd_offset, ZIP64_LOCATOR_LEN
    <2>4. SigAt(loc) = "ZIP64_LOCATOR" /\ SigAt(z) = "ZIP64_EOCD" /\ z \in Nat /\ loc \in Nat
      BY <2>2, SignatureAt, ArchiveFacts
    <2>5. HasLocator
      BY <1>3, <2>2, <2>4 DEF HasLocator, scan_start, ZIP64_LOCATOR_LEN, EOCD_SCAN_MAX, EOCD_MIN
    <2> HIDE DEF z
    <2>6. zip64_eocd_error = "none"
      BY <1>3, <2>2, <2>3, <2>4, <2>5 DEF zip64_eocd_error, ZIP64_EOCD_LEN
    <2> QED
      BY <2>2, <2>3, <2>6
  <1> QED
    BY <1>2, <1>4, <1>5

\* The prefix is found where there is one, and none where there is not: a gap
\* in front of the end record that a signature leaves does not pass for one.
LEMMA PrefixIsFound ==
    ASSUME archive \in Archives, archive.wrote # None, eocd_pos = Wrote.eocd, dir = Wrote.dir
    PROVE  /\ DetectPrefix = Wrote.prefix
           /\ EndInFile(dir.cd_offset + DetectPrefix)
           /\ dir.total_entries = Count /\ dir.total_entries <= MAX_ENTRIES
  <1> DEFINE o == dir.cd_offset
             size == dir.cd_size
             q == Wrote.prefix
             first == Wrote.headers[1]
  <1>1. /\ file_len \in Nat /\ file_len <= Max64 /\ Max64 \in Nat
        /\ eocd_pos \in Nat /\ o \in Nat /\ size \in Nat /\ q \in Nat /\ Count \in Nat
        /\ first \in Nat /\ SoundDirectory(archive) /\ SoundEnd(archive)
    BY ArchiveFacts, WroteIs, DirectoryAssumption DEF file_len
  <1>2. is_zip64 <=> InZip64(archive.recs[Wrote.eocd])
    BY DirIsRead
  <1>3. /\ dir.total_entries = Count /\ Count <= MAX_ENTRIES
        /\ first = o + q /\ first + size <= eocd_pos
        /\ \A p \in DOMAIN archive.recs : archive.recs[p].sig = "CD_HEADER" /\ p >= first =>
              \E i \in 1..Count : p = Wrote.headers[i]
        /\ q > 0 => Count > 0 /\ ~is_zip64 /\ first + size = eocd_pos
                    /\ ~RecordAt(archive, o, "CD_HEADER")
    BY <1>1, <1>2 DEF SoundDirectory, Wrote, Count
  <1>4. Count > 0 => SigAt(first) = "CD_HEADER"
    <2> SUFFICES ASSUME Count > 0 PROVE SigAt(first) = "CD_HEADER"
      OBVIOUS
    <2>1. SoundMember(archive, 1)
      BY <1>1, WroteIs
    <2> QED
      BY <2>1, SignatureAt DEF SoundMember, Wrote
  <1>5. eocd_pos + 22 <= file_len
    <2> DEFINE c == archive.recs[eocd_pos].comment_len
    <2>1. c \in Nat /\ eocd_pos + 22 + c <= file_len
      BY <1>1 DEF SoundEnd, Wrote, EOCD_MIN, file_len
    <2> HIDE DEF c
    <2> QED
      BY <1>1, <2>1
  <1> HIDE DEF o, size, q, first
  <1>6. HasGap <=> ~is_zip64 /\ o + size < eocd_pos
    BY DEF HasGap, RecordedEnd, o, size
  <1>7. Gap = eocd_pos - (o + size)
    BY DEF Gap, RecordedEnd, o, size
  <1>8. DetectPrefix = IF HasGap /\ ~cd_header_at(o) /\ cd_header_at(o + Gap) THEN Gap ELSE 0
    BY DEF DetectPrefix, o
  <1>9. CASE q > 0
    <2>1. Gap = q /\ HasGap /\ SigAt(o) # "CD_HEADER" /\ o + Gap = first
      BY <1>1, <1>3, <1>6, <1>7, <1>9, SignatureAt
    <2>2. cd_header_at(o + Gap) /\ ~cd_header_at(o)
      BY <1>1, <1>3, <1>4, <1>5, <1>9, <2>1 DEF cd_header_at
    <2> QED
      BY <1>1, <1>3, <1>5, <1>8, <2>1, <2>2 DEF EndInFile, o, size, q
  <1>10. CASE q = 0
    <2>1. first = o
      BY <1>1, <1>3, <1>10
    <2>2. CASE Count > 0
      <3>1. HasGap => cd_header_at(o)
        BY <1>1, <1>4, <1>5, <1>6, <2>1, <2>2 DEF cd_header_at
      <3>2. DetectPrefix = 0
        BY <1>8, <3>1
      <3> QED
        BY <1>1, <1>3, <1>5, <1>10, <2>1, <3>2 DEF EndInFile, o, size, q
    <2>3. CASE Count = 0
      <3>1. HasGap => SigAt(o + Gap) # "CD_HEADER"
        <4> SUFFICES ASSUME HasGap, SigAt(o + Gap) = "CD_HEADER" PROVE FALSE
          OBVIOUS
        <4>1. o + Gap \in Nat /\ o + Gap >= first
          BY <1>1, <1>3, <1>6, <1>7, <2>1
        <4>2. o + Gap \in DOMAIN archive.recs /\ archive.recs[o + Gap].sig = "CD_HEADER"
          BY DEF SigAt
        <4> QED
          BY <1>3, <2>3, <4>1, <4>2
      <3>2. DetectPrefix = 0
        BY <1>8, <3>1 DEF cd_header_at
      <3> QED
        BY <1>1, <1>3, <1>5, <1>10, <2>1, <3>2 DEF EndInFile, o, size, q
    <2> QED
      BY <1>1, <2>2, <2>3
  <1> QED
    BY <1>1, <1>9, <1>10

\* The headers lie one behind the other, so none behind the end of the last.
LEMMA HeadersBelowEnd ==
    ASSUME archive \in Archives, archive.wrote # None
    PROVE  \A i \in 1..(Count + 1) : Wrote.headers[i] <= Wrote.headers[Count + 1]
  <1> DEFINE H == Wrote.headers
             T == {i \in 1..(Count + 1) : H[i] > H[Count + 1]}
  <1>1. Count \in Nat /\ \A i \in 1..(Count + 1) : H[i] \in Nat
    BY WroteIs
  <1>2. \A i \in 1..Count : H[i] <= H[i + 1]
    <2> SUFFICES ASSUME NEW i \in 1..Count PROVE H[i] <= H[i + 1]
      OBVIOUS
    <2> DEFINE v == archive.recs[H[i]].var_len
    <2>1. SoundMember(archive, i)
      BY WroteIs
    <2>2. RecordAt(archive, H[i], "CD_HEADER") /\ H[i + 1] = H[i] + 46 + v
      BY <2>1 DEF SoundMember, Wrote, CD_HEADER_FIXED
    <2>3. v \in Nat
      BY <2>2, SignatureAt, ArchiveFacts
    <2>4. H[i] \in Nat
      BY <1>1
    <2> HIDE DEF v, H
    <2> QED
      BY <2>2, <2>3, <2>4
  <1> HIDE DEF H
  <1>3. SUFFICES ASSUME T # {} PROVE FALSE
    <2>1. ASSUME NEW i \in 1..(Count + 1), ~(H[i] <= H[Count + 1]) PROVE i \in T
      <3>1. H[i] \in Nat /\ H[Count + 1] \in Nat
        BY <1>1
      <3> QED
        BY <2>1, <3>1
    <2> QED
      BY <2>1 DEF H
  <1>4. PICK i \in T : \A j \in T : j <= i
    <2>1. T \subseteq Nat /\ (Count + 1) \in Nat /\ \A j \in T : j <= Count + 1
      BY <1>1
    <2> HIDE DEF T
    <2> QED
      BY <1>3, <2>1, GreatestOf
  <1>5. i \in 1..Count /\ H[i] > H[Count + 1]
    BY <1>1
  <1>6. i + 1 \in T
    <2>1. i + 1 \in 1..(Count + 1) /\ Count + 1 \in 1..(Count + 1)
      BY <1>1, <1>5
    <2>2. H[i] \in Nat /\ H[i + 1] \in Nat /\ H[Count + 1] \in Nat
      BY <1>1, <1>5, <2>1
    <2>3. H[i] <= H[i + 1]
      BY <1>2, <1>5
    <2>4. H[i + 1] > H[Count + 1]
      BY <1>5, <2>2, <2>3
    <2> QED
      BY <2>1, <2>4
  <1> QED
    BY <1>4, <1>5, <1>6

\* The next header of a sound archive is parsed without an error, into its
\* member, and the cursor is then at the one behind it.
LEMMA HeaderIsRead ==
    ASSUME archive \in Archives, archive.wrote # None, dir = Wrote.dir, prefix = Wrote.prefix,
           NEW i \in 1..Count, cursor = Wrote.headers[i] - Wrote.headers[1]
    PROVE  /\ header_error = "none"
           /\ Entry = Unshifted(Wrote.entries[i])
           /\ cursor + CD_HEADER_FIXED + header.var_len = Wrote.headers[i + 1] - Wrote.headers[1]
  <1> DEFINE H == Wrote.headers
             size == Wrote.dir.cd_size
             e == Wrote.entries[i]
             q == Wrote.prefix
             v == header.var_len
  <1>1. /\ Count \in Nat /\ size \in Nat /\ q \in Nat /\ Wrote.dir.cd_offset \in Nat
        /\ SoundDirectory(archive) /\ SoundMember(archive, i)
        /\ \A k \in 1..(Count + 1) : H[k] \in Nat
    BY WroteIs
  <1>2. e \in CentralEntries
    <2>1. Wrote.entries \in Seq(CentralEntries) /\ i \in 1..Len(Wrote.entries)
      BY WroteIs DEF Count
    <2> QED
      BY <2>1, ElementIs, Zenon
  <1>3. H[i] \in Nat /\ H[i + 1] \in Nat /\ H[1] \in Nat
    BY <1>1
  <1>4. H[1] = Wrote.dir.cd_offset + q /\ H[Count + 1] <= H[1] + size
    BY <1>1 DEF SoundDirectory, Wrote, Count
  <1>5. H[i + 1] <= H[1] + size
    <2>1. H[i + 1] <= H[Count + 1] /\ H[Count + 1] \in Nat
      BY <1>1, HeadersBelowEnd
    <2> HIDE DEF H, size
    <2> QED
      BY <1>1, <1>3, <1>4, <2>1
  <1>6. HeaderPos = H[i]
    <2>1. HeaderPos = (Wrote.dir.cd_offset + q) + (H[i] - H[1])
      BY DEF HeaderPos, actual_cd_offset
    <2> HIDE DEF H, q
    <2> QED
      BY <1>3, <1>4, <2>1
  <1>7. header = archive.recs[H[i]]
    BY <1>6 DEF header
  <1>8. SigAt(HeaderPos) = "CD_HEADER" /\ H[i] \in DOMAIN archive.recs
    BY <1>1, <1>6, SignatureAt DEF SoundMember, Wrote
  <1>9. IsHeader(header) /\ v \in Nat
    BY <1>6, <1>7, <1>8, ArchiveFacts
  <1>10. H[i + 1] = H[i] + 46 + v /\ SoundHeader(header, e, q)
    BY <1>1, <1>7 DEF SoundMember, Wrote, CD_HEADER_FIXED
  <1>11. Takes(CD_HEADER_FIXED) /\ Takes(CD_HEADER_FIXED + v)
    <2>1. remaining = size - (H[i] - H[1])
      BY DEF remaining
    <2> HIDE DEF H, size, v
    <2> QED
      BY <1>1, <1>3, <1>5, <1>9, <1>10, <2>1 DEF Takes, CD_HEADER_FIXED
  <1>12. cursor + CD_HEADER_FIXED + v = H[i + 1] - H[1]
    <2>1. cursor = H[i] - H[1]
      OBVIOUS
    <2> HIDE DEF H, v
    <2> QED
      BY <1>3, <1>9, <1>10, <2>1 DEF CD_HEADER_FIXED
  <1> DEFINE real == <<e.uncompressed_size, e.compressed_size, e.lfh_offset - q>>
  <1>13. /\ Sentinels => /\ zip64_error(header.extra, Need) = "none"
                         /\ \A k \in 1..3 : apply_zip64_extra(header.extra, Need, Base)[k] = real[k]
         /\ ~Sentinels => \A k \in 1..3 : Base[k] = real[k]
    <2>1. /\ Base = <<header.uncompressed_size, header.compressed_size, header.lfh_offset>>
          /\ Need = [k \in 1..3 |-> Base[k] = U32_SENTINEL]
          /\ Sentinels <=> \E k \in 1..3 : Need[k]
      BY DEF Base, Need, Sentinels
    <2>2. /\ (\E k \in 1..3 : Need[k]) =>
                /\ zip64_error(header.extra, Need) = "none"
                /\ \A k \in 1..3 : apply_zip64_extra(header.extra, Need, Base)[k] = real[k]
          /\ ~(\E k \in 1..3 : Need[k]) => \A k \in 1..3 : Base[k] = real[k]
      <3> DEFINE r == real
      <3>1. r = <<e.uncompressed_size, e.compressed_size, e.lfh_offset - q>>
        OBVIOUS
      <3> HIDE DEF r, e, q
      <3>2. /\ (\E k \in 1..3 : Need[k]) =>
                  /\ zip64_error(header.extra, Need) = "none"
                  /\ \A k \in 1..3 : apply_zip64_extra(header.extra, Need, Base)[k] = r[k]
            /\ ~(\E k \in 1..3 : Need[k]) => \A k \in 1..3 : Base[k] = r[k]
        BY <1>1, <1>2, <1>9, <1>10, <2>1, <3>1, NumbersRead
      <3> QED
        BY <3>2 DEF r
    <2> QED
      BY <2>1, <2>2
  <1>14. header_error = "none"
    BY <1>8, <1>11, <1>13 DEF header_error
  <1> DEFINE val == IF Sentinels THEN apply_zip64_extra(header.extra, Need, Base) ELSE Base
             aes == IF header.method = 99 THEN parse_aes_extra(header.extra) ELSE None
             extra == parse_extra_fields(header.extra)
  <1>15. val[1] = e.uncompressed_size /\ val[2] = e.compressed_size /\ val[3] = e.lfh_offset - q
    <2>1. \A k \in 1..3 : val[k] = real[k]
      BY <1>13
    <2>2. val[1] = real[1] /\ val[2] = real[2] /\ val[3] = real[3]
      <3> HIDE DEF val, real
      <3> QED
        BY <2>1
    <2> HIDE DEF val, e, q
    <2> QED
      BY <2>2
  <1>16. aes = e.aes /\ extra = e.extra
    <2>1. header.extra \in Blocks
      BY <1>9 DEF IsHeader
    <2>2. SoundExtra(header.extra.fields, header.method, e)
      BY <1>10 DEF SoundHeader
    <2> DEFINE block == header.extra
               method == header.method
    <2>3. block \in Blocks /\ SoundExtra(block.fields, method, e)
      BY <2>1, <2>2
    <2> HIDE DEF e, block, method
    <2>4. (IF method = 99 THEN parse_aes_extra(block) ELSE None) = e.aes
      BY <1>2, <2>3, AesRead
    <2>5. parse_extra_fields(block) = e.extra
      BY <1>2, <2>3, ExtraRead
    <2> QED
      BY <2>4, <2>5 DEF block, method
  <1>17. /\ header.name = e.name /\ header.encrypted = e.encrypted
         /\ header.decodes = e.decodes /\ header.disk_start = e.disk_start
    BY <1>10 DEF SoundHeader
  <1>18. Entry = [ name |-> header.name, encrypted |-> header.encrypted, decodes |-> header.decodes,
                   disk_start |-> header.disk_start, uncompressed_size |-> val[1],
                   compressed_size |-> val[2], lfh_offset |-> val[3], aes |-> aes, extra |-> extra ]
    BY DEF Entry
  <1> DEFINE o == e.lfh_offset - q
  <1> HIDE DEF val, aes, extra
  <1>19. Entry = [ name |-> e.name, encrypted |-> e.encrypted, decodes |-> e.decodes,
                   disk_start |-> e.disk_start, uncompressed_size |-> e.uncompressed_size,
                   compressed_size |-> e.compressed_size, lfh_offset |-> o, aes |-> e.aes,
                   extra |-> e.extra ]
    BY <1>15, <1>16, <1>17, <1>18
  <1>20. Unshifted(e) = [e EXCEPT !.lfh_offset = o]
    BY <1>2 DEF Unshifted, CentralEntries
  <1> HIDE DEF e, o
  <1>21. [e EXCEPT !.lfh_offset = o]
          = [ name |-> e.name, encrypted |-> e.encrypted, decodes |-> e.decodes,
              disk_start |-> e.disk_start, uncompressed_size |-> e.uncompressed_size,
              compressed_size |-> e.compressed_size, lfh_offset |-> o, aes |-> e.aes,
              extra |-> e.extra ]
    BY <1>2 DEF CentralEntries
  <1>22. Entry = Unshifted(e)
    BY <1>19, <1>20, <1>21
  <1> QED
    BY <1>12, <1>14, <1>22 DEF e

\* Adding the prefix gives the place in the file.
LEMMA ShiftedBack ==
    ASSUME archive \in Archives, archive.wrote # None, prefix = Wrote.prefix, NEW i \in 1..Count
    PROVE  Shifted(Unshifted(Wrote.entries[i])) = Wrote.entries[i]
  <1> DEFINE e == Wrote.entries[i]
             q == Wrote.prefix
  <1>1. e \in CentralEntries
    <2>1. Wrote.entries \in Seq(CentralEntries) /\ i \in 1..Len(Wrote.entries)
      BY WroteIs DEF Count
    <2> QED
      BY <2>1, ElementIs, Zenon
  <1>2. q \in Nat /\ q <= e.lfh_offset
    BY WroteIs DEF SoundMember, SoundHeader, Wrote
  <1> HIDE DEF e, q
  <1>3. e.lfh_offset \in 0..Max64 /\ Max64 \in Nat
    BY <1>1, DirectoryAssumption DEF CentralEntries
  <1> DEFINE u == [e EXCEPT !.lfh_offset = e.lfh_offset - q]
  <1>4. Unshifted(e) = u
    BY <1>1 DEF Unshifted, q, CentralEntries
  <1>5. u.lfh_offset = e.lfh_offset - q
    BY <1>1 DEF CentralEntries
  <1>6. Shifted(u) = [u EXCEPT !.lfh_offset = (u.lfh_offset + q) % (Max64 + 1)]
    BY <1>1 DEF Shifted, q, CentralEntries
  <1>7. (u.lfh_offset + q) % (Max64 + 1) = e.lfh_offset
    <2> DEFINE x == e.lfh_offset
    <2>1. u.lfh_offset + q = x /\ x \in 0..Max64
      BY <1>2, <1>3, <1>5
    <2> HIDE DEF x
    <2>2. x % (Max64 + 1) = x
      BY <1>3, <2>1
    <2> QED
      BY <2>1, <2>2 DEF x
  <1>8. [u EXCEPT !.lfh_offset = e.lfh_offset] = e
    BY <1>1 DEF CentralEntries
  <1> QED
    BY <1>4, <1>6, <1>7, <1>8 DEF e

\* The signature of the archive is found where it is, as a part of the
\* directory or behind it.
LEMMA SignatureIsRead ==
    ASSUME archive \in Archives, archive.wrote # None, dir = Wrote.dir, prefix = Wrote.prefix,
           cursor = Wrote.headers[Count + 1] - Wrote.headers[1]
    PROVE  /\ actual_cd_offset = Wrote.headers[1]
           /\ archive_signature_len = Wrote.sig_len
  <1> DEFINE first == Wrote.headers[1]
             p == Wrote.headers[Count + 1]
             size == Wrote.dir.cd_size
             len == Wrote.sig_len
             end == Wrote.eocd
  <1>1. /\ SoundDirectory(archive) /\ SoundSignature(archive) /\ SoundEnd(archive)
        /\ Count \in Nat /\ size \in Nat /\ end \in Nat /\ file_len \in Nat
        /\ Wrote.dir.cd_offset \in Nat /\ Wrote.prefix \in Nat
    BY WroteIs, ArchiveFacts
  <1>2. first \in Nat /\ p \in Nat
    BY <1>1, WroteIs
  <1>3. first = Wrote.dir.cd_offset + Wrote.prefix /\ p <= first + size /\ first + size <= end
    BY <1>1 DEF SoundDirectory, Wrote, Count
  <1>4. actual_cd_offset = first
    BY <1>3 DEF actual_cd_offset
  <1>5. end <= file_len
    <2> DEFINE c == archive.recs[end].comment_len
    <2>1. c \in Nat /\ end + 22 + c <= file_len
      BY <1>1 DEF SoundEnd, Wrote, EOCD_MIN, file_len
    <2> HIDE DEF c, end
    <2> QED
      BY <1>1, <2>1
  <1>6. IF len = None THEN SigAt(p) # "ARCHIVE_SIG"
        ELSE /\ SigAt(p) = "ARCHIVE_SIG" /\ archive.recs[p].sig_len = len /\ len \in Nat
             /\ p + 6 + len <= IF p = first + size THEN end ELSE first + size
    BY <1>1, SignatureAt DEF SoundSignature, Wrote, Count
  <1> HIDE DEF first, p, size, len, end
  <1>7. HeaderPos = p /\ remaining = size - (p - first)
    BY <1>2, <1>4 DEF HeaderPos, remaining, first, p, size
  <1>8. CASE len = None
    BY <1>4, <1>6, <1>7, <1>8 DEF archive_signature_len, first, len
  <1>9. CASE len # None
    <2>1. Takes(6) \/ (remaining = 0 /\ HeaderPos + 6 <= file_len)
      BY <1>1, <1>2, <1>3, <1>5, <1>6, <1>7, <1>9 DEF Takes
    <2> QED
      BY <1>4, <1>6, <1>7, <1>9, <2>1 DEF archive_signature_len, first, len
  <1> QED
    BY <1>8, <1>9

\* The local header of a member is found and leads to the member's data.
LEMMA LocalIsRead ==
    ASSUME archive \in Archives, archive.wrote # None, NEW i \in 1..Count
    PROVE  /\ lfh_error(Wrote.entries[i].lfh_offset) = "none"
           /\ data_start(Wrote.entries[i].lfh_offset) = Wrote.data[i]
           /\ archive.recs[Wrote.entries[i].lfh_offset].name = Wrote.entries[i].name
  <1> DEFINE p == Wrote.entries[i].lfh_offset
             n == archive.recs[p].name_len
             x == archive.recs[p].extra_len
             d == Wrote.data[i]
  <1>1. SoundMember(archive, i) /\ file_len \in Nat
    BY WroteIs, ArchiveFacts
  <1>2. /\ RecordAt(archive, p, "LFH") /\ archive.recs[p].name = Wrote.entries[i].name
        /\ n \in Nat /\ x \in Nat /\ d = p + LFH_FIXED + n + x /\ d <= file_len
    BY <1>1 DEF SoundMember, Wrote, file_len
  <1>3. SigAt(p) = "LFH" /\ p \in Nat
    BY <1>2, SignatureAt, ArchiveFacts
  <1>4. data_start(p) = d
    BY <1>2 DEF data_start
  <1>5. lfh_error(p) = "none"
    <2>1. lfh_error(p) = IF p + 30 > file_len THEN "Io"
                         ELSE IF SigAt(p) # "LFH" THEN "BadSignature"
                         ELSE IF p + 30 + n > file_len THEN "Io" ELSE "none"
      BY DEF lfh_error, LFH_FIXED
    <2>2. d = p + 30 + n + x
      BY <1>2 DEF LFH_FIXED
    <2> HIDE DEF p, n, x, d
    <2> QED
      BY <1>1, <1>2, <1>3, <2>1, <2>2
  <1> QED
    BY <1>2, <1>4, <1>5

\* by_index without a password opens exactly the members that can be, and says
\* of the others why.
LEMMA OpensOrRefuses ==
    ASSUME archive \in Archives, archive.wrote # None, dir = Wrote.dir, NEW i \in 1..Count
    PROVE  /\ by_index_error(Wrote.entries[i]) = "none" <=> Opens(archive, i)
           /\ by_index_error(Wrote.entries[i]) \in Refusals \union {"none"}
  <1>1. lfh_error(Wrote.entries[i].lfh_offset) = "none"
    BY LocalIsRead
  <1>2. Wrote.entries[i] \in CentralEntries
    <2>1. Wrote.entries \in Seq(CentralEntries) /\ i \in 1..Len(Wrote.entries)
      BY WroteIs DEF Count
    <2> QED
      BY <2>1, ElementIs, Zenon
  <1>3. Wrote.entries[i].encrypted \in BOOLEAN /\ Wrote.entries[i].decodes \in BOOLEAN
    BY <1>2 DEF CentralEntries
  <1> QED
    BY <1>1, <1>3 DEF by_index_error, Opens, Refusals, Wrote

\* FindEocd, ResolveEocd and LocateDirectory on a sound archive.
LEMMA PlacesStep ==
    ASSUME IInv, SoundInv, FindEocd \/ ResolveEocd \/ LocateDirectory
    PROVE  SoundInv'
  <1> SUFFICES ASSUME archive'.wrote # None PROVE (PlacesFound /\ MembersParsed /\ ClientsServed)'
    BY DEF SoundInv
  <1>1. archive' = archive /\ archive \in Archives /\ archive.wrote # None
        /\ Wrote' = Wrote /\ Count' = Count
    BY DEF IInv, FindEocd, ResolveEocd, LocateDirectory, Wrote, Count
  <1>2. PlacesFound /\ MembersParsed /\ ClientsServed
    BY <1>1 DEF SoundInv
  <1>3. pc \in Opening /\ out' = out /\ summary' = summary /\ entries' = entries /\ cursor' = cursor
    BY DEF FindEocd, ResolveEocd, LocateDirectory, Opening
  <1>4. out' = <<>> /\ summary' = None
    BY <1>2, <1>3 DEF MembersParsed
  <1>5. CASE FindEocd
    <2>1. EocdsInTail # {} /\ find_eocd = Wrote.eocd
      BY <1>1, EocdIsFound
    <2>2. eocd_pos' = Wrote.eocd /\ pc' = "resolving"
      BY <1>5, <2>1 DEF FindEocd
    <2> QED
      BY <1>1, <1>4, <2>2 DEF PlacesFound, MembersParsed, ClientsServed, Opening
  <1>6. CASE ResolveEocd
    <2>1. pc = "resolving" /\ eocd_pos = Wrote.eocd /\ eocd_pos' = eocd_pos
      BY <1>2, <1>6 DEF PlacesFound, ResolveEocd
    <2>2. /\ ~is_zip64 => DirOf(eocd) = Wrote.dir
          /\ is_zip64 => /\ zip64_eocd_error = "none"
                         /\ DirOf(archive.recs[z64_eocd_offset]) = Wrote.dir
      BY <1>1, <2>1, DirIsRead
    <2>3. dir' = Wrote.dir /\ pc' = "locating"
      BY <1>6, <2>2 DEF ResolveEocd, Resolved
    <2> QED
      BY <1>1, <1>4, <2>1, <2>3 DEF PlacesFound, MembersParsed, ClientsServed, Opening
  <1>7. CASE LocateDirectory
    <2>1. /\ pc = "locating" /\ eocd_pos = Wrote.eocd /\ eocd_pos' = eocd_pos
          /\ dir = Wrote.dir /\ dir' = dir
      BY <1>2, <1>7 DEF PlacesFound, LocateDirectory
    <2>2. /\ DetectPrefix = Wrote.prefix /\ EndInFile(dir.cd_offset + DetectPrefix)
          /\ dir.total_entries <= MAX_ENTRIES
      BY <1>1, <2>1, PrefixIsFound
    <2>3. dir.total_entries = Count /\ Count \in Nat /\ MAX_ENTRIES \in Nat
      BY <1>1, <2>1, PrefixIsFound, WroteIs, DirectoryAssumption
    <2>4. prefix' = Wrote.prefix /\ pc' = "parsing"
      BY <1>7, <2>2, <2>3 DEF LocateDirectory
    <2>5. cursor' = 0 /\ entries' = <<>>
      BY <1>3, <2>1 DEF IInv, DirInside
    <2>6. Wrote.headers[1] \in Nat
      BY <1>1, <2>3, WroteIs
    <2>7. /\ Len(entries') <= Count
          /\ cursor' = Wrote.headers[Len(entries') + 1] - Wrote.headers[1]
          /\ \A i \in 1..Len(entries') : entries'[i] = Unshifted(Wrote.entries[i])
      <3>1. Len(entries') = 0
        BY <2>5
      <3>2. cursor' = 0
        BY <2>5
      <3> QED
        BY <2>3, <2>6, <3>1, <3>2
    <2>8. \A i \in 1..Len(entries') : entries'[i] = Unshifted(Wrote.entries[i])'
      BY <1>1, <2>7 DEF Unshifted
    <2>9. MembersParsed'
      BY <1>1, <1>4, <2>4, <2>7, <2>8 DEF MembersParsed, Opening
    <2> QED
      BY <1>1, <2>1, <2>4, <2>9 DEF PlacesFound, ClientsServed
  <1> QED
    BY <1>5, <1>6, <1>7

\* One header of a sound archive.
LEMMA MemberStep ==
    ASSUME IInv, Typed, SoundInv, ParseHeader
    PROVE  SoundInv'
  <1> SUFFICES ASSUME archive'.wrote # None PROVE (PlacesFound /\ MembersParsed /\ ClientsServed)'
    BY DEF SoundInv
  <1>1. archive' = archive /\ archive \in Archives /\ archive.wrote # None
        /\ Wrote' = Wrote /\ Count' = Count
    BY DEF IInv, ParseHeader, Wrote, Count
  <1>2. PlacesFound /\ MembersParsed /\ ClientsServed
    BY <1>1 DEF SoundInv
  <1>3. /\ pc = "parsing" /\ Len(entries) < dir.total_entries
        /\ eocd_pos' = eocd_pos /\ dir' = dir /\ prefix' = prefix /\ summary' = summary /\ out' = out
    BY DEF ParseHeader
  <1>4. /\ eocd_pos = Wrote.eocd /\ dir = Wrote.dir /\ prefix = Wrote.prefix
        /\ out = <<>> /\ summary = None
        /\ cursor = Wrote.headers[Len(entries) + 1] - Wrote.headers[1]
        /\ \A i \in 1..Len(entries) : entries[i] = Unshifted(Wrote.entries[i])
    BY <1>2, <1>3 DEF PlacesFound, MembersParsed, Opening
  <1>5. entries \in Seq(CentralEntries) /\ Len(entries) \in Nat
    BY DEF Typed, TypeOK
  <1>6. dir.total_entries = Count /\ Count \in Nat
    BY <1>1, <1>4, PrefixIsFound, WroteIs
  <1> DEFINE i == Len(entries) + 1
  <1>7. i \in 1..Count
    BY <1>3, <1>5, <1>6
  <1>8. cursor = Wrote.headers[i] - Wrote.headers[1]
    BY <1>4
  <1> HIDE DEF i
  <1>9. /\ header_error = "none"
        /\ Entry = Unshifted(Wrote.entries[i])
        /\ cursor + CD_HEADER_FIXED + header.var_len = Wrote.headers[i + 1] - Wrote.headers[1]
    BY <1>1, <1>4, <1>7, <1>8, HeaderIsRead
  <1>10. /\ entries' = Append(entries, Entry) /\ pc' = "parsing"
         /\ cursor' = Wrote.headers[i + 1] - Wrote.headers[1]
    BY <1>3, <1>9 DEF ParseHeader
  <1>11. /\ Len(entries') = i
         /\ \A k \in 1..Len(entries) : entries'[k] = entries[k]
         /\ entries'[i] = Entry
    <2> DEFINE S == CentralEntries \union {Entry}
    <2>1. entries \in Seq(S) /\ Entry \in S
      BY <1>5, SeqWidens
    <2> HIDE DEF S
    <2> QED
      BY <1>10, <2>1, AppendIs DEF i
  <1>12. ASSUME NEW k \in 1..Len(entries') PROVE entries'[k] = Unshifted(Wrote.entries[k])
    <2>1. CASE k = i
      BY <1>9, <1>11, <2>1
    <2>2. CASE k # i
      <3>1. k \in 1..Len(entries)
        BY <1>5, <1>11, <2>2 DEF i
      <3> QED
        BY <1>4, <1>11, <3>1
    <2> QED
      BY <2>1, <2>2
  <1>13. \A k \in 1..Len(entries') : entries'[k] = Unshifted(Wrote.entries[k])'
    BY <1>1, <1>12 DEF Unshifted
  <1>14. Len(entries') <= Count /\ cursor' = Wrote.headers[Len(entries') + 1] - Wrote.headers[1]
    BY <1>6, <1>7, <1>10, <1>11
  <1>15. MembersParsed'
    BY <1>1, <1>3, <1>4, <1>10, <1>13, <1>14 DEF MembersParsed, Opening
  <1> QED
    BY <1>1, <1>3, <1>4, <1>10, <1>15 DEF PlacesFound, ClientsServed

\* The end of the directory of a sound archive.
LEMMA FinishStep ==
    ASSUME IInv, Typed, SoundInv, FinishParse
    PROVE  SoundInv'
  <1> SUFFICES ASSUME archive'.wrote # None PROVE (PlacesFound /\ MembersParsed /\ ClientsServed)'
    BY DEF SoundInv
  <1>1. archive' = archive /\ archive \in Archives /\ archive.wrote # None
        /\ Wrote' = Wrote /\ Count' = Count
    BY DEF IInv, FinishParse, Wrote, Count
  <1>2. PlacesFound /\ MembersParsed /\ ClientsServed
    BY <1>1 DEF SoundInv
  <1>3. /\ pc = "parsing" /\ Len(entries) = dir.total_entries /\ pc' = "parsed"
        /\ eocd_pos' = eocd_pos /\ dir' = dir /\ prefix' = prefix /\ out' = out
        /\ entries' = [i \in 1..Len(entries) |-> Shifted(entries[i])]
        /\ summary' = [ file_len |-> file_len, central_dir_offset |-> actual_cd_offset,
                        eocd_end_offset |-> eocd_pos + EOCD_MIN + eocd.comment_len,
                        archive_signature_len |-> archive_signature_len ]
    BY DEF FinishParse
  <1>4. /\ eocd_pos = Wrote.eocd /\ dir = Wrote.dir /\ prefix = Wrote.prefix /\ out = <<>>
        /\ cursor = Wrote.headers[Len(entries) + 1] - Wrote.headers[1]
        /\ \A i \in 1..Len(entries) : entries[i] = Unshifted(Wrote.entries[i])
    BY <1>2, <1>3 DEF PlacesFound, MembersParsed, Opening
  <1>5. Len(entries) = Count /\ Count \in Nat /\ Wrote.entries \in Seq(CentralEntries)
    BY <1>1, <1>3, <1>4, PrefixIsFound, WroteIs
  <1>6. actual_cd_offset = Wrote.headers[1] /\ archive_signature_len = Wrote.sig_len
    BY <1>1, <1>4, <1>5, SignatureIsRead
  <1>7. summary' = WrittenSummary
    BY <1>3, <1>4, <1>6 DEF WrittenSummary, Wrote, file_len, eocd
  <1>8. WrittenSummary' = WrittenSummary
    BY <1>1 DEF WrittenSummary
  <1>9. entries' = Wrote.entries
    <2>1. \A i \in 1..Count : Shifted(entries[i]) = Wrote.entries[i]
      BY <1>1, <1>4, <1>5, ShiftedBack
    <2>2. entries' = [i \in 1..Count |-> Wrote.entries[i]]
      BY <1>3, <1>5, <2>1
    <2>3. Len(Wrote.entries) = Count
      BY DEF Count
    <2> QED
      BY <1>5, <2>2, <2>3
  <1>10. MembersParsed'
    BY <1>1, <1>3, <1>4, <1>7, <1>8, <1>9 DEF MembersParsed, Opening
  <1> QED
    BY <1>1, <1>3, <1>4, <1>10 DEF PlacesFound, ClientsServed

\* structural_view and list on a sound archive.
LEMMA ServedStep ==
    ASSUME IInv, Typed, SoundInv,
           (\E c \in {"viewing", "listing"} : Asks(c)) \/ structural_view \/ list \/ ClientReturns
    PROVE  SoundInv'
  <1> SUFFICES ASSUME archive'.wrote # None PROVE (PlacesFound /\ MembersParsed /\ ClientsServed)'
    BY DEF SoundInv
  <1>1. archive' = archive /\ archive \in Archives /\ archive.wrote # None
        /\ Wrote' = Wrote /\ Count' = Count
    BY DEF IInv, Asks, structural_view, list, ClientReturns, ClientStep, Wrote, Count
  <1>2. PlacesFound /\ MembersParsed /\ ClientsServed
    BY <1>1 DEF SoundInv
  <1>3. /\ pc \in {"parsed", "viewing", "listing"}
        /\ eocd_pos' = eocd_pos /\ dir' = dir /\ prefix' = prefix /\ entries' = entries
        /\ summary' = summary /\ cursor' = cursor
    BY DEF Asks, structural_view, list, ClientReturns, ClientStep
  <1>4. /\ eocd_pos = Wrote.eocd /\ dir = Wrote.dir /\ prefix = Wrote.prefix
        /\ entries = Wrote.entries /\ summary = WrittenSummary /\ (pc = "parsed" => out = <<>>)
    BY <1>2, <1>3 DEF PlacesFound, MembersParsed, Opening
  <1>5. PICK S : out \in Seq(S)
    BY DEF Typed
  <1>6. Len(entries) = Count /\ Count \in Nat /\ Len(out) \in Nat
    BY <1>1, <1>4, <1>5, WroteIs DEF Count
  <1>7. WrittenSummary' = WrittenSummary /\ WrittenLayouts' = WrittenLayouts
        /\ WrittenLines' = WrittenLines /\ \A i : Opens(archive, i)' = Opens(archive, i)
    BY <1>1 DEF WrittenSummary, WrittenLayouts, WrittenLines, Opens
  <1>8. pc' \in {"viewing", "listing", "viewed", "listed", "error"} => PlacesFound' /\ MembersParsed'
    BY <1>1, <1>3, <1>4, <1>7 DEF PlacesFound, MembersParsed, Opening
  <1> DEFINE n == Len(out) + 1
  <1>9. ASSUME NEW e, out' = Append(out, e)
        PROVE  Len(out') = n /\ out'[n] = e /\ \A k \in 1..Len(out) : out'[k] = out[k]
    <2>1. out \in Seq(S \union {e}) /\ e \in S \union {e}
      BY <1>5, SeqWidens
    <2> QED
      BY <1>9, <2>1, AppendIs
  <1>10. CASE \E c \in {"viewing", "listing"} : Asks(c)
    <2>1. pc' \in {"viewing", "listing"} /\ out' = <<>>
      BY <1>4, <1>10 DEF Asks
    <2>2. Len(out') = 0
      BY <2>1
    <2>3. ClientsServed'
      BY <1>6, <2>1, <2>2 DEF ClientsServed
    <2> QED
      BY <1>8, <2>1, <2>3
  <1>11. CASE structural_view
    <2>1. pc = "viewing" /\ Len(out) < Len(entries)
      BY <1>11 DEF structural_view, ClientStep
    <2>2. n \in 1..Count /\ at = Wrote.entries[n]
      BY <1>4, <1>6, <2>1 DEF at
    <2>3. /\ lfh_error(at.lfh_offset) = "none" /\ data_start(at.lfh_offset) = Wrote.data[n]
          /\ archive.recs[at.lfh_offset].name = at.name
      BY <1>1, <2>2, LocalIsRead
    <2>4. out' = Append(out, Layout) /\ pc' = "viewing"
      BY <1>11, <2>1, <2>3 DEF structural_view
    <2>5. Layout = WrittenLayouts[n]
      BY <2>2, <2>3 DEF Layout, WrittenLayouts, Wrote, Count
    <2>6. ASSUME NEW k \in 1..Len(out') PROVE out'[k] = WrittenLayouts[k]
      <3>1. Len(out') = n /\ out'[n] = Layout /\ \A j \in 1..Len(out) : out'[j] = out[j]
        BY <1>9, <2>4
      <3>2. CASE k = n
        BY <2>5, <3>1, <3>2
      <3>3. CASE k # n
        <4>1. k \in 1..Len(out)
          BY <1>6, <3>1, <3>3
        <4>2. out[k] = WrittenLayouts[k]
          BY <1>2, <2>1, <4>1 DEF ClientsServed
        <4> QED
          BY <3>1, <4>1, <4>2
      <3> QED
        BY <3>2, <3>3
    <2>7. ClientsServed'
      BY <1>7, <2>4, <2>6 DEF ClientsServed
    <2> QED
      BY <1>8, <2>4, <2>7
  <1>12. CASE list
    <2>1. pc = "listing" /\ Len(out) < Len(entries)
      BY <1>12 DEF list, ClientStep
    <2>2. n \in 1..Count /\ at = Wrote.entries[n]
      BY <1>4, <1>6, <2>1 DEF at
    <2>3. /\ by_index_error(at) = "none" <=> Opens(archive, n)
          /\ by_index_error(at) \in Refusals \union {"none"}
      BY <1>1, <1>4, <2>2, OpensOrRefuses
    <2>4. \A k \in 1..Len(out) : out[k] = WrittenLines[k] /\ Opens(archive, k)
      BY <1>2, <2>1 DEF ClientsServed
    <2>5. CASE by_index_error(at) # "none" /\ Fail(by_index_error(at)) /\ UNCHANGED out
      <3>1. pc' = "error" /\ out' = out /\ error' \in Refusals
        BY <2>3, <2>5 DEF Fail
      <3>2. Len(out') < Count /\ ~Opens(archive, Len(out') + 1)
        BY <1>6, <2>1, <2>3, <2>5, <3>1
      <3>3. Refusals' = Refusals
        BY DEF Refusals
      <3>4. ClientsServed'
        BY <1>1, <1>7, <2>4, <3>1, <3>2, <3>3 DEF ClientsServed
      <3> QED
        BY <1>8, <3>1, <3>4
    <2>6. CASE /\ by_index_error(at) = "none"
               /\ out' = Append(out, [name |-> at.name, size |-> at.uncompressed_size])
               /\ UNCHANGED <<pc, error>>
      <3>1. Opens(archive, n)
        BY <2>3, <2>6
      <3> DEFINE line == [name |-> at.name, size |-> at.uncompressed_size]
      <3>2. line = WrittenLines[n]
        BY <2>2 DEF WrittenLines, Wrote, Count
      <3>3. out' = Append(out, line)
        BY <2>6
      <3> HIDE DEF line
      <3>4. ASSUME NEW k \in 1..Len(out') PROVE out'[k] = WrittenLines[k] /\ Opens(archive, k)
        <4>1. Len(out') = n /\ out'[n] = line /\ \A j \in 1..Len(out) : out'[j] = out[j]
          BY <1>9, <3>3
        <4>2. CASE k = n
          BY <3>1, <3>2, <4>1, <4>2
        <4>3. CASE k # n
          <5>1. k \in 1..Len(out)
            BY <1>6, <4>1, <4>3
          <5> QED
            BY <2>4, <4>1, <5>1
        <4> QED
          BY <4>2, <4>3
      <3>5. pc' = "listing"
        BY <2>1, <2>6
      <3>6. ClientsServed'
        BY <1>7, <3>4, <3>5 DEF ClientsServed
      <3> QED
        BY <1>8, <3>5, <3>6
    <2> QED
      BY <1>12, <2>5, <2>6 DEF list
  <1>13. CASE ClientReturns
    <2>1. /\ pc \in {"viewing", "listing"} /\ Len(out) = Count /\ out' = out
          /\ pc' = IF pc = "viewing" THEN "viewed" ELSE "listed"
      BY <1>6, <1>13 DEF ClientReturns, ClientStep
    <2>2. ClientsServed'
      BY <1>1, <1>2, <1>7, <2>1 DEF ClientsServed
    <2> QED
      BY <1>8, <2>1, <2>2
  <1> QED
    BY <1>10, <1>11, <1>12, <1>13

\* What is reported of a sound archive is what was written, from the search for
\* the end record to the last entry that a client has asked for.
THEOREM SoundInvariant == Spec => []SoundInv
  <1>1. Init => SoundInv
    BY DEF Init, SoundInv, PlacesFound, MembersParsed, ClientsServed, Opening
  <1>2. IInv /\ Typed /\ SoundInv /\ [Next]_vars => SoundInv'
    <2> SUFFICES ASSUME IInv, Typed, SoundInv, [Next]_vars PROVE SoundInv'
      OBVIOUS
    <2>1. CASE FindEocd \/ ResolveEocd \/ LocateDirectory
      BY <2>1, PlacesStep
    <2>2. CASE ParseHeader
      BY <2>2, MemberStep
    <2>3. CASE FinishParse
      BY <2>3, FinishStep
    <2>4. CASE (\E c \in {"viewing", "listing"} : Asks(c)) \/ structural_view \/ list \/ ClientReturns
      BY <2>4, ServedStep
    <2>5. CASE UNCHANGED vars
      <3>1. /\ archive' = archive /\ pc' = pc /\ error' = error /\ eocd_pos' = eocd_pos /\ dir' = dir
            /\ prefix' = prefix /\ cursor' = cursor /\ entries' = entries /\ summary' = summary
            /\ out' = out
        BY <2>5 DEF vars
      <3>2. PlacesFound' = PlacesFound
        BY <3>1 DEF PlacesFound, Wrote
      <3>3. MembersParsed' = MembersParsed
        BY <3>1 DEF MembersParsed, Wrote, Count, Unshifted, Opening, WrittenSummary
      <3>4. ClientsServed' = ClientsServed
        BY <3>1 DEF ClientsServed, Wrote, Count, WrittenLayouts, WrittenLines, Opens, Refusals
      <3> QED
        BY <3>1, <3>2, <3>3, <3>4 DEF SoundInv
    <2> QED
      BY <2>1, <2>2, <2>3, <2>4, <2>5 DEF Next
  <1> QED
    BY <1>1, <1>2, Invariant, TypedAlways, PTL DEF Spec

\* For every sound archive, of any size and with any number of members: opening
\* it succeeds, its entries and its summary are those that were written, the
\* view pairs each entry with its own local header and data, and only list
\* fails, for a member that needs a password or is not supported.
THEOREM WrittenArchiveIsRead == Spec => []WrittenIsRead
  <1>1. IInv /\ Typed /\ SoundInv => WrittenIsRead
    <2> SUFFICES ASSUME IInv, Typed, SoundInv, archive.wrote # None
                 PROVE  /\ error \in {"none"} \union Refusals
                        /\ summary # None => entries = Wrote.entries /\ summary = WrittenSummary
                        /\ pc = "viewed" => out = WrittenLayouts
      BY DEF WrittenIsRead, Wrote, Refusals
    <2>1. PlacesFound /\ MembersParsed /\ ClientsServed
      BY DEF SoundInv
    <2>2. error \in {"none"} \union Refusals
      BY <2>1 DEF Typed, TypeOK, ClientsServed
    <2>3. summary # None => entries = Wrote.entries /\ summary = WrittenSummary
      BY <2>1 DEF MembersParsed
    <2>4. ASSUME pc = "viewed" PROVE out = WrittenLayouts
      <3>1. Len(out) = Count /\ \A i \in 1..Len(out) : out[i] = WrittenLayouts[i]
        BY <2>1, <2>4 DEF ClientsServed
      <3>2. PICK S : out \in Seq(S)
        BY DEF Typed
      <3>3. out = [i \in 1..Count |-> out[i]]
        BY <3>1, <3>2
      <3>4. WrittenLayouts = [i \in 1..Count |-> WrittenLayouts[i]]
        BY DEF WrittenLayouts, Count, Wrote
      <3> QED
        BY <3>1, <3>3, <3>4
    <2> QED
      BY <2>2, <2>3, <2>4
  <1> QED
    BY <1>1, Invariant, TypedAlways, SoundInvariant, PTL

\* For every sound archive: list prints the members in front of the first one
\* that cannot be opened without a password, all of them if there is none, and
\* fails exactly there.
THEOREM ListStopsAtRefused == Spec => []ListsUpToRefused
  <1>1. IInv /\ Typed /\ SoundInv => ListsUpToRefused
    <2> SUFFICES ASSUME IInv, Typed, SoundInv, archive.wrote # None,
                        pc = "listed" \/ error \in Refusals
                 PROVE  /\ out = SubSeq(WrittenLines, 1, Wrote.listable)
                        /\ (pc = "listed") <=> (Wrote.listable = Count)
      BY DEF ListsUpToRefused, Wrote, Count, Refusals
    <2>1. ClientsServed /\ archive \in Archives
      BY DEF SoundInv, IInv
    <2>2. pc \in {"listed", "error"}
      BY DEF Typed, TypeOK, Refusals
    <2>3. /\ \A i \in 1..Len(out) : out[i] = WrittenLines[i] /\ Opens(archive, i)
          /\ pc = "listed" => Len(out) = Count
          /\ pc = "error" => Len(out) < Count /\ ~Opens(archive, Len(out) + 1)
      BY <2>1, <2>2 DEF ClientsServed
    <2>4. /\ Count \in Nat /\ Wrote.listable \in 0..Count
          /\ \A i \in 1..Wrote.listable : Opens(archive, i)
          /\ Wrote.listable < Count => ~Opens(archive, Wrote.listable + 1)
      BY <2>1, WroteIs
    <2>5. PICK S : out \in Seq(S)
      BY DEF Typed
    <2> DEFINE n == Len(out)
               k == Wrote.listable
    <2>6. n \in Nat /\ n <= Count
      BY <2>2, <2>3, <2>4, <2>5
    <2>7. n = k
      <3>1. ~(n < k)
        <4> SUFFICES ASSUME n < k PROVE FALSE
          OBVIOUS
        <4>1. n + 1 \in 1..k /\ n < Count /\ n # Count
          BY <2>4, <2>6
        <4> QED
          BY <2>2, <2>3, <2>4, <4>1
      <3>2. ~(k < n)
        <4> SUFFICES ASSUME k < n PROVE FALSE
          OBVIOUS
        <4>1. k + 1 \in 1..n /\ k < Count
          BY <2>4, <2>6
        <4> QED
          BY <2>3, <2>4, <4>1
      <3> HIDE DEF n, k
      <3> QED
        BY <2>4, <2>6, <3>1, <3>2 DEF k
    <2>8. out = SubSeq(WrittenLines, 1, n)
      <3> DEFINE T == S \union {WrittenLines[i] : i \in 1..Count}
      <3>1. WrittenLines = [i \in 1..Count |-> WrittenLines[i]]
        BY DEF WrittenLines, Wrote, Count
      <3>2. WrittenLines \in Seq(T) /\ Len(WrittenLines) = Count
        <4>1. \A i \in 1..Count : WrittenLines[i] \in T
          OBVIOUS
        <4> HIDE DEF T
        <4> QED
          BY <2>4, <3>1, <4>1
      <3>3. out \in Seq(T)
        BY <2>5, SeqWidens
      <3> HIDE DEF T
      <3>4. \A i \in 1..n : out[i] = WrittenLines[0 + i]
        BY <2>3
      <3>5. out = SubSeq(WrittenLines, 0 + 1, 0 + n)
        BY <2>6, <3>2, <3>3, <3>4, SliceIs
      <3> QED
        BY <2>6, <3>5
    <2>9. (pc = "listed") <=> (n = Count)
      BY <2>2, <2>3, <2>6
    <2> QED
      BY <2>7, <2>8, <2>9
  <1> QED
    BY <1>1, Invariant, TypedAlways, SoundInvariant, PTL
===============================================================================
