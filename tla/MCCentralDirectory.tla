-------------------------- MODULE MCCentralDirectory --------------------------
(***************************************************************************)
(* Files for TLC: archives as a writer lays them out, with what it put     *)
(* into them, and damaged ones of which nothing is promised.               *)
(***************************************************************************)
EXTENDS CentralDirectory

Field(id, words) == [id |-> id, words |-> words, flags |-> {}, attrs |-> <<>>, text |-> None]

\* A writer's extra fields and what they mean.
Unix == [Field("unix", <<11, 13>>) EXCEPT !.flags = {"mtime", "ctime"}]
Ntfs == [Field("ntfs", <<>>) EXCEPT !.attrs = <<[tag |-> 1, words |-> <<1, 2, 3>>]>>]
Path == [Field("unicode_path", <<>>) EXCEPT !.text = "p"]

Times(m, a, c) == [k \in Clocks |-> CASE k = "mtime" -> m [] k = "atime" -> a [] k = "ctime" -> c]

Member(name, size) ==
    [ name |-> name, usize |-> size, csize |-> size + 1, z64 |-> <<FALSE, FALSE, FALSE>>,
      encrypted |-> FALSE, decodes |-> TRUE, disk_start |-> 0, method |-> 8,
      fields |-> <<>>, aes |-> None, extra |-> NoExtra ]

Timed(m) ==
    [m EXCEPT !.fields = <<Unix, Ntfs, Path>>,
              !.extra = [NoExtra EXCEPT !.ntfs = Times(1, 2, 3), !.unix = Times(11, None, 13),
                                        !.unicode_path = "p"]]
Aes(m) ==
    [m EXCEPT !.fields = <<Field("other", <<>>), Field("aes", <<2, 3, 8>>)>>, !.method = 99,
              !.encrypted = TRUE, !.extra = NoExtra,
              !.aes = [is_ae2 |-> TRUE, strength |-> 3, actual_method |-> 8]]
Zip64(m, z) == [m EXCEPT !.z64 = z]

(***************************************************************************)
(* The writer.                                                             *)
(***************************************************************************)
NAME_LEN == 1
LOCAL_EXTRA == 4
SIG_LEN == 4

Plain == [prefix |-> 0, comment |-> 0, trailing |-> 0, sig |-> "none", zip64 |-> {}, disk |-> 0]

LocalLen(m) == LFH_FIXED + NAME_LEN + LOCAL_EXTRA + m.csize
\* A header's variable part: the name and, roughly, its extra block.
VarLen(m) == NAME_LEN + 12 * Len(m.fields) + (IF m.z64 = <<FALSE, FALSE, FALSE>> THEN 0 ELSE 28)

Chosen(pick) == SelectSeq(<<1, 2, 3>>, LAMBDA k : pick[k])
Zip64Field(m, off) ==
    LET v == <<m.usize, m.csize, off>>
        ks == Chosen(m.z64)
    IN  Field("zip64", [i \in 1..Len(ks) |-> v[ks[i]]])

HeaderRec(m, off) ==
    LET some == m.z64 # <<FALSE, FALSE, FALSE>>
        as32(k, v) == IF m.z64[k] THEN U32_SENTINEL ELSE v
    IN  [ sig |-> "CD_HEADER", name |-> m.name, method |-> m.method, encrypted |-> m.encrypted,
          decodes |-> m.decodes, disk_start |-> m.disk_start, var_len |-> VarLen(m),
          uncompressed_size |-> as32(1, m.usize), compressed_size |-> as32(2, m.csize),
          lfh_offset |-> as32(3, off),
          extra |-> [fields |-> m.fields \o (IF some THEN <<Zip64Field(m, off)>> ELSE <<>>),
                     tail |-> "clean"] ]

LocalRec(m) == [sig |-> "LFH", name |-> m.name, name_len |-> NAME_LEN, extra_len |-> LOCAL_EXTRA]

Place(pairs) == [p \in {x[1] : x \in pairs} |-> (CHOOSE x \in pairs : x[1] = p)[2]]

Written(ms, o) ==
    LET n == Len(ms)
        lfh[i \in 1..(n + 1)] == IF i = 1 THEN 0 ELSE lfh[i - 1] + LocalLen(ms[i - 1])
        cdh[i \in 1..(n + 1)] ==
            IF i = 1 THEN lfh[n + 1] ELSE cdh[i - 1] + CD_HEADER_FIXED + VarLen(ms[i - 1])
        sigLen == IF o.sig = "none" THEN 0 ELSE 6 + SIG_LEN
        end   == cdh[n + 1] + sigLen
        size  == cdh[n + 1] - lfh[n + 1] + (IF o.sig = "inside" THEN sigLen ELSE 0)
        eocdAt == end + (IF o.zip64 = {} THEN 0 ELSE ZIP64_EOCD_LEN + ZIP64_LOCATOR_LEN)
        total == eocdAt + EOCD_MIN + o.comment
        real  == [cd_offset |-> lfh[n + 1], cd_size |-> size, total_entries |-> n,
                  disk_number |-> o.disk, cd_start_disk |-> 0]
        eocdRec ==
            [ sig |-> "EOCD", comment_len |-> o.comment,
              cd_offset |-> IF "offset" \in o.zip64 THEN U32_SENTINEL ELSE real.cd_offset,
              cd_size |-> IF "size" \in o.zip64 THEN U32_SENTINEL ELSE size,
              total_entries |-> IF "count" \in o.zip64 THEN U16_SENTINEL ELSE n ] @@ real
        P == o.prefix
        opens(m) == ~m.encrypted /\ m.decodes /\ m.disk_start = 0 /\ o.disk = 0
    IN  [ len  |-> P + total + o.trailing,
          recs |-> Place(
              { <<P + lfh[i], LocalRec(ms[i])>> : i \in 1..n }
              \union { <<P + cdh[i], HeaderRec(ms[i], lfh[i])>> : i \in 1..n }
              \union (IF o.sig = "none" THEN {}
                      ELSE { <<P + cdh[n + 1], [sig |-> "ARCHIVE_SIG", sig_len |-> SIG_LEN]>> })
              \union (IF o.zip64 = {} THEN {}
                      ELSE { <<P + end, [sig |-> "ZIP64_EOCD"] @@ real>>,
                             <<P + end + ZIP64_EOCD_LEN, [sig |-> "ZIP64_LOCATOR", z64_eocd_offset |-> end]>> })
              \union { <<P + eocdAt, eocdRec>> }),
          wrote |-> IF P > 0 /\ (o.zip64 # {} \/ o.sig = "behind" \/ n = 0) THEN None ELSE
              [ entries |-> [ i \in 1..n |->
                    [ name |-> ms[i].name, encrypted |-> ms[i].encrypted, decodes |-> ms[i].decodes,
                      disk_start |-> ms[i].disk_start, uncompressed_size |-> ms[i].usize,
                      compressed_size |-> ms[i].csize, lfh_offset |-> P + lfh[i],
                      aes |-> ms[i].aes, extra |-> ms[i].extra ] ],
                data |-> [i \in 1..n |-> P + lfh[i + 1] - ms[i].csize],
                headers |-> [i \in 1..(n + 1) |-> P + cdh[i]],
                dir |-> real, eocd |-> P + eocdAt, prefix |-> P,
                sig_len |-> IF o.sig = "none" THEN None ELSE SIG_LEN,
                listable |-> CHOOSE k \in 0..n :
                    /\ \A i \in 1..k : opens(ms[i])
                    /\ k = n \/ ~opens(ms[k + 1]) ] ]

A == Member("a", 3)
B == Timed(Member("b", 0))

Lists ==
    { <<>>, <<A>>, <<A, B>>, <<B, Aes(A)>>, <<Aes(B), A>>, <<A, [B EXCEPT !.decodes = FALSE], A>>,
      <<A, [A EXCEPT !.disk_start = 1]>> }
    \union { <<A, Zip64(B, z)>> : z \in [1..3 -> BOOLEAN] }

WrittenFiles ==
    { Written(ms, [Plain EXCEPT !.prefix = p, !.comment = c, !.trailing = t, !.sig = s, !.zip64 = z]) :
        ms \in Lists, p \in {0, 43, 200}, c \in {0, 5}, t \in {0, 14}, s \in {"none", "inside", "behind"},
        z \in {{}, {"offset"}, {"count"}, {"offset", "size", "count"}} }
    \union { Written(<<A, B>>, [Plain EXCEPT !.comment = 65535]),
             Written(<<A, B>>, [Plain EXCEPT !.disk = 1]),
             Written(<<A, B>>, [Plain EXCEPT !.disk = 1, !.zip64 = {"size"}]) }

(***************************************************************************)
(* Damage.                                                                 *)
(***************************************************************************)
EocdOf(f) == CHOOSE p \in DOMAIN f.recs : f.recs[p].sig = "EOCD"
Unpromised(f) == [f EXCEPT !.wrote = None]
Drop(f, p) == [len |-> f.len, wrote |-> None, recs |-> [q \in DOMAIN f.recs \ {p} |-> f.recs[q]]]
Add(f, p, r) ==
    [len |-> f.len, wrote |-> None,
     recs |-> [q \in DOMAIN f.recs \union {p} |-> IF q = p THEN r ELSE f.recs[q]]]
Cut(f, n) == [f EXCEPT !.len = n, !.wrote = None]

Damaged(f) ==
    LET g == Unpromised(f)
        e == EocdOf(f)
        here == f.recs[e]
        withEocd(r) == [g EXCEPT !.recs[e] = r]
    IN  { Drop(f, p) : p \in DOMAIN f.recs }
        \union { Cut(f, p + k) : p \in DOMAIN f.recs, k \in {0, 3, 21, 29, 30, 45} }
        \union { withEocd([here EXCEPT !.total_entries = n]) : n \in {0, 1, 3, 9, U16_SENTINEL} }
        \union { withEocd([here EXCEPT !.cd_size = n]) : n \in {0, 45, 46, here.cd_size + 1, U32_SENTINEL - 1} }
        \union { withEocd([here EXCEPT !.cd_offset = n]) : n \in {0, 7, here.cd_offset + 1, U32_SENTINEL - 1} }
        \union { withEocd([here EXCEPT !.comment_len = 9]) }
        \* a header of an older archive where the recorded offset points
        \union { Add(f, here.cd_offset, HeaderRec(A, 0)) }
        \* an end record inside the comment or the trailing bytes
        \union { Add(f, e + EOCD_MIN, [here EXCEPT !.total_entries = 0]) }
        \union { [g EXCEPT !.recs[p].z64_eocd_offset = n] :
                   p \in {q \in DOMAIN f.recs : f.recs[q].sig = "ZIP64_LOCATOR"}, n \in {0, f.len - 55, Max64} }
        \union UNION { { [g EXCEPT !.recs[p].cd_offset = Max64 - 20],
                         [g EXCEPT !.recs[p].cd_offset = Max64 - 20, !.recs[p].total_entries = 0],
                         [g EXCEPT !.recs[p].total_entries = Max64] } :
                       p \in {q \in DOMAIN f.recs : f.recs[q].sig = "ZIP64_EOCD"} }
        \union UNION { { [g EXCEPT !.recs[p].extra.fields = <<>>],
                         [g EXCEPT !.recs[p].extra.fields = <<>>, !.recs[p].extra.tail = "overrun"],
                         [g EXCEPT !.recs[p].extra.fields = <<Field("zip64", <<5>>)>>],
                         \* an offset that wraps when the prefix is added to it
                         [g EXCEPT !.recs[p].lfh_offset = U32_SENTINEL,
                                   !.recs[p].extra.fields = <<Field("zip64", <<Max64, Max64, Max64>>)>>],
                         [g EXCEPT !.recs[p].lfh_offset = 1] } :
                       p \in {q \in DOMAIN f.recs : f.recs[q].sig = "CD_HEADER"} }

Undamaged ==
    { Written(<<A, Zip64(B, z)>>, [Plain EXCEPT !.prefix = p, !.trailing = 30, !.zip64 = x]) :
        z \in {<<FALSE, FALSE, FALSE>>, <<TRUE, TRUE, FALSE>>}, p \in {0, 150}, x \in {{}, {"offset"}} }

MCArchives ==
    WrittenFiles \union UNION { Damaged(f) : f \in Undamaged }
    \union { Written(<<A>>, [Plain EXCEPT !.trailing = t]) : t \in {65535} }
    \union { Unpromised(Written(<<A>>, [Plain EXCEPT !.trailing = t])) : t \in {65536, 70000} }
    \union { [len |-> n, recs |-> Place({}), wrote |-> None] : n \in {0, 21, 22} }
================================================================================
