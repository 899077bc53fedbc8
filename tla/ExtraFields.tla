------------------------------ MODULE ExtraFields ------------------------------
(***************************************************************************)
(* The extra block of a central-directory header and its three scanners:   *)
(* apply_zip64_extra, parse_aes_extra and parse_extra_fields.              *)
(*                                                                         *)
(* A block is the sequence of the fields that fit into it and what is left *)
(* behind them: nothing, fewer than the four bytes of another field's      *)
(* header, or a field whose declared size overruns the block.  Of a        *)
(* payload a field holds the complete numbers, its flag bits, the complete *)
(* attributes (of an NTFS field) and its text.                             *)
(***************************************************************************)
EXTENDS Integers, FiniteSets, SequencesExt

CONSTANT None   \* no value

FieldIds == {"zip64", "aes", "ntfs", "unix", "unicode_path", "unicode_comment", "other"}
Clocks   == {"mtime", "atime", "ctime"}

Fields ==
    [ id    : FieldIds,
      words : Seq(Int),
      flags : SUBSET Clocks,                        \* of an extended timestamp
      attrs : Seq([tag : Nat, words : Seq(Int)]),   \* of an NTFS field
      text  : STRING \union {None} ]                \* None: too short, or not UTF-8

Blocks == [fields : Seq(Fields), tail : {"clean", "short", "overrun"}]

ExtraRecords ==
    [ ntfs : [Clocks -> Int \union {None}], unix : [Clocks -> Int \union {None}],
      unicode_path : STRING \union {None}, unicode_comment : STRING \union {None} ]

AesRecords == [is_ae2 : BOOLEAN, strength : Int, actual_method : Int]

\* The first field of an id; the scanners for zip64 and AE-x return there.
Has(block, id) == \E i \in 1..Len(block.fields) : block.fields[i].id = id
FirstField(block, id) ==
    block.fields[CHOOSE i \in 1..Len(block.fields) :
                    /\ block.fields[i].id = id
                    /\ \A j \in 1..(i - 1) : block.fields[j].id # id]

(***************************************************************************)
(* apply_zip64_extra: the sizes and the offset of a header, in the order   *)
(* original size, compressed size, offset.  A number is in the field only  *)
(* if the header holds a sentinel in its place.                            *)
(***************************************************************************)
\* Where among the field's numbers the k-th value is.
Rank(need, k) == Cardinality({j \in 1..k : need[j]})

zip64_error(block, need) ==
    IF ~Has(block, "zip64")
    THEN IF block.tail = "overrun" THEN "Truncated" ELSE "Zip64Inconsistent"
    ELSE IF Len(FirstField(block, "zip64").words) < Rank(need, 3) THEN "Truncated" ELSE "none"

apply_zip64_extra(block, need, base) ==
    [k \in 1..3 |-> IF need[k] THEN FirstField(block, "zip64").words[Rank(need, k)] ELSE base[k]]

(***************************************************************************)
(* parse_aes_extra: version, strength and real method, or nothing.         *)
(***************************************************************************)
parse_aes_extra(block) ==
    IF Has(block, "aes") /\ Len(FirstField(block, "aes").words) >= 3
    THEN LET w == FirstField(block, "aes").words
         IN  [is_ae2 |-> w[1] = 2, strength |-> w[2], actual_method |-> w[3]]
    ELSE None

(***************************************************************************)
(* parse_extra_fields: a later field of an id overwrites an earlier one.   *)
(***************************************************************************)
NoExtra ==
    [ ntfs |-> [c \in Clocks |-> None], unix |-> [c \in Clocks |-> None],
      unicode_path |-> None, unicode_comment |-> None ]

Order == [c \in Clocks |-> CASE c = "mtime" -> 1 [] c = "atime" -> 2 [] c = "ctime" -> 3]

\* Positions of the fields of an id, and the last of a set of positions: what a
\* loop that overwrites leaves behind.
FieldsOf(block, id) == {i \in 1..Len(block.fields) : block.fields[i].id = id}
LastOf(s) == CHOOSE i \in s : \A j \in s : j <= i

\* Attributes of an NTFS field that carry all three times; others do not count.
WholeAttrs(f) == {i \in 1..Len(f.attrs) : f.attrs[i].tag = 1 /\ Len(f.attrs[i].words) >= 3}

\* Seeded fault: an NTFS time is taken as soon as it is there itself.
EachNtfsTime(block) ==
    [c \in Clocks |->
        LET set == {i \in FieldsOf(block, "ntfs") :
                       /\ block.fields[i].attrs # <<>>
                       /\ Len(block.fields[i].attrs[1].words) >= Order[c]}
        IN  IF set = {} THEN None ELSE block.fields[LastOf(set)].attrs[1].words[Order[c]]]

parse_ntfs_times(block) ==
    LET set   == {i \in FieldsOf(block, "ntfs") : WholeAttrs(block.fields[i]) # {}}
        field == block.fields[LastOf(set)]
    IN  [c \in Clocks |->
            IF set = {} THEN None ELSE field.attrs[LastOf(WholeAttrs(field))].words[Order[c]]]

\* The times whose flag is set follow one another; one that is cut off is None.
take_i32le(f, c) ==
    LET rank == Cardinality({d \in f.flags : Order[d] <= Order[c]})
    IN  IF rank <= Len(f.words) THEN f.words[rank] ELSE None

parse_unix_times(block) ==
    [c \in Clocks |->
        LET set == {i \in FieldsOf(block, "unix") : c \in block.fields[i].flags}
        IN  IF set = {} THEN None ELSE take_i32le(block.fields[LastOf(set)], c)]

parse_unicode_extra(block, id) ==
    IF FieldsOf(block, id) = {} THEN None ELSE block.fields[LastOf(FieldsOf(block, id))].text

parse_extra_fields(block) ==
    [ ntfs |-> parse_ntfs_times(block), unix |-> parse_unix_times(block),
      unicode_path |-> parse_unicode_extra(block, "unicode_path"),
      unicode_comment |-> parse_unicode_extra(block, "unicode_comment") ]
================================================================================
