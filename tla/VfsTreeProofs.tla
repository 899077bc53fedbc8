----------------------------- MODULE VfsTreeProofs -----------------------------
(***************************************************************************)
(* Proofs about build_tree and the walks over its table, for every list of *)
(* entries, however long, and names of any depth.                          *)
(***************************************************************************)
EXTENDS VfsTree, Lemmas, FiniteSetTheorems, TLAPS

Paths == DOMAIN by_path
Parent(p) == SubSeq(p, 1, Len(p) - 1)
Children(p) == NodeAt(p).children

\* by_path numbers the nodes: every node has one path.
Numbered ==
    /\ Paths \subseteq Seq(STRING)
    /\ <<>> \in Paths /\ by_path[<<>>] = 0
    /\ \A p \in Paths : by_path[p] \in 0..(Len(nodes) - 1)
    /\ \A p, q \in Paths : by_path[p] = by_path[q] => p = q
    /\ \A id \in 0..(Len(nodes) - 1) : \E p \in Paths : by_path[p] = id

\* A path's parent has one, earlier, and lists it.
Hangs(p) ==
    /\ Parent(p) \in Paths
    /\ by_path[Parent(p)] < by_path[p]
    /\ NodeAt(p).name = p[Len(p)]
    /\ \E k \in 1..Len(Children(Parent(p))) : Children(Parent(p))[k] = by_path[p]

\* What a node lists are the paths one name longer than its own, each once.
ListsOwn(p) ==
    /\ \A k \in 1..Len(Children(p)) :
          /\ Children(p)[k] >= k
          /\ \E q \in Paths \ {<<>>} : Parent(q) = p /\ by_path[q] = Children(p)[k]
    /\ \A j, k \in 1..Len(Children(p)) : j < k => Children(p)[j] < Children(p)[k]

Linked ==
    /\ \A p \in Paths \ {<<>>} : Hangs(p)
    /\ \A p \in Paths : ListsOwn(p)

\* Where the loops stand, and that the parent is the node of the path so far.
Standing ==
    /\ layouts \in Archives
    /\ nodes \in Seq(NodeRecords)
    /\ li \in 1..(Len(layouts) + 1)
    /\ ci \in Nat
    /\ parent_id \in 0..(Len(nodes) - 1)
    /\ pc \in {"building", "built"}
    /\ pc = "built" => li = Len(layouts) + 1
    /\ pc = "building" =>
          /\ walked = <<>> /\ at = 0
          /\ li <= Len(layouts) =>
                /\ ci = 0 \/ ci < Len(path)
                /\ SubSeq(path, 1, ci) \in Paths
                /\ parent_id = by_path[SubSeq(path, 1, ci)]

Tree == Standing /\ Numbered /\ Linked

\* What a record keeps when only its children change.
SameButChildren(a, b) ==
    /\ a.entry_idx = b.entry_idx /\ a.name = b.name /\ a.kind = b.kind /\ a.size = b.size
    /\ a.times = b.times

\* The entries that mentioned path p, or had it as their own, so far.
SeenMentions(p) == {i \in Mentions(p) : i < li \/ (i = li /\ Len(p) <= ci)}
SeenRecords(p)  == {i \in Records(p) : i < li}

\* The node that entries m, which mention a path, and r, which have it as their
\* own, should give.
IsNode(node, ls, m, r) ==
    LET file == First(m) \in r /\ ~is_dir(ls[First(m)].raw)
    IN  /\ m # {}
        /\ node.kind = IF file THEN "File" ELSE "Dir"
        /\ node.size = IF file THEN ls[First(m)].uncompressed_size ELSE 0
        /\ node.entry_idx = IF r = {} THEN None ELSE First(r) - 1
        /\ node.times = IF r = {} THEN NoTimes ELSE TimesOf(ls[First(r)])

Covered ==
    \A i \in 1..Len(layouts) : \A n \in 1..Len(PathOf(i)) :
        i < li \/ (i = li /\ n <= ci) => SubSeq(PathOf(i), 1, n) \in Paths

\* The table is what the entries up to the component reached should give.
Matching ==
    /\ Covered
    /\ SameButChildren(NodeAt(<<>>), Root)
    /\ \A p \in Paths \ {<<>>} : IsNode(NodeAt(p), layouts, SeenMentions(p), SeenRecords(p))

\* What a lookup of the last name of a walk gives, where the rest of it led.
Arrival ==
    LET front == SubSeq(walked, 1, Len(walked) - 1)
    IN  /\ front \in Paths
        /\ IF NodeAt(front).kind = "File" THEN at = Err
           ELSE IF walked \in Paths THEN at = by_path[walked] ELSE at = None

Walk ==
    /\ walked \in Seq(STRING) /\ Len(walked) <= MaxDepth
    /\ at \in 0..(Len(nodes) - 1) \union {None, Err}
    /\ pc = "built" =>
          /\ at \notin {None, Err} => walked \in Paths /\ at = by_path[walked]
          /\ walked # <<>> => Arrival

IInv == Tree /\ Matching /\ Walk

(***************************************************************************)
(* Names.                                                                  *)
(***************************************************************************)
\* The pieces kept are finitely many.
LEMMA KeptFinite ==
    ASSUME NEW raw \in Seq(STRING)
    PROVE  /\ Kept(raw) \subseteq Nat /\ \A i \in Kept(raw) : i <= Len(raw) /\ raw[i] \in STRING
           /\ IsFiniteSet(Kept(raw)) /\ Cardinality(Kept(raw)) \in Nat
           /\ \A i : IsFiniteSet(KeptUpTo(raw, i)) /\ Cardinality(KeptUpTo(raw, i)) \in Nat
  <1>1. Len(raw) \in Nat
    OBVIOUS
  <1>2. IsFiniteSet(1..Len(raw))
    BY <1>1, FS_Interval
  <1>3. Kept(raw) \subseteq 1..Len(raw)
    BY DEF Kept
  <1>4. IsFiniteSet(Kept(raw))
    BY <1>2, <1>3, FS_Subset
  <1>5. \A i : KeptUpTo(raw, i) \subseteq Kept(raw)
    BY DEF KeptUpTo
  <1>6. \A i : IsFiniteSet(KeptUpTo(raw, i))
    BY <1>4, <1>5, FS_Subset
  <1>7. Cardinality(Kept(raw)) \in Nat /\ \A i : Cardinality(KeptUpTo(raw, i)) \in Nat
    BY <1>4, <1>6, FS_CardinalityType
  <1>8. \A i \in Kept(raw) : i \in Nat /\ i <= Len(raw) /\ raw[i] \in STRING
    BY <1>1, <1>3
  <1> QED
    BY <1>4, <1>6, <1>7, <1>8

\* For each k there is a k-th piece kept.
LEMMA KthKept ==
    ASSUME NEW raw \in Seq(STRING), NEW k \in 1..Cardinality(Kept(raw))
    PROVE  \E i \in Kept(raw) : Cardinality(KeptUpTo(raw, i)) = k
  <1> DEFINE T == {i \in Kept(raw) : Cardinality(KeptUpTo(raw, i)) >= k}
  <1>1. /\ Kept(raw) \subseteq Nat /\ \A i \in Kept(raw) : i <= Len(raw)
        /\ Cardinality(Kept(raw)) \in Nat /\ IsFiniteSet(Kept(raw)) /\ Len(raw) \in Nat
        /\ \A i : IsFiniteSet(KeptUpTo(raw, i)) /\ Cardinality(KeptUpTo(raw, i)) \in Nat
    BY KeptFinite
  <1>2. Kept(raw) # {}
    BY <1>1, FS_EmptySet
  <1>3. T # {}
    <2>1. PICK g \in Kept(raw) : \A m \in Kept(raw) : m <= g
      BY <1>1, <1>2, GreatestOf
    <2>2. KeptUpTo(raw, g) = Kept(raw)
      BY <2>1 DEF KeptUpTo
    <2> QED
      BY <2>1, <2>2
  <1>4. PICK i \in T : \A m \in T : i <= m
    <2>1. T \subseteq Nat
      BY <1>1
    <2> HIDE DEF T
    <2> QED
      BY <1>3, <2>1, LeastOf
  <1>5. /\ i \in Kept(raw) /\ i \in Nat /\ Cardinality(KeptUpTo(raw, i)) >= k
        /\ i \in KeptUpTo(raw, i)
    BY <1>1, <1>4 DEF KeptUpTo
  <1> DEFINE Before == KeptUpTo(raw, i) \ {i}
  <1>6. Cardinality(Before) = Cardinality(KeptUpTo(raw, i)) - 1
    BY <1>1, <1>5, FS_RemoveElement
  <1>7. Before \subseteq Nat /\ \A m \in Before : m < i /\ m \in Kept(raw)
    BY <1>1, <1>5 DEF KeptUpTo
  <1>8. Cardinality(Before) < k
    <2>1. CASE Before = {}
      <3>1. Cardinality(Before) = 0
        BY <2>1, FS_EmptySet
      <3> HIDE DEF Before
      <3> QED
        BY <3>1
    <2>2. CASE Before # {}
      <3>1. \A m \in Before : m <= i
        BY <1>5, <1>7
      <3>2. PICK h \in Before : \A m \in Before : m <= h
        <4> HIDE DEF Before
        <4> QED
          BY <1>5, <1>7, <2>2, <3>1, GreatestOf
      <3>3. KeptUpTo(raw, h) = Before
        BY <1>1, <1>5, <1>7, <3>2 DEF KeptUpTo
      <3>4. h \notin T
        BY <1>1, <1>4, <1>5, <1>7, <3>2
      <3>5. ~(Cardinality(KeptUpTo(raw, h)) >= k)
        BY <1>7, <3>2, <3>4
      <3>6. Cardinality(KeptUpTo(raw, h)) < k
        BY <1>1, <3>5
      <3> HIDE DEF Before
      <3> QED
        BY <3>3, <3>6
    <2> QED
      BY <2>1, <2>2
  <1> QED
    BY <1>1, <1>5, <1>6, <1>8

\* So a path is a sequence of strings.
LEMMA CompsType ==
    ASSUME NEW raw \in Seq(STRING)
    PROVE  comps(raw) \in Seq(STRING)
  <1> DEFINE pick(k) == CHOOSE i \in Kept(raw) : Cardinality(KeptUpTo(raw, i)) = k
  <1>1. ASSUME NEW k \in 1..Cardinality(Kept(raw)) PROVE raw[pick(k)] \in STRING
    <2>1. pick(k) \in Kept(raw)
      BY KthKept
    <2> QED
      BY <2>1, KeptFinite
  <1>2. comps(raw) = [k \in 1..Cardinality(Kept(raw)) |-> raw[pick(k)]]
    BY DEF comps
  <1>3. Cardinality(Kept(raw)) \in Nat
    BY KeptFinite
  <1> HIDE DEF pick
  <1> QED
    BY <1>1, <1>2, <1>3

(***************************************************************************)
(* Times.                                                                  *)
(***************************************************************************)
\* The last of some positions is one of them.
LEMMA LastIs ==
    ASSUME NEW n \in Nat, NEW s, s \subseteq 1..n, s # {}
    PROVE  LastOf(s) \in s
  <1>1. s \subseteq Nat /\ \A j \in s : j <= n
    OBVIOUS
  <1>2. \E i \in s : \A j \in s : j <= i
    BY <1>1, GreatestOf
  <1> QED
    BY <1>2 DEF LastOf

\* The NTFS times of a block are all there or all missing.
LEMMA NtfsTimes ==
    ASSUME NEW block \in Blocks
    PROVE  \/ parse_ntfs_times(block) = [c \in Clocks |-> None]
           \/ parse_ntfs_times(block) \in [Clocks -> Int]
  <1> DEFINE set   == {i \in FieldsOf(block, "ntfs") : WholeAttrs(block.fields[i]) # {}}
             field == block.fields[LastOf(set)]
             attr  == field.attrs[LastOf(WholeAttrs(field))]
  <1>1. parse_ntfs_times(block) = [c \in Clocks |-> IF set = {} THEN None ELSE attr.words[Order[c]]]
    BY DEF parse_ntfs_times
  <1>2. CASE set = {}
    BY <1>1, <1>2
  <1>3. CASE set # {}
    <2>1. block.fields \in Seq(Fields) /\ Len(block.fields) \in Nat
      BY DEF Blocks
    <2>2. set \subseteq 1..Len(block.fields)
      BY DEF FieldsOf
    <2>3. LastOf(set) \in set
      <3> HIDE DEF set
      <3> QED
        BY <1>3, <2>1, <2>2, LastIs
    <2>4. field \in Fields /\ WholeAttrs(field) # {}
      <3>1. LastOf(set) \in 1..Len(block.fields) /\ WholeAttrs(block.fields[LastOf(set)]) # {}
        BY <2>2, <2>3
      <3> HIDE DEF set
      <3> QED
        BY <2>1, <3>1
    <2> HIDE DEF set, field
    <2>5. field.attrs \in Seq([tag : Nat, words : Seq(Int)]) /\ Len(field.attrs) \in Nat
      BY <2>4 DEF Fields
    <2>6. WholeAttrs(field) \subseteq 1..Len(field.attrs)
      BY DEF WholeAttrs
    <2>7. LastOf(WholeAttrs(field)) \in WholeAttrs(field)
      BY <2>4, <2>5, <2>6, LastIs
    <2>8. attr.words \in Seq(Int) /\ Len(attr.words) >= 3
      <3> DEFINE n == LastOf(WholeAttrs(field))
      <3>1. n \in 1..Len(field.attrs) /\ Len(field.attrs[n].words) >= 3
        BY <2>7 DEF WholeAttrs
      <3> HIDE DEF n
      <3>2. field.attrs[n] \in [tag : Nat, words : Seq(Int)]
        BY <2>5, <3>1, ElementIs, Zenon
      <3>3. field.attrs[n].words \in Seq(Int)
        BY <3>2
      <3> QED
        BY <3>1, <3>3 DEF n
    <2>9. \A c \in Clocks : Order[c] \in 1..3
      BY DEF Order, Clocks
    <2>10. \A c \in Clocks : attr.words[Order[c]] \in Int
      <3> HIDE DEF attr
      <3> QED
        BY <2>8, <2>9
    <2> QED
      BY <1>1, <1>3, <2>10
  <1> QED
    BY <1>2, <1>3

\* A Unix time is a number or missing, each for itself.
LEMMA UnixTimes ==
    ASSUME NEW block \in Blocks
    PROVE  parse_unix_times(block) \in [Clocks -> Int \union {None}]
  <1> SUFFICES ASSUME NEW c \in Clocks
               PROVE  parse_unix_times(block)[c] \in Int \union {None}
    BY DEF parse_unix_times
  <1> DEFINE set   == {i \in FieldsOf(block, "unix") : c \in block.fields[i].flags}
             field == block.fields[LastOf(set)]
             low   == {d \in field.flags : Order[d] <= Order[c]}
  <1>1. parse_unix_times(block)[c] = IF set = {} THEN None ELSE take_i32le(field, c)
    BY DEF parse_unix_times
  <1>2. CASE set = {}
    BY <1>1, <1>2
  <1>3. CASE set # {}
    <2>1. block.fields \in Seq(Fields) /\ Len(block.fields) \in Nat
      BY DEF Blocks
    <2>2. set \subseteq 1..Len(block.fields)
      BY DEF FieldsOf
    <2>3. LastOf(set) \in set
      <3> HIDE DEF set
      <3> QED
        BY <1>3, <2>1, <2>2, LastIs
    <2>4. field \in Fields /\ c \in field.flags
      <3>1. LastOf(set) \in 1..Len(block.fields) /\ c \in block.fields[LastOf(set)].flags
        BY <2>2, <2>3
      <3> HIDE DEF set
      <3> QED
        BY <2>1, <3>1
    <2> HIDE DEF set, field
    <2>5. field.words \in Seq(Int) /\ field.flags \subseteq Clocks
      BY <2>4 DEF Fields
    <2>6. IsFiniteSet(Clocks)
      <3>1. IsFiniteSet({"mtime"}) /\ IsFiniteSet({"mtime"} \union {"atime"})
            /\ IsFiniteSet(({"mtime"} \union {"atime"}) \union {"ctime"})
        BY FS_Singleton, FS_AddElement
      <3>2. Clocks = ({"mtime"} \union {"atime"}) \union {"ctime"}
        BY DEF Clocks
      <3> QED
        BY <3>1, <3>2
    <2>7. IsFiniteSet(low)
      BY <2>5, <2>6, FS_Subset
    <2>8. Order[c] \in 1..3
      BY DEF Order, Clocks
    <2>9. c \in low
      BY <2>4, <2>8
    <2> HIDE DEF low
    <2>10. Cardinality(low) \in Nat /\ Cardinality(low) # 0
      BY <2>7, <2>9, FS_CardinalityType, FS_EmptySet
    <2>11. take_i32le(field, c) = IF Cardinality(low) <= Len(field.words)
                                  THEN field.words[Cardinality(low)] ELSE None
      BY DEF take_i32le, low
    <2>12. take_i32le(field, c) \in Int \union {None}
      BY <2>5, <2>10, <2>11
    <2> QED
      BY <1>1, <1>3, <2>12
  <1> QED
    BY <1>2, <1>3

\* The times of one clock.
Agree(t) == \A c, d \in Clocks : t[c] # None /\ t[d] # None => t[c].resolution = t[d].resolution

\* So the times of an entry are of one clock.
LEMMA TimesOfEntry ==
    ASSUME NEW entry \in EntryRecords
    PROVE  TimesOf(entry) \in [Clocks -> TimeStamps \union {None}] /\ Agree(TimesOf(entry))
  <1> DEFINE ntfs == parse_ntfs_times(entry.block)
             unix == parse_unix_times(entry.block)
  <1>1. entry.block \in Blocks
    BY DEF EntryRecords
  <1>2. unix \in [Clocks -> Int \union {None}]
    BY <1>1, UnixTimes
  <1>3. ntfs = [c \in Clocks |-> None] \/ ntfs \in [Clocks -> Int]
    BY <1>1, NtfsTimes
  <1>4. None \notin Int /\ EPOCH_DIFF_100NS \in Int
    BY TreeAssumption
  <1>5. TimesOf(entry) =
          [c \in Clocks |-> IF ntfs[c] # None THEN filetime_ts(ntfs[c])
                            ELSE IF unix[c] # None THEN unix_secs_ts(unix[c]) ELSE None]
    BY DEF TimesOf, extra_times, parse_extra_fields
  <1>6. \A n \in Int : /\ filetime_ts(n) \in TimeStamps /\ unix_secs_ts(n) \in TimeStamps
                       /\ filetime_ts(n).resolution = "WinFileTime"
                       /\ unix_secs_ts(n).resolution = "Seconds"
    BY <1>4 DEF filetime_ts, unix_secs_ts, TimeStamps
  <1> HIDE DEF ntfs, unix
  <1>7. TimesOf(entry) \in [Clocks -> TimeStamps \union {None}]
    BY <1>2, <1>3, <1>4, <1>5, <1>6
  <1>8. CASE ntfs = [c \in Clocks |-> None]
    BY <1>2, <1>5, <1>6, <1>7, <1>8 DEF Agree
  <1>9. CASE ntfs \in [Clocks -> Int]
    BY <1>4, <1>5, <1>6, <1>7, <1>9 DEF Agree
  <1> QED
    BY <1>3, <1>7, <1>8, <1>9

(***************************************************************************)
(* The table.                                                              *)
(***************************************************************************)
\* The entries of an archive and their paths.
LEMMA EntryTyped ==
    ASSUME layouts \in Archives
    PROVE  /\ layouts \in Seq(EntryRecords) /\ Len(layouts) \in Nat
           /\ \A i \in 1..Len(layouts) : Entry(i) \in EntryRecords /\ PathOf(i) \in Seq(STRING)
  <1>1. layouts \in Seq(EntryRecords)
    BY TreeAssumption
  <1>2. ASSUME NEW i \in 1..Len(layouts)
        PROVE  Entry(i) \in EntryRecords /\ PathOf(i) \in Seq(STRING)
    <2>1. Entry(i) \in EntryRecords
      BY <1>1, ElementIs DEF Entry
    <2>2. Entry(i).raw \in Seq(STRING)
      BY <2>1 DEF EntryRecords
    <2> QED
      BY <2>1, <2>2, CompsType DEF PathOf
  <1>3. Len(layouts) \in Nat
    BY <1>1
  <1> QED
    BY <1>1, <1>2, <1>3

\* The entry the loop stands at.
LEMMA LayoutTyped ==
    ASSUME Standing, li <= Len(layouts)
    PROVE  /\ li \in 1..Len(layouts) /\ layout = Entry(li) /\ path = PathOf(li)
           /\ layout \in EntryRecords /\ path \in Seq(STRING) /\ Len(path) \in Nat
  <1>1. li \in 1..Len(layouts)
    BY EntryTyped DEF Standing
  <1>2. layout = Entry(li) /\ path = PathOf(li)
    BY DEF layout, path, Entry, PathOf
  <1>3. layout \in EntryRecords /\ path \in Seq(STRING)
    BY <1>1, <1>2, EntryTyped DEF Standing
  <1> QED
    BY <1>1, <1>2, <1>3

\* The path up to the component the inner loop stands at.
LEMMA AccFacts ==
    ASSUME path \in Seq(STRING), ci \in Nat, ci + 1 <= Len(path)
    PROVE  /\ acc \in Seq(STRING) /\ Len(acc) = ci + 1 /\ acc # <<>>
           /\ acc[Len(acc)] = path[ci + 1] /\ path[ci + 1] \in STRING
           /\ Parent(acc) = SubSeq(path, 1, ci)
  <1>1. ci + 1 \in 0..Len(path) /\ ci \in 0..Len(path) /\ ci + 1 \in 1..Len(path)
    OBVIOUS
  <1>2. acc \in Seq(STRING) /\ Len(acc) = ci + 1 /\ \A k \in 1..(ci + 1) : acc[k] = path[k]
    BY <1>1, PrefixIs DEF acc
  <1>3. acc # <<>>
    BY <1>2
  <1>4. path[ci + 1] \in STRING
    BY <1>1, ElementIs
  <1>5. Parent(acc) = SubSeq(path, 1, ci)
    <2> DEFINE u == SubSeq(acc, 1, ci)
               v == SubSeq(path, 1, ci)
    <2>1. v \in Seq(STRING) /\ Len(v) = ci /\ \A k \in 1..ci : v[k] = path[k]
      BY <1>1, PrefixIs
    <2>2. ci \in 0..Len(acc)
      BY <1>2
    <2>3. u \in Seq(STRING) /\ Len(u) = ci /\ \A k \in 1..ci : u[k] = acc[k]
      BY <1>2, <2>2, PrefixIs
    <2>4. \A k \in 1..ci : u[k] = v[k]
      BY <1>2, <2>1, <2>3
    <2> HIDE DEF u, v
    <2>5. u = v
      BY <2>1, <2>3, <2>4
    <2>6. Parent(acc) = u
      BY <1>2 DEF Parent, u
    <2> QED
      BY <2>5, <2>6 DEF v
  <1> QED
    BY <1>2, <1>3, <1>4, <1>5

\* The parent of a path.
LEMMA ParentIs ==
    ASSUME NEW p \in Seq(STRING), p # <<>>
    PROVE  /\ Len(p) \in Nat /\ Len(p) > 0
           /\ Parent(p) \in Seq(STRING) /\ Len(Parent(p)) = Len(p) - 1
           /\ \A k \in 1..(Len(p) - 1) : Parent(p)[k] = p[k]
  <1>1. Len(p) \in Nat /\ Len(p) > 0
    OBVIOUS
  <1>2. Len(p) - 1 \in 0..Len(p)
    BY <1>1
  <1> QED
    BY <1>1, <1>2, PrefixIs DEF Parent

\* A path is its parent and its last name.
LEMMA SamePath ==
    ASSUME NEW p \in Seq(STRING), NEW q \in Seq(STRING), p # <<>>, q # <<>>,
           Parent(p) = Parent(q), p[Len(p)] = q[Len(q)]
    PROVE  p = q
  <1>1. Len(p) \in Nat /\ Len(q) \in Nat /\ Len(p) > 0 /\ Len(q) > 0
    BY ParentIs
  <1>2. Len(Parent(p)) = Len(p) - 1 /\ Len(Parent(q)) = Len(q) - 1
    BY ParentIs
  <1>3. Len(p) = Len(q)
    BY <1>1, <1>2
  <1>4. \A k \in 1..(Len(p) - 1) : Parent(p)[k] = p[k]
    BY ParentIs
  <1>5. \A k \in 1..(Len(q) - 1) : Parent(q)[k] = q[k]
    BY ParentIs
  <1>6. ASSUME NEW k \in 1..Len(p) PROVE p[k] = q[k]
    <2>1. CASE k = Len(p)
      BY <1>3, <2>1
    <2>2. CASE k # Len(p)
      <3>1. k \in 1..(Len(p) - 1)
        BY <1>1, <2>2
      <3> QED
        BY <1>3, <1>4, <1>5, <3>1
    <2> QED
      BY <2>1, <2>2
  <1> QED
    BY <1>3, <1>6

\* The node of a path.
LEMMA NodeTyped ==
    ASSUME Standing, Numbered, NEW p \in Paths
    PROVE  /\ by_path[p] \in Nat /\ Len(nodes) \in Nat /\ by_path[p] + 1 \in 1..Len(nodes)
           /\ NodeAt(p) \in NodeRecords /\ NodeAt(p) = nodes[by_path[p] + 1]
           /\ Children(p) \in Seq(Nat) /\ Len(Children(p)) \in Nat
  <1>1. nodes \in Seq(NodeRecords) /\ Len(nodes) \in Nat
    BY DEF Standing
  <1>2. by_path[p] \in 0..(Len(nodes) - 1)
    BY DEF Numbered
  <1>3. by_path[p] + 1 \in 1..Len(nodes) /\ by_path[p] \in Nat
    BY <1>1, <1>2
  <1>4. NodeAt(p) = nodes[by_path[p] + 1]
    BY DEF NodeAt
  <1>5. NodeAt(p) \in NodeRecords
    BY <1>1, <1>3, <1>4, ElementIs
  <1>6. Children(p) \in Seq(Nat)
    BY <1>5 DEF NodeRecords, Children
  <1> QED
    BY <1>1, <1>3, <1>4, <1>5, <1>6

\* A table in which c was added to one children list and nothing else changed.
OneMoreChild(new, ns, i, c) ==
    /\ new \in Seq(NodeRecords) /\ Len(new) = Len(ns)
    /\ \A n \in 1..Len(ns) : n # i + 1 => new[n] = ns[n]
    /\ new[i + 1] = [ns[i + 1] EXCEPT !.children = Append(ns[i + 1].children, c)]

\* push_child does that.
LEMMA PushChild ==
    ASSUME NEW ns \in Seq(NodeRecords), NEW i \in Nat, i + 1 \in 1..Len(ns), NEW c \in Nat
    PROVE  OneMoreChild(push_child(ns, i, c), ns, i, c)
  <1> DEFINE nd == [ns[i + 1] EXCEPT !.children = Append(ns[i + 1].children, c)]
             new == push_child(ns, i, c)
  <1>1. new = [ns EXCEPT ![i + 1] = nd]
    BY DEF push_child
  <1>2. ns[i + 1] \in NodeRecords
    BY ElementIs
  <1>3. ns[i + 1].children \in Seq(Nat)
    BY <1>2 DEF NodeRecords
  <1>4. Append(ns[i + 1].children, c) \in Seq(Nat)
    BY <1>3
  <1>5. nd \in NodeRecords
    BY <1>2, <1>4 DEF NodeRecords
  <1> HIDE DEF nd
  <1>6. new \in Seq(NodeRecords) /\ Len(new) = Len(ns)
    BY <1>1, <1>5
  <1>7. \A n \in 1..Len(ns) : n # i + 1 => new[n] = ns[n]
    BY <1>1
  <1>8. new[i + 1] = nd
    BY <1>1
  <1> HIDE DEF new
  <1>9. OneMoreChild(new, ns, i, c)
    BY <1>6, <1>7, <1>8 DEF nd, OneMoreChild
  <1> QED
    BY <1>9 DEF new

\* A node nd was added for path a.
Grown(a, nd) ==
    /\ nodes' \in Seq(NodeRecords) /\ Len(nodes') = Len(nodes) + 1
    /\ DOMAIN by_path' = Paths \union {a}
    /\ by_path'[a] = Len(nodes)
    /\ \A p \in Paths : by_path'[p] = by_path[p]
    /\ nodes'[Len(nodes) + 1] = nd
    /\ \A p \in Paths :
          /\ SameButChildren(nodes'[by_path[p] + 1], NodeAt(p))
          /\ p # Parent(a) => nodes'[by_path[p] + 1].children = Children(p)
          /\ p = Parent(a) => nodes'[by_path[p] + 1].children = Append(Children(p), Len(nodes))

\* Push adds a node below the parent reached so far.
LEMMA PushGrows ==
    ASSUME Tree, pc = "building", li <= Len(layouts), ci + 1 <= Len(path),
           NEW nd, nd \in NodeRecords, ~known, Push(nd)
    PROVE  \A a : a = acc => /\ Grown(a, nd)
                             /\ a \in Seq(STRING) /\ a # <<>> /\ a \notin Paths
                             /\ Parent(a) \in Paths /\ a[Len(a)] = path[ci + 1]
  <1> SUFFICES ASSUME NEW a, a = acc
               PROVE  /\ Grown(a, nd)
                      /\ a \in Seq(STRING) /\ a # <<>> /\ a \notin Paths
                      /\ Parent(a) \in Paths /\ a[Len(a)] = path[ci + 1]
    OBVIOUS
  <1>1. Standing /\ Numbered /\ nodes \in Seq(NodeRecords) /\ Len(nodes) \in Nat /\ ci \in Nat
    BY DEF Tree, Standing
  <1>2. path \in Seq(STRING)
    BY <1>1, LayoutTyped
  <1>3. /\ a \in Seq(STRING) /\ a # <<>> /\ a \notin Paths
        /\ Parent(a) \in Paths /\ a[Len(a)] = path[ci + 1]
        /\ parent_id = by_path[Parent(a)]
    BY <1>1, <1>2, AccFacts DEF Standing, known, Paths
  <1> DEFINE ns == Append(nodes, nd)
             N  == Len(nodes)
  <1>4. /\ ns \in Seq(NodeRecords) /\ Len(ns) = N + 1
        /\ \A n \in 1..N : ns[n] = nodes[n]
        /\ ns[N + 1] = nd
    BY <1>1, AppendIs
  <1>5. parent_id \in Nat /\ parent_id + 1 \in 1..N
    BY <1>1, <1>3, NodeTyped
  <1> HIDE DEF ns
  <1>6. parent_id + 1 \in 1..Len(ns)
    BY <1>1, <1>4, <1>5
  <1>7. nodes' = push_child(ns, parent_id, N)
    BY DEF Push, NewId, ns
  <1>8. /\ nodes' \in Seq(NodeRecords) /\ Len(nodes') = N + 1
        /\ \A n \in 1..(N + 1) : n # parent_id + 1 => nodes'[n] = ns[n]
        /\ nodes'[parent_id + 1] =
              [ns[parent_id + 1] EXCEPT !.children = Append(ns[parent_id + 1].children, N)]
    <2> HIDE DEF N
    <2>1. N \in Nat
      BY <1>1 DEF N
    <2>2. OneMoreChild(push_child(ns, parent_id, N), ns, parent_id, N)
      BY <1>4, <1>5, <1>6, <2>1, PushChild
    <2>3. OneMoreChild(nodes', ns, parent_id, N)
      BY <1>7, <2>2
    <2> QED
      BY <1>4, <2>3, Zenon DEF OneMoreChild
  <1>9. nodes'[N + 1] = nd
    BY <1>1, <1>4, <1>5, <1>8
  <1>10. /\ DOMAIN by_path' = Paths \union {a}
         /\ by_path'[a] = N
         /\ \A p \in Paths : by_path'[p] = by_path[p]
    BY <1>3 DEF Push, NewId, Paths
  <1>11. ASSUME NEW p \in Paths
         PROVE  /\ SameButChildren(nodes'[by_path[p] + 1], NodeAt(p))
                /\ p # Parent(a) => nodes'[by_path[p] + 1].children = Children(p)
                /\ p = Parent(a) => nodes'[by_path[p] + 1].children = Append(Children(p), N)
    <2>1. /\ by_path[p] \in Nat /\ by_path[p] + 1 \in 1..N
          /\ NodeAt(p) = nodes[by_path[p] + 1] /\ NodeAt(p) \in NodeRecords
      BY <1>1, NodeTyped
    <2>2. ns[by_path[p] + 1] = NodeAt(p)
      BY <1>4, <2>1
    <2>3. CASE p = Parent(a)
      <3>1. nodes'[by_path[p] + 1] = [NodeAt(p) EXCEPT !.children = Append(Children(p), N)]
        BY <1>3, <1>8, <2>2, <2>3 DEF Children
      <3> QED
        BY <2>1, <2>3, <3>1 DEF SameButChildren, NodeRecords
    <2>4. CASE p # Parent(a)
      <3>1. by_path[p] # parent_id
        BY <1>1, <1>3, <2>4 DEF Numbered
      <3>2. nodes'[by_path[p] + 1] = NodeAt(p)
        BY <1>1, <1>5, <1>8, <2>1, <2>2, <3>1
      <3> QED
        BY <2>4, <3>2 DEF SameButChildren, Children
    <2> QED
      BY <2>3, <2>4
  <1>12. Grown(a, nd)
    BY <1>8, <1>9, <1>10, <1>11 DEF Grown
  <1> QED
    BY <1>3, <1>12

\* The numbering goes on.
LEMMA NumberedGrown ==
    ASSUME Tree, NEW a \in Seq(STRING), NEW nd, Grown(a, nd), a # <<>>, a \notin Paths
    PROVE  Numbered'
  <1>1. Numbered /\ Len(nodes) \in Nat
    BY DEF Tree, Standing
  <1>2. /\ DOMAIN by_path' = Paths \union {a} /\ Len(nodes') = Len(nodes) + 1
        /\ by_path'[a] = Len(nodes) /\ \A p \in Paths : by_path'[p] = by_path[p]
    BY DEF Grown
  <1>3. \A p \in Paths : by_path[p] \in 0..(Len(nodes) - 1)
    BY <1>1 DEF Numbered
  <1>4. Paths' = Paths \union {a} /\ Paths' \subseteq Seq(STRING) /\ <<>> \in Paths'
    BY <1>1, <1>2 DEF Paths, Numbered
  <1>5. by_path'[<<>>] = 0
    BY <1>1, <1>2 DEF Numbered
  <1>6. \A p \in Paths' : by_path'[p] \in 0..(Len(nodes') - 1)
    BY <1>1, <1>2, <1>3, <1>4
  <1>7. ASSUME NEW p \in Paths', NEW q \in Paths', by_path'[p] = by_path'[q] PROVE p = q
    <2>1. CASE p \in Paths /\ q \in Paths
      BY <1>1, <1>2, <1>7, <2>1 DEF Numbered
    <2>2. CASE p = a \/ q = a
      BY <1>1, <1>2, <1>3, <1>4, <1>7, <2>2
    <2> QED
      BY <1>4, <2>1, <2>2
  <1>8. ASSUME NEW id \in 0..(Len(nodes') - 1) PROVE \E p \in Paths' : by_path'[p] = id
    <2>1. CASE id = Len(nodes)
      BY <1>2, <1>4, <2>1
    <2>2. CASE id # Len(nodes)
      <3>1. id \in 0..(Len(nodes) - 1)
        BY <1>1, <1>2, <2>2
      <3> QED
        BY <1>1, <1>2, <1>4, <3>1 DEF Numbered
    <2> QED
      BY <2>1, <2>2
  <1> QED
    BY <1>4, <1>5, <1>6, <1>7, <1>8 DEF Numbered

\* What a node lists has a number, so there are fewer than there are nodes.
LEMMA ChildrenBounded ==
    ASSUME Tree, NEW p \in Paths
    PROVE  /\ \A k \in 1..Len(Children(p)) : Children(p)[k] < Len(nodes)
           /\ Len(Children(p)) < Len(nodes)
  <1>1. Standing /\ Numbered /\ ListsOwn(p)
    BY DEF Tree, Linked
  <1>2. Len(nodes) \in Nat /\ by_path[p] + 1 \in 1..Len(nodes) /\ Len(Children(p)) \in Nat
        /\ Children(p) \in Seq(Nat)
    BY <1>1, NodeTyped
  <1>3. ASSUME NEW k \in 1..Len(Children(p)) PROVE Children(p)[k] < Len(nodes) /\ k <= Children(p)[k]
                                                   /\ Children(p)[k] \in Nat
    <2>1. PICK q \in Paths : by_path[q] = Children(p)[k]
      BY <1>1 DEF ListsOwn
    <2>2. by_path[q] \in Nat /\ by_path[q] + 1 \in 1..Len(nodes)
      BY <1>1, NodeTyped
    <2>3. by_path[q] < Len(nodes)
      BY <1>2, <2>2
    <2>4. k <= Children(p)[k]
      BY <1>1, <1>2, ElementIs DEF ListsOwn
    <2> QED
      BY <2>1, <2>2, <2>3, <2>4
  <1>4. Len(Children(p)) < Len(nodes)
    <2>1. CASE Len(Children(p)) = 0
      BY <1>2, <2>1
    <2>2. CASE Len(Children(p)) # 0
      <3>1. Len(Children(p)) \in 1..Len(Children(p))
        BY <1>2, <2>2
      <3> QED
        BY <1>2, <1>3, <3>1
    <2> QED
      BY <2>1, <2>2
  <1> QED
    BY <1>3, <1>4

\* The links go on.
LEMMA LinkedGrown ==
    ASSUME Tree, NEW a \in Seq(STRING), NEW nd, Grown(a, nd), a # <<>>, a \notin Paths,
           Parent(a) \in Paths, nd.name = a[Len(a)], nd.children = <<>>
    PROVE  Linked'
  <1>1. Standing /\ Numbered /\ Linked /\ Len(nodes) \in Nat
    BY DEF Tree, Standing
  <1>2. Paths' = Paths \union {a} /\ by_path'[a] = Len(nodes) /\ <<>> \in Paths
        /\ \A p \in Paths : by_path'[p] = by_path[p]
    BY <1>1 DEF Grown, Paths, Numbered
  <1>3. \A p \in Paths : /\ NodeAt(p)'.name = NodeAt(p).name
                         /\ p # Parent(a) => Children(p)' = Children(p)
                         /\ p = Parent(a) => Children(p)' = Append(Children(p), Len(nodes))
    BY <1>2, SMTT(30) DEF Grown, NodeAt, Children, SameButChildren
  <1>4. NodeAt(a)' = nd
    BY <1>2 DEF Grown, NodeAt
  <1>5. \A p \in Paths : /\ Children(p) \in Seq(Nat) /\ Len(Children(p)) \in Nat
                         /\ by_path[p] \in Nat /\ by_path[p] < Len(nodes)
                         /\ Len(Children(p)) < Len(nodes)
    BY <1>1, NodeTyped, ChildrenBounded
  <1>6. ASSUME NEW p \in Paths, p = Parent(a)
        PROVE  /\ Children(p)' \in Seq(Nat) /\ Len(Children(p)') = Len(Children(p)) + 1
               /\ Children(p)'[Len(Children(p)) + 1] = Len(nodes)
               /\ \A k \in 1..Len(Children(p)) : Children(p)'[k] = Children(p)[k]
    <2> DEFINE old == Children(p)
               new == Children(p)'
               N   == Len(nodes)
    <2>1. old \in Seq(Nat) /\ N \in Nat /\ new = Append(old, N)
      BY <1>1, <1>3, <1>5, <1>6
    <2> HIDE DEF old, new, N
    <2>2. /\ new \in Seq(Nat) /\ Len(new) = Len(old) + 1 /\ new[Len(old) + 1] = N
          /\ \A k \in 1..Len(old) : new[k] = old[k]
      BY <2>1, AppendIs
    <2> QED
      BY <2>2 DEF old, new, N
  <1>7. ASSUME NEW p \in Paths, NEW k \in 1..Len(Children(p))
        PROVE  k \in 1..Len(Children(p)') /\ Children(p)'[k] = Children(p)[k]
    <2>1. CASE p # Parent(a)
      BY <1>3, <2>1
    <2>2. CASE p = Parent(a)
      BY <1>5, <1>6, <2>2, SMTT(30)
    <2> QED
      BY <2>1, <2>2
  <1>8. ASSUME NEW p \in Paths' \ {<<>>} PROVE Hangs(p)'
    <2>1. CASE p = a
      <3>1. Children(Parent(a))' = Append(Children(Parent(a)), Len(nodes))
        BY <1>3
      <3>2. \E k \in 1..Len(Children(Parent(a))') : Children(Parent(a))'[k] = Len(nodes)
        BY <1>6, <1>5
      <3> QED
        BY <1>2, <1>4, <1>5, <2>1, <3>2 DEF Hangs
    <2>2. CASE p # a
      <3>1. p \in Paths \ {<<>>} /\ Hangs(p)
        BY <1>1, <1>2, <2>2 DEF Linked
      <3>2. Parent(p) \in Paths
        BY <3>1 DEF Hangs
      <3>3. PICK k \in 1..Len(Children(Parent(p))) : Children(Parent(p))[k] = by_path[p]
        BY <3>1 DEF Hangs
      <3>4. k \in 1..Len(Children(Parent(p))') /\ Children(Parent(p))'[k] = by_path'[p]
        BY <1>2, <1>7, <3>1, <3>2, <3>3
      <3>5. by_path'[Parent(p)] < by_path'[p] /\ NodeAt(p)'.name = p[Len(p)]
        BY <1>2, <1>3, <3>1, <3>2 DEF Hangs
      <3> QED
        BY <1>2, <3>2, <3>4, <3>5 DEF Hangs
    <2> QED
      BY <2>1, <2>2
  <1>9. ASSUME NEW p \in Paths' PROVE ListsOwn(p)'
    <2>1. CASE p = a
      <3>1. Children(p)' = <<>>
        BY <1>4, <2>1 DEF Children
      <3>2. Len(Children(p)') = 0
        BY <3>1
      <3> QED
        BY <3>2 DEF ListsOwn
    <2>2. CASE p # a /\ p # Parent(a)
      <3>1. p \in Paths /\ ListsOwn(p) /\ Children(p)' = Children(p)
        BY <1>1, <1>2, <1>3, <2>2 DEF Linked
      <3> QED
        BY <1>2, <3>1 DEF ListsOwn
    <2>3. CASE p = Parent(a)
      <3> DEFINE old == Children(p)
                 new == Children(p)'
                 N   == Len(nodes)
      <3>1. p \in Paths /\ ListsOwn(p)
        BY <1>1, <2>3 DEF Linked
      <3>2. /\ new \in Seq(Nat) /\ Len(new) = Len(old) + 1 /\ new[Len(old) + 1] = N
            /\ \A k \in 1..Len(old) : new[k] = old[k]
        BY <1>6, <2>3, <3>1
      <3>3. Len(old) \in Nat /\ Len(old) < N /\ \A k \in 1..Len(old) : old[k] < N
        BY <1>5, <3>1, ChildrenBounded
      <3>4. ASSUME NEW k \in 1..Len(new)
            PROVE  new[k] >= k /\ \E q \in Paths' \ {<<>>} : Parent(q) = p /\ by_path'[q] = new[k]
        <4>1. CASE k = Len(old) + 1
          BY <1>1, <1>2, <2>3, <3>2, <3>3, <4>1
        <4>2. CASE k # Len(old) + 1
          <5>1. k \in 1..Len(old)
            BY <3>2, <3>3, <4>2
          <5>2. old[k] >= k /\ \E q \in Paths \ {<<>>} : Parent(q) = p /\ by_path[q] = old[k]
            BY <3>1, <5>1 DEF ListsOwn
          <5> QED
            BY <1>2, <3>2, <5>1, <5>2
        <4> QED
          BY <4>1, <4>2
      <3>5. ASSUME NEW j \in 1..Len(new), NEW k \in 1..Len(new), j < k PROVE new[j] < new[k]
        <4>1. j \in 1..Len(old)
          BY <3>2, <3>3, <3>5
        <4>2. CASE k = Len(old) + 1
          BY <3>2, <3>3, <4>1, <4>2
        <4>3. CASE k # Len(old) + 1
          <5>1. k \in 1..Len(old)
            BY <3>2, <3>3, <4>3
          <5>2. old[j] < old[k]
            BY <3>1, <3>5, <4>1, <5>1 DEF ListsOwn
          <5> QED
            BY <3>2, <4>1, <5>1, <5>2
        <4> QED
          BY <4>2, <4>3
      <3> QED
        BY <3>4, <3>5 DEF ListsOwn
    <2> QED
      BY <2>1, <2>2, <2>3
  <1> QED
    BY <1>8, <1>9 DEF Linked

\* A record that is attached keeps its name, kind, size and children, and a File
\* node keeps its entry.
LEMMA AttachedIs ==
    ASSUME NEW node \in NodeRecords, li \in Nat \ {0}, layout \in EntryRecords
    PROVE  /\ Attached(node) \in NodeRecords
           /\ Attached(node).name = node.name /\ Attached(node).kind = node.kind
           /\ Attached(node).size = node.size /\ Attached(node).children = node.children
           /\ node.entry_idx # None => Attached(node) = node
           /\ node.entry_idx = None => /\ Attached(node).entry_idx = li - 1
                                       /\ Attached(node).times = TimesOf(layout)
           /\ Attached(node).entry_idx # None
  <1> DEFINE one == [node EXCEPT !.entry_idx = li - 1]
             two == [one EXCEPT !.times = TimesOf(layout)]
  <1>1. CASE node.entry_idx # None
    BY <1>1 DEF Attached
  <1>2. CASE node.entry_idx = None
    <2>1. li - 1 \in Nat /\ None \notin Nat
      BY TreeAssumption
    <2>2. /\ one \in NodeRecords /\ one.entry_idx = li - 1 /\ one.name = node.name
          /\ one.kind = node.kind /\ one.size = node.size /\ one.children = node.children
      BY <2>1 DEF NodeRecords
    <2>3. TimesOf(layout) \in [Clocks -> TimeStamps \union {None}]
      BY TimesOfEntry
    <2>4. Attached(node) = two
      BY <1>2 DEF Attached
    <2> HIDE DEF one
    <2>5. /\ two \in NodeRecords /\ two.times = TimesOf(layout) /\ two.entry_idx = one.entry_idx
          /\ two.name = one.name /\ two.kind = one.kind /\ two.size = one.size
          /\ two.children = one.children
      BY <2>2, <2>3 DEF NodeRecords
    <2> HIDE DEF two
    <2> QED
      BY <1>2, <2>1, <2>2, <2>4, <2>5
  <1> QED
    BY <1>1, <1>2

\* The table with the record of one path attached to its node.
Relabelled(a) ==
    /\ by_path' = by_path
    /\ nodes' \in Seq(NodeRecords) /\ Len(nodes') = Len(nodes)
    /\ \A p \in Paths : /\ p # a => NodeAt(p)' = NodeAt(p)
                        /\ p = a => NodeAt(p)' = Attached(NodeAt(p))

\* That is what Leaf does to a known path.
LEMMA LeafRelabels ==
    ASSUME Tree, pc = "building", li <= Len(layouts), known, by_path' = by_path,
           nodes' = [nodes EXCEPT ![by_path[acc] + 1] = Attached(@)]
    PROVE  \A a : a = acc => a \in Paths /\ Relabelled(a)
  <1> SUFFICES ASSUME NEW a, a = acc PROVE a \in Paths /\ Relabelled(a)
    OBVIOUS
  <1>1. Standing /\ Numbered /\ a \in Paths /\ nodes \in Seq(NodeRecords)
    BY DEF Tree, Standing, known, Paths
  <1>2. layout \in EntryRecords /\ li \in Nat \ {0}
    BY <1>1, LayoutTyped
  <1>3. by_path[a] + 1 \in 1..Len(nodes) /\ NodeAt(a) \in NodeRecords
        /\ NodeAt(a) = nodes[by_path[a] + 1]
    BY <1>1, NodeTyped
  <1>4. Attached(NodeAt(a)) \in NodeRecords
    BY <1>2, <1>3, AttachedIs
  <1>5. nodes' = [nodes EXCEPT ![by_path[a] + 1] = Attached(NodeAt(a))]
    BY <1>3
  <1>6. nodes' \in Seq(NodeRecords) /\ Len(nodes') = Len(nodes)
    BY <1>1, <1>3, <1>4, <1>5
  <1>7. ASSUME NEW p \in Paths
        PROVE  nodes'[by_path[p] + 1] = IF p = a THEN Attached(NodeAt(p)) ELSE NodeAt(p)
    <2>1. by_path[p] + 1 \in 1..Len(nodes) /\ NodeAt(p) = nodes[by_path[p] + 1] /\ by_path[p] \in Nat
      BY <1>1, NodeTyped
    <2>2. CASE p = a
      BY <1>3, <1>5, <2>2
    <2>3. CASE p # a
      <3>1. by_path[p] # by_path[a]
        BY <1>1, <2>3 DEF Numbered
      <3>2. by_path[a] \in Nat
        BY <1>1, NodeTyped
      <3>3. by_path[p] + 1 # by_path[a] + 1
        BY <2>1, <3>1, <3>2
      <3> QED
        BY <1>1, <1>5, <2>1, <2>3, <3>3
    <2> QED
      BY <2>2, <2>3
  <1>8. \A p \in Paths : NodeAt(p)' = nodes'[by_path[p] + 1]
    BY DEF NodeAt
  <1> QED
    BY <1>1, <1>6, <1>7, <1>8 DEF Relabelled

\* Nothing of the tree's shape changes.
LEMMA ShapeRelabelled ==
    ASSUME Tree, NEW a \in Paths, Relabelled(a), layout \in EntryRecords, li \in Nat \ {0}
    PROVE  Numbered' /\ Linked'
  <1>1. Standing /\ Numbered /\ Linked /\ by_path' = by_path /\ Len(nodes') = Len(nodes)
    BY DEF Tree, Relabelled
  <1>2. Paths' = Paths
    BY <1>1 DEF Paths
  <1>3. \A p \in Paths : NodeAt(p)'.name = NodeAt(p).name /\ Children(p)' = Children(p)
    BY <1>1, NodeTyped, AttachedIs DEF Relabelled, Children
  <1>4. Numbered'
    BY <1>1, <1>2 DEF Numbered
  <1>5. ASSUME NEW p \in Paths \ {<<>>} PROVE Hangs(p)'
    BY <1>1, <1>2, <1>3 DEF Hangs, Linked
  <1>6. ASSUME NEW p \in Paths PROVE ListsOwn(p)'
    BY <1>1, <1>2, <1>3 DEF ListsOwn, Linked
  <1> QED
    BY <1>2, <1>4, <1>5, <1>6 DEF Linked

(***************************************************************************)
(* The table against the entries.                                          *)
(***************************************************************************)
\* The first of some entries.
LEMMA FirstOf ==
    ASSUME NEW s, s \subseteq Nat, s # {}
    PROVE  First(s) \in s /\ First(s) \in Nat /\ \A j \in s : First(s) <= j
  <1>1. \E i \in s : \A j \in s : i <= j
    BY LeastOf
  <1> QED
    BY <1>1 DEF First

\* A later entry is not the first, unless it is the only one.
LEMMA FirstGrows ==
    ASSUME NEW s, s \subseteq Nat, NEW n \in Nat, \A j \in s : j < n
    PROVE  /\ s # {} => First(s \union {n}) = First(s)
           /\ s = {} => First(s \union {n}) = n
  <1>1. /\ First(s \union {n}) \in s \union {n} /\ First(s \union {n}) \in Nat
        /\ \A j \in s \union {n} : First(s \union {n}) <= j
    BY FirstOf
  <1>2. CASE s # {}
    <2>1. First(s) \in s /\ First(s) \in Nat /\ \A j \in s : First(s) <= j
      BY <1>2, FirstOf
    <2>2. First(s \union {n}) <= First(s)
      BY <1>1, <2>1
    <2>3. First(s) <= First(s \union {n})
      BY <1>1, <2>1
    <2> QED
      BY <1>1, <1>2, <2>1, <2>2, <2>3
  <1>3. CASE s = {}
    BY <1>1, <1>3
  <1> QED
    BY <1>2, <1>3

\* The two ways the loops go on from a component.
AtLeaf == ci + 1 = Len(path) /\ li' = li + 1 /\ ci' = 0 /\ layouts' = layouts
OnTheWay == ci + 1 < Len(path) /\ li' = li /\ ci' = ci + 1 /\ layouts' = layouts

\* Either adds the entry to those seen of the path up to the component, if at all
\* as the last.
LEMMA SeenOfAcc ==
    ASSUME Standing, li <= Len(layouts), AtLeaf \/ OnTheWay
    PROVE  \A a : a = acc =>
              /\ SeenMentions(a)' = SeenMentions(a) \union {li}
              /\ AtLeaf => SeenRecords(a)' = SeenRecords(a) \union {li}
              /\ OnTheWay => SeenRecords(a)' = SeenRecords(a)
              /\ \A j \in SeenMentions(a) : j \in Nat /\ j < li
  <1> SUFFICES ASSUME NEW a, a = acc
               PROVE  /\ SeenMentions(a)' = SeenMentions(a) \union {li}
                      /\ AtLeaf => SeenRecords(a)' = SeenRecords(a) \union {li}
                      /\ OnTheWay => SeenRecords(a)' = SeenRecords(a)
                      /\ \A j \in SeenMentions(a) : j \in Nat /\ j < li
    OBVIOUS
  <1>1. /\ li \in 1..Len(layouts) /\ path = PathOf(li) /\ path \in Seq(STRING)
        /\ Len(path) \in Nat /\ ci \in Nat /\ Len(layouts) \in Nat
    BY LayoutTyped, EntryTyped DEF Standing
  <1>2. ci + 1 <= Len(path) /\ layouts' = layouts
    BY <1>1 DEF AtLeaf, OnTheWay
  <1>3. a \in Seq(STRING) /\ Len(a) = ci + 1 /\ a = SubSeq(path, 1, ci + 1)
    BY <1>1, <1>2, AccFacts DEF acc
  <1>4. li \in Mentions(a)
    BY <1>1, <1>2, <1>3 DEF Mentions, IsPrefixOf
  <1>5. Mentions(a)' = Mentions(a) /\ Records(a)' = Records(a)
    BY <1>2 DEF Mentions, Records, PathOf, Entry
  <1>6. Mentions(a) \subseteq 1..Len(layouts) /\ Records(a) \subseteq 1..Len(layouts)
    BY DEF Mentions, Records
  <1>7. \A j \in SeenMentions(a) : j \in Nat /\ j < li
    BY <1>1, <1>3, <1>6 DEF SeenMentions
  <1>8. SeenMentions(a)' = SeenMentions(a) \union {li}
    <2>1. SeenMentions(a)' = {i \in Mentions(a) : i < li' \/ (i = li' /\ Len(a) <= ci')}
      BY <1>5 DEF SeenMentions
    <2>2. \A i \in Mentions(a) : (i < li' \/ (i = li' /\ Len(a) <= ci')) <=> (i < li \/ i = li)
      BY <1>1, <1>3, <1>6 DEF AtLeaf, OnTheWay
    <2>3. \A i \in Mentions(a) : (i < li \/ (i = li /\ Len(a) <= ci)) <=> i < li
      BY <1>1, <1>3, <1>6
    <2> QED
      BY <1>4, <2>1, <2>2, <2>3 DEF SeenMentions
  <1>9. SeenRecords(a)' = {i \in Records(a) : i < li'}
    BY <1>5 DEF SeenRecords
  <1>10. ASSUME AtLeaf PROVE SeenRecords(a)' = SeenRecords(a) \union {li}
    <2>1. path = a
      <3>1. Len(a) = Len(path) /\ \A k \in 1..Len(path) : a[k] = path[k]
        BY <1>1, <1>3, <1>10, PrefixIs DEF AtLeaf
      <3> QED
        BY <1>1, <1>3, <3>1
    <2>2. li \in Records(a)
      BY <1>1, <2>1 DEF Records
    <2>3. \A i \in Records(a) : i < li' <=> i < li \/ i = li
      BY <1>1, <1>6, <1>10 DEF AtLeaf
    <2> QED
      BY <1>9, <2>2, <2>3 DEF SeenRecords
  <1>11. ASSUME OnTheWay PROVE SeenRecords(a)' = SeenRecords(a)
    BY <1>9, <1>11 DEF OnTheWay, SeenRecords
  <1> QED
    BY <1>7, <1>8, <1>10, <1>11

\* Nothing new is seen of another path.
LEMMA SeenOfOthers ==
    ASSUME Standing, li <= Len(layouts), AtLeaf \/ OnTheWay
    PROVE  \A p \in Seq(STRING) : p # acc /\ p # <<>> =>
              SeenMentions(p)' = SeenMentions(p) /\ SeenRecords(p)' = SeenRecords(p)
  <1> SUFFICES ASSUME NEW p \in Seq(STRING), p # acc, p # <<>>
               PROVE  SeenMentions(p)' = SeenMentions(p) /\ SeenRecords(p)' = SeenRecords(p)
    OBVIOUS
  <1>1. /\ li \in 1..Len(layouts) /\ path = PathOf(li) /\ path \in Seq(STRING)
        /\ Len(path) \in Nat /\ ci \in Nat /\ Len(layouts) \in Nat
    BY LayoutTyped, EntryTyped DEF Standing
  <1>2. layouts' = layouts /\ Len(p) \in Nat /\ Len(p) # 0
    BY DEF AtLeaf, OnTheWay
  <1>3. Mentions(p)' = Mentions(p) /\ Records(p)' = Records(p)
    BY <1>2 DEF Mentions, Records, PathOf, Entry
  <1>4. Mentions(p) \subseteq 1..Len(layouts) /\ Records(p) \subseteq 1..Len(layouts)
    BY DEF Mentions, Records
  <1>5. li \in Mentions(p) => Len(p) # ci + 1 /\ Len(p) <= Len(path)
    BY <1>1 DEF Mentions, IsPrefixOf, acc
  <1>6. li \in Records(p) => li \in Mentions(p) /\ Len(p) = Len(path)
    <2>1. ASSUME li \in Records(p) PROVE li \in Mentions(p) /\ p = path
      <3>1. p = path
        BY <1>1, <2>1 DEF Records
      <3>2. SubSeq(path, 1, Len(path)) = path
        BY <1>1
      <3> QED
        BY <1>1, <3>1, <3>2 DEF Mentions, IsPrefixOf
    <2> QED
      BY <2>1
  <1>7. SeenMentions(p)' = {i \in Mentions(p) : i < li' \/ (i = li' /\ Len(p) <= ci')}
    BY <1>3 DEF SeenMentions
  <1>8. ASSUME NEW i \in Mentions(p)
        PROVE  (i < li' \/ (i = li' /\ Len(p) <= ci')) <=> (i < li \/ (i = li /\ Len(p) <= ci))
    BY <1>1, <1>2, <1>4, <1>5 DEF AtLeaf, OnTheWay
  <1>9. SeenMentions(p)' = SeenMentions(p)
    BY <1>7, <1>8 DEF SeenMentions
  <1>10. SeenRecords(p)' = {i \in Records(p) : i < li'}
    BY <1>3 DEF SeenRecords
  <1>11. ASSUME NEW i \in Records(p) PROVE i < li' <=> i < li
    BY <1>1, <1>4, <1>5, <1>6 DEF AtLeaf, OnTheWay
  <1> QED
    BY <1>9, <1>10, <1>11 DEF SeenRecords

\* What an entry has as its own it also mentions.
LEMMA RecordsMention ==
    ASSUME layouts \in Archives, NEW p
    PROVE  SeenRecords(p) \subseteq SeenMentions(p) /\ SeenMentions(p) \subseteq Nat
  <1>1. ASSUME NEW i \in SeenRecords(p) PROVE i \in SeenMentions(p)
    <2>1. i \in 1..Len(layouts) /\ PathOf(i) = p /\ i < li
      BY DEF SeenRecords, Records
    <2>2. p \in Seq(STRING)
      BY <2>1, EntryTyped
    <2>3. SubSeq(p, 1, Len(p)) = p /\ Len(p) <= Len(p)
      BY <2>2
    <2> QED
      BY <2>1, <2>3 DEF SeenMentions, Mentions, IsPrefixOf
  <1>2. SeenMentions(p) \subseteq Nat
    BY EntryTyped DEF SeenMentions, Mentions
  <1> QED
    BY <1>1, <1>2

\* A path without a node was mentioned by nobody.
LEMMA UnknownIsNew ==
    ASSUME Standing, Covered, li <= Len(layouts), ci + 1 <= Len(path), acc \notin Paths
    PROVE  SeenMentions(acc) = {} /\ SeenRecords(acc) = {}
  <1>1. /\ li \in 1..Len(layouts) /\ path \in Seq(STRING) /\ ci \in Nat /\ Len(layouts) \in Nat
    BY LayoutTyped, EntryTyped DEF Standing
  <1>2. acc \in Seq(STRING) /\ Len(acc) = ci + 1
    BY <1>1, AccFacts
  <1>3. ASSUME NEW i \in SeenMentions(acc) PROVE FALSE
    <2>1. /\ i \in 1..Len(layouts) /\ Len(acc) <= Len(PathOf(i)) /\ SubSeq(PathOf(i), 1, Len(acc)) = acc
          /\ i < li
      BY <1>1, <1>2 DEF SeenMentions, Mentions, IsPrefixOf
    <2>2. Len(PathOf(i)) \in Nat
      BY <2>1, EntryTyped DEF Standing
    <2>3. Len(acc) \in 1..Len(PathOf(i))
      BY <1>1, <1>2, <2>1, <2>2
    <2>4. acc \in Paths
      BY <2>1, <2>3 DEF Covered
    <2> QED
      BY <2>4
  <1> QED
    BY <1>3, RecordsMention DEF Standing

\* Every component gets a node, or has one.
LEMMA CoveredStep ==
    ASSUME Standing, Covered, li <= Len(layouts), AtLeaf \/ OnTheWay,
           \A a : a = acc => Paths \union {a} \subseteq Paths'
    PROVE  Covered'
  <1>1. /\ li \in 1..Len(layouts) /\ path = PathOf(li) /\ path \in Seq(STRING)
        /\ Len(path) \in Nat /\ ci \in Nat /\ Len(layouts) \in Nat /\ layouts' = layouts
    BY LayoutTyped, EntryTyped DEF Standing, AtLeaf, OnTheWay
  <1>2. \A i : PathOf(i)' = PathOf(i)
    BY <1>1 DEF PathOf, Entry
  <1>3. Paths \subseteq Paths' /\ acc \in Paths' /\ acc = SubSeq(path, 1, ci + 1)
    BY DEF acc
  <1>4. ASSUME NEW i \in 1..Len(layouts), NEW n \in 1..Len(PathOf(i)),
               i < li' \/ (i = li' /\ n <= ci')
        PROVE  SubSeq(PathOf(i), 1, n) \in Paths'
    <2>1. n \in Nat /\ i \in Nat
      BY <1>1, EntryTyped DEF Standing
    <2>2. CASE i < li \/ (i = li /\ n <= ci)
      BY <1>3, <2>2 DEF Covered
    <2>3. CASE ~(i < li \/ (i = li /\ n <= ci))
      <3>1. i = li /\ n = ci + 1
        BY <1>1, <1>4, <2>1, <2>3 DEF AtLeaf, OnTheWay
      <3> QED
        BY <1>1, <1>3, <3>1
    <2> QED
      BY <2>2, <2>3
  <1> QED
    BY <1>1, <1>2, <1>4 DEF Covered

\* A node whose path is mentioned once more stays what it should be.
LEMMA IsNodeMentioned ==
    ASSUME NEW node, NEW ls, NEW m, NEW r, NEW n \in Nat, m \subseteq Nat, \A j \in m : j < n,
           IsNode(node, ls, m, r)
    PROVE  IsNode(node, ls, m \union {n}, r)
  <1>1. m # {}
    BY DEF IsNode
  <1>2. First(m \union {n}) = First(m)
    BY <1>1, FirstGrows
  <1> QED
    BY <1>1, <1>2 DEF IsNode

\* So does one whose record comes, once it is attached.
LEMMA IsNodeAttached ==
    ASSUME NEW node \in NodeRecords, NEW m, NEW r, li \in Nat \ {0}, m \subseteq Nat, r \subseteq m,
           \A j \in m : j < li, layout \in EntryRecords, layout = layouts[li],
           IsNode(node, layouts, m, r)
    PROVE  IsNode(Attached(node), layouts, m \union {li}, r \union {li})
  <1> DEFINE new == Attached(node)
  <1>0. m # {}
    BY DEF IsNode
  <1>1. m # {} /\ First(m) \in m /\ First(m) # li
    <2>1. First(m) \in m /\ First(m) \in Nat
      BY <1>0, FirstOf
    <2>2. First(m) < li
      BY <2>1
    <2> QED
      BY <1>0, <2>1, <2>2
  <1>2. First(m \union {li}) = First(m)
    BY <1>1, FirstGrows
  <1>3. First(m) \in r \union {li} <=> First(m) \in r
    BY <1>1
  <1>4. new.kind = node.kind /\ new.size = node.size
    BY AttachedIs
  <1>5. CASE r = {}
    <2>1. node.entry_idx = None
      BY <1>5 DEF IsNode
    <2>2. new.entry_idx = li - 1 /\ new.times = TimesOf(layout)
      BY <2>1, AttachedIs
    <2>3. First(r \union {li}) = li
      BY <1>5, FirstGrows
    <2> HIDE DEF new
    <2>4. IsNode(new, layouts, m \union {li}, r \union {li})
      BY <1>1, <1>2, <1>3, <1>4, <2>2, <2>3 DEF IsNode
    <2> QED
      BY <2>4 DEF new
  <1>6. CASE r # {}
    <2>1. First(r) \in Nat /\ First(r) \in r
      BY <1>6, FirstOf
    <2>2. node.entry_idx = First(r) - 1 /\ None \notin Int
      BY <1>6, TreeAssumption DEF IsNode
    <2>3. new = node
      BY <2>1, <2>2, AttachedIs
    <2>4. First(r \union {li}) = First(r)
      BY <1>6, FirstGrows
    <2> HIDE DEF new
    <2>5. IsNode(node, layouts, m \union {li}, r \union {li})
      BY <1>1, <1>2, <1>3, <1>6, <2>4 DEF IsNode
    <2> QED
      BY <2>3, <2>5 DEF new
  <1> QED
    BY <1>5, <1>6

\* The root is a node.
LEMMA RootTyped == Root \in NodeRecords
  <1>1. NoTimes \in [Clocks -> TimeStamps \union {None}] /\ <<>> \in Seq(Nat)
    BY DEF NoTimes
  <1> QED
    BY <1>1 DEF Root, NodeRecords

\* The nodes build_tree makes are what one entry alone should give.
LEMMA NewNodes ==
    ASSUME Standing, li <= Len(layouts), ci + 1 <= Len(path)
    PROVE  /\ EntryNode \in NodeRecords /\ EntryNode.name = path[ci + 1] /\ EntryNode.children = <<>>
           /\ EntryNode.entry_idx # None
           /\ IsNode(EntryNode, layouts, {li}, {li})
           /\ ImpliedDir \in NodeRecords /\ ImpliedDir.name = path[ci + 1]
           /\ ImpliedDir.children = <<>> /\ ImpliedDir.kind = "Dir"
           /\ IsNode(ImpliedDir, layouts, {li}, {})
  <1>1. /\ li \in 1..Len(layouts) /\ layout \in EntryRecords /\ path \in Seq(STRING) /\ ci \in Nat
    BY LayoutTyped DEF Standing
  <1>2. path[ci + 1] \in STRING /\ layout.uncompressed_size \in Nat /\ layout = layouts[li]
        /\ li - 1 \in Nat /\ li \in Nat
    BY <1>1, AccFacts DEF EntryRecords, layout
  <1>3. TimesOf(layout) \in [Clocks -> TimeStamps \union {None}]
    BY <1>1, TimesOfEntry
  <1>4. NoTimes \in [Clocks -> TimeStamps \union {None}]
    BY DEF NoTimes
  <1>5. None \notin Nat
    BY TreeAssumption
  <1>6. First({li}) = li
    <2>1. First({} \union {li}) = li
      BY <1>2, FirstGrows
    <2>2. {} \union {li} = {li}
      OBVIOUS
    <2> QED
      BY <2>1, <2>2
  <1>7. EntryNode \in NodeRecords
    <2> DEFINE kind == IF is_dir(layout.raw) THEN "Dir" ELSE "File"
               size == IF is_dir(layout.raw) THEN 0 ELSE layout.uncompressed_size
    <2>1. kind \in {"Dir", "File"} /\ size \in Nat /\ <<>> \in Seq(Nat)
      BY <1>2
    <2>2. EntryNode = [ entry_idx |-> li - 1, name |-> path[ci + 1], times |-> TimesOf(layout),
                        kind |-> kind, size |-> size, children |-> <<>> ]
      BY DEF EntryNode
    <2> HIDE DEF kind, size
    <2> QED
      BY <1>2, <1>3, <2>1, <2>2 DEF NodeRecords
  <1>8. /\ EntryNode.name = path[ci + 1] /\ EntryNode.children = <<>> /\ EntryNode.entry_idx # None
    BY <1>2, <1>5 DEF EntryNode
  <1>9. IsNode(EntryNode, layouts, {li}, {li})
    BY <1>2, <1>6 DEF EntryNode, IsNode
  <1>10. ImpliedDir \in NodeRecords
    BY <1>2, RootTyped DEF ImpliedDir, NodeRecords
  <1>11. /\ ImpliedDir.name = path[ci + 1] /\ ImpliedDir.children = <<>> /\ ImpliedDir.kind = "Dir"
    BY DEF ImpliedDir, Root
  <1>12. IsNode(ImpliedDir, layouts, {li}, {})
    BY <1>6 DEF ImpliedDir, Root, IsNode
  <1> QED
    BY <1>7, <1>8, <1>9, <1>10, <1>11, <1>12

\* Matching after a node was added.
LEMMA MatchingGrown ==
    ASSUME Tree, Matching, li <= Len(layouts), AtLeaf \/ OnTheWay,
           NEW a, a = acc, a \notin Paths, a # <<>>, NEW nd \in NodeRecords, Grown(a, nd),
           IsNode(nd, layouts, {li}, SeenRecords(a)')
    PROVE  Matching'
  <1>1. Standing /\ Numbered /\ Covered /\ Paths \subseteq Seq(STRING) /\ layouts' = layouts
        /\ Len(path) \in Nat /\ ci \in Nat
    BY LayoutTyped DEF Tree, Matching, Numbered, AtLeaf, OnTheWay, Standing
  <1>2. ci + 1 <= Len(path)
    BY <1>1 DEF AtLeaf, OnTheWay
  <1>3. Paths' = Paths \union {a} /\ \A p \in Paths : by_path'[p] = by_path[p]
    BY DEF Grown, Paths
  <1>4. Covered'
    BY <1>1, <1>3, CoveredStep
  <1>5. ASSUME NEW p \in Paths \ {<<>>}
        PROVE  IsNode(NodeAt(p), layouts, SeenMentions(p), SeenRecords(p))'
    <2>1. SeenMentions(p)' = SeenMentions(p) /\ SeenRecords(p)' = SeenRecords(p)
      BY <1>1, SeenOfOthers
    <2>2. IsNode(NodeAt(p), layouts, SeenMentions(p), SeenRecords(p))
      BY DEF Matching
    <2>3. NodeAt(p)' = nodes'[by_path[p] + 1]
      BY <1>3 DEF NodeAt
    <2>4. SameButChildren(nodes'[by_path[p] + 1], NodeAt(p))
      BY DEF Grown
    <2> QED
      BY <1>1, <2>1, <2>2, <2>3, <2>4 DEF IsNode, SameButChildren
  <1>6. IsNode(NodeAt(a), layouts, SeenMentions(a), SeenRecords(a))'
    <2>1. SeenMentions(a) = {}
      BY <1>1, <1>2, UnknownIsNew
    <2>2. SeenMentions(a)' = {li}
      BY <1>1, <2>1, SeenOfAcc
    <2>3. NodeAt(a)' = nd
      BY DEF Grown, NodeAt
    <2> QED
      BY <1>1, <2>2, <2>3
  <1>7. SameButChildren(NodeAt(<<>>), Root)'
    <2>1. NodeAt(<<>>)' = nodes'[by_path[<<>>] + 1] /\ <<>> \in Paths
      BY <1>1, <1>3 DEF NodeAt, Numbered
    <2>2. SameButChildren(nodes'[by_path[<<>>] + 1], NodeAt(<<>>))
      BY <2>1 DEF Grown
    <2> QED
      BY <2>1, <2>2 DEF Matching, SameButChildren
  <1> QED
    BY <1>3, <1>4, <1>5, <1>6, <1>7 DEF Matching

\* Matching when the node of the component is there.
LEMMA MatchingKnown ==
    ASSUME Tree, Matching, li <= Len(layouts), OnTheWay, UNCHANGED <<nodes, by_path>>,
           NEW a, a = acc, a \in Paths
    PROVE  Matching'
  <1>1. Standing /\ Numbered /\ Covered /\ Paths \subseteq Seq(STRING) /\ layouts' = layouts
        /\ Paths' = Paths /\ li \in Nat
    BY LayoutTyped DEF Tree, Matching, Numbered, OnTheWay, Paths
  <1>2. Covered'
    BY <1>1, CoveredStep
  <1>3. ASSUME NEW p \in Paths \ {<<>>}
        PROVE  IsNode(NodeAt(p), layouts, SeenMentions(p), SeenRecords(p))'
    <2>1. IsNode(NodeAt(p), layouts, SeenMentions(p), SeenRecords(p)) /\ NodeAt(p)' = NodeAt(p)
      BY DEF Matching, NodeAt
    <2>2. CASE p # a
      BY <1>1, <2>1, <2>2, SeenOfOthers
    <2>3. CASE p = a
      <3>1. /\ SeenMentions(p)' = SeenMentions(p) \union {li} /\ SeenRecords(p)' = SeenRecords(p)
            /\ \A j \in SeenMentions(p) : j \in Nat /\ j < li
        BY <1>1, <2>3, SeenOfAcc
      <3>2. IsNode(NodeAt(p), layouts, SeenMentions(p) \union {li}, SeenRecords(p))
        BY <1>1, <2>1, <3>1, IsNodeMentioned
      <3> QED
        BY <1>1, <2>1, <3>1, <3>2
    <2> QED
      BY <2>2, <2>3
  <1>4. SameButChildren(NodeAt(<<>>), Root)'
    BY DEF Matching, SameButChildren, NodeAt
  <1> QED
    BY <1>1, <1>2, <1>3, <1>4 DEF Matching

\* Matching when the record of a node comes.
LEMMA MatchingRelabelled ==
    ASSUME Tree, Matching, li <= Len(layouts), AtLeaf, NEW a, a = acc, a \in Paths, a # <<>>,
           Relabelled(a)
    PROVE  Matching'
  <1>1. /\ Standing /\ Numbered /\ Covered /\ Paths \subseteq Seq(STRING) /\ layouts' = layouts
        /\ Paths' = Paths /\ li \in Nat \ {0} /\ layout \in EntryRecords /\ layout = layouts[li]
    BY LayoutTyped DEF Tree, Matching, Numbered, AtLeaf, Relabelled, Paths, layout
  <1>2. Covered'
    BY <1>1, CoveredStep
  <1>3. ASSUME NEW p \in Paths \ {<<>>}
        PROVE  IsNode(NodeAt(p), layouts, SeenMentions(p), SeenRecords(p))'
    <2>1. IsNode(NodeAt(p), layouts, SeenMentions(p), SeenRecords(p))
      BY DEF Matching
    <2>2. CASE p # a
      <3>1. NodeAt(p)' = NodeAt(p)
        BY <2>2 DEF Relabelled
      <3> QED
        BY <1>1, <2>1, <2>2, <3>1, SeenOfOthers
    <2>3. CASE p = a
      <3>1. NodeAt(p)' = Attached(NodeAt(p)) /\ NodeAt(p) \in NodeRecords
        BY <1>1, <2>3, NodeTyped DEF Relabelled
      <3>2. /\ SeenMentions(p)' = SeenMentions(p) \union {li}
            /\ SeenRecords(p)' = SeenRecords(p) \union {li}
            /\ \A j \in SeenMentions(p) : j \in Nat /\ j < li
        BY <1>1, <2>3, SeenOfAcc
      <3>3. SeenRecords(p) \subseteq SeenMentions(p) /\ SeenMentions(p) \subseteq Nat
        BY <1>1, RecordsMention DEF Standing
      <3>4. IsNode(Attached(NodeAt(p)), layouts, SeenMentions(p) \union {li},
                   SeenRecords(p) \union {li})
        BY <1>1, <2>1, <3>1, <3>2, <3>3, IsNodeAttached
      <3> QED
        BY <1>1, <3>1, <3>2, <3>4
    <2> QED
      BY <2>2, <2>3
  <1>4. SameButChildren(NodeAt(<<>>), Root)'
    <2>1. NodeAt(<<>>)' = NodeAt(<<>>)
      BY <1>1 DEF Relabelled, Numbered
    <2> QED
      BY <2>1 DEF Matching, SameButChildren
  <1> QED
    BY <1>1, <1>2, <1>3, <1>4 DEF Matching

(***************************************************************************)
(* The steps of build_tree.                                                *)
(***************************************************************************)
\* On to the next entry.
LEMMA StandingNext ==
    ASSUME Tree, Building, NextEntry, Numbered', nodes' \in Seq(NodeRecords)
    PROVE  Standing'
  <1>1. Standing /\ layouts \in Archives /\ layouts' = layouts /\ pc = "building" /\ pc' = pc
        /\ li <= Len(layouts) /\ walked' = <<>> /\ at' = 0
    BY DEF Tree, Building, Standing
  <1>2. li \in 1..Len(layouts) /\ Len(layouts) \in Nat /\ li' = li + 1 /\ ci' = 0 /\ parent_id' = 0
    BY <1>1, LayoutTyped, EntryTyped DEF NextEntry
  <1>3. Len(nodes') \in Nat /\ <<>> \in Paths' /\ by_path'[<<>>] = 0 /\ 0 \in 0..(Len(nodes') - 1)
    BY DEF Numbered
  <1>4. li' <= Len(layouts) => SubSeq(path', 1, 0) = <<>>
    <2> SUFFICES ASSUME li' <= Len(layouts) PROVE SubSeq(path', 1, 0) = <<>>
      OBVIOUS
    <2>1. li' \in 1..Len(layouts)
      BY <1>2
    <2>2. PathOf(li') \in Seq(STRING)
      BY <1>1, <2>1, EntryTyped
    <2>3. path' = PathOf(li')
      BY <1>1 DEF path, layout, PathOf, Entry
    <2>4. path' \in Seq(STRING)
      BY <2>2, <2>3
    <2> HIDE DEF path
    <2> QED
      BY <2>4, EmptySlice
  <1>5. li' <= Len(layouts) => /\ SubSeq(path', 1, ci') \in Paths'
                               /\ parent_id' = by_path'[SubSeq(path', 1, ci')]
    BY <1>2, <1>3, <1>4
  <1>6. li' \in 1..(Len(layouts) + 1) /\ ci' \in Nat /\ parent_id' \in 0..(Len(nodes') - 1)
    BY <1>2, <1>3
  <1> QED
    BY <1>1, <1>2, <1>5, <1>6 DEF Standing

\* On to the next component.
LEMMA StandingDescends ==
    ASSUME Tree, Building, OnTheWay, Numbered', nodes' \in Seq(NodeRecords),
           \A a : a = acc => a \in Paths' /\ parent_id' = by_path'[a]
    PROVE  Standing'
  <1>1. Standing /\ layouts \in Archives /\ layouts' = layouts /\ pc = "building" /\ pc' = pc
        /\ li <= Len(layouts) /\ walked' = <<>> /\ at' = 0
    BY DEF Tree, Building, Standing
  <1>2. li \in 1..Len(layouts) /\ ci \in Nat /\ li' = li /\ ci' = ci + 1 /\ ci' < Len(path)
    BY <1>1, LayoutTyped DEF OnTheWay, Standing
  <1>3. path' = path
    BY <1>1, <1>2 DEF path, layout
  <1>4. SubSeq(path', 1, ci') \in Paths' /\ parent_id' = by_path'[SubSeq(path', 1, ci')]
    BY <1>2, <1>3 DEF acc
  <1>5. parent_id' \in 0..(Len(nodes') - 1)
    BY <1>4 DEF Numbered
  <1> QED
    BY <1>1, <1>2, <1>3, <1>4, <1>5, LayoutTyped DEF Standing

\* A name of nothing.
LEMMA SkipStep == ASSUME Tree, Matching, SkipEntry PROVE Tree' /\ Matching'
  <1>1. Building /\ NextEntry /\ UNCHANGED <<nodes, by_path>> /\ path = <<>>
    BY DEF SkipEntry
  <1>2. /\ Standing /\ Numbered /\ Linked /\ layouts' = layouts /\ li <= Len(layouts)
        /\ li' = li + 1 /\ ci' = 0 /\ Paths' = Paths /\ layouts \in Archives
    BY <1>1 DEF Tree, Building, NextEntry, Paths, Standing
  <1>3. li \in 1..Len(layouts) /\ Len(layouts) \in Nat /\ path = PathOf(li) /\ ci \in Nat
    BY <1>2, LayoutTyped, EntryTyped DEF Standing
  <1>4. Numbered' /\ Linked'
    BY <1>1, <1>2 DEF Numbered, Linked, Hangs, ListsOwn, Children, NodeAt
  <1>5. Standing'
    BY <1>1, <1>2, <1>4, StandingNext DEF Standing
  <1>6. Len(PathOf(li)) = 0
    BY <1>1, <1>3
  <1>7. \A i : PathOf(i)' = PathOf(i)
    BY <1>2 DEF PathOf, Entry
  <1>8. Covered'
    <2>1. ASSUME NEW i \in 1..Len(layouts), NEW n \in 1..Len(PathOf(i)),
                 i < li' \/ (i = li' /\ n <= ci')
          PROVE  SubSeq(PathOf(i), 1, n) \in Paths'
      <3>1. n \in Nat /\ n > 0
        BY <1>2, EntryTyped
      <3>2. i < li
        BY <1>2, <1>3, <1>6, <2>1, <3>1
      <3> QED
        BY <1>2, <3>2 DEF Matching, Covered
    <2> QED
      BY <1>2, <1>7, <2>1 DEF Covered
  <1>9. ASSUME NEW p \in Paths \ {<<>>}
        PROVE  SeenMentions(p)' = SeenMentions(p) /\ SeenRecords(p)' = SeenRecords(p)
    <2>1. p \in Seq(STRING) /\ Len(p) \in Nat /\ Len(p) > 0
      BY <1>2, ParentIs DEF Numbered
    <2>2. Mentions(p)' = Mentions(p) /\ Records(p)' = Records(p)
      BY <1>2 DEF Mentions, Records, PathOf, Entry
    <2>3. li \notin Mentions(p) /\ li \notin Records(p)
      BY <1>3, <1>6, <2>1 DEF Mentions, Records, IsPrefixOf
    <2>4. Mentions(p) \subseteq 1..Len(layouts) /\ Records(p) \subseteq 1..Len(layouts)
      BY DEF Mentions, Records
    <2>5. SeenMentions(p)' = {i \in Mentions(p) : i < li' \/ (i = li' /\ Len(p) <= ci')}
          /\ SeenRecords(p)' = {i \in Records(p) : i < li'}
      BY <2>2 DEF SeenMentions, SeenRecords
    <2>6. ASSUME NEW i \in Mentions(p)
          PROVE  (i < li' \/ (i = li' /\ Len(p) <= ci')) <=> (i < li \/ (i = li /\ Len(p) <= ci))
      BY <1>2, <1>3, <2>1, <2>3, <2>4
    <2>7. ASSUME NEW i \in Records(p) PROVE i < li' <=> i < li
      BY <1>2, <1>3, <2>3, <2>4
    <2> QED
      BY <2>5, <2>6, <2>7 DEF SeenMentions, SeenRecords
  <1>10. \A p : NodeAt(p)' = NodeAt(p)
    BY <1>1 DEF NodeAt
  <1>11. Matching'
    BY <1>2, <1>8, <1>9, <1>10 DEF Matching
  <1> QED
    BY <1>4, <1>5, <1>11 DEF Tree

\* The last component: a new node, or the record of one that is there.
LEMMA LeafStep == ASSUME Tree, Matching, AddLeaf PROVE Tree' /\ Matching'
  <1>1. Building /\ NextEntry /\ AtLeaf /\ pc = "building" /\ li <= Len(layouts)
        /\ Leaf /\ Standing /\ Numbered
    BY DEF AddLeaf, Building, NextEntry, AtLeaf, Tree
  <1>2. /\ layout \in EntryRecords /\ path \in Seq(STRING) /\ Len(path) \in Nat /\ ci \in Nat
        /\ li \in Nat \ {0} /\ ci + 1 <= Len(path)
    BY <1>1, LayoutTyped DEF AtLeaf, Standing
  <1>3. PICK a : a = acc
    OBVIOUS
  <1>4. a \in Seq(STRING) /\ a # <<>>
    BY <1>2, <1>3, AccFacts
  <1>5. CASE known /\ by_path' = by_path /\ nodes' = [nodes EXCEPT ![by_path[acc] + 1] = Attached(@)]
    <2>1. a \in Paths /\ Relabelled(a)
      BY <1>1, <1>3, <1>5, LeafRelabels
    <2>2. Numbered' /\ Linked'
      BY <1>2, <2>1, ShapeRelabelled
    <2>3. Standing'
      BY <1>1, <2>1, <2>2, StandingNext DEF Relabelled
    <2>4. Matching'
      BY <1>1, <1>3, <1>4, <2>1, MatchingRelabelled
    <2> QED
      BY <2>2, <2>3, <2>4 DEF Tree
  <1>6. CASE ~known /\ Push(EntryNode)
    <2>1. PICK nd : nd = EntryNode
      OBVIOUS
    <2>2. /\ nd \in NodeRecords /\ nd.name = path[ci + 1] /\ nd.children = <<>>
          /\ IsNode(nd, layouts, {li}, {li})
      BY <1>1, <1>2, <2>1, NewNodes
    <2>3. Push(nd)
      BY <1>6, <2>1
    <2>4. /\ Grown(a, nd) /\ a \notin Paths /\ Parent(a) \in Paths /\ a[Len(a)] = path[ci + 1]
      BY <1>1, <1>2, <1>3, <1>6, <2>2, <2>3, PushGrows
    <2>5. Numbered' /\ Linked'
      BY <1>4, <2>2, <2>4, NumberedGrown, LinkedGrown
    <2>6. Standing'
      BY <1>1, <2>4, <2>5, StandingNext DEF Grown
    <2>7. SeenRecords(a) = {}
      BY <1>1, <1>2, <1>3, <2>4, UnknownIsNew DEF Matching
    <2>8. SeenRecords(a)' = {li}
      BY <1>1, <1>3, <2>7, SeenOfAcc
    <2>9. Matching'
      BY <1>1, <1>3, <1>4, <2>2, <2>4, <2>8, MatchingGrown
    <2> QED
      BY <2>5, <2>6, <2>9 DEF Tree
  <1> QED
    BY <1>1, <1>5, <1>6 DEF Leaf

\* A component on the way: a directory that is implied, or the node that is there.
LEMMA DescendStep == ASSUME Tree, Matching, Descend PROVE Tree' /\ Matching'
  <1>1. Building /\ OnTheWay /\ pc = "building" /\ li <= Len(layouts) /\ Standing /\ Numbered /\ Linked
    BY DEF Descend, Building, OnTheWay, Tree
  <1>2. /\ layout \in EntryRecords /\ path \in Seq(STRING) /\ Len(path) \in Nat /\ ci \in Nat
        /\ li \in Nat \ {0} /\ ci + 1 <= Len(path)
    BY <1>1, LayoutTyped DEF OnTheWay, Standing
  <1>3. PICK a : a = acc
    OBVIOUS
  <1>4. a \in Seq(STRING) /\ a # <<>>
    BY <1>2, <1>3, AccFacts
  <1>5. CASE known /\ parent_id' = by_path[acc] /\ UNCHANGED <<nodes, by_path>>
    <2>1. a \in Paths /\ Paths' = Paths
      BY <1>3, <1>5 DEF known, Paths
    <2>2. Numbered' /\ Linked'
      BY <1>1, <1>5, <2>1 DEF Numbered, Linked, Hangs, ListsOwn, Children, NodeAt
    <2>3. Standing'
      BY <1>1, <1>3, <1>5, <2>1, <2>2, StandingDescends DEF Standing
    <2>4. Matching'
      BY <1>1, <1>3, <1>5, <2>1, MatchingKnown
    <2> QED
      BY <2>2, <2>3, <2>4 DEF Tree
  <1>6. CASE ~known /\ Push(ImpliedDir) /\ parent_id' = NewId
    <2>1. PICK nd : nd = ImpliedDir
      OBVIOUS
    <2>2. /\ nd \in NodeRecords /\ nd.name = path[ci + 1] /\ nd.children = <<>>
          /\ IsNode(nd, layouts, {li}, {})
      BY <1>1, <1>2, <2>1, NewNodes
    <2>3. Push(nd)
      BY <1>6, <2>1
    <2>4. /\ Grown(a, nd) /\ a \notin Paths /\ Parent(a) \in Paths /\ a[Len(a)] = path[ci + 1]
      BY <1>1, <1>2, <1>3, <1>6, <2>2, <2>3, PushGrows
    <2>5. Numbered' /\ Linked'
      BY <1>4, <2>2, <2>4, NumberedGrown, LinkedGrown
    <2>6. a \in Paths' /\ parent_id' = by_path'[a]
      BY <1>6, <2>4 DEF Grown, Paths, NewId
    <2>7. Standing'
      BY <1>1, <1>3, <2>4, <2>5, <2>6, StandingDescends DEF Grown
    <2>8. SeenRecords(a)' = {}
      BY <1>1, <1>2, <1>3, <2>4, UnknownIsNew, SeenOfAcc DEF Matching
    <2>9. Matching'
      BY <1>1, <1>3, <1>4, <2>2, <2>4, <2>8, MatchingGrown
    <2> QED
      BY <2>5, <2>7, <2>9 DEF Tree
  <1> QED
    BY <1>5, <1>6 DEF Descend

\* Steps that leave the table alone.
LEMMA TableKept ==
    ASSUME Tree, Matching, UNCHANGED <<layouts, nodes, by_path, li, ci>>
    PROVE  Numbered' /\ Linked' /\ Matching'
  <1>1. Paths' = Paths /\ Numbered /\ Linked
    BY DEF Paths, Tree
  <1>2. \A p : NodeAt(p)' = NodeAt(p) /\ SeenMentions(p)' = SeenMentions(p)
               /\ SeenRecords(p)' = SeenRecords(p)
    BY DEF NodeAt, SeenMentions, SeenRecords, Mentions, Records, PathOf, Entry
  <1>3. Numbered' /\ Linked'
    <2>1. \A p : Children(p)' = Children(p)
      BY <1>2 DEF Children
    <2>2. Numbered'
      BY <1>1 DEF Numbered
    <2>3. ASSUME NEW p \in Paths \ {<<>>} PROVE Hangs(p)'
      BY <1>1, <1>2, <2>1 DEF Hangs, Linked
    <2>4. ASSUME NEW p \in Paths PROVE ListsOwn(p)'
      BY <1>1, <2>1 DEF ListsOwn, Linked
    <2> QED
      BY <1>1, <2>2, <2>3, <2>4 DEF Linked
  <1>4. \A i : PathOf(i)' = PathOf(i)
    BY DEF PathOf, Entry
  <1>5. Covered'
    BY <1>1, <1>4 DEF Matching, Covered
  <1> QED
    BY <1>1, <1>2, <1>3, <1>5 DEF Matching

(***************************************************************************)
(* Walks.                                                                  *)
(***************************************************************************)
\* What a node lists, by position.
LEMMA ChildIs ==
    ASSUME Tree, NEW w \in Paths, NEW k \in 1..Len(Children(w))
    PROVE  \E q \in Paths \ {<<>>} :
              /\ Parent(q) = w /\ by_path[q] = Children(w)[k] /\ by_path[q] \in Nat
              /\ nodes[Children(w)[k] + 1] = NodeAt(q) /\ NodeAt(q).name = q[Len(q)]
              /\ q \in Seq(STRING)
  <1>1. Standing /\ Numbered /\ Linked /\ ListsOwn(w)
    BY DEF Tree, Linked
  <1>2. PICK q \in Paths \ {<<>>} : Parent(q) = w /\ by_path[q] = Children(w)[k]
    BY <1>1 DEF ListsOwn
  <1>3. NodeAt(q) = nodes[by_path[q] + 1] /\ by_path[q] \in Nat
    BY <1>1, NodeTyped
  <1>4. NodeAt(q).name = q[Len(q)] /\ q \in Seq(STRING)
    BY <1>1 DEF Linked, Hangs, Numbered
  <1> QED
    BY <1>2, <1>3, <1>4

\* A path and one more name.
LEMMA AppendName ==
    ASSUME NEW w \in Seq(STRING), NEW name \in STRING
    PROVE  /\ Append(w, name) \in Seq(STRING) /\ Append(w, name) # <<>>
           /\ Parent(Append(w, name)) = w
           /\ Append(w, name)[Len(Append(w, name))] = name
           /\ Len(Append(w, name)) = Len(w) + 1
  <1> DEFINE q == Append(w, name)
  <1>1. /\ q \in Seq(STRING) /\ Len(q) = Len(w) + 1 /\ q[Len(w) + 1] = name
        /\ \A k \in 1..Len(w) : q[k] = w[k]
    <2> DEFINE T == STRING
    <2>1. PICK e : e = name
      OBVIOUS
    <2>2. w \in Seq(T) /\ e \in T
      BY <2>1
    <2> HIDE DEF T
    <2>3. /\ Append(w, e) \in Seq(T) /\ Len(Append(w, e)) = Len(w) + 1
          /\ Append(w, e)[Len(w) + 1] = e
          /\ \A k \in 1..Len(w) : Append(w, e)[k] = w[k]
      BY <2>2, AppendIs
    <2> QED
      BY <2>1, <2>3 DEF T
  <1>2. Len(w) \in Nat
    OBVIOUS
  <1> HIDE DEF q
  <1>3. q # <<>>
    BY <1>1, <1>2
  <1>4. Parent(q) \in Seq(STRING) /\ Len(Parent(q)) = Len(w) /\ \A k \in 1..Len(w) : Parent(q)[k] = q[k]
    BY <1>1, <1>2, <1>3, ParentIs
  <1>5. Parent(q) = w
    BY <1>1, <1>2, <1>4
  <1> QED
    BY <1>1, <1>2, <1>3, <1>5 DEF q

\* lookup finds the node of the path one name longer, if there is one.
LEMMA LookupFinds ==
    ASSUME Tree, NEW w \in Paths, NEW name \in STRING
    PROVE  lookup(by_path[w], name) =
              IF NodeAt(w).kind = "File" THEN Err
              ELSE IF Append(w, name) \in Paths THEN by_path[Append(w, name)] ELSE None
  <1> DEFINE found == Matches(Children(w), name)
             q == Append(w, name)
  <1>1. Standing /\ Numbered /\ Linked /\ w \in Seq(STRING)
    BY DEF Tree, Numbered
  <1>2. NodeAt(w) \in NodeRecords /\ NodeAt(w) = nodes[by_path[w] + 1] /\ Len(Children(w)) \in Nat
    BY <1>1, NodeTyped
  <1>3. lookup(by_path[w], name) =
          IF NodeAt(w).kind # "Dir" THEN Err
          ELSE IF found = {} THEN None
          ELSE Children(w)[CHOOSE i \in found : \A j \in found : i <= j]
    BY <1>2 DEF lookup, Children
  <1>4. NodeAt(w).kind \in {"Dir", "File"}
    BY <1>2 DEF NodeRecords
  <1>5. /\ q \in Seq(STRING) /\ q # <<>> /\ Parent(q) = w /\ q[Len(q)] = name
    BY <1>1, AppendName
  <1> HIDE DEF q
  <1>6. found \subseteq Nat /\ found \subseteq 1..Len(Children(w))
    BY <1>2 DEF Matches
  <1>7. ASSUME NEW i \in found PROVE q \in Paths /\ Children(w)[i] = by_path[q]
    <2>1. i \in 1..Len(Children(w)) /\ nodes[Children(w)[i] + 1].name = name
      BY <1>7 DEF Matches
    <2>2. PICK r \in Paths \ {<<>>} :
             /\ Parent(r) = w /\ by_path[r] = Children(w)[i]
             /\ nodes[Children(w)[i] + 1] = NodeAt(r) /\ NodeAt(r).name = r[Len(r)]
             /\ r \in Seq(STRING)
      BY <2>1, ChildIs
    <2>3. r = q
      BY <1>5, <2>1, <2>2, SamePath
    <2> QED
      BY <2>2, <2>3
  <1>8. ASSUME q \in Paths PROVE found # {}
    <2>1. Hangs(q)
      BY <1>1, <1>5, <1>8 DEF Linked
    <2>2. PICK k \in 1..Len(Children(w)) : Children(w)[k] = by_path[q]
      BY <1>5, <2>1 DEF Hangs
    <2>3. nodes[Children(w)[k] + 1].name = name
      BY <1>5, <2>1, <2>2 DEF Hangs, NodeAt
    <2> QED
      BY <2>2, <2>3 DEF Matches
  <1> HIDE DEF found
  <1>9. CASE found = {}
    <2>1. q \notin Paths
      BY <1>8, <1>9
    <2> QED
      BY <1>3, <1>4, <1>9, <2>1 DEF q
  <1>10. CASE found # {}
    <2> DEFINE i == CHOOSE i \in found : \A j \in found : i <= j
    <2>1. i \in found
      BY <1>6, <1>10, LeastOf
    <2>2. q \in Paths /\ Children(w)[i] = by_path[q]
      BY <1>7, <2>1
    <2> HIDE DEF i
    <2>3. lookup(by_path[w], name) = IF NodeAt(w).kind # "Dir" THEN Err ELSE Children(w)[i]
      BY <1>3, <1>10 DEF i
    <2> QED
      BY <1>4, <2>2, <2>3 DEF q
  <1> QED
    BY <1>9, <1>10

\* A lookup on the way of a walk.
LEMMA LookupStep ==
    ASSUME IInv, NEW name \in Names, Lookup(name) PROVE IInv'
  <1>1. /\ Tree /\ Matching /\ Walk /\ Standing /\ Numbered /\ pc = "built" /\ name \in STRING
        /\ UNCHANGED <<layouts, nodes, by_path, li, ci, parent_id, pc>>
        /\ walked' = Append(walked, name) /\ at' = lookup(at, name)
        /\ at \notin {None, Err} /\ Len(walked) < MaxDepth
    BY TreeAssumption DEF IInv, Tree, Lookup
  <1>2. Numbered' /\ Linked' /\ Matching'
    BY <1>1, TableKept
  <1>3. Standing'
    BY <1>1 DEF Standing, Paths
  <1>4. walked \in Paths /\ at = by_path[walked] /\ walked \in Seq(STRING)
    BY <1>1 DEF Walk
  <1>5. /\ walked' \in Seq(STRING) /\ walked' # <<>> /\ Parent(walked') = walked
        /\ Len(walked') = Len(walked) + 1
    BY <1>1, <1>4, AppendName
  <1>6. at' = IF NodeAt(walked).kind = "File" THEN Err
              ELSE IF walked' \in Paths THEN by_path[walked'] ELSE None
    BY <1>1, <1>4, LookupFinds
  <1>7. SubSeq(walked', 1, Len(walked') - 1) = walked
    BY <1>5 DEF Parent
  <1>8. Paths' = Paths /\ by_path' = by_path /\ NodeAt(walked) = nodes'[by_path'[walked] + 1]
    BY <1>1 DEF Paths, NodeAt
  <1>9. Arrival'
    BY <1>4, <1>6, <1>7, <1>8 DEF Arrival, NodeAt
  <1>10. walked' \in Paths => by_path[walked'] \in 0..(Len(nodes) - 1)
    BY <1>1 DEF Numbered
  <1>11. Walk'
    <2>1. Len(walked') <= MaxDepth
      BY <1>1, <1>4, <1>5, TreeAssumption
    <2>2. at' \in 0..(Len(nodes') - 1) \union {None, Err}
      BY <1>1, <1>6, <1>10
    <2>3. at' \notin {None, Err} => walked' \in Paths' /\ at' = by_path'[walked']
      BY <1>6, <1>8
    <2> QED
      BY <1>5, <1>9, <2>1, <2>2, <2>3 DEF Walk
  <1> QED
    BY <1>2, <1>3, <1>11 DEF IInv, Tree

\* IInv is an invariant of the build and of every walk.
THEOREM Invariant == Spec => []IInv
  <1>1. Init => IInv
    <2> SUFFICES ASSUME Init PROVE IInv
      OBVIOUS
    <2>1. nodes = <<Root>> /\ nodes \in Seq(NodeRecords) /\ Len(nodes) = 1 /\ nodes[1] = Root
      BY RootTyped DEF Init
    <2>2. Paths = {<<>>} /\ by_path[<<>>] = 0 /\ <<>> \in Seq(STRING)
      BY DEF Init, Paths
    <2>3. Numbered
      BY <2>1, <2>2 DEF Numbered
    <2>4. NodeAt(<<>>) = Root /\ Root.children = <<>>
      <3>1. NodeAt(<<>>) = nodes[0 + 1]
        BY <2>2 DEF NodeAt
      <3>2. 0 + 1 = 1
        OBVIOUS
      <3>3. NodeAt(<<>>) = Root
        BY <2>1, <3>1, <3>2
      <3> QED
        BY <3>3 DEF Root
    <2>5. Linked
      <3>1. Len(Children(<<>>)) = 0
        BY <2>4 DEF Children
      <3> QED
        BY <2>2, <3>1 DEF Linked, ListsOwn
    <2>6. layouts \in Archives /\ Len(layouts) \in Nat
      BY EntryTyped DEF Init
    <2>7. li <= Len(layouts) => SubSeq(path, 1, 0) = <<>>
      <3> SUFFICES ASSUME li <= Len(layouts) PROVE SubSeq(path, 1, 0) = <<>>
        OBVIOUS
      <3>1. 1 \in 1..Len(layouts) /\ li = 1
        BY <2>6 DEF Init
      <3>2. path = PathOf(1)
        BY <3>1 DEF path, layout, PathOf, Entry
      <3>3. path \in Seq(STRING)
        BY <2>6, <3>1, <3>2, EntryTyped
      <3> HIDE DEF path
      <3> QED
        BY <3>3, EmptySlice
    <2>8. Standing
      BY <2>1, <2>2, <2>6, <2>7 DEF Init, Standing
    <2>9. Matching
      <3>1. Covered
        <4>1. ASSUME NEW i \in 1..Len(layouts), NEW n \in 1..Len(PathOf(i)),
                     i < li \/ (i = li /\ n <= ci)
              PROVE  FALSE
          <5>1. n \in Nat /\ n > 0 /\ li = 1 /\ ci = 0
            BY <2>6, EntryTyped DEF Init
          <5> QED
            BY <4>1, <5>1
        <4> QED
          BY <4>1 DEF Covered
      <3> QED
        BY <2>2, <2>4, <3>1 DEF Matching, SameButChildren
    <2>10. Walk
      <3>1. Len(<<>>) = 0
        OBVIOUS
      <3> QED
        BY <2>1, <2>2, <3>1, TreeAssumption DEF Init, Walk
    <2> QED
      BY <2>3, <2>5, <2>8, <2>9, <2>10 DEF IInv, Tree
  <1>2. IInv /\ [Next]_vars => IInv'
    <2> SUFFICES ASSUME IInv, [Next]_vars PROVE IInv'
      OBVIOUS
    <2>0. Tree /\ Matching /\ Walk /\ Standing /\ Numbered
      BY DEF IInv, Tree
    <2>1. ASSUME Building, Tree', Matching' PROVE IInv'
      <3>1. pc' = "building" /\ walked' = <<>> /\ at' = 0
        BY <2>0, <2>1 DEF Building, Standing
      <3>2. 0 \in 0..(Len(nodes') - 1)
        BY <2>1 DEF Tree, Numbered
      <3>3. Len(<<>>) = 0 /\ <<>> \in Seq(STRING)
        OBVIOUS
      <3>4. Walk'
        BY <3>1, <3>2, <3>3, TreeAssumption DEF Walk
      <3> QED
        BY <2>1, <3>4 DEF IInv
    <2>2. CASE SkipEntry
      BY <2>0, <2>1, <2>2, SkipStep DEF SkipEntry
    <2>3. CASE AddLeaf
      BY <2>0, <2>1, <2>3, LeafStep DEF AddLeaf
    <2>4. CASE Descend
      BY <2>0, <2>1, <2>4, DescendStep DEF Descend
    <2>5. CASE Finish
      <3>1. Numbered' /\ Linked' /\ Matching'
        BY <2>0, <2>5, TableKept DEF Finish
      <3>2. Len(layouts) \in Nat
        BY <2>0, EntryTyped DEF Standing
      <3>3. Standing'
        BY <2>0, <2>5, <3>2 DEF Finish, Standing
      <3>4. walked = <<>> /\ at = 0
        BY <2>0, <2>5 DEF Finish, Standing
      <3>5. Walk'
        BY <2>0, <2>5, <3>1, <3>4 DEF Finish, Walk, Numbered
      <3> QED
        BY <3>1, <3>3, <3>5 DEF IInv, Tree
    <2>6. CASE \E name \in Names : Lookup(name)
      BY <2>6, LookupStep
    <2>7. CASE UNCHANGED vars
      <3>1. Numbered' /\ Linked' /\ Matching'
        BY <2>0, <2>7, TableKept DEF vars
      <3>2. Standing' /\ Walk'
        BY <2>0, <2>7 DEF vars, Standing, Walk, Arrival, Paths, NodeAt, path, layout
      <3> QED
        BY <3>1, <3>2 DEF IInv, Tree
    <2> QED
      BY <2>2, <2>3, <2>4, <2>5, <2>6, <2>7 DEF Next, Build
  <1> QED
    BY <1>1, <1>2, PTL DEF Spec

\* The type invariant: the table and the walk are well-formed for any archive.
THEOREM TypeCorrect == Spec => []TypeOK
  <1>1. IInv => TypeOK
    <2> SUFFICES ASSUME IInv PROVE TypeOK
      OBVIOUS
    <2>1. Standing /\ Numbered /\ Walk
      BY DEF IInv, Tree
    <2>2. layouts \in Seq(EntryRecords)
      BY <2>1, EntryTyped DEF Standing
    <2> QED
      BY <2>1, <2>2 DEF TypeOK, Standing, Numbered, Paths, Walk
  <1> QED
    BY <1>1, Invariant, PTL

\* For any list of entries the children lists form a tree: their ids are in the
\* table, each node but the root is in exactly one of them, behind its parent, no
\* two children of a node share a name, and every File node has its entry.
THEOREM TableIsATree == Spec => []IsATree
  <1>1. IInv => IsATree
    <2> SUFFICES ASSUME IInv PROVE IsATree
      OBVIOUS
    <2> DEFINE slots == {s \in (1..Len(nodes)) \X (1..Len(nodes)) : s[2] <= Len(nodes[s[1]].children)}
               child(s) == nodes[s[1]].children[s[2]]
    <2>1. Tree /\ Matching /\ Standing /\ Numbered /\ Linked /\ Len(nodes) \in Nat
      BY DEF IInv, Tree, Standing
    \* Slots by path and position.
    <2>2. ASSUME NEW s \in slots
          PROVE  \E p \in Paths :
                    /\ s[1] = by_path[p] + 1 /\ s[2] \in 1..Len(Children(p))
                    /\ child(s) = Children(p)[s[2]] /\ by_path[p] \in Nat
      <3>1. s[1] \in 1..Len(nodes) /\ s[2] \in 1..Len(nodes) /\ s[2] <= Len(nodes[s[1]].children)
        OBVIOUS
      <3>2. s[1] - 1 \in 0..(Len(nodes) - 1)
        BY <2>1, <3>1
      <3>3. PICK p \in Paths : by_path[p] = s[1] - 1
        BY <2>1, <3>2 DEF Numbered
      <3>4. by_path[p] + 1 = s[1]
        BY <3>1, <3>3
      <3>5. nodes[s[1]].children = Children(p) /\ Len(Children(p)) \in Nat /\ by_path[p] \in Nat
        BY <2>1, <3>4, NodeTyped DEF Children
      <3> QED
        BY <3>1, <3>4, <3>5
    <2>3. ASSUME NEW q \in Paths \ {<<>>}
          PROVE  \E s \in slots : child(s) = by_path[q]
      <3>1. Hangs(q) /\ Parent(q) \in Paths
        BY <2>1 DEF Linked, Hangs
      <3>2. PICK k \in 1..Len(Children(Parent(q))) : Children(Parent(q))[k] = by_path[q]
        BY <3>1 DEF Hangs
      <3>3. by_path[Parent(q)] + 1 \in 1..Len(nodes)
            /\ nodes[by_path[Parent(q)] + 1].children = Children(Parent(q))
            /\ Len(Children(Parent(q))) \in Nat
        BY <2>1, <3>1, NodeTyped DEF Children
      <3>4. Len(Children(Parent(q))) < Len(nodes)
        BY <2>1, <3>1, ChildrenBounded
      <3>5. k \in 1..Len(nodes)
        BY <2>1, <3>3, <3>4
      <3>6. PICK i \in 1..Len(nodes) : i = by_path[Parent(q)] + 1
        BY <3>3
      <3>7. nodes[i].children[k] = by_path[q] /\ k <= Len(nodes[i].children)
        BY <3>2, <3>3, <3>6
      <3>8. PICK s \in (1..Len(nodes)) \X (1..Len(nodes)) : s[1] = i /\ s[2] = k
        <4> DEFINE N == 1..Len(nodes)
        <4>1. i \in N /\ k \in N
          BY <3>5, <3>6
        <4> HIDE DEF N
        <4>2. <<i, k>> \in N \X N /\ <<i, k>>[1] = i /\ <<i, k>>[2] = k
          BY <4>1
        <4> QED
          BY <4>2 DEF N
      <3>9. s \in slots
        BY <3>7, <3>8
      <3> QED
        BY <3>7, <3>8, <3>9
    \* A slot is known by what is in it.
    <2>4. ASSUME NEW s \in slots, NEW q \in Paths \ {<<>>}, child(s) = by_path[q]
          PROVE  /\ s[1] = by_path[Parent(q)] + 1 /\ s[2] \in 1..Len(Children(Parent(q)))
                 /\ Children(Parent(q))[s[2]] = by_path[q] /\ Parent(q) \in Paths
      <3>1. PICK p \in Paths : /\ s[1] = by_path[p] + 1 /\ s[2] \in 1..Len(Children(p))
                               /\ child(s) = Children(p)[s[2]]
        BY <2>2
      <3>2. PICK r \in Paths \ {<<>>} : Parent(r) = p /\ by_path[r] = Children(p)[s[2]]
        BY <2>1, <3>1, ChildIs
      <3>3. r = q
        BY <2>1, <2>4, <3>1, <3>2 DEF Numbered
      <3> QED
        BY <2>4, <3>1, <3>2, <3>3
    <2>5. ASSUME NEW s \in slots, NEW t \in slots, NEW q \in Paths \ {<<>>},
                 child(s) = by_path[q], child(t) = by_path[q]
          PROVE  s = t
      <3> DEFINE c == Children(Parent(q))
      <3>1. /\ s[1] = t[1] /\ s[2] \in 1..Len(c) /\ t[2] \in 1..Len(c) /\ c[s[2]] = c[t[2]]
            /\ Parent(q) \in Paths
        <4> HIDE DEF slots, child
        <4>1. /\ s[1] = by_path[Parent(q)] + 1 /\ s[2] \in 1..Len(c) /\ c[s[2]] = by_path[q]
              /\ Parent(q) \in Paths
          BY <2>4, <2>5
        <4>2. t[1] = by_path[Parent(q)] + 1 /\ t[2] \in 1..Len(c) /\ c[t[2]] = by_path[q]
          BY <2>4, <2>5
        <4> QED
          BY <4>1, <4>2
      <3>2. c \in Seq(Nat) /\ ListsOwn(Parent(q))
        BY <2>1, <3>1, NodeTyped DEF Linked
      <3>3. \A j, k \in 1..Len(c) : j < k => c[j] < c[k]
        BY <3>2 DEF ListsOwn
      <3>4. s[2] \in Nat /\ t[2] \in Nat /\ c[s[2]] \in Nat /\ c[t[2]] \in Nat
        BY <3>1, <3>2, ElementIs
      <3> HIDE DEF c
      <3>5. s[2] = t[2]
        BY <3>1, <3>3, <3>4
      <3> QED
        BY <3>1, <3>5
    <2>6. ASSUME NEW s \in slots PROVE child(s) \in s[1]..(Len(nodes) - 1)
      <3>1. PICK p \in Paths : /\ s[1] = by_path[p] + 1 /\ s[2] \in 1..Len(Children(p))
                               /\ child(s) = Children(p)[s[2]] /\ by_path[p] \in Nat
        BY <2>2
      <3>2. PICK q \in Paths \ {<<>>} : Parent(q) = p /\ by_path[q] = Children(p)[s[2]]
        BY <2>1, <3>1, ChildIs
      <3>3. by_path[p] < by_path[q] /\ by_path[q] \in 0..(Len(nodes) - 1)
        BY <2>1, <3>2 DEF Linked, Hangs, Numbered
      <3>4. child(s) = by_path[q]
        BY <3>1, <3>2
      <3> HIDE DEF child, slots
      <3> QED
        BY <2>1, <3>1, <3>3, <3>4
    <2>7. ASSUME NEW id \in 1..(Len(nodes) - 1)
          PROVE  \E s \in slots : child(s) = id /\ \A t \in slots : child(t) = id => t = s
      <3>1. id \in 0..(Len(nodes) - 1) /\ id # 0
        BY <2>1
      <3>2. PICK q \in Paths \ {<<>>} : by_path[q] = id
        BY <2>1, <3>1 DEF Numbered
      <3> HIDE DEF slots, child
      <3>3. PICK s \in slots : child(s) = id
        BY <2>3, <3>2
      <3> QED
        BY <2>5, <3>2, <3>3
    <2>8. ASSUME NEW s \in slots, NEW t \in slots, s[1] = t[1],
                 nodes[child(s) + 1].name = nodes[child(t) + 1].name
          PROVE  s = t
      <3>1. PICK p \in Paths : /\ s[1] = by_path[p] + 1 /\ s[2] \in 1..Len(Children(p))
                               /\ child(s) = Children(p)[s[2]] /\ by_path[p] \in Nat
        BY <2>2
      <3>2. PICK o \in Paths : /\ t[1] = by_path[o] + 1 /\ t[2] \in 1..Len(Children(o))
                               /\ child(t) = Children(o)[t[2]] /\ by_path[o] \in Nat
        BY <2>2
      <3>3. o = p
        <4> HIDE DEF slots, child
        <4>1. by_path[o] + 1 = by_path[p] + 1
          BY <2>8, <3>1, <3>2
        <4>2. by_path[o] = by_path[p]
          BY <3>1, <3>2, <4>1
        <4> QED
          BY <2>1, <4>2 DEF Numbered
      <3> HIDE DEF slots, child
      <3>4. PICK q \in Paths \ {<<>>} :
               /\ Parent(q) = p /\ by_path[q] = Children(p)[s[2]] /\ q \in Seq(STRING)
               /\ nodes[Children(p)[s[2]] + 1] = NodeAt(q) /\ NodeAt(q).name = q[Len(q)]
        BY <2>1, <3>1, ChildIs
      <3>5. PICK r \in Paths \ {<<>>} :
               /\ Parent(r) = p /\ by_path[r] = Children(p)[t[2]] /\ r \in Seq(STRING)
               /\ nodes[Children(p)[t[2]] + 1] = NodeAt(r) /\ NodeAt(r).name = r[Len(r)]
        BY <2>1, <3>2, <3>3, ChildIs, SMTT(30)
      <3>6. q[Len(q)] = r[Len(r)]
        BY <2>8, <3>1, <3>2, <3>3, <3>4, <3>5
      <3>7. q = r
        BY <3>4, <3>5, <3>6, SamePath
      <3> QED
        BY <2>5, <3>1, <3>2, <3>3, <3>4, <3>5, <3>7
    <2>9. ASSUME NEW n \in 1..Len(nodes), nodes[n].kind = "File" PROVE nodes[n].entry_idx # None
      <3>1. n - 1 \in 0..(Len(nodes) - 1)
        BY <2>1
      <3>2. PICK p \in Paths : by_path[p] = n - 1
        BY <2>1, <3>1 DEF Numbered
      <3>3. NodeAt(p) = nodes[n]
        BY <2>1, <3>2 DEF NodeAt
      <3>4. CASE p = <<>>
        BY <2>1, <2>9, <3>3, <3>4 DEF Matching, SameButChildren, Root
      <3>5. CASE p # <<>>
        <4> DEFINE m == SeenMentions(p)
                   r == SeenRecords(p)
        <4>1. IsNode(NodeAt(p), layouts, m, r)
          BY <2>1, <3>5 DEF Matching
        <4>2. r \subseteq Nat
          BY <2>1, RecordsMention DEF Standing
        <4> HIDE DEF m, r
        <4>3. First(m) \in r
          BY <2>9, <3>3, <4>1 DEF IsNode
        <4>4. NodeAt(p).entry_idx = First(r) - 1 /\ r # {}
          BY <4>1, <4>3 DEF IsNode
        <4>5. First(r) \in Nat /\ None \notin Int
          BY <4>2, <4>4, FirstOf, TreeAssumption
        <4> QED
          BY <3>3, <4>4, <4>5
      <3> QED
        BY <3>4, <3>5
    <2> QED
      BY <2>6, <2>7, <2>8, <2>9 DEF IsATree
  <1> QED
    BY <1>1, Invariant, PTL

\* build_tree computes, for any list of entries in any order, the table that the
\* definition without iteration describes.
THEOREM TableMatchesEntries == Spec => []NodesMatchEntries
  <1>1. IInv => NodesMatchEntries
    <2> SUFFICES ASSUME IInv, Done PROVE NodesMatchEntries
      BY DEF NodesMatchEntries
    <2>1. Tree /\ Matching /\ Standing /\ Numbered /\ Linked /\ li = Len(layouts) + 1
          /\ Len(layouts) \in Nat
      BY EntryTyped DEF IInv, Tree, Standing, Done
    <2>2. ASSUME NEW i \in 1..Len(layouts), NEW n \in 1..Len(PathOf(i))
          PROVE  SubSeq(PathOf(i), 1, n) \in Paths
      <3>1. i < li
        BY <2>1
      <3> QED
        BY <2>1, <3>1 DEF Matching, Covered
    <2>3. ASSUME NEW p
          PROVE  SeenMentions(p) = Mentions(p) /\ SeenRecords(p) = Records(p)
      <3>1. \A i \in 1..Len(layouts) : i < li
        BY <2>1
      <3> QED
        BY <3>1 DEF SeenMentions, SeenRecords, Mentions, Records
    <2>4. ASSUME NEW p \in Paths \ {<<>>}
          PROVE  LET m == Mentions(p)
                     r == Records(p)
                     file == m # {} /\ First(m) \in r /\ ~is_dir(Entry(First(m)).raw)
                 IN  /\ m # {}
                     /\ NodeAt(p).name = p[Len(p)]
                     /\ meta(by_path[p]).kind = (IF file THEN "File" ELSE "Dir")
                     /\ meta(by_path[p]).size = (IF file THEN Entry(First(m)).uncompressed_size ELSE 0)
                     /\ NodeAt(p).entry_idx = (IF r = {} THEN None ELSE First(r) - 1)
                     /\ meta(by_path[p]).times = (IF r = {} THEN NoTimes ELSE TimesOf(Entry(First(r))))
      <3> DEFINE m == Mentions(p)
                 r == Records(p)
      <3>1. IsNode(NodeAt(p), layouts, m, r)
        BY <2>1, <2>3 DEF Matching
      <3>2. NodeAt(p).name = p[Len(p)]
        BY <2>1 DEF Linked, Hangs
      <3>3. /\ meta(by_path[p]).kind = NodeAt(p).kind /\ meta(by_path[p]).size = NodeAt(p).size
            /\ meta(by_path[p]).times = NodeAt(p).times
        BY DEF meta, NodeAt
      <3> HIDE DEF m, r
      <3>4. LET file == m # {} /\ First(m) \in r /\ ~is_dir(Entry(First(m)).raw)
            IN  /\ m # {}
                /\ meta(by_path[p]).kind = (IF file THEN "File" ELSE "Dir")
                /\ meta(by_path[p]).size = (IF file THEN Entry(First(m)).uncompressed_size ELSE 0)
                /\ NodeAt(p).entry_idx = (IF r = {} THEN None ELSE First(r) - 1)
                /\ meta(by_path[p]).times = (IF r = {} THEN NoTimes ELSE TimesOf(Entry(First(r))))
        BY <3>1, <3>3 DEF IsNode, Entry
      <3> QED
        BY <3>2, <3>4 DEF m, r
    <2> QED
      BY <2>2, <2>4 DEF NodesMatchEntries, Paths
  <1> QED
    BY <1>1, Invariant, PTL

\* For any table and any walk: lookup arrives at the node of the path walked, finds
\* nothing exactly where no entry passes, errs exactly on a file; and read_dir
\* lists what lookup finds.
THEOREM WalksArrive == Spec => []WalkArrives
  <1>1. IInv => WalkArrives
    <2> SUFFICES ASSUME IInv, Done PROVE WalkArrives
      BY DEF WalkArrives
    <2> DEFINE front == SubSeq(walked, 1, Len(walked) - 1)
    <2>1. Tree /\ Walk /\ Standing /\ Numbered /\ pc = "built"
      BY DEF IInv, Tree, Done
    <2>2. walked # <<>> => IF NodeAt(front).kind = "File" THEN at = Err
                           ELSE IF walked \in DOMAIN by_path THEN at = by_path[walked] ELSE at = None
      BY <2>1 DEF Walk, Arrival, Paths
    <2>3. ASSUME at \notin {None, Err}, read_dir(at) # Err
          PROVE  /\ \A e \in read_dir(at) : lookup(at, e.name) = e.id /\ meta(e.id).kind = e.kind
                 /\ \A name \in Names : lookup(at, name) # None =>
                       \E e \in read_dir(at) : e.name = name
      <3>1. PICK w \in Paths : at = by_path[w]
        BY <2>1, <2>3 DEF Walk
      <3>2. NodeAt(w) = nodes[at + 1] /\ Children(w) \in Seq(Nat) /\ w \in Seq(STRING)
        BY <2>1, <3>1, NodeTyped DEF Numbered
      <3>3. NodeAt(w).kind = "Dir"
        BY <2>3, <3>2 DEF read_dir
      <3>4. read_dir(at) = { [name |-> nodes[c + 1].name, id |-> c, kind |-> nodes[c + 1].kind] :
                             c \in Range(Children(w)) }
        BY <3>2, <3>3 DEF read_dir, Children
      <3>5. ASSUME NEW e \in read_dir(at)
            PROVE  lookup(at, e.name) = e.id /\ meta(e.id).kind = e.kind
        <4>1. PICK c \in Range(Children(w)) :
                 e = [name |-> nodes[c + 1].name, id |-> c, kind |-> nodes[c + 1].kind]
          BY <3>4
        <4>2. PICK k \in 1..Len(Children(w)) : c = Children(w)[k]
          BY <3>2 DEF Range
        <4>3. PICK q \in Paths \ {<<>>} :
                 /\ Parent(q) = w /\ by_path[q] = c /\ nodes[c + 1] = NodeAt(q)
                 /\ NodeAt(q).name = q[Len(q)] /\ q \in Seq(STRING)
          BY <2>1, <4>2, ChildIs
        <4>4. q[Len(q)] \in STRING
          <5>1. Len(q) \in 1..Len(q)
            BY <4>3, ParentIs
          <5> QED
            BY <4>3, <5>1, ElementIs
        <4>5. Append(w, q[Len(q)]) = q
          <5> DEFINE v == Append(w, q[Len(q)])
          <5>1. v \in Seq(STRING) /\ v # <<>> /\ Parent(v) = w /\ v[Len(v)] = q[Len(q)]
            BY <3>2, <4>4, AppendName
          <5> HIDE DEF v
          <5>2. v = q
            BY <4>3, <5>1, SamePath
          <5> QED
            BY <5>2 DEF v
        <4>6. lookup(at, q[Len(q)]) = by_path[q]
          BY <2>1, <3>1, <3>3, <4>4, <4>5, LookupFinds
        <4>7. e.name = q[Len(q)] /\ e.id = by_path[q] /\ e.kind = nodes[e.id + 1].kind
          BY <4>1, <4>3
        <4> QED
          BY <4>6, <4>7 DEF meta
      <3>6. ASSUME NEW name \in Names, lookup(at, name) # None
            PROVE  \E e \in read_dir(at) : e.name = name
        <4> DEFINE q == Append(w, name)
        <4>1. name \in STRING
          BY TreeAssumption
        <4>2. q \in Paths
          BY <2>1, <3>1, <3>3, <3>6, <4>1, LookupFinds
        <4>3. q # <<>> /\ Parent(q) = w /\ q[Len(q)] = name
          BY <3>2, <4>1, AppendName
        <4> HIDE DEF q
        <4>4. Hangs(q)
          BY <2>1, <4>2, <4>3 DEF Tree, Linked
        <4>5. PICK k \in 1..Len(Children(w)) : Children(w)[k] = by_path[q]
          BY <4>3, <4>4 DEF Hangs
        <4>6. by_path[q] \in Range(Children(w))
          BY <3>2, <4>5 DEF Range
        <4>7. nodes[by_path[q] + 1].name = name
          BY <4>3, <4>4 DEF Hangs, NodeAt
        <4>8. PICK c \in Range(Children(w)) : c = by_path[q]
          BY <4>6
        <4> DEFINE e == [name |-> nodes[c + 1].name, id |-> c, kind |-> nodes[c + 1].kind]
        <4>9. e \in read_dir(at)
          BY <3>4
        <4>10. e.name = name
          BY <4>7, <4>8
        <4> HIDE DEF e
        <4> QED
          BY <4>9, <4>10
      <3> QED
        BY <3>5, <3>6
    <2> QED
      BY <2>2, <2>3 DEF WalkArrives
  <1> QED
    BY <1>1, Invariant, PTL

\* For any extra blocks, fields cut short, doubled or missing: the times of a node
\* all come from one clock.
THEOREM TimesOfOneClock == Spec => []OneClock
  <1>1. IInv => OneClock
    <2> SUFFICES ASSUME IInv, NEW n \in 1..Len(nodes) PROVE Agree(nodes[n].times)
      BY DEF OneClock, Agree
    <2>1. Tree /\ Matching /\ Standing /\ Numbered /\ Len(nodes) \in Nat /\ layouts \in Archives
      BY DEF IInv, Tree, Standing
    <2>2. n - 1 \in 0..(Len(nodes) - 1)
      BY <2>1
    <2>3. PICK p \in Paths : by_path[p] = n - 1
      BY <2>1, <2>2 DEF Numbered
    <2>4. NodeAt(p) = nodes[n]
      BY <2>1, <2>3 DEF NodeAt
    <2>5. Agree(NoTimes)
      BY DEF Agree, NoTimes
    <2>6. CASE p = <<>>
      BY <2>1, <2>4, <2>5, <2>6 DEF Matching, SameButChildren, Root
    <2>7. CASE p # <<>>
      <3> DEFINE r == SeenRecords(p)
      <3>1. nodes[n].times = IF r = {} THEN NoTimes ELSE TimesOf(layouts[First(r)])
        BY <2>1, <2>4, <2>7 DEF Matching, IsNode
      <3>2. CASE r = {}
        BY <2>5, <3>1, <3>2
      <3>3. CASE r # {}
        <4>1. r \subseteq Nat /\ r \subseteq 1..Len(layouts)
          BY <2>1, EntryTyped DEF SeenRecords, Records
        <4> HIDE DEF r
        <4>2. First(r) \in 1..Len(layouts)
          BY <3>3, <4>1, FirstOf
        <4>3. layouts[First(r)] \in EntryRecords
          BY <2>1, <4>2, EntryTyped DEF Entry
        <4> QED
          BY <3>1, <3>3, <4>3, TimesOfEntry
      <3> QED
        BY <3>2, <3>3
    <2> QED
      BY <2>6, <2>7
  <1> QED
    BY <1>1, Invariant, PTL
================================================================================
