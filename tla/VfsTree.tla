-------------------------------- MODULE VfsTree --------------------------------
(***************************************************************************)
(* build_tree, which derives the node table of ZipVfs from the flat list   *)
(* of central-directory names, and the walks callers then make over it     *)
(* with lookup, read_dir and meta.                                         *)
(*                                                                         *)
(* A name is the sequence of the pieces split(['/', '\\']) cuts it into:   *)
(* "a/b/" is <<"a", "b", "">>.  A path is a sequence of pieces that are    *)
(* kept; joined by '/' it is the key of by_path, and since no piece holds  *)
(* a separator the join loses nothing.  Ids count from 0, nodes from 1.    *)
(***************************************************************************)
EXTENDS ExtraFields

CONSTANTS
    Archives,   \* the lists of entries that may be mounted
    Names,      \* the names asked of lookup
    Err,        \* an error returned
    EPOCH_DIFF_100NS,  \* ticks from 1601 to 1970
    MaxDepth    \* bound: names in one walk

\* block: the extra block of the central header.
EntryRecords == [raw : Seq(STRING), uncompressed_size : Nat, block : Blocks]

ASSUME TreeAssumption ==
    /\ \A as \in Archives : as \in Seq(EntryRecords)
    /\ \A as \in Archives : \A i \in 1..Len(as) : as[i].raw # <<>>
    /\ None \notin Int \union STRING /\ EPOCH_DIFF_100NS \in Nat /\ Err \notin Nat \union {None}
    /\ MaxDepth \in Nat /\ Names \subseteq STRING

VARIABLES
    layouts,    \* the archive's entries, in central-directory order
    nodes,      \* the node table
    by_path,    \* path -> node id
    li, ci,     \* the entry and the component the loops stand at
    parent_id,
    pc,         \* "building" or "built"
    walked, at  \* a caller's walk: the names looked up so far, where they led

vars == <<layouts, nodes, by_path, li, ci, parent_id, pc, walked, at>>

TimeStamps == [unix_nanos : Int, resolution : {"WinFileTime", "Seconds"}]

\* name: "" is the root's.  times: modified (mtime), accessed (atime) and born (ctime).
NodeRecords ==
    [ entry_idx : Nat \union {None}, name : STRING \union {""}, kind : {"Dir", "File"}, size : Nat,
      times : [Clocks -> TimeStamps \union {None}], children : Seq(Nat) ]

\* at: a node id, None for Ok(None), Err for the error on a file.
TypeOK ==
    /\ layouts \in Seq(EntryRecords)
    /\ nodes \in Seq(NodeRecords)
    /\ \A p \in DOMAIN by_path : by_path[p] \in 0..(Len(nodes) - 1)
    /\ li \in 1..(Len(layouts) + 1)
    /\ ci \in Nat
    /\ parent_id \in 0..(Len(nodes) - 1)
    /\ pc \in {"building", "built"}
    /\ Len(walked) <= MaxDepth
    /\ at \in 0..(Len(nodes) - 1) \union {None, Err}

(***************************************************************************)
(* Names.                                                                  *)
(***************************************************************************)
is_dir(raw) == Len(raw) > 1 /\ raw[Len(raw)] = ""

\* The pieces that are kept, in order: the k-th is the one with k of them up to it.
Kept(raw) == {i \in 1..Len(raw) : raw[i] # "" /\ raw[i] # "."}
KeptUpTo(raw, i) == {j \in Kept(raw) : j <= i}

comps(raw) ==
    [k \in 1..Cardinality(Kept(raw)) |->
        raw[CHOOSE i \in Kept(raw) : Cardinality(KeptUpTo(raw, i)) = k]]

(***************************************************************************)
(* Times.                                                                  *)
(***************************************************************************)
NoTimes == [c \in Clocks |-> None]

filetime_ts(ft) ==
    [unix_nanos |-> (ft - EPOCH_DIFF_100NS) * 100, resolution |-> "WinFileTime"]

unix_secs_ts(secs) == [unix_nanos |-> secs * 1000000000, resolution |-> "Seconds"]

extra_times(extra) ==
    [c \in Clocks |-> IF extra.ntfs[c] # None THEN filetime_ts(extra.ntfs[c])
                      ELSE IF extra.unix[c] # None THEN unix_secs_ts(extra.unix[c]) ELSE None]

TimesOf(entry) == extra_times(parse_extra_fields(entry.block))

(***************************************************************************)
(* build_tree.                                                             *)
(***************************************************************************)
Root == [entry_idx |-> None, name |-> "", kind |-> "Dir", size |-> 0, times |-> NoTimes,
         children |-> <<>>]

Init ==
    /\ layouts \in Archives
    /\ nodes = <<Root>>
    /\ by_path = [p \in {<<>>} |-> 0]
    /\ li = 1
    /\ ci = 0
    /\ parent_id = 0
    /\ pc = "building"
    /\ walked = <<>>
    /\ at = 0

layout == layouts[li]
path   == comps(layout.raw)
acc    == SubSeq(path, 1, ci + 1)
known  == acc \in DOMAIN by_path

\* Seeded fault: the new node is listed by the root.
ChildOfRoot(ns, parent, child) == [ns EXCEPT ![1].children = Append(@, child)]

push_child(ns, parent, child) == [ns EXCEPT ![parent + 1].children = Append(@, child)]

\* Seeded fault: ids are counted from 1.
IdFromOne == Len(nodes) + 1

NewId == Len(nodes)

\* A node for acc, under the parent reached so far.
Push(node) ==
    /\ nodes' = push_child(Append(nodes, node), parent_id, NewId)
    /\ by_path' = [p \in DOMAIN by_path \union {acc} |-> IF p = acc THEN NewId ELSE by_path[p]]

EntryNode ==
    [ entry_idx |-> li - 1, name |-> path[ci + 1], times |-> TimesOf(layout),
      kind |-> IF is_dir(layout.raw) THEN "Dir" ELSE "File",
      size |-> IF is_dir(layout.raw) THEN 0 ELSE layout.uncompressed_size,
      children |-> <<>> ]

ImpliedDir == [Root EXCEPT !.name = path[ci + 1]]

\* Seeded fault: the last entry of a path wins.
LastWins(node) == [node EXCEPT !.entry_idx = li - 1, !.times = TimesOf(layout)]

\* The record of a node that already exists: the first entry keeps it.
Attached(node) ==
    IF node.entry_idx = None
    THEN [node EXCEPT !.entry_idx = li - 1, !.times = TimesOf(layout)] ELSE node

Leaf ==
    \/ known /\ UNCHANGED by_path
             /\ nodes' = [nodes EXCEPT ![by_path[acc] + 1] = Attached(@)]
    \/ ~known /\ Push(EntryNode)

Building == pc = "building" /\ li <= Len(layouts) /\ UNCHANGED <<layouts, pc, walked, at>>

NextEntry == li' = li + 1 /\ ci' = 0 /\ parent_id' = 0

\* A name without components ("/", "", ".") names no node.
SkipEntry ==
    /\ Building
    /\ path = <<>>
    /\ NextEntry
    /\ UNCHANGED <<nodes, by_path>>

AddLeaf ==
    /\ Building
    /\ ci + 1 = Len(path)
    /\ Leaf
    /\ NextEntry

\* An intermediate component: the node there is, or a synthesized directory.
Descend ==
    /\ Building
    /\ ci + 1 < Len(path)
    /\ \/ known /\ parent_id' = by_path[acc] /\ UNCHANGED <<nodes, by_path>>
       \/ ~known /\ Push(ImpliedDir) /\ parent_id' = NewId
    /\ ci' = ci + 1
    /\ UNCHANGED li

Finish ==
    /\ pc = "building"
    /\ li > Len(layouts)
    /\ pc' = "built"
    /\ UNCHANGED <<layouts, nodes, by_path, li, ci, parent_id, walked, at>>

(***************************************************************************)
(* The file system's queries, by a caller that walks down from the root.   *)
(***************************************************************************)
\* Positions in a children list of the nodes called name.
Matches(children, name) ==
    {i \in 1..Len(children) : nodes[children[i] + 1].name = name}

\* Seeded fault: the kind of the parent is not tested.
LookupAnywhere(parent, name) ==
    LET children == nodes[parent + 1].children
        found    == Matches(children, name)
    IN  IF found = {} THEN None
        ELSE children[CHOOSE i \in found : \A j \in found : i <= j]

lookup(parent, name) ==
    LET node  == nodes[parent + 1]
        found == Matches(node.children, name)
    IN  IF node.kind # "Dir" THEN Err
        ELSE IF found = {} THEN None
        ELSE node.children[CHOOSE i \in found : \A j \in found : i <= j]

read_dir(id) ==
    IF nodes[id + 1].kind # "Dir" THEN Err
    ELSE { [name |-> nodes[c + 1].name, id |-> c, kind |-> nodes[c + 1].kind] :
           c \in Range(nodes[id + 1].children) }

meta(id) ==
    [ino |-> id, kind |-> nodes[id + 1].kind, size |-> nodes[id + 1].size,
     times |-> nodes[id + 1].times]

Lookup(name) ==
    /\ pc = "built"
    /\ Len(walked) < MaxDepth
    /\ at \notin {None, Err}
    /\ at' = lookup(at, name)
    /\ walked' = Append(walked, name)
    /\ UNCHANGED <<layouts, nodes, by_path, li, ci, parent_id, pc>>

Build == SkipEntry \/ AddLeaf \/ Descend \/ Finish

Next == Build \/ \E name \in Names : Lookup(name)

Spec == Init /\ [][Next]_vars

(***************************************************************************)
(* Properties.                                                             *)
(***************************************************************************)
Done == pc = "built"
Entry(i) == layouts[i]
PathOf(i) == comps(Entry(i).raw)
IsPrefixOf(p, q) == Len(p) <= Len(q) /\ SubSeq(q, 1, Len(p)) = p

\* The entries that mention path p, as their own or on the way, and those of
\* them whose own path it is.
Mentions(p) == {i \in 1..Len(layouts) : IsPrefixOf(p, PathOf(i))}
Records(p)  == {i \in 1..Len(layouts) : PathOf(i) = p}
First(s)    == CHOOSE i \in s : \A j \in s : i <= j

NodeAt(p) == nodes[by_path[p] + 1]

\* build_tree against what it should compute: there is a node for each path
\* that some entry has or passes through and for no other; the first entry to
\* mention a path decides what kind of node it is, and the first one to have it
\* as its own backs it and gives it its times, in whatever order the entries come.
\* A later entry of the same path has no node, where the comment on Node says that
\* "every catalogue entry becomes a node".
NodesMatchEntries ==
    Done =>
        /\ \A i \in 1..Len(layouts) : \A n \in 1..Len(PathOf(i)) :
              SubSeq(PathOf(i), 1, n) \in DOMAIN by_path
        /\ \A p \in DOMAIN by_path \ {<<>>} :
              LET m == Mentions(p)
                  r == Records(p)
                  file == m # {} /\ First(m) \in r /\ ~is_dir(Entry(First(m)).raw)
              IN  /\ m # {}
                  /\ NodeAt(p).name = p[Len(p)]
                  /\ meta(by_path[p]).kind = (IF file THEN "File" ELSE "Dir")
                  /\ meta(by_path[p]).size = (IF file THEN Entry(First(m)).uncompressed_size ELSE 0)
                  /\ NodeAt(p).entry_idx = (IF r = {} THEN None ELSE First(r) - 1)
                  /\ meta(by_path[p]).times = (IF r = {} THEN NoTimes ELSE TimesOf(Entry(First(r))))

\* The "cov:unreachable" notes of read_dir and read_at: the children lists hold
\* ids of the table, each node but the root is in exactly one of them, once and
\* below its parent, no two children of a node share a name, and a File node has
\* a backing entry.
IsATree ==
    LET slots == {s \in (1..Len(nodes)) \X (1..Len(nodes)) : s[2] <= Len(nodes[s[1]].children)}
        child(s) == nodes[s[1]].children[s[2]]
    IN  /\ \A s \in slots : child(s) \in s[1]..(Len(nodes) - 1)
        /\ \A id \in 1..(Len(nodes) - 1) :
              \E s \in slots : child(s) = id /\ \A t \in slots : child(t) = id => t = s
        /\ \A s, t \in slots : s[1] = t[1] /\ nodes[child(s) + 1].name = nodes[child(t) + 1].name
              => s = t
        /\ \A n \in 1..Len(nodes) : nodes[n].kind = "File" => nodes[n].entry_idx # None

\* lookup, name by name from the root, arrives at the node of the path walked;
\* it finds nothing exactly where no entry passes and errs exactly on a file.
\* Wherever it arrives, read_dir lists what lookup finds there and meta agrees.
WalkArrives ==
    LET front == SubSeq(walked, 1, Len(walked) - 1)
    IN  Done =>
        /\ walked # <<>> =>
              IF NodeAt(front).kind = "File" THEN at = Err
              ELSE IF walked \in DOMAIN by_path THEN at = by_path[walked] ELSE at = None
        /\ at \notin {None, Err} /\ read_dir(at) # Err =>
              /\ \A e \in read_dir(at) : lookup(at, e.name) = e.id /\ meta(e.id).kind = e.kind
              /\ \A name \in Names : lookup(at, name) # None => \E e \in read_dir(at) : e.name = name

\* extra_times decides each time for itself, parse_ntfs_times for all three at
\* once: so the times of a node are all NTFS times or all Unix ones, whichever
\* fields are cut short, doubled or missing, and they can be compared.
OneClock ==
    \A n \in 1..Len(nodes) : \A c, d \in Clocks :
        LET t == nodes[n].times
        IN  t[c] # None /\ t[d] # None => t[c].resolution = t[d].resolution
================================================================================
