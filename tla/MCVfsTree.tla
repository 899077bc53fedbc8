------------------------------- MODULE MCVfsTree -------------------------------
EXTENDS VfsTree

\* Files and directories, nested and not, with empty and "." pieces, and names
\* of nothing.
Raws ==
    { <<"a">>, <<"b">>, <<"a", "">>, <<"a", "b">>, <<"a", "b", "">>, <<"a", "a">>,
      <<"a", "b", "a">>, <<"", "a">>, <<".", "b">>, <<"a", ".">>, <<"b", ".", "a">>,
      <<"">>, <<"", "">>, <<".">> }

\* Extra blocks: NTFS times whole, cut short and doubled, Unix times of which
\* some are there, in either order.
Field(id, words) == [id |-> id, words |-> words, flags |-> {}, attrs |-> <<>>, text |-> None]
Unix(flags, words) == [Field("unix", words) EXCEPT !.flags = flags]
Ntfs(attrs) == [Field("ntfs", <<>>) EXCEPT !.attrs = attrs]
Attr(tag, words) == [tag |-> tag, words |-> words]

NtfsFields == { Ntfs(<<>>), Ntfs(<<Attr(1, <<7, 8, 9>>)>>), Ntfs(<<Attr(1, <<7>>)>>),
                Ntfs(<<Attr(2, <<7, 8, 9>>), Attr(1, <<4, 5, 6>>)>>) }
UnixFields == { Unix(f, w) : f \in SUBSET Clocks, w \in {<<>>, <<1>>, <<1, -1, 2>>} }

Block(fields) == [fields |-> fields, tail |-> "clean"]
MCBlocks ==
    { Block(<<n, u>>) : n \in NtfsFields, u \in UnixFields }
    \union { Block(<<u, n, m>>) : n, m \in NtfsFields, u \in {Unix(Clocks, <<1, -1, 2>>)} }
    \union { Block(<<u, v>>) : u, v \in {Unix({"mtime"}, <<1>>), Unix(Clocks, <<2>>)} }

\* Lists of up to three entries; an entry's size and time tell where it stands.
Sizes == <<3, 5, 7>>
At(i) == Block(<<Ntfs(<<Attr(1, <<i, i, i>>)>>)>>)
Rec(raw, i) == [raw |-> raw, uncompressed_size |-> Sizes[i], block |-> At(i)]
MCArchives ==
    UNION { { [i \in 1..n |-> Rec(f[i], i)] : f \in [1..n -> Raws] } : n \in 0..3 }
    \union { <<[Rec(<<"a", "b">>, 1) EXCEPT !.block = b], Rec(<<"a", "">>, 2)>> : b \in MCBlocks }
================================================================================
