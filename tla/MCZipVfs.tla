------------------------------- MODULE MCZipVfs -------------------------------
(***************************************************************************)
(* A file of four units and five nodes: two sound files that share no      *)
(* byte, one whose CRC does not match, one by_index refuses and one        *)
(* directory.                                                              *)
(***************************************************************************)
EXTENDS ZipVfs, TLC

CONSTANTS w1, w2

MCWorkers == {w1, w2}

MCFile == <<10, 11, 12, 13>>
MCNodes == 0..4
MCFiles == 1..4
MCLocked == {4}
MCIds == 0..5          \* 5 names no node
Ask(n, off, len) == [id |-> n, stream |-> "Default", off |-> off, len |-> len]
MCCalls == { Ask(1, 0, 1), Ask(1, 1, 3), Ask(2, 0, 3), Ask(3, 0, 1), Ask(4, 0, 1),
             Ask(0, 0, 1), Ask(5, 0, 1), [Ask(1, 0, 1) EXCEPT !.stream = "Named"] }
MCdata_start == <<1, 3, 2, 1>>
MCsize == <<2, 3, 1, 1>>
MCcrc32 == <<<<10, 11>>, <<12, 13>>, <<12>>, <<10>>>>
===============================================================================
