-------------------------------- MODULE MCAudit --------------------------------
EXTENDS Audit

Header(n, size) ==
    [ name |-> n, method |-> "Stored", descriptor |-> FALSE, crc32 |-> 7,
      compressed_size |-> size, uncompressed_size |-> size ]

\* A header of one byte, then the data; a size the local header has no room for
\* is left to its zip64 extra field.
Member(offset, size) ==
    [ readable |-> TRUE, lfh_offset |-> offset, data_start |-> offset + 1,
      central |-> Header(<<"a">>, size), 
      local |-> Header(<<"a">>, IF size < Sentinel THEN size ELSE Sentinel), decode |-> "fine" ]

Archive(es) ==
    [ opens |-> TRUE, entries |-> es, file_len |-> 40, eocd_end_offset |-> 40,
      disk_number |-> 0, cd_start_disk |-> 0 ]

\* Three members anywhere, empty ones and ones whose end saturates included.
Placed == { Member(o, s) : o \in {0, 1, 3, 5}, s \in {0, 1, 4, 62} }
Layouts == { Archive(<<x, y, z>>) : x, y, z \in Placed }

\* What may be unusual or wrong about one member.
Variants(e) ==
    { e,
      [e EXCEPT !.readable = FALSE],
      [e EXCEPT !.decode = "bad_crc"], [e EXCEPT !.decode = "error"], [e EXCEPT !.decode = "refused"],
      [e EXCEPT !.local.crc32 = 0],
      [e EXCEPT !.local.method = "Deflated"],
      [e EXCEPT !.local.name = <<"b">>],
      [e EXCEPT !.local.compressed_size = 9],
      [e EXCEPT !.local.compressed_size = Sentinel, !.local.uncompressed_size = Sentinel],
      [e EXCEPT !.local.descriptor = TRUE],
      [e EXCEPT !.local.descriptor = TRUE, !.central.descriptor = TRUE, !.local.crc32 = 0,
                !.local.compressed_size = 0, !.local.uncompressed_size = 0] }
    \union { [e EXCEPT !.central.name = n, !.local.name = n] :
             n \in { <<"..", "a">>, <<"", "a">>, <<"">>, <<"C:", "a">>, <<"a", "C:">>, <<"bidi">>,
                     <<"a", "ctl">>, <<"a", "">>, <<"nul">>, <<".">>, <<"a", "..">>, <<"", "..">> } }

\* Two members in either order of the directory, the containers they may be in.
Pairs == { Archive(<<x, y>>) : x \in Variants(Member(0, 2)), y \in Variants(Member(3, 0)) }
         \union { Archive(<<y, x>>) : x \in Variants(Member(0, 2)), y \in Variants(Member(3, 1)) }

Containers ==
    { [Archive(es) EXCEPT !.opens = o, !.file_len = l, !.disk_number = d, !.cd_start_disk = c] :
      es \in {<<>>, <<Member(0, 1)>>}, o \in BOOLEAN, l \in {40, 41},
      d \in {0, 1, Sentinel}, c \in {0, 1, Sentinel} }

MCArchives == Layouts \union Pairs \union Containers
================================================================================
