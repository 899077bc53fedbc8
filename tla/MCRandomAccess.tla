---------------------------- MODULE MCRandomAccess ----------------------------
EXTENDS RandomAccess

\* A span of up to three blocks at offset 2 of a file that ends with it, behind
\* it, or (a cut file) in or before it.
Meta(m, cs, us, fl, dl, ok) ==
    [ method |-> m, opens |-> TRUE, data_start |-> 2, compressed_size |-> cs,
      uncompressed_size |-> us, file_len |-> fl, decoded_len |-> dl, decode |-> ok ]

\* A compressed size of 8 leaves room for one block of 3 bytes in a longer file;
\* one of 63 makes data_start + compressed_size wrap.
MCMetas ==
    { Meta(m, cs, us, fl, dl, ok) :
        m \in Methods, cs \in {0, 3, 14, 19, 63}, us \in {0, 2, 4}, fl \in {1, 12, 16, 22},
        dl \in {2, 4}, ok \in {"fine", "bad_crc", "error"} }
    \union { Meta(m, 8, us, 22, 4, "fine") : m \in {"Deflated", "Deflate64"}, us \in {2, 4} }
    \union { Meta("Stored", cs, 63, 22, 2, "fine") : cs \in {3, 63} }
    \union { Meta("Deflated", 14, 63, 16, 4, ok) : ok \in {"fine", "error"} }
    \union { [Meta(m, 14, 4, 16, 4, "fine") EXCEPT !.opens = FALSE] : m \in Methods }

\* The last one makes offset + len wrap.
MCRequests ==
    [offset : {0, 1, 3, 5}, len : {0, 1, 3}] \union {[offset |-> 62, len |-> 3]}

\* A method-0 entry that claims more bytes than it stores, inside a longer file.
OverclaimingMetas == { Meta("Stored", 2, 4, 20, 2, "fine") }

\* A compressed entry that decodes to fewer bytes than it claims.
ShortMetas == { Meta("Deflated", 14, 4, 16, 2, "fine") }
===============================================================================
