---------------------------- MODULE MCEntryReader ----------------------------
(***************************************************************************)
(* Entries for TLC.  Starting from an undamaged entry of each method and   *)
(* protection, every entry differs from it in what one damage does, or in  *)
(* the two of a damage and a changed CRC.                                  *)
(***************************************************************************)
EXTENDS EntryReader, TLC

MCByte == {"a", "b"}
Payload == <<"a", "b", "a">>

\* AES-256, one block of random data (and its pad block), a validation blob.
Header ==
    [ iv_size |-> 16, rem_size |-> 64, format |-> 3, alg |-> 26128, bit_len |-> 256,
      triple_des |-> FALSE, certificate |-> FALSE, password |-> TRUE,
      rd_size |-> 32, reserved |-> 0, valid_size |-> 16 ]

\* Sizes at and around every limit; one other field wrong at a time.
HeaderVariants ==
    { [Header EXCEPT !.rem_size = n, !.rd_size = r, !.valid_size = v] :
        n \in {0, 15, 16, 22, 26, 31, 32, 47, 48, 63, 64, 262144, 262145},
        r \in {0, 6, 15, 16, 32, 48, 65520}, v \in {0, 3, 4, 16, 32, 65535} }
    \union { [Header EXCEPT !.alg = a, !.bit_len = b] : a \in 26125..26129, b \in {120, 128, 192, 256, 320} }
    \union { [Header EXCEPT !.iv_size = n] : n \in {0, 15, 17} }
    \union { [Header EXCEPT !.format = 2], [Header EXCEPT !.triple_des = TRUE],
             [Header EXCEPT !.certificate = TRUE], [Header EXCEPT !.password = FALSE],
             [Header EXCEPT !.reserved = 1] }

Base ==
    [ method |-> "Stored", actual_method |-> "Stored", aes |-> "none",
      encrypted |-> FALSE, descriptor |-> FALSE, strong |-> FALSE, masked |-> FALSE,
      disk_start |-> 0, uncompressed_size |-> 3, crc32 |-> Payload,
      readable |-> TRUE, header_ok |-> TRUE, header |-> Header, check_byte |-> "crc",
      collides |-> FALSE, authentic |-> TRUE, bytes |-> Payload,
      present |-> 3, need |-> 3, breaks |-> FALSE ]

\* The protections, for an entry of real method m.
Plain(m)     == [Base EXCEPT !.method = m]
ZipCrypto(m) == [Base EXCEPT !.method = m, !.encrypted = TRUE]
Strong(m)    == [ZipCrypto(m) EXCEPT !.strong = TRUE]
Aes(m, v)    == [Base EXCEPT !.method = "Other", !.actual_method = m, !.aes = v,
                             !.encrypted = TRUE]

Undamaged(ms) ==
    UNION { {Plain(m), ZipCrypto(m), Strong(m), Aes(m, "AE1"), Aes(m, "AE2")} : m \in ms }

\* What may be wrong with, or unusual about, an entry.
Variants(e) ==
    { e,
      [e EXCEPT !.crc32 = <<"a">>],
      [e EXCEPT !.crc32 = <<"a", "b">>],
      [e EXCEPT !.uncompressed_size = 2],
      [e EXCEPT !.uncompressed_size = 2, !.need = 2, !.crc32 = <<"a", "b">>],
      [e EXCEPT !.uncompressed_size = 0, !.need = 0, !.crc32 = <<>>, !.bytes = <<>>, !.present = 0],
      [e EXCEPT !.readable = FALSE],
      [e EXCEPT !.header_ok = FALSE],
      [e EXCEPT !.descriptor = TRUE],
      [e EXCEPT !.descriptor = TRUE, !.check_byte = "time"],
      [e EXCEPT !.masked = TRUE],
      [e EXCEPT !.disk_start = 1],
      [e EXCEPT !.collides = TRUE],
      [e EXCEPT !.collides = TRUE, !.authentic = FALSE],
      [e EXCEPT !.authentic = FALSE],
      [e EXCEPT !.authentic = FALSE, !.need = 2],
      [e EXCEPT !.encrypted = FALSE],
      [e EXCEPT !.present = 2],
      [e EXCEPT !.present = 0],
      [e EXCEPT !.present = 2, !.crc32 = <<"a", "b">>],
      [e EXCEPT !.present = 2, !.need = 2],
      [e EXCEPT !.need = 4],
      [e EXCEPT !.breaks = TRUE],
      [e EXCEPT !.breaks = TRUE, !.need = 2] }

MCEntries ==
    UNION { Variants(e) : e \in Undamaged(Methods) }
    \union { [Strong("Stored") EXCEPT !.header = h] : h \in HeaderVariants }

MCSummaries == { [disk_number |-> d, cd_start_disk |-> c] : d, c \in {0, 1} }

\* One archive, for the runs that look for a single behaviour.
OneSegment == { [disk_number |-> 0, cd_start_disk |-> 0] }

PlainEntries == { Plain(m) : m \in {"Stored", "Deflated", "Lzma"} }
\* The compressed stream ends before the ciphertext does.
Ae2Entries   == { [Aes("Deflated", "AE2") EXCEPT !.need = 2] }
=============================================================================
