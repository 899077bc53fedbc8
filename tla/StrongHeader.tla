------------------------------ MODULE StrongHeader ------------------------------
(***************************************************************************)
(* The decryption header of PKWARE strong encryption, as                   *)
(* read_strong_header and parse_strong_layout take it apart: which headers *)
(* are accepted, and which bytes of the remainder buffer p are indexed     *)
(* without a further check.  Numbers are the real ones.                    *)
(***************************************************************************)
EXTENDS Integers

ALG_AES128     == 26126     \* 0x660E
AES_BLOCK      == 16
MAX_STRONG_REM == 262144

U16 == {n \in Nat : n < 65536}

Headers ==
    [ iv_size : U16, rem_size : Nat, format : U16, alg : U16, bit_len : U16,
      triple_des : BOOLEAN, certificate : BOOLEAN, password : BOOLEAN,  \* flag bits
      rd_size : U16, reserved : Nat, valid_size : U16 ]

IvAccepted(h)  == h.iv_size \in {0, 16}
RemAccepted(h) == 16 <= h.rem_size /\ h.rem_size <= MAX_STRONG_REM

key_size(h) == 16 + (h.alg - ALG_AES128) * 8

FixedAccepted(h) ==
    /\ h.format = 3
    /\ h.alg \in ALG_AES128..(ALG_AES128 + 2)
    /\ key_size(h) * 8 = h.bit_len
    /\ ~h.triple_des
    /\ ~h.certificate
    /\ h.password

\* Seeded fault: only the encrypted random data itself has to fit.
ErdFits(h) ==
    /\ 10 + h.rd_size <= h.rem_size
    /\ h.rd_size >= AES_BLOCK
    /\ h.rd_size % AES_BLOCK = 0

ErdAccepted(h) ==
    /\ h.rd_size + 16 <= h.rem_size
    /\ h.rd_size >= AES_BLOCK
    /\ h.rd_size % AES_BLOCK = 0

reserved_off(h) == 10 + h.rd_size
valid_off(h)    == reserved_off(h) + 6

ValidAccepted(h) ==
    /\ h.valid_size >= 4
    /\ h.valid_size % AES_BLOCK = 0
    /\ valid_off(h) + h.valid_size = h.rem_size

parse_strong_layout(h) ==
    FixedAccepted(h) /\ ErdAccepted(h) /\ h.reserved = 0 /\ ValidAccepted(h)

\* The checks of read_strong_header that do not depend on the password.
read_strong_header(h) == IvAccepted(h) /\ RemAccepted(h) /\ parse_strong_layout(h)

(***************************************************************************)
(* What a writer of the password variant produces: random data and a       *)
(* validation blob of whole blocks, one behind the other.                  *)
(***************************************************************************)
WellFormed(h) ==
    /\ h.iv_size \in {0, 16} /\ h.format = 3 /\ h.password /\ h.reserved = 0
    /\ ~h.triple_des /\ ~h.certificate
    /\ <<h.alg, h.bit_len>> \in {<<26126, 128>>, <<26127, 192>>, <<26128, 256>>}
    /\ h.rd_size > 0 /\ h.valid_size > 0
    /\ h.rd_size % 16 = 0 /\ h.valid_size % 16 = 0
    /\ h.rem_size = 16 + h.rd_size + h.valid_size

\* Every index into p that a header reaches, when it is as the checks in front
\* of that index left it, is below p.len(), no length underflows, and the last
\* block of p, which becomes the IV of the file data, is the last one of the
\* validation blob and not part of the fields in front of it.
IndexesInside(h) ==
    RemAccepted(h) =>
        /\ 9 < h.rem_size
        /\ ErdAccepted(h) => reserved_off(h) + 5 < h.rem_size
        /\ parse_strong_layout(h) =>
              /\ key_size(h) \in {16, 24, 32}
              /\ h.rd_size - AES_BLOCK >= 0
              /\ h.valid_size - 4 >= 0
              /\ valid_off(h) + h.valid_size <= h.rem_size
              /\ valid_off(h) <= h.rem_size - AES_BLOCK
================================================================================
