------------------------- MODULE MC_EventLogReader -------------------------
(***************************************************************************)
(* The reader over every log of up to three records built from the       *)
(* records below.  Algorithm ids are the TPM2_ALG_* values; 39            *)
(* (TPM2_ALG_SHA3_256) is not built in and is declared by one of the      *)
(* headers, 40 (TPM2_ALG_SHA3_384) is declared by none.  The digest-count *)
(* limit is scaled from 32 to 1 so that records over the limit occur.     *)
(***************************************************************************)
EXTENDS EventLogReader

MC_SHA1 == 4
MC_SHA256 == 11
SHA3_256 == 39
SHA3_384 == 40
MC_BuiltinAlgs == {MC_SHA1, MC_SHA256}
MC_MaxAlgos == 64
MC_AlgLast == 68
MC_MaxEventDigests == 1

(* Spec ID headers: TCG2 declaring SHA3-256 (and SHA-256 with a           *)
(* conflicting size), TCG2 with an empty table, a header naming spec      *)
(* version 1, and one whose table is cut short.                           *)
Headers ==
  { [major |-> 2, algos |-> <<<<SHA3_256, 32>>, <<MC_SHA256, 48>>>>, ok |-> TRUE],
    [major |-> 2, algos |-> <<>>, ok |-> TRUE],
    [major |-> 1, algos |-> <<>>, ok |-> TRUE],
    [major |-> 2, algos |-> <<>>, ok |-> FALSE] }

AlgLists(v) ==
  IF v = 1 THEN {<<MC_SHA1>>}
  ELSE {<<MC_SHA256>>, <<MC_SHA1, MC_SHA256>>, <<SHA3_256>>, <<SHA3_384>>}

Record(t, p, b, a, bad) ==
  [type |-> t, pcr |-> p, body |-> b, loc |-> IF b = "locality" THEN 3 ELSE 0,
   algs |-> a, hdr |-> NoHeader, bad |-> bad]

(* The records of a log in format v. *)
Alphabet(v) ==
  { Record(t, p, b, a, "none") :
      t \in {NO_ACTION, "EV_SEPARATOR"}, p \in {0, 7},
      b \in {"data", "locality"}, a \in AlgLists(v) }
  \cup { Record("EV_SEPARATOR", 7, "data", a, bad) :
           a \in AlgLists(v), bad \in {"truncated", "oversized"} }

HeaderRecord(h) ==
  [type |-> NO_ACTION, pcr |-> 0, body |-> "specid", loc |-> 0,
   algs |-> <<MC_SHA1>>, hdr |-> h, bad |-> "none"]

MaxRecords == 3

Tails(v, n) == UNION {[1..k -> Alphabet(v)] : k \in 0..n}

AllLogs ==
  Tails(1, MaxRecords)
  \cup UNION { {<<HeaderRecord(h)>> \o t : t \in Tails(h.major, MaxRecords - 1)} :
               h \in Headers }

MC_Logs == {l \in AllLogs : TcgOrdered(l)}

(* A TCG2 header declaring TPM2_ALG_CFB (0x43): an id below TPM2_ALG_LAST   *)
(* and not built in, but past the 64 entries of the algorithm table.      *)
TPM2_ALG_CFB == 67
CfbHeader == [major |-> 2, algos |-> <<<<TPM2_ALG_CFB, 16>>>>, ok |-> TRUE]

MC_CfbLogs == {<<HeaderRecord(CfbHeader)>> \o t : t \in Tails(2, 1)}
=============================================================================
