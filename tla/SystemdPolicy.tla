---------------------------- MODULE SystemdPolicy ----------------------------
(***************************************************************************)
(* The systemd signed-policy JSON file (spec.md 6): a top-level object     *)
(* whose keys are algorithm names, each an array of entries {pcrs, pkfp,  *)
(* pol, sig}, as written by pcr_policy_sign_systemd (src/src/pcr-policy.c) *)
(* and upserted by sdb_policy_file_add_entry (src/src/sd-boot.c), and the *)
(* systemd platform's write_signed_policy.                                 *)
(*                                                                         *)
(* The file is Absent, Denied (access fails other than ENOENT and it  *)
(* cannot be opened for writing), Garbage (not JSON: empty or cut       *)
(* short), NonObject (JSON, not an object), or a document: a function   *)
(* from algorithm names to NonArray or a sequence of entries.  An entry *)
(* is a record whose fields are NULL where the JSON member is missing; a  *)
(* hex policy, fingerprint and base64 signature are the values they       *)
(* encode.  Each command runs alone from start to exit.                    *)
(***************************************************************************)
EXTENDS Integers, FiniteSets, SequencesExt, RsaKey

CONSTANTS
  Algos,        \* algorithm names ("sha256", ...)
  Pols,         \* PCR policy digests
  Keys,         \* signing keys; a fingerprint is the key it names
  Banks,        \* the predicted banks a command is given: [algo, mask, pol]
  InitFiles,    \* what the JSON file may hold when the first command runs
  MaxCommands,  \* commands run in a behaviour
  KeyFiles,     \* the private key files a sign command may be given
  Absent, Denied, Garbage, NonObject, NonArray   \* the states of the file and
                \* of a bank member that are not a document or an array

VARIABLES
  file,       \* the JSON file
  signedfor,  \* for each <<algo, pol>>: [key, mask] of the last command that
              \* wrote an entry for it and succeeded, or NULL
  last,       \* the last command: [cmd, ok, bank, key]
  ncmd        \* commands run so far

vars == <<file, signedfor, last, ncmd>>

Special == {Absent, Denied, Garbage, NonObject}
IsDoc(f) == f \notin Special

(* The RSASSA signature of a policy digest by a key. *)
Sig(pol, key) == <<pol, key>>

NoEntry == [pol |-> NULL, pcrs |-> NULL, pkfp |-> NULL, pfkp |-> NULL, sig |-> NULL]

-----------------------------------------------------------------------------
(* sd-boot.c *)

(* sdb_policy_entry_get_pcr_mask: the mask a "pcrs" array encodes; ok is  *)
(* FALSE when the member is missing or an index is outside 0..31.         *)
sdb_policy_entry_get_pcr_mask(entry) ==
  IF entry.pcrs = NULL THEN [ok |-> FALSE, mask |-> {}]
  ELSE [ok   |-> \A k \in 1..Len(entry.pcrs) : entry.pcrs[k] \in 0..31,
        mask |-> {entry.pcrs[k] : k \in 1..Len(entry.pcrs)}]

sdb_policy_entry_set_pcr_mask_bit(entry, mask) ==
  LET s == SetToSortSeq(mask, <)
  IN [entry EXCEPT !.pcrs = [k \in 1..Len(s) |-> 2 ^ s[k]]]

(* sdb_policy_entry_set_pcr_mask: the loop starts at pcr_index = 1 and    *)
(* shifts the mask right once per index, so bit i is written as i + 1.    *)
sdb_policy_entry_set_pcr_mask(entry, mask) ==
  LET s == SetToSortSeq(mask, <)
  IN [entry EXCEPT !.pcrs = [k \in 1..Len(s) |-> s[k] + 1]]

sdb_policy_find_entry_skip_last(arr, pol) ==
  SelectInSubSeq(arr, 1, Len(arr) - 1, LAMBDA e : e.pol = pol)

(* The search of sdb_policy_find_or_create_entry: the first entry whose   *)
(* "pol" matches; entries without a "pol" string are skipped; 0 if none.  *)
sdb_policy_find_entry(arr, pol) == SelectInSeq(arr, LAMBDA e : e.pol = pol)

(* sdb_policy_find_or_create_entry: the array with the entry for pol, a   *)
(* new one with only "pol" appended when none matched, and its index.     *)
sdb_policy_find_or_create_entry(arr, pol) ==
  LET i == sdb_policy_find_entry(arr, pol)
  IN IF i # 0 THEN [arr |-> arr, idx |-> i]
     ELSE [arr |-> Append(arr, [NoEntry EXCEPT !.pol = pol]), idx |-> Len(arr) + 1]

sdb_policy_bank_array_always_new(doc, algo) == <<>>

(* The bank's array of the document, a new empty one when the algorithm   *)
(* has no member; NonArray when the member is not an array.             *)
sdb_policy_bank_array(doc, algo) == IF algo \in DOMAIN doc THEN doc[algo] ELSE <<>>

(* sdb_policy_file_add_entry up to the write: the document to write, or  *)
(* NULL when the function errors out first.                               *)
sdb_policy_updated_doc(bank, key) ==
  LET doc == IF file = Absent THEN [a \in {} |-> NULL] ELSE file
      arr == sdb_policy_bank_array(doc, bank.algo)
  IN IF file \in {Denied, Garbage, NonObject} \/ arr = NonArray THEN NULL
     ELSE LET fc    == sdb_policy_find_or_create_entry(arr, bank.pol)
              entry == [sdb_policy_entry_set_pcr_mask(fc.arr[fc.idx], bank.mask)
                          EXCEPT !.pfkp = key, !.sig = Sig(bank.pol, key)]
          IN [a \in DOMAIN doc \cup {bank.algo} |->
                IF a = bank.algo THEN [fc.arr EXCEPT ![fc.idx] = entry] ELSE doc[a]]

-----------------------------------------------------------------------------
(* pcr-policy.c *)

(* print_pcr_mask (not in the repository): the indexes of the mask. *)
print_pcr_mask(mask) == SetToSortSeq(mask, <)

(* The document pcr_policy_sign_systemd prints: one bank, one entry with  *)
(* the key's fingerprint and the signature of the policy.                  *)
SignedDoc(bank, fp, sig) ==
  bank.algo :> <<[pol |-> bank.pol, pcrs |-> print_pcr_mask(bank.mask),
                  pkfp |-> fp, pfkp |-> NULL, sig |-> sig]>>

-----------------------------------------------------------------------------
(* Commands *)

(* The last signed command of each policy an entry of f records. *)
Recorded(f) ==
  [ap \in Algos \X Pols |->
     LET a == ap[1]
         arr == IF IsDoc(f) /\ a \in DOMAIN f THEN f[a] ELSE NonArray
         is == IF arr = NonArray THEN {} ELSE {i \in 1..Len(arr) : arr[i].pol = ap[2]}
     IN IF is = {} THEN NULL
        ELSE LET e == arr[CHOOSE i \in is : TRUE]
             IN [key |-> e.pkfp, mask |-> sdb_policy_entry_get_pcr_mask(e).mask]]

Init ==
  /\ file \in InitFiles
  /\ signedfor = Recorded(file)
  /\ last = [cmd |-> "none", ok |-> "ok", bank |-> NULL, key |-> NULL]
  /\ ncmd = 0

Done(cmd, ok, bank, key) ==
  /\ last' = [cmd |-> cmd, ok |-> ok, bank |-> bank, key |-> key]
  /\ ncmd' = ncmd + 1

(* sdb_policy_file_add_entry: read or create the document, upsert the     *)
(* entry, and json_object_to_file, which opens the file with O_TRUNC:     *)
(* when the open fails the file is as it was, when a write fails it is    *)
(* cut short.                                                              *)
SdbPolicyFileAddEntry ==
  /\ ncmd < MaxCommands
  /\ \E bank \in Banks, key \in Keys :
       LET doc == sdb_policy_updated_doc(bank, key) IN
       IF doc = NULL
       THEN Done("add", "failed", bank, key) /\ UNCHANGED <<file, signedfor>>
       ELSE \E written \in {"ok", "open_failed", "write_failed"} :
              /\ file' = CASE written = "ok" -> doc
                           [] written = "open_failed" -> file
                           [] OTHER -> Garbage
              /\ signedfor' = IF written = "ok"
                              THEN [signedfor EXCEPT ![bank.algo, bank.pol] =
                                      [key |-> key, mask |-> bank.mask]]
                              ELSE signedfor
              /\ Done("add", IF written = "ok" THEN "ok" ELSE "failed", bank, key)

(* pcr_policy_sign_systemd: fopen(output_path, "w") first, then the      *)
(* private key (tpm_rsa_key_read_private) and its fingerprint, the PCR    *)
(* policy (__pcr_policy_make, which may fail) and its signature            *)
(* (__pcr_policy_sign), then the document.  When fopen fails the out      *)
(* label calls fclose(NULL); any later failure leaves the truncated file.  *)
PcrPolicySignSystemd ==
  /\ ncmd < MaxCommands
  /\ \E bank \in Banks :
       IF file = Denied
       THEN Done("sign", "crash", bank, NULL) /\ UNCHANGED <<file, signedfor>>
       ELSE \E kf \in KeyFiles :
            LET rk == tpm_rsa_key_read_private(kf) IN
            \E made \in IF rk = NULL THEN {FALSE} ELSE BOOLEAN,
               evp \in IF rk = NULL THEN {"ok"} ELSE {"ok", "failed"} :
            LET sig == IF made THEN tpm_rsa_sign(rk, bank.pol, evp) ELSE NULL
                key == IF rk = NULL THEN NULL ELSE rk.key
            IN /\ file' = IF sig # NULL
                          THEN SignedDoc(bank, tpm_rsa_key_public_digest(rk), sig)
                          ELSE Garbage
               /\ signedfor' = IF sig # NULL
                               THEN [signedfor EXCEPT ![bank.algo, bank.pol] =
                                       [key |-> key, mask |-> bank.mask]]
                               ELSE signedfor
               /\ Done("sign", IF sig # NULL THEN "ok" ELSE "failed", bank, key)

(* systemd_write_signed_policy: refuses an output other than the input, *)
(* and otherwise reports that it is not implemented.                      *)
SystemdWriteSignedPolicy ==
  /\ ncmd < MaxCommands
  /\ \E bank \in Banks, key \in Keys : Done("platform_sign", "failed", bank, key)
  /\ UNCHANGED <<file, signedfor>>

Next == SdbPolicyFileAddEntry \/ PcrPolicySignSystemd \/ SystemdWriteSignedPolicy

Spec == Init /\ [][Next]_vars

-----------------------------------------------------------------------------
(* Properties *)

Entries == [pol : Pols \cup {NULL}, pcrs : Seq(0..32) \cup {NULL},
            pkfp : Keys \cup {NULL}, pfkp : Keys \cup {NULL},
            sig : {Sig(p, k) : p \in Pols, k \in Keys} \cup {NULL}]

TypeOK ==
  /\ \/ file \in Special
     \/ /\ DOMAIN file \subseteq Algos
        /\ \A a \in DOMAIN file : file[a] = NonArray \/ file[a] \in Seq(Entries)
  /\ signedfor \in [Algos \X Pols -> [key : Keys, mask : SUBSET (0..31)] \cup {NULL}]
  /\ last.ok \in {"ok", "failed", "crash"}
  /\ ncmd \in 0..MaxCommands

(* The entries of a bank array that are those of policy p. *)
EntriesOf(arr, p) == {i \in 1..Len(arr) : arr[i].pol = p}

(* Upserting is idempotent (spec.md 8): in every bank array of the file   *)
(* each policy has at most one entry, and it carries the signature of the *)
(* last command that signed that policy and succeeded, however many times  *)
(* the policy was added, re-signed with another key or the file rewritten. *)
(* This is about the search of sdb_policy_find_or_create_entry over the   *)
(* array and the members the upsert replaces in the entry it found.       *)
UpsertCurrent ==
  IsDoc(file) =>
    \A a \in DOMAIN file : file[a] # NonArray =>
      \A p \in Pols :
        /\ Cardinality(EntriesOf(file[a], p)) <= 1
        /\ \A i \in EntriesOf(file[a], p) :
             signedfor[a, p] # NULL /\ file[a][i].sig = Sig(p, signedfor[a, p].key)

(* The entries of f other than policy p of algorithm a. *)
Others(f, a, p) ==
  [b \in DOMAIN f |->
     IF b = a /\ f[b] # NonArray THEN SelectSeq(f[b], LAMBDA e : e.pol # p) ELSE f[b]]

(* A successful sdb_policy_file_add_entry keeps every other bank of the   *)
(* file and, in its own bank, every entry of another policy, in order:    *)
(* an upsert of one policy never drops or reorders what other tools or    *)
(* earlier runs wrote.  This is about the bank lookup and the append of   *)
(* sdb_policy_find_or_create_entry.                                       *)
AddKeepsOthers ==
  [][ (last'.cmd = "add" /\ last'.ok = "ok" /\ IsDoc(file))
        => LET a == last'.bank.algo
               p == last'.bank.pol
           IN Others(file', a, p) = [b \in DOMAIN file' |->
                                       IF b \in DOMAIN file THEN Others(file, a, p)[b]
                                       ELSE <<>>] ]_vars

(* Every entry systemd reads back describes what was signed for its       *)
(* policy (spec.md 6): its "pcrs" array encodes the mask of the bank the  *)
(* policy was computed from, and its "pkfp" names the signing key.  This   *)
(* is about sdb_policy_entry_set_pcr_mask and the members the upsert of    *)
(* sdb_policy_file_add_entry writes.                                       *)
EntryAsSigned ==
  IsDoc(file) =>
    \A a \in DOMAIN file : file[a] # NonArray =>
      \A i \in 1..Len(file[a]) :
        LET e == file[a][i] IN
        (e.pol # NULL /\ signedfor[a, e.pol] # NULL) =>
          /\ sdb_policy_entry_get_pcr_mask(e) = [ok |-> TRUE, mask |-> signedfor[a, e.pol].mask]
          /\ e.pkfp = signedfor[a, e.pol].key

=============================================================================
