----------------------------- MODULE SealedSecret -----------------------------
(***************************************************************************)
(* What the seal, sign and unseal commands of pcr-oracle promise, in terms *)
(* of register values rather than policy digests (spec.md 4.H, 8 scenario *)
(* 5): a secret sealed to a predicted bank, or to a key that signs the    *)
(* policy of a predicted bank, comes back only while every register that  *)
(* bank covers holds its predicted value.  Any command may fail; a failed *)
(* command changes nothing.  Signatures come only from signing: a seal or *)
(* a sign may drop earlier ones (a new sealed file, an overwritten        *)
(* signature file), never invent one.                                     *)
(***************************************************************************)
CONSTANTS
  Pcrs,    \* the PCR indexes
  Values,  \* the values a register may hold
  Banks,   \* the predicted banks: [mask, valid, pcr]
  Keys,    \* the signing keys
  NULL

VARIABLES
  pcr,         \* the live register values
  binding,     \* what the sealed secret is bound to: [bank, key] or NULL
  authorized,  \* the key the authorized-policy file names, or NULL
  signatures,  \* the signed policies that exist: a set of [bank, key]
  out          \* what the last unseal returned: "secret" or NULL

avars == <<pcr, binding, authorized, signatures, out>>

(* The live registers are those the bank predicts, on the registers the  *)
(* bank made valid.                                                        *)
Covers(bank) == \A i \in bank.valid : pcr[i] = bank.pcr[i]

(* The secret may be released: it is bound to a bank the live registers   *)
(* match, or to a key that signed a policy of such a bank.                *)
Releasable ==
  \/ binding.key = NULL /\ Covers(binding.bank)
  \/ /\ binding.key # NULL
     /\ \E s \in signatures : s.key = binding.key /\ Covers(s.bank)

AInit ==
  /\ pcr \in [Pcrs -> Values]
  /\ binding = NULL
  /\ authorized = NULL
  /\ signatures = {}
  /\ out = NULL

ASeal ==
  /\ \E bank \in Banks : binding' \in {binding, [bank |-> bank, key |-> NULL]}
  /\ signatures' \subseteq signatures
  /\ UNCHANGED <<pcr, authorized, out>>

ACreateAuthorized ==
  /\ \E k \in Keys : authorized' \in {authorized, k}
  /\ UNCHANGED <<pcr, binding, signatures, out>>

ASealAuthorized ==
  /\ authorized # NULL
  /\ binding' \in {binding, [bank |-> NULL, key |-> authorized]}
  /\ signatures' \subseteq signatures
  /\ UNCHANGED <<pcr, authorized, out>>

ASign ==
  /\ \E bank \in Banks, k \in Keys : signatures' \subseteq signatures \cup {[bank |-> bank, key |-> k]}
  /\ UNCHANGED <<pcr, binding, authorized, out>>

AUnseal ==
  /\ binding # NULL
  /\ out' \in IF Releasable THEN {"secret", NULL} ELSE {NULL}
  /\ UNCHANGED <<pcr, binding, authorized, signatures>>

AReboot ==
  /\ pcr' \in [Pcrs -> Values]
  /\ UNCHANGED <<binding, authorized, signatures, out>>

ANext == ASeal \/ ACreateAuthorized \/ ASealAuthorized \/ ASign \/ AUnseal \/ AReboot

ASpec == AInit /\ [][ANext]_avars

=============================================================================
