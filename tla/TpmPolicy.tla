------------------------------ MODULE TpmPolicy ------------------------------
(***************************************************************************)
(* The TPM policy builder of src/src/pcr-policy.c: the ESYS calls behind   *)
(* pcr_seal_secret, pcr_authorized_policy_create,                          *)
(* pcr_authorized_policy_seal_secret, pcr_policy_sign and the two unseal   *)
(* paths of the oldgrub platform, with the handles each call loads into    *)
(* the TPM and the flushes of their cleanup labels.                        *)
(*                                                                         *)
(* Every command of the tool is one action: the process runs it from start *)
(* to exit with one ESYS context and nothing else touches that context.    *)
(* Any one ESYS call of a command may fail (the TPM's answer is outside    *)
(* the code's control); c.fail names which, by its position among the      *)
(* command's calls, 0 for none.  A command's ESYS context is the record c: *)
(* the handles loaded in the TPM, the calls made so far, the call that     *)
(* fails, and whether a flush named a handle the TPM does not hold.        *)
(*                                                                         *)
(* A digest is the value it is a hash of: a PCR digest the sequence of     *)
(* register values, a policy digest the policy commands that made it.      *)
(***************************************************************************)
EXTENDS Integers, FiniteSets, SequencesExt

CONSTANTS
  Pcrs,         \* the PCR indexes a selection may name (a subset of 0..23)
  Measured,     \* register values that are valid digests
  Zero,         \* the all-zero register value
  Invalid,      \* register values digest_is_invalid flags (all 0x00, all 0xFF)
  Banks,        \* the predicted banks the tool is given: [mask, valid, pcr]
  Masks,        \* the PCR masks an unseal may be asked for
  Keys,         \* RSA key pairs (the private key signs, the public one is loaded)
  Platforms,    \* the target platforms the commands are given
  MaxCommands,  \* commands run in a behaviour
  NULL

NONE == "ESYS_TR_NONE"
GARBAGE == "uninitialised"      \* an ESYS_TR read from an uninitialised stack slot

(* What a handle is to the TPM: a sequence, a session or a transient object. *)
Roles == {"seq", "trial", "policy", "ext", "srk", "sealed"}

VARIABLES
  tpmpcr,     \* the live PCR values
  loaded,     \* the transient handles the TPM holds
  badflush,   \* some Esys_FlushContext named a handle the TPM does not hold
  sealed,     \* the sealed-secret file: [blob, intent] or NULL
  authpolicy, \* the authorized-policy file: a policy digest or NULL
  signed,     \* the signed-policy file: [policy, key, bank] or NULL
  out,        \* what the last unseal wrote: the secret or NULL
  last,       \* the last command: [cmd, injected, mask, key]
  ncmd        \* commands run so far

vars == <<tpmpcr, loaded, badflush, sealed, authpolicy, signed, out, last, ncmd>>

MinOf(a, b) == IF a < b THEN a ELSE b

-----------------------------------------------------------------------------
(* Policy digests *)

PcrPolicy(sel, digest) == <<"PolicyPCR", sel, digest>>
AuthPolicy(key) == <<"PolicyAuthorize", key>>

(* A set of PCR indexes in increasing order: the k-th is the one with     *)
(* k - 1 smaller ones.  (SetToSortSeq's CHOOSE over all sequences is too  *)
(* slow for the millions of times the commands evaluate it.)              *)
Ascending(regs) ==
  [k \in 1..Cardinality(regs) |-> CHOOSE i \in regs : Cardinality({j \in regs : j < i}) = k - 1]

(* The register values of a set of PCRs, in increasing index order. *)
ValuesOf(pcr, regs) ==
  LET s == Ascending(regs) IN [k \in 1..Len(s) |-> pcr[s[k]]]

-----------------------------------------------------------------------------
(* The ESYS context of a command *)

(* The position among the next n calls of the one that fails; n + 1 when  *)
(* none of them does.                                                      *)
FailStep(c, n) == IF c.fail - c.calls \in 1..n THEN c.fail - c.calls ELSE n + 1

(* Make the calls up to the failing one of n, loading the handles created. *)
Advance(c, f, n, created) ==
  [c EXCEPT !.calls = @ + MinOf(f, n), !.loaded = @ \cup created]

(* esys_flush_context: nothing for ESYS_TR_NONE; a handle ESYS does not   *)
(* know is an error Esys_FlushContext reports.                             *)
esys_flush_context(c, h) ==
  IF h = NONE THEN c
  ELSE IF h \in c.loaded THEN [c EXCEPT !.loaded = @ \ {h}]
  ELSE [c EXCEPT !.badflush = TRUE]

FlushAll(c, hs) == FoldLeft(esys_flush_context, c, hs)

(* The value of a handle variable initialised to ESYS_TR_NONE once calls  *)
(* up to the failing one f have been made, when call j creates h.         *)
Held(f, j, h) == IF f > j THEN h ELSE NONE

(* The handles of a sequence of handle variables that name a TPM object. *)
Created(hs) == {hs[k] : k \in 1..Len(hs)} \cap Roles

-----------------------------------------------------------------------------
(* PCR selections: three bytes of bits, as TPMS_PCR_SELECTION.pcrSelect *)

EmptySel == [b \in 0..2 |-> {}]

__pcr_selection_build(mask) == [b \in 0..2 |-> {j \in 0..7 : 8 * b + j \in mask}]

__pcr_selection_add_bit_as_byte(sel, i) == [sel EXCEPT ![i \div 8] = @ \cup {i}]

__pcr_selection_add(sel, i) == [sel EXCEPT ![i \div 8] = @ \cup {i % 8}]

(* The PCRs the TPM reads a selection as. *)
SelPcrs(sel) == UNION {{8 * b + j : j \in sel[b]} : b \in 0..2}

-----------------------------------------------------------------------------
(* Trial policies *)

HashOrderDescending(bank) == SetToSortSeq(bank.valid, >)

(* The registers the loop of __pcr_bank_hash feeds to the sequence, in    *)
(* the order it visits them: i from 0 up, valid registers only.           *)
HashOrder(bank) == Ascending(bank.valid)

(* __pcr_bank_hash: a hash sequence over the valid registers in index     *)
(* order, each added to the selection.  A failed update ends the sequence  *)
(* with Esys_SequenceComplete; the handle variable is cleared before the  *)
(* final Esys_SequenceComplete's result is checked.                       *)
__pcr_bank_hash(c, bank) ==
  LET regs == HashOrder(bank)
      n    == Len(regs)
      f    == FailStep(c, n + 2)            \* start, n updates, complete
      sel  == FoldLeft(__pcr_selection_add, EmptySel, regs)
      c1   == Advance(c, f, n + 2, IF f > 1 THEN {"seq"} ELSE {})
  IN CASE f = 1 -> [ok |-> FALSE, c |-> c1, sel |-> EmptySel, hash |-> NULL]
       [] f \in 2..n + 1 ->                 \* goto failed
            [ok |-> FALSE, sel |-> EmptySel, hash |-> NULL,
             c |-> [c1 EXCEPT !.calls = @ + 1, !.loaded = @ \ {"seq"}]]
       [] f = n + 2 -> [ok |-> FALSE, c |-> c1, sel |-> EmptySel, hash |-> NULL]
       [] OTHER -> [ok |-> TRUE, c |-> [c1 EXCEPT !.loaded = @ \ {"seq"}],
                    sel |-> sel, hash |-> [k \in 1..n |-> bank.pcr[regs[k]]]]

(* esys_policy_pcr: trial session, PolicyPCR, PolicyGetDigest. *)
esys_policy_pcr(c, sel, digest) ==
  LET f  == FailStep(c, 3)
      c1 == Advance(c, f, 3, IF f > 1 THEN {"trial"} ELSE {})
  IN [ok |-> f = 4,
      c |-> esys_flush_context(c1, Held(f, 1, "trial")),
      result |-> IF f = 4 THEN PcrPolicy(SelPcrs(sel), digest) ELSE NULL]

__pcr_policy_make(c, bank) ==
  LET h == __pcr_bank_hash(c, bank)
      p == esys_policy_pcr(h.c, h.sel, h.hash)
  IN IF ~h.ok THEN [c |-> h.c, result |-> NULL]
     ELSE [c |-> p.c, result |-> p.result]

(* esys_create_authorized_policy: session_handle and pub_key_handle are   *)
(* not initialised, so the flushes of the out label read whatever the     *)
(* stack held (sess0, pub0) when LoadExternal, TR_GetName or              *)
(* StartAuthSession fails first.  The trial PolicyAuthorize digest        *)
(* depends on the key's name only.                                        *)
esys_create_authorized_policy(c, pcrPolicy, key, sess0, pub0) ==
  LET f    == FailStep(c, 5)     \* LoadExternal, TR_GetName, StartAuthSession,
                                 \* PolicyAuthorize, PolicyGetDigest
      pub  == IF f > 1 THEN "ext" ELSE pub0
      sess == IF f > 3 THEN "trial" ELSE sess0
      c1   == Advance(c, f, 5, {h \in {pub, sess} : h \in Roles})
  IN [ok |-> f = 6, c |-> FlushAll(c1, <<sess, pub>>),
      result |-> IF f = 6 THEN AuthPolicy(key) ELSE NULL]

-----------------------------------------------------------------------------
(* Sealing and unsealing *)

(* esys_seal_secret: CreatePrimary, Create with the policy as authPolicy, *)
(* the platform's write of the blob, and the SRK flushed in cleanup.      *)
esys_seal_secret(c, policy) ==
  LET f  == FailStep(c, 2)       \* CreatePrimary, Create
      c1 == Advance(c, f, 2, IF f > 1 THEN {"srk"} ELSE {})
  IN [ok |-> f = 3, c |-> esys_flush_context(c1, Held(f, 1, "srk")),
      blob |-> IF f = 3 THEN [policy |-> policy, secret |-> "secret"] ELSE NULL]

(* The policy digest a POLICY session has after PolicyPCR with an empty   *)
(* digest: the TPM hashes its own registers of the selection.             *)
LivePcrPolicy(pcr, sel) == PcrPolicy(SelPcrs(sel), ValuesOf(pcr, SelPcrs(sel)))

(* esys_unseal_pcr_policy: the TPM refuses Unseal when the session's      *)
(* policy is not the object's authPolicy.                                 *)
esys_unseal_pcr_policy(c, bank, blob, pcr) ==
  LET pcrs == __pcr_selection_build(bank.valid)
      inj  == FailStep(c, 5)     \* CreatePrimary, Load, StartAuthSession,
                                 \* PolicyPCR, Unseal
      f    == MinOf(inj, IF LivePcrPolicy(pcr, pcrs) # blob.policy THEN 5 ELSE 6)
      hs   == <<Held(f, 3, "policy"), Held(f, 1, "srk"), Held(f, 2, "sealed")>>
      c1   == Advance(c, f, 5, Created(hs))
  IN [ok |-> f = 6, c |-> FlushAll(c1, hs)]

(* esys_unseal_authorized: the TPM refuses VerifySignature unless the     *)
(* signature is the loaded key's over the live PCR policy, and Unseal     *)
(* unless the object's authPolicy is PolicyAuthorize of that key.         *)
esys_unseal_authorized(c, bank, sig, key, blob, pcr) ==
  LET pcrs   == __pcr_selection_build(bank.valid)
      policy == LivePcrPolicy(pcr, pcrs)
      inj    == FailStep(c, 11)  \* LoadExternal, TR_GetName, CreatePrimary, Load,
                                 \* StartAuthSession, PolicyPCR, PolicyGetDigest, Hash,
                                 \* VerifySignature, PolicyAuthorize, Unseal
      f      == MinOf(inj, MinOf(IF sig.key # key \/ sig.policy # policy THEN 9 ELSE 12,
                                 IF blob.policy # AuthPolicy(key) THEN 11 ELSE 12))
      hs     == <<Held(f, 1, "ext"), Held(f, 5, "policy"), Held(f, 3, "srk"),
                  Held(f, 4, "sealed")>>
      c1     == Advance(c, f, 11, Created(hs))
  IN [ok |-> f = 12, c |-> FlushAll(c1, hs)]

-----------------------------------------------------------------------------
(* The tpm2.0 platform: TPM 2.0 Key Files *)

(* pcr_bank_to_selection: the selection of the registers the bank made   *)
(* valid.                                                                  *)
pcr_bank_to_selection(bank) == __pcr_selection_build(bank.valid)

(* A TSSOPTPOLICY entry: the command code and what its CommandPolicy      *)
(* holds.  tpm2key_add_policy_policypcr is given the selection only, so   *)
(* the PolicyPCR entry carries an empty digest and the TPM hashes its own *)
(* registers.                                                              *)
PolicyPCRCmd(sel) == <<"PolicyPCR", sel>>
PolicyAuthorizeCmd(key, sig) == <<"PolicyAuthorize", key, sig>>

(* tpm2key_write_sealed_secret: a Key File with the sealed object, whose  *)
(* policy sequence is PolicyPCR of the selection when there is one.       *)
tpm2key_write_sealed_secret(sel) ==
  [policy |-> IF sel = NULL THEN <<>> ELSE <<PolicyPCRCmd(sel)>>, auth |-> <<>>]

(* tpm2key_write_signed_policy: an authPolicy entry PolicyPCR of the      *)
(* signed bank's selection then PolicyAuthorize with the key and the      *)
(* signature, prepended to the entries of the Key File.                   *)
tpm2key_write_signed_policy(keyfile, bank, key, sig) ==
  [keyfile EXCEPT !.auth = <<<<PolicyPCRCmd(pcr_bank_to_selection(bank)),
                               PolicyAuthorizeCmd(key, sig)>>>> \o @]

(* The digest of a policy session that has run no command yet. *)
EmptyDigest == <<>>

(* PolicyPCR extends the session digest with the live registers of the    *)
(* selection; in a fresh session the result is the PCR policy.            *)
ExtendDigest(d, p) == IF d = EmptyDigest THEN p ELSE <<"chain", d, p>>

(* __pcr_policy_tpm2_policypcr: one Esys_PolicyPCR. *)
__pcr_policy_tpm2_policypcr(st, sel, pcr) ==
  LET f == FailStep(st.c, 1)
  IN [ok |-> f = 2, c |-> Advance(st.c, f, 1, {}),
      digest |-> IF f = 2 THEN ExtendDigest(st.digest, LivePcrPolicy(pcr, sel)) ELSE st.digest]

(* __pcr_policy_tpm2_policyauthorize: PolicyGetDigest, Hash,              *)
(* LoadExternal, TR_GetName, VerifySignature, PolicyAuthorize, and the    *)
(* loaded key flushed.  The TPM refuses VerifySignature unless the        *)
(* signature is the key's over the session's current digest; after       *)
(* PolicyAuthorize the digest is that of the key alone.                   *)
__pcr_policy_tpm2_policyauthorize(st, key, sig) ==
  LET inj == FailStep(st.c, 6)
      f   == MinOf(inj, IF sig.key # key \/ sig.policy # st.digest THEN 5 ELSE 7)
      hs  == <<Held(f, 3, "ext")>>
  IN [ok |-> f = 7, c |-> FlushAll(Advance(st.c, f, 6, Created(hs)), hs),
      digest |-> IF f = 7 THEN AuthPolicy(key) ELSE st.digest]

(* One command of a policy sequence; after a failed one the loop has      *)
(* jumped to cleanup.                                                      *)
RunPolicyCommand(st, cmd, pcr) ==
  CASE ~st.ok -> st
    [] cmd[1] = "PolicyPCR" -> __pcr_policy_tpm2_policypcr(st, cmd[2], pcr)
    [] OTHER -> __pcr_policy_tpm2_policyauthorize(st, cmd[2], cmd[3])

(* __pcr_policy_unseal_policy_seq: a policy session, the commands in      *)
(* order, Unseal, and the session flushed.  The TPM refuses Unseal unless *)
(* the session's digest is the object's authPolicy.                       *)
__pcr_policy_unseal_policy_seq(c, seq, blob, pcr) ==
  LET f0 == FailStep(c, 1)
      c0 == Advance(c, f0, 1, IF f0 > 1 THEN {"policy"} ELSE {})
      st == FoldLeft(LAMBDA s, cmd : RunPolicyCommand(s, cmd, pcr),
                     [ok |-> TRUE, c |-> c0, digest |-> EmptyDigest], seq)
      fu == MinOf(FailStep(st.c, 1), IF st.digest # blob.policy THEN 1 ELSE 2)
  IN CASE f0 = 1 -> [ok |-> FALSE, c |-> c0]
       [] ~st.ok -> [ok |-> FALSE, c |-> esys_flush_context(st.c, "policy")]
       [] OTHER  -> [ok |-> fu = 2, c |-> esys_flush_context(Advance(st.c, fu, 1, {}), "policy")]

(* The policy sequences tpm2key_unseal_secret tries: every authPolicy     *)
(* entry when there is one, else the Key File's policy.                   *)
PolicySeqs(keyfile) ==
  IF keyfile.auth # <<>> THEN keyfile.auth
  ELSE IF keyfile.policy # <<>> THEN <<keyfile.policy>> ELSE <<>>

(* tpm2key_unseal_secret: CreatePrimary, Load, the policy sequences in    *)
(* order until one unseals, then the primary and the object flushed.      *)
tpm2key_unseal_secret(c, keyfile, blob, pcr) ==
  LET f  == FailStep(c, 2)
      hs == <<Held(f, 1, "srk"), Held(f, 2, "sealed")>>
      c1 == Advance(c, f, 2, Created(hs))
      r  == FoldLeft(LAMBDA s, seq : IF s.ok THEN s
                                     ELSE __pcr_policy_unseal_policy_seq(s.c, seq, blob, pcr),
                     [ok |-> FALSE, c |-> c1], PolicySeqs(keyfile))
  IN IF f <= 2 THEN [ok |-> FALSE, c |-> FlushAll(c1, hs)]
     ELSE [ok |-> r.ok, c |-> FlushAll(r.c, hs)]

-----------------------------------------------------------------------------
(* pcr_read_into_bank *)

(* pcr_bank_initialize: no register valid, every register zero. *)
pcr_bank_initialize(mask) == [mask |-> mask, valid |-> {}, pcr |-> [i \in Pcrs |-> Zero]]

(* pcr_bank_init_from_zero: every register of the mask zero and valid. *)
pcr_bank_init_from_zero(mask) == [pcr_bank_initialize(mask) EXCEPT !.valid = mask]

ChunkUnshifted(mask, off) == {i \in mask : i < 8}

(* bank->pcr_mask & (0xFFU << pcr_chunk_offset) *)
Chunk(mask, off) == {i \in mask : off <= i /\ i < off + 8}

(* One Esys_PCR_Read: the digests come back in index order and the k-th  *)
(* is stored in the k-th selected register; an invalid digest leaves the *)
(* register out of the valid mask.                                        *)
ReadChunk(bank, regs, pcr) ==
  LET s       == Ascending(regs)
      digests == ValuesOf(pcr, regs)
  IN [bank EXCEPT
        !.pcr   = [i \in Pcrs |-> IF i \in regs THEN digests[IndexFirstSubSeq(<<i>>, s)] ELSE @[i]],
        !.valid = @ \cup {s[k] : k \in {j \in 1..Len(s) : digests[j] \notin Invalid}}]

(* The chunks of 8 registers read one after the other; a failed read     *)
(* leaves the bank with the chunks read before it.                       *)
pcr_read_into_bank(c, mask, pcr) ==
  LET offs == SelectSeq(<<0, 8, 16>>, LAMBDA off : Chunk(mask, off) # {})
      n    == Len(offs)
      f    == FailStep(c, n)
      read == SubSeq(offs, 1, MinOf(f - 1, n))
  IN [ok |-> f = n + 1, c |-> Advance(c, f, n, {}),
      bank |-> FoldLeft(LAMBDA b, off : ReadChunk(b, Chunk(mask, off), pcr),
                        pcr_bank_initialize(mask), read)]

-----------------------------------------------------------------------------
(* Commands *)

NoCommand == [cmd |-> "none", injected |-> FALSE, mask |-> NULL, key |-> NULL]

Init ==
  /\ tpmpcr \in [Pcrs -> Measured \cup Invalid]
  /\ loaded = {}
  /\ badflush = FALSE
  /\ sealed = NULL
  /\ authpolicy = NULL
  /\ signed = NULL
  /\ out = NULL
  /\ last = NoCommand
  /\ ncmd = 0

(* The sealed-secret file is a TPM 2.0 Key File. *)
IsKeyFile == sealed # NULL /\ sealed.keyfile # NULL

(* The target_platforms table: the writer and unseal of each platform.   *)
(* systemd seals as tpm2.0 does, signs with systemd_write_signed_policy   *)
(* (which always fails) and has no unseal.                                 *)
target_platforms ==
  ("oldgrub" :> [write_sealed_secret |-> "oldgrub", write_signed_policy |-> "oldgrub",
                 unseal_secret |-> "oldgrub"]) @@
  ("tpm2.0"  :> [write_sealed_secret |-> "tpm2key", write_signed_policy |-> "tpm2key",
                 unseal_secret |-> "tpm2key"]) @@
  ("systemd" :> [write_sealed_secret |-> "tpm2key", write_signed_policy |-> "systemd",
                 unseal_secret |-> NULL])

(* What a platform's write_sealed_secret adds to the blob: nothing for    *)
(* oldgrub, the Key File's policy for tpm2key_write_sealed_secret.        *)
KeyFile(platform, sel) ==
  IF target_platforms[platform].write_sealed_secret = "oldgrub" THEN NULL
  ELSE tpm2key_write_sealed_secret(sel)

(* The ESYS context a command starts with, when its call number fail fails. *)
Ctx(fail) == [loaded |-> loaded, calls |-> 0, fail |-> fail, badflush |-> badflush]

(* What the TPM and the record of the command are when the process exits. *)
Exit(cmd, c, mask, key) ==
  /\ loaded' = c.loaded
  /\ badflush' = c.badflush
  /\ last' = [cmd |-> cmd, injected |-> c.fail \in 1..c.calls, mask |-> mask, key |-> key]
  /\ ncmd' = ncmd + 1

(* An input a failed command never got to use: which one was given      *)
(* changes nothing, so one stands for all.                                 *)
Given(S, used) == IF used THEN S ELSE {CHOOSE x \in S : TRUE}

(* pcr_seal_secret: the PCR policy of the predicted bank, then the seal,  *)
(* written as the platform's file with the selection of the bank.        *)
PcrSealSecret ==
  /\ ncmd < MaxCommands
  /\ \E bank \in Banks :
     LET Seal(fail) == LET m == __pcr_policy_make(Ctx(fail), bank)
                       IN esys_seal_secret(m.c, m.result)
     IN \E fail \in 0..Seal(0).c.calls :
       LET p == __pcr_policy_make(Ctx(fail), bank)
           s == Seal(fail)
       IN \E platform \in Given(Platforms, s.ok) :
          IF p.result = NULL
          THEN Exit("seal", p.c, NULL, NULL) /\ UNCHANGED sealed
          ELSE /\ Exit("seal", s.c, NULL, NULL)
               /\ sealed' = IF s.ok THEN [blob |-> s.blob, bank |-> bank, key |-> NULL,
                                          keyfile |-> KeyFile(platform, pcr_bank_to_selection(bank))]
                            ELSE sealed
  /\ UNCHANGED <<tpmpcr, authpolicy, signed, out>>

(* What an uninitialised handle variable may hold when the flush reads   *)
(* it: whatever the stack held, when no call assigned it first.           *)
StackSlot(read) == IF read THEN {NONE, GARBAGE} ELSE {NONE}

(* pcr_authorized_policy_create with __pcr_policy_create_authorized: the  *)
(* PCR policy of a zero bank, then PolicyAuthorize in a trial session.    *)
PcrAuthorizedPolicyCreate ==
  /\ ncmd < MaxCommands
  /\ \E mask \in Masks :
     LET Make(fail) == __pcr_policy_make(Ctx(fail), pcr_bank_init_from_zero(mask))
         Create(fail, k, s0, p0) == LET m == Make(fail)
                                    IN esys_create_authorized_policy(m.c, m.result, k, s0, p0)
     IN \E fail \in 0..Create(0, NULL, NONE, NONE).c.calls :
       LET p == Make(fail)
           f == FailStep(p.c, 5)
       IN \E sess0 \in StackSlot(f <= 3), pub0 \in StackSlot(f <= 1) :
          \E key \in Given(Keys, Create(fail, NULL, sess0, pub0).ok) :
       LET a == Create(fail, key, sess0, pub0)
       IN IF p.result = NULL
          THEN Exit("authpolicy", p.c, NULL, NULL) /\ UNCHANGED authpolicy
          ELSE /\ Exit("authpolicy", a.c, NULL, NULL)
               /\ authpolicy' = IF a.ok THEN [digest |-> a.result, key |-> key]
                                ELSE authpolicy
  /\ UNCHANGED <<tpmpcr, sealed, signed, out>>

(* pcr_authorized_policy_seal_secret: seal under the digest of the file, *)
(* with no selection.                                                      *)
PcrAuthorizedPolicySealSecret ==
  /\ ncmd < MaxCommands
  /\ authpolicy # NULL
  /\ \E fail \in 0..esys_seal_secret(Ctx(0), authpolicy.digest).c.calls :
       LET s == esys_seal_secret(Ctx(fail), authpolicy.digest) IN
       \E platform \in Given(Platforms, s.ok) :
       /\ Exit("seal_authorized", s.c, NULL, NULL)
       /\ sealed' = IF s.ok THEN [blob |-> s.blob, bank |-> NULL, key |-> authpolicy.key,
                                  keyfile |-> KeyFile(platform, NULL)]
                    ELSE sealed
  /\ UNCHANGED <<tpmpcr, authpolicy, signed, out>>

(* pcr_policy_sign: the PCR policy of the predicted bank, signed with the *)
(* private key and written by the platform: oldgrub writes the signature  *)
(* file, tpm2key updates the Key File in place (tpm2key_read_file fails   *)
(* when the sealed file is not one), systemd's writer fails.              *)
PcrPolicySign ==
  /\ ncmd < MaxCommands
  /\ \E bank \in Banks :
     \E fail \in 0..__pcr_policy_make(Ctx(0), bank).c.calls :
       LET p   == __pcr_policy_make(Ctx(fail), bank) IN
       \E key \in Given(Keys, p.result # NULL), platform \in Given(Platforms, p.result # NULL) :
       LET sig    == [policy |-> p.result, key |-> key, bank |-> bank]
           writer == target_platforms[platform].write_signed_policy IN
       /\ Exit("sign", p.c, NULL, NULL)
       /\ signed' = IF p.result # NULL /\ writer = "oldgrub" THEN sig ELSE signed
       /\ sealed' = IF p.result # NULL /\ writer = "tpm2key" /\ IsKeyFile
                    THEN [sealed EXCEPT !.keyfile = tpm2key_write_signed_policy(@, bank, key, sig)]
                    ELSE sealed
  /\ UNCHANGED <<tpmpcr, authpolicy, out>>

(* pcr_unseal_secret_pcr: the live bank of the mask, then the unseal. *)
PcrUnsealSecretPcr ==
  /\ ncmd < MaxCommands
  /\ sealed # NULL
  /\ ~IsKeyFile
  /\ \E mask \in Masks :
     LET Read(fail) == pcr_read_into_bank(Ctx(fail), mask, tpmpcr)
         Unseal(fail) == LET r == Read(fail)
                         IN esys_unseal_pcr_policy(r.c, r.bank, sealed.blob, tpmpcr)
     IN \E fail \in 0..Unseal(0).c.calls :
       LET u == Unseal(fail) IN /\ Exit("unseal_pcr", u.c, mask, NULL)
          /\ out' = IF u.ok THEN sealed.blob.secret ELSE NULL
  /\ UNCHANGED <<tpmpcr, sealed, authpolicy, signed>>

(* pcr_authorized_policy_unseal_secret: the live bank, the signed policy  *)
(* and the public key, then the authorized unseal.                        *)
PcrAuthorizedPolicyUnsealSecret ==
  /\ ncmd < MaxCommands
  /\ sealed # NULL
  /\ ~IsKeyFile
  /\ signed # NULL
  /\ \E mask \in Masks, key \in Keys :
     LET Read(fail) == pcr_read_into_bank(Ctx(fail), mask, tpmpcr)
         Unseal(fail) == LET r == Read(fail)
                         IN esys_unseal_authorized(r.c, r.bank, signed, key, sealed.blob, tpmpcr)
     IN \E fail \in 0..Unseal(0).c.calls :
       LET u == Unseal(fail) IN /\ Exit("unseal_authorized", u.c, mask, key)
          /\ out' = IF u.ok THEN sealed.blob.secret ELSE NULL
  /\ UNCHANGED <<tpmpcr, sealed, authpolicy, signed>>

(* tpm2key_unseal_secret, the tpm2.0 platform's unseal: everything it     *)
(* needs is in the Key File.                                               *)
Tpm2keyUnsealSecret ==
  /\ ncmd < MaxCommands
  /\ IsKeyFile
  /\ \E fail \in 0..tpm2key_unseal_secret(Ctx(0), sealed.keyfile, sealed.blob, tpmpcr).c.calls :
       LET u == tpm2key_unseal_secret(Ctx(fail), sealed.keyfile, sealed.blob, tpmpcr) IN
       /\ Exit("unseal_tpm2key", u.c, NULL, NULL)
       /\ out' = IF u.ok THEN sealed.blob.secret ELSE NULL
  /\ UNCHANGED <<tpmpcr, sealed, authpolicy, signed>>

(* The machine reboots: new PCR values, and a TPM reset drops every       *)
(* transient handle.                                                       *)
Reboot ==
  /\ tpmpcr' \in [Pcrs -> Measured \cup Invalid]
  /\ loaded' = {}
  /\ last' = NoCommand
  /\ UNCHANGED <<badflush, sealed, authpolicy, signed, out, ncmd>>

Next ==
  \/ PcrSealSecret
  \/ PcrAuthorizedPolicyCreate
  \/ PcrAuthorizedPolicySealSecret
  \/ PcrPolicySign
  \/ PcrUnsealSecretPcr
  \/ PcrAuthorizedPolicyUnsealSecret
  \/ Tpm2keyUnsealSecret
  \/ Reboot

Spec == Init /\ [][Next]_vars

-----------------------------------------------------------------------------
(* Properties *)

PcrPolicies ==
  {PcrPolicy(regs, ValuesOf(v, regs)) : regs \in SUBSET Pcrs, v \in [Pcrs -> Measured \cup Invalid]}
Policies == PcrPolicies \cup {AuthPolicy(k) : k \in Keys}

TypeOK ==
  /\ tpmpcr \in [Pcrs -> Measured \cup Invalid]
  /\ loaded \subseteq Roles
  /\ badflush \in BOOLEAN
  /\ sealed = NULL \/ (sealed.blob.policy \in Policies /\ sealed.bank \in Banks \cup {NULL}
                       /\ sealed.key \in Keys \cup {NULL}
                       /\ (sealed.keyfile = NULL \/ Len(sealed.keyfile.auth) < MaxCommands))
  /\ authpolicy = NULL \/ authpolicy.digest \in Policies
  /\ signed = NULL \/ (signed.policy \in PcrPolicies /\ signed.key \in Keys)
  /\ out \in {"secret", NULL}
  /\ ncmd \in 0..MaxCommands

(* The live registers of the mask are those a predicted bank made valid, *)
(* with the predicted values: unused registers read as invalid digests.  *)
Matches(bank, mask) ==
  /\ {i \in mask : tpmpcr[i] \notin Invalid} = bank.valid
  /\ \A i \in bank.valid : tpmpcr[i] = bank.pcr[i]

(* What the last unseal was meant to do: the secret sealed to a predicted *)
(* bank, or to the key that signed the policy of a predicted bank, comes  *)
(* back exactly when the live PCRs are that bank's.                       *)
(* A Key File names its registers itself: the live registers the bank   *)
(* made valid hold the predicted values.                                   *)
Covered(bank) == \A i \in bank.valid : tpmpcr[i] = bank.pcr[i]

(* The bank and key an authPolicy entry was signed for. *)
EntrySig(entry) == [bank |-> entry[2][3].bank, key |-> entry[2][3].key]

Intended ==
  CASE last.cmd = "unseal_pcr" -> sealed.bank # NULL /\ Matches(sealed.bank, last.mask)
    [] last.cmd = "unseal_authorized" ->
         /\ sealed.key = last.key
         /\ signed.key = last.key
         /\ Matches(signed.bank, last.mask)
    [] sealed.keyfile.auth # <<>> ->
         \E e \in Range(sealed.keyfile.auth) :
            EntrySig(e).key = sealed.key /\ Covered(EntrySig(e).bank)
    [] OTHER -> sealed.key = NULL /\ Covered(sealed.bank)

(* An unseal in which the TPM fails no call returns the secret if and     *)
(* only if the live PCRs are those the secret was sealed or the policy    *)
(* signed for.  This is about the selection __pcr_bank_hash builds        *)
(* register by register at seal and sign time agreeing with the one       *)
(* pcr_bank_to_selection builds from the chunked pcr_read_into_bank at    *)
(* unseal time, and the values hashed in the same order; for a Key File   *)
(* (spec.md 4.H: the authPolicy entries tried in order, first success     *)
(* wins, else the policy sequence), about the selection stored at seal    *)
(* and sign time and the loop of tpm2key_unseal_secret.                   *)
UnsealRoundTrip ==
  (last.cmd \in {"unseal_pcr", "unseal_authorized", "unseal_tpm2key"} /\ ~last.injected)
    => (out = "secret" <=> Intended)

(* The refinement mapping: the sealed file is bound to the bank or key it *)
(* was sealed for; the signatures are the one of the signed-policy file  *)
(* and those of the Key File's authPolicy entries, each the bank and key  *)
(* it was signed for; the policy digests themselves are not visible.      *)
Abstract == INSTANCE SealedSecret WITH
  pcr        <- tpmpcr,
  Values     <- Measured \cup Invalid,
  binding    <- IF sealed = NULL THEN NULL ELSE [bank |-> sealed.bank, key |-> sealed.key],
  authorized <- IF authpolicy = NULL THEN NULL ELSE authpolicy.key,
  signatures <- (IF signed = NULL THEN {} ELSE {[bank |-> signed.bank, key |-> signed.key]})
                  \cup (IF IsKeyFile THEN {EntrySig(e) : e \in Range(sealed.keyfile.auth)} ELSE {})

(* The commands implement SealedSecret: whatever ESYS call fails, a       *)
(* secret comes back only while the registers the predicted bank covers   *)
(* hold their predicted values, and a failed seal, policy creation or     *)
(* sign leaves the files as they were.  This is about the digest          *)
(* __pcr_bank_hash computes at seal and sign time agreeing with the one    *)
(* the TPM computes from its own registers at unseal time, and about the  *)
(* result of pcr_bank_init_from_current being ignored by the unseal       *)
(* paths, so that a partly read bank is still used, and about each Key    *)
(* File entry running in a session of its own.                            *)
SealedSecretSpec == Abstract!ASpec

(* Every session, sequence and transient object a command loads is        *)
(* flushed before the command exits, on the error paths included          *)
(* (spec.md 4.H, 7).  This is about the cleanup labels of the esys_*      *)
(* functions and __pcr_bank_hash.                                         *)
HandlesReleased == loaded = {}

(* Every Esys_FlushContext names a handle the TPM holds.  This is about    *)
(* the handle variables the cleanup labels flush being initialised.       *)
FlushOnlyLoaded == ~badflush

=============================================================================
