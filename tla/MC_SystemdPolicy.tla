--------------------------- MODULE MC_SystemdPolicy ---------------------------
(***************************************************************************)
(* Two algorithms and three predicted banks: two policies of the sha256   *)
(* bank, one over PCRs 0 and 7 (PCR 0 is where the mask encoding's start  *)
(* index shows) and one over PCR 7, and one of the sha1 bank; two keys,   *)
(* so that a policy is re-signed with another key.  The file starts       *)
(* absent, unreadable, not JSON, not an object, with a sha256 member that *)
(* is not an array, with an entry another tool wrote without "pol", or    *)
(* with an entry pcr_policy_sign_systemd wrote.  A sign command is given *)
(* an RSA private key, a public key, an EC key, no file or no PEM.        *)
(***************************************************************************)
EXTENDS SystemdPolicy, TLC

CONSTANTS p1, p2, p3, k1, k2

MC_Algos == {"sha256", "sha1"}
MC_Pols == {p1, p2, p3}
MC_Keys == {k1, k2}

MC_Banks ==
  {[algo |-> "sha256", mask |-> {0, 7}, pol |-> p1],
   [algo |-> "sha256", mask |-> {7}, pol |-> p2],
   [algo |-> "sha1", mask |-> {7}, pol |-> p3]}

Foreign == [NoEntry EXCEPT !.pcrs = <<4>>]

MC_InitFiles ==
  {Absent, Denied, Garbage, NonObject,
   "sha256" :> NonArray,
   "sha256" :> <<Foreign>>,
   SignedDoc([algo |-> "sha256", mask |-> {7}, pol |-> p2], k1, Sig(p2, k1))}

MC_MaxCommands == 3

(* For each key: its RSA private key, its public key (no private block) *)
(* and an EC private key; a missing file and a file that is not PEM.     *)
MC_KeyFiles ==
  {NoFile, NotPem} \cup
  {[pem |-> pem, type |-> type, key |-> k] :
     <<pem, type>> \in {<<"private", "RSA">>, <<"public", "RSA">>, <<"private", "EC">>},
     k \in MC_Keys}

(* The keys play the same part. *)
KeySymmetry == Permutations(MC_Keys)

=============================================================================
