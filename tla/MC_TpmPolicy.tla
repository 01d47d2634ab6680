---------------------------- MODULE MC_TpmPolicy ----------------------------
(***************************************************************************)
(* PCRs 7 and 8, on both sides of the 8-register chunk pcr_read_into_bank  *)
(* reads at a time and of the byte boundary of a PCR selection; two       *)
(* measured values and the zero digest; predicted banks that extend both  *)
(* registers or only PCR 7; two signing keys.                              *)
(***************************************************************************)
EXTENDS TpmPolicy, TLC

MC_Pcrs == {7, 8}
MC_Measured == {"a", "b"}
MC_Invalid == {"zero"}

Bank(v7, v8) ==
  [mask |-> {7, 8},
   valid |-> (IF v7 = "zero" THEN {} ELSE {7}) \cup (IF v8 = "zero" THEN {} ELSE {8}),
   pcr |-> (7 :> v7) @@ (8 :> v8)]

MC_Banks == {Bank("a", "b"), Bank("a", "zero")}
MC_Masks == {{7, 8}}
CONSTANTS k1, k2
MC_Keys == {k1, k2}

(* The keys play the same part. *)
KeySymmetry == Permutations(MC_Keys)

(* The three rows of target_platforms. *)
MC_Platforms == {"oldgrub", "tpm2.0", "systemd"}

MC_MaxCommands == 4

=============================================================================
