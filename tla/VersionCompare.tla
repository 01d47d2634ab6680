--------------------------- MODULE VersionCompare ---------------------------
(***************************************************************************)
(* Successive calls of vercmp, as entrycmp makes them under qsort, with   *)
(* natoi's stack array carried from one call to the next: the calls reuse  *)
(* the same stack slot, and nothing in between writes it.                  *)
(***************************************************************************)
EXTENDS Vercmp

CONSTANTS
  Versions,       \* the version strings compared
  InitialBufs,    \* possible contents of natoi's stack array at the first call
  MaxCalls        \* the number of vercmp calls of a behaviour

VARIABLES
  buf,        \* natoi's stack array line[]
  argorder,   \* which natoi call of cmp(natoi(a), natoi(b)) runs first
  history     \* the calls made so far: <<a, b, sign of vercmp(a, b)>>

vars == <<buf, argorder, history>>

-----------------------------------------------------------------------------

Init ==
  /\ buf \in InitialBufs
  /\ argorder \in {"left_first", "right_first"}
  /\ history = <<>>

(* A call vercmp(a, b), from entrycmp under qsort. *)
Compare ==
  /\ Len(history) < MaxCalls
  /\ \E a, b \in Versions :
       LET o == vercmp(a, b, buf, argorder) IN
       /\ buf' = o.buf
       /\ history' = Append(history, <<a, b, o.r>>)
  /\ UNCHANGED argorder

Next == Compare

Spec == Init /\ [][Next]_vars

-----------------------------------------------------------------------------

(* The examples of spec.md section 8: vercmp("1.0", "1.0~rc1") > 0,       *)
(* vercmp("1.0", "1.0.1") < 0 and vercmp("1.0", "1.0-1") < 0.              *)
SpecExamples ==
  { <<<<"1", ".", "0">>, <<"1", ".", "0", "~", "r", "c", "1">>, 1>>,
    <<<<"1", ".", "0">>, <<"1", ".", "0", ".", "1">>, -1>>,
    <<<<"1", ".", "0">>, <<"1", ".", "0", "-", "1">>, -1>> }

(* Every call of vercmp on a pair of the spec's examples returns the sign  *)
(* the spec gives: a pre-release "1.0~rc1" sorts older than "1.0".  This   *)
(* is about vercmp testing for the end of a string before the tilde rule. *)
SpecExamplesHold ==
  \A k \in 1..Len(history), e \in SpecExamples :
    (history[k][1] = e[1] /\ history[k][2] = e[2]) => history[k][3] = e[3]

=============================================================================
