-------------------------------- MODULE Vercmp --------------------------------
(***************************************************************************)
(* vercmp of src/src/sd-boot.c, the version order of boot entries, with    *)
(* its helpers isvalid, cmp and natoi, as operators.                       *)
(*                                                                         *)
(* A version is a sequence of one-character strings; NUL stands for the   *)
(* terminating zero byte read past the end.  Only the sign of a result is  *)
(* kept: every caller (the loop itself, entrycmp, qsort) uses no more.     *)
(*                                                                         *)
(* natoi copies a digit run into the stack array line[SDB_LINE_MAX] with   *)
(* strncpy(line, a, n), which writes no terminating NUL when the source is *)
(* longer than n, and then calls atoi(line).  The array is not            *)
(* initialised, so atoi reads on into whatever an earlier call left there: *)
(* the operators take the array's contents as the argument line and return *)
(* what they leave in it.  The two natoi calls of                          *)
(* cmp(natoi(a, ..), natoi(b, ..)) are unsequenced; order names the one   *)
(* the build runs first.                                                   *)
(***************************************************************************)
EXTENDS Integers, Sequences

CONSTANT Letters   \* the letters that occur, in ASCII order

NUL == "NUL"
Digits == {"0", "1", "2", "3", "4", "5", "6", "7", "8", "9"}
DigitValue(c) == CHOOSE v \in 0..9 : <<"0","1","2","3","4","5","6","7","8","9">>[v + 1] = c
LetterSet == {Letters[k] : k \in 1..Len(Letters)}
LetterRank(c) == CHOOSE k \in 1..Len(Letters) : Letters[k] = c

(* sep = "~-^.", in the order vercmp tests them. *)
Sep == <<"~", "-", "^", ".">>


Sign(x) == IF x > 0 THEN 1 ELSE IF x < 0 THEN -1 ELSE 0
B2I(p) == IF p THEN 1 ELSE 0
MinOf(x, y) == IF x < y THEN x ELSE y

(* The character at position i, NUL past the end. *)
At(s, i) == IF i <= Len(s) THEN s[i] ELSE NUL

isvalid(c) == c \in Digits \cup LetterSet \cup {Sep[k] : k \in 1..4}

RECURSIVE SkipInvalid(_, _)
SkipInvalid(s, i) ==
  IF At(s, i) # NUL /\ ~isvalid(At(s, i)) THEN SkipInvalid(s, i + 1) ELSE i

(* The first position at or after i whose character is not in cls. *)
RECURSIVE RunEnd(_, _, _)
RunEnd(s, i, cls) == IF At(s, i) \in cls THEN RunEnd(s, i + 1, cls) ELSE i

(* atoi over line[k..]: the leading digits, read up to the first other    *)
(* byte or the end of the array.                                          *)
RECURSIVE Atoi(_, _, _)
Atoi(line, k, acc) ==
  IF k <= Len(line) /\ line[k] \in Digits
  THEN Atoi(line, k + 1, 10 * acc + DigitValue(line[k]))
  ELSE acc

(* natoi(&s[i], n) with the array holding line: strncpy overwrites the    *)
(* first n bytes only.                                                     *)
Natoi(s, i, n, line) ==
  LET copy == [k \in 1..Len(line) |-> IF k <= n THEN s[i + k - 1] ELSE line[k]]
  IN [val |-> Atoi(copy, 1, 0), buf |-> copy]

(* cmp(natoi(a, la), natoi(b, lb)) in the build's argument order. *)
CompareRuns(a, i, la, b, j, lb, line, order) ==
  IF order = "left_first"
  THEN LET x == Natoi(a, i, la, line)
           y == Natoi(b, j, lb, x.buf)
       IN [r |-> Sign(x.val - y.val), buf |-> y.buf]
  ELSE LET y == Natoi(b, j, lb, line)
           x == Natoi(a, i, la, y.buf)
       IN [r |-> Sign(x.val - y.val), buf |-> x.buf]

(* The for loop over sep: a separator in either string is decided by       *)
(* cmp(a[i] != s, b[j] != s); when both have it, both advance.                 *)
RECURSIVE SepLoop(_, _, _, _, _)
SepLoop(a, b, i, j, k) ==
  IF k > Len(Sep) THEN [r |-> 0, i |-> i, j |-> j]
  ELSE LET s == Sep[k] IN
    IF At(a, i) = s \/ At(b, j) = s
    THEN LET r == B2I(At(a, i) # s) - B2I(At(b, j) # s) IN
         IF r # 0 THEN [r |-> r, i |-> i, j |-> j]
                  ELSE SepLoop(a, b, i + 1, j + 1, k + 1)
    ELSE SepLoop(a, b, i, j, k + 1)

(* strncmp over n letters, as a sign. *)
RECURSIVE Strncmp(_, _, _, _, _)
Strncmp(a, i, b, j, n) ==
  IF n = 0 THEN 0
  ELSE IF At(a, i) # At(b, j) THEN Sign(LetterRank(At(a, i)) - LetterRank(At(b, j)))
  ELSE Strncmp(a, i + 1, b, j + 1, n - 1)

(* The end-of-string test: cmp of the two current bytes, NUL being zero. *)
EndCmp(ca, cb) == B2I(ca # NUL) - B2I(cb # NUL)

(* One pass of the for(;;) loop of vercmp from positions i0, j0. *)
RECURSIVE VercmpLoop(_, _, _, _, _, _)
VercmpLoop(a, b, i0, j0, line, order) ==
  LET i == SkipInvalid(a, i0)
      j == SkipInvalid(b, j0)
  IN
  IF At(a, i) = NUL \/ At(b, j) = NUL
  THEN [r |-> EndCmp(At(a, i), At(b, j)), buf |-> line]
  ELSE
    LET sp == SepLoop(a, b, i, j, 1) IN
    IF sp.r # 0 THEN [r |-> sp.r, buf |-> line]
    ELSE IF At(a, sp.i) \in Digits \/ At(b, sp.j) \in Digits THEN
      LET ai == RunEnd(a, sp.i, Digits)
          bj == RunEnd(b, sp.j, Digits)
          r1 == B2I(ai # sp.i) - B2I(bj # sp.j)
      IN IF r1 # 0 THEN [r |-> r1, buf |-> line]
         ELSE LET c == CompareRuns(a, sp.i, ai - sp.i, b, sp.j, bj - sp.j, line, order)
              IN IF c.r # 0 THEN c ELSE VercmpLoop(a, b, ai, bj, c.buf, order)
    ELSE
      LET ai == RunEnd(a, sp.i, LetterSet)
          bj == RunEnd(b, sp.j, LetterSet)
          r1 == Strncmp(a, sp.i, b, sp.j, MinOf(ai - sp.i, bj - sp.j))
          r2 == Sign((ai - sp.i) - (bj - sp.j))
      IN IF r1 # 0 THEN [r |-> r1, buf |-> line]
         ELSE IF r2 # 0 THEN [r |-> r2, buf |-> line]
         ELSE VercmpLoop(a, b, ai, bj, line, order)

(* vercmp(a, b): its sign and the natoi array it leaves behind. *)
vercmp(a, b, line, order) == VercmpLoop(a, b, 1, 1, line, order)

-----------------------------------------------------------------------------
(***************************************************************************)
(* The reference order: the UAPI version format specification, as         *)
(* spec.md section 4.I describes it.  Invalid characters are skipped; a    *)
(* tilde sorts before everything, the end of a string included; then '-', *)
(* '^' and '.' sort before everything but the end; digit runs compare by   *)
(* value, a digit run is newer than none; letter runs compare by strncmp   *)
(* over the shorter one, then the longer is newer.                         *)
(***************************************************************************)

RunValue(s, i, e) == Atoi([k \in 1..e - i |-> s[i + k - 1]], 1, 0)

RECURSIVE UapiLoop(_, _, _, _)
UapiLoop(a, b, i0, j0) ==
  LET i == SkipInvalid(a, i0)
      j == SkipInvalid(b, j0)
      ca == At(a, i)
      cb == At(b, j)
      SepRule(s) == IF ca # s THEN 1 ELSE IF cb # s THEN -1
                    ELSE UapiLoop(a, b, i + 1, j + 1)
  IN
  IF ca = "~" \/ cb = "~" THEN SepRule("~")
  ELSE IF ca = NUL \/ cb = NUL THEN EndCmp(ca, cb)
  ELSE IF ca = "-" \/ cb = "-" THEN SepRule("-")
  ELSE IF ca = "^" \/ cb = "^" THEN SepRule("^")
  ELSE IF ca = "." \/ cb = "." THEN SepRule(".")
  ELSE IF ca \in Digits \/ cb \in Digits THEN
    LET ai == RunEnd(a, i, Digits)
        bj == RunEnd(b, j, Digits)
        r == Sign(RunValue(a, i, ai) - RunValue(b, j, bj))
    IN IF ai = i THEN -1 ELSE IF bj = j THEN 1
       ELSE IF r # 0 THEN r ELSE UapiLoop(a, b, ai, bj)
  ELSE
    LET ai == RunEnd(a, i, LetterSet)
        bj == RunEnd(b, j, LetterSet)
        r == Strncmp(a, i, b, j, MinOf(ai - i, bj - j))
    IN IF r # 0 THEN r
       ELSE IF ai - i # bj - j THEN Sign((ai - i) - (bj - j))
       ELSE UapiLoop(a, b, ai, bj)

UapiCmp(a, b) == UapiLoop(a, b, 1, 1)

=============================================================================
