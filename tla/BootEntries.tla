----------------------------- MODULE BootEntries -----------------------------
(***************************************************************************)
(* The boot-entry loader of src/src/sd-boot.c: get_token_id (with the     *)
(* static buffers of read_entry_token, read_os_release and                *)
(* read_machine_id), read_entry, sdb_get_entry_list with its readdir loop  *)
(* and qsort by entrycmp, and sdb_get_next_kernel.                         *)
(*                                                                         *)
(* Values read from files (tokens, versions, paths) are sequences of       *)
(* one-character strings so that a copy without terminating NUL can leave  *)
(* the tail of an earlier value behind.  A token and a file name are       *)
(* sequences of words, so that strncmp(token, name, strlen(token)) is      *)
(* IsPrefix; an empty entry-token file gives the empty token.             *)
(*                                                                         *)
(* qsort is glibc's (2.36): a merge sort that splits n into n/2 and the    *)
(* rest, sorts both halves and merges them taking the left element when    *)
(* the comparison is <= 0.  natoi's stack array is threaded through every  *)
(* vercmp call it makes.                                                   *)
(***************************************************************************)
EXTENDS Vercmp, SequencesExt

CONSTANTS
  Systems,        \* the /etc files and /boot/efi directories the host may have
  Dirs,           \* the orders in which readdir may list the entries directory
  MaxEntries,     \* SDB_MAX_ENTRIES
  InitialBufs,    \* possible contents of natoi's stack array at the first call
  NULL            \* a missing file or value, and a NULL pointer

(* The keys read_entry recognises, in the order it tests them. *)
Keys == <<"sort-key", "machine-id", "version", "options", "linux", "initrd">>
KeySet == {Keys[k] : k \in 1..Len(Keys)}

VARIABLES
  sys,        \* /etc/kernel/entry-token, /etc/os-release, /etc/machine-id, /boot/efi
  dir,        \* /boot/efi/loader/entries, in readdir order
  buf,        \* natoi's stack array line[]
  argorder,   \* which natoi call of cmp(natoi(a), natoi(b)) runs first
  phase,      \* "start", "done" or "failed"
  token,      \* the token id sdb_get_entry_list used
  list,       \* entry_list.entries[0 .. num_entries - 1] after the sort
  next        \* what sdb_get_next_kernel returned

vars == <<sys, dir, buf, argorder, phase, token, list, next>>

-----------------------------------------------------------------------------
(* get_token_id *)

(* read_os_release returns its one static array for both keys, so after   *)
(* the ID and IMAGE_ID calls both pointers (when not NULL) read the value  *)
(* of the last key found.                                                  *)
OsReleaseBuffer(s) == IF s.image_id # NULL THEN s.image_id ELSE s.id

ReadOsRelease(s, key) ==
  IF key = NULL THEN NULL ELSE OsReleaseBuffer(s)

exists_efi_dir(s, path) == path # NULL /\ path \in s.efi_dirs

get_token_id(s) ==
  LET id       == ReadOsRelease(s, s.id)
      image_id == ReadOsRelease(s, s.image_id)
      t1 == s.entry_token
      t2 == IF t1 = NULL /\ exists_efi_dir(s, id) THEN id ELSE t1
      t3 == IF t2 = NULL /\ exists_efi_dir(s, image_id) THEN id ELSE t2
      t4 == IF t3 = NULL /\ exists_efi_dir(s, s.machine_id) THEN s.machine_id ELSE t3
  IN IF s.machine_id = NULL THEN NULL ELSE t4

-----------------------------------------------------------------------------
(* read_entry *)

CopiedValueWithNewline(line) ==
  IF line.nl THEN line.val \o <<"\n">> ELSE line.val

(* The bytes strncpy(dest, v, strlen(v) - 1) copies: the value without its *)
(* last byte, the newline when the line has one.                           *)
CopiedValue(line) == IF line.nl THEN line.val ELSE Front(line.val)

(* strncpy writes no NUL: the bytes of dest past the copy stay.            *)
Overwrite(dest, v) ==
  [k \in 1..(IF Len(v) > Len(dest) THEN Len(v) ELSE Len(dest)) |->
     IF k <= Len(v) THEN v[k] ELSE dest[k]]

(* The entry fields of a zeroed sdb_entry_data_t. *)
EmptyEntry == [key \in KeySet |-> <<>>]

ReadLine(e, line) ==
  IF line.key \in KeySet
  THEN [e EXCEPT ![line.key] = Overwrite(@, CopiedValue(line))]
  ELSE e

read_entry(file) == FoldLeft(ReadLine, EmptyEntry, file.lines)

-----------------------------------------------------------------------------
(* sdb_get_entry_list *)

(* The readdir loop: stop at SDB_MAX_ENTRIES, skip names without the token *)
(* prefix and files read_entry cannot open.                                *)
RECURSIVE ScanDir(_, _, _, _)
ScanDir(t, d, k, l) ==
  IF k > Len(d) \/ Len(l) >= MaxEntries THEN l
  ELSE IF ~IsPrefix(t, d[k].name) \/ ~d[k].readable THEN ScanDir(t, d, k + 1, l)
  ELSE ScanDir(t, d, k + 1, Append(l, [src |-> k, val |-> read_entry(d[k])]))

(* The characters of the model in ASCII order. *)
AsciiOrder ==
  <<"-", ".", "0", "1", "2", "3", "4", "5", "6", "7", "8", "9", "^">> \o Letters \o <<"~">>
AsciiRank(c) == CHOOSE k \in 1..Len(AsciiOrder) : AsciiOrder[k] = c

(* strcmp over values, as a sign; "" sorts first. *)
RECURSIVE StrCmp(_, _)
StrCmp(x, y) ==
  IF x = <<>> /\ y = <<>> THEN 0
  ELSE IF x = <<>> THEN -1
  ELSE IF y = <<>> THEN 1
  ELSE IF Head(x) # Head(y) THEN Sign(AsciiRank(Head(x)) - AsciiRank(Head(y)))
  ELSE StrCmp(Tail(x), Tail(y))

entrycmpAscending(x, y, line, order) ==
  LET r1 == StrCmp(x.val["sort-key"], y.val["sort-key"])
      r2 == StrCmp(x.val["machine-id"], y.val["machine-id"])
      v  == vercmp(x.val["version"], y.val["version"], line, order)
  IN IF r1 # 0 THEN [r |-> r1, buf |-> line]
     ELSE IF r2 # 0 THEN [r |-> r2, buf |-> line]
     ELSE [r |-> v.r, buf |-> v.buf]

(* entrycmp: sort-key, then machine-id, then vercmp of the versions, and   *)
(* the result negated so that the newest entry comes first.                *)
entrycmp(x, y, line, order) ==
  LET r1 == StrCmp(x.val["sort-key"], y.val["sort-key"])
      r2 == StrCmp(x.val["machine-id"], y.val["machine-id"])
      v  == vercmp(x.val["version"], y.val["version"], line, order)
  IN IF r1 # 0 THEN [r |-> -r1, buf |-> line]
     ELSE IF r2 # 0 THEN [r |-> -r2, buf |-> line]
     ELSE [r |-> -v.r, buf |-> v.buf]

RECURSIVE Merge(_, _, _, _)
Merge(x, y, line, order) ==
  IF x = <<>> THEN [s |-> y, buf |-> line]
  ELSE IF y = <<>> THEN [s |-> x, buf |-> line]
  ELSE LET c == entrycmp(Head(x), Head(y), line, order) IN
    IF c.r <= 0
    THEN LET m == Merge(Tail(x), y, c.buf, order)
         IN [s |-> <<Head(x)>> \o m.s, buf |-> m.buf]
    ELSE LET m == Merge(x, Tail(y), c.buf, order)
         IN [s |-> <<Head(y)>> \o m.s, buf |-> m.buf]

RECURSIVE QSort(_, _, _)
QSort(s, line, order) ==
  IF Len(s) <= 1 THEN [s |-> s, buf |-> line]
  ELSE LET n1 == Len(s) \div 2
           lo == QSort(SubSeq(s, 1, n1), line, order)
           hi == QSort(SubSeq(s, n1 + 1, Len(s)), lo.buf, order)
       IN Merge(lo.s, hi.s, hi.buf, order)

-----------------------------------------------------------------------------

Init ==
  /\ sys \in Systems
  /\ dir \in Dirs
  /\ buf \in InitialBufs
  /\ argorder \in {"left_first", "right_first"}
  /\ phase = "start"
  /\ token = NULL
  /\ list = <<>>
  /\ next = NULL

(* sdb_get_next_kernel: sdb_get_entry_list (token, opendir, the readdir    *)
(* loop, qsort), then a copy of entries[0].image, which is all zeroes when *)
(* no entry was listed.                                                    *)
GetNextKernel ==
  /\ phase = "start"
  /\ LET t == get_token_id(sys) IN
     \E opened \in BOOLEAN :
       IF t = NULL \/ ~opened
       THEN /\ phase' = "failed"
            /\ token' = t
            /\ UNCHANGED <<list, next, buf>>
       ELSE LET sorted == QSort(ScanDir(t, dir, 1, <<>>), buf, argorder) IN
            /\ phase' = "done"
            /\ token' = t
            /\ list' = sorted.s
            /\ buf' = sorted.buf
            /\ next' = IF sorted.s = <<>> THEN <<>> ELSE sorted.s[1].val["linux"]
  /\ UNCHANGED <<sys, dir, argorder>>

Next == GetNextKernel

Spec == Init /\ [][Next]_vars

-----------------------------------------------------------------------------
(***************************************************************************)
(* What spec.md section 4.I promises: the token is the first of            *)
(* entry-token, ID, IMAGE_ID and machine-id whose /boot/efi directory      *)
(* exists; the entries are sorted by sort-key and machine-id in ASCII      *)
(* order and by the UAPI version order, newest first, and the first entry  *)
(* after the sort is the next kernel.                                      *)
(***************************************************************************)

SpecToken(s) ==
  LET cands == <<s.entry_token, s.id, s.image_id, s.machine_id>>
      ok    == {k \in 1..4 : exists_efi_dir(s, cands[k])}
  IN IF ok = {} THEN NULL ELSE cands[CHOOSE k \in ok : \A j \in ok : k <= j]

(* The newest-first order of spec.md, as a sign: > 0 when x is newer. *)
SpecOrder(x, y) ==
  LET r1 == StrCmp(x["sort-key"], y["sort-key"])
      r2 == StrCmp(x["machine-id"], y["machine-id"])
  IN IF r1 # 0 THEN r1 ELSE IF r2 # 0 THEN r2 ELSE UapiCmp(x["version"], y["version"])

(* The entry files of the directory under token t that can be read. *)
Listable(t, d) == {k \in 1..Len(d) : IsPrefix(t, d[k].name) /\ d[k].readable}

-----------------------------------------------------------------------------
(* Properties *)

Chars == Digits \cup LetterSet \cup {Sep[k] : k \in 1..4}
Value == Seq(Chars)

TypeOK ==
  /\ phase \in {"start", "done", "failed"}
  /\ Len(list) <= MaxEntries
  /\ \A i \in 1..Len(list) :
       /\ list[i].src \in 1..Len(dir)
       /\ \A key \in KeySet : list[i].val[key] \in Value
  /\ next \in Value \cup {NULL}

(* sdb_get_next_kernel returns the kernel image of an entry that is newest *)
(* under the order of spec.md among all the readable entries of the token, *)
(* whatever readdir's order, the evaluation order of the two natoi calls   *)
(* and the bytes natoi's uninitialised array starts with; "" when there is *)
(* none.  This is about entrycmp's reversal, glibc's merge sort and the    *)
(* digits natoi's strncpy leaves behind from one call to the next.         *)
NextKernelIsNewest ==
  phase = "done" =>
    LET M == Listable(token, dir)
        E(k) == read_entry(dir[k])
    IN IF M = {} THEN next = <<>>
       ELSE \E k \in M : /\ next = E(k)["linux"]
                         /\ \A j \in M : SpecOrder(E(j), E(k)) <= 0

(* The token the entry files are selected by is the one spec.md section    *)
(* 4.I describes: the first candidate whose /boot/efi directory exists.    *)
(* This is about get_token_id and the static buffer of read_os_release.    *)
TokenFollowsSpec ==
  phase # "start" => token = SpecToken(sys)

=============================================================================
