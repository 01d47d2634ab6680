----------------------------- MODULE EventRehash -----------------------------
(***************************************************************************)
(* The event parser and rehash engine of src/src/eventlog.c               *)
(* (tpm_event_parse and the IPL, grub, shim, systemd and tag parsers and   *)
(* rehash callbacks), driven by the prediction loop of spec.md 4.G and the *)
(* PCR bank of spec.md 4.F, whose code (oracle.c, pcr.c) is not under     *)
(* src/.                                                                   *)
(*                                                                         *)
(* Data is abstracted to what decides a digest.  A digest is a term: the   *)
(* historical digest of event k of the log, a file of a partition, a       *)
(* string, a UTF-16LE string or an EFI variable.  Hashing is injective on  *)
(* terms and a PCR value is the sequence of terms extended into it.  A     *)
(* path is a record [top, kind, ver]: its first directory, the kind of     *)
(* file its name shows (a "linux-" or "initrd-" component, an entry        *)
(* ".conf", anything else) and the kernel version it belongs to.           *)
(***************************************************************************)
EXTENDS Integers, Sequences, FiniteSets

CONSTANTS
  Scenarios,      \* the predictions to make: [log, hist, ctx, token, live, vars, expected]
  ShimVars,       \* the shim variables shim_variable_get_full_rtname resolves
  PcrMask,        \* the PCRs the bank predicts
  NULL

(* A scenario holds the events event_log_read_next returned (log), the     *)
(* digest of the bank's algorithm each records (hist, NULL when the event  *)
(* has none), the tpm_event_log_rehash_ctx_t (ctx: boot_entry and          *)
(* boot_entry_path), what get_token_id returns (token), the files and EFI  *)
(* variables the running system can read (live, vars), and the PCR values  *)
(* the next boot will produce (expected).                                  *)

VARIABLES
  sc,         \* the scenario
  k,          \* the next event of the log to predict
  strategy,   \* ev->rehash_strategy of each event handled so far
  bank,       \* the predicted PCR values: the digests extended into each PCR
  status      \* "running", "done" or "failed"

vars == <<sc, k, strategy, bank, status>>

(* runtime_digest_rootfs_file / runtime_digest_efi_file: the digest of the *)
(* file's contents, NULL when it cannot be read.  A file's contents are    *)
(* named by its kind and version, wherever it is reached from.             *)
Digest(s, part, path) ==
  IF path # NULL /\ <<part, path>> \in s.live THEN <<"file", path.kind, path.ver>> ELSE NULL

-----------------------------------------------------------------------------
(* The parsers *)

(* __grub_file_parse: "/path" has no device; "(device)path" is split at   *)
(* the first ')'; anything else, or no ')', fails.                         *)
grub_file_parse(f) ==
  IF f.form = "abs" THEN [ok |-> TRUE, device |-> NULL, path |-> f.path]
  ELSE IF f.form = "dev" THEN [ok |-> TRUE, device |-> f.device, path |-> f.path]
  ELSE [ok |-> FALSE]

(* __tpm_event_grub_command_event_parse on "keyword: arg".  An arg is     *)
(* [verb, file, opts]: its first word, the grub path after it (NULL when   *)
(* the verb has no argument) and the rest.                                 *)
grub_command_parse(v) ==
  LET a == v.arg
      withfile(sub) ==
        IF a.file # NULL /\ ~grub_file_parse(a.file).ok THEN [ok |-> FALSE]
        ELSE [ok |-> TRUE, kind |-> "grub_command", subtype |-> sub,
              file |-> IF a.file = NULL THEN NULL ELSE grub_file_parse(a.file),
              string |-> a]
  IN CASE ~v.colon -> [ok |-> FALSE]
       [] v.keyword = "grub_cmd" /\ a.verb = "linux"  -> withfile("COMMAND_LINUX")
       [] v.keyword = "grub_cmd" /\ a.verb = "initrd" -> withfile("COMMAND_INITRD")
       [] v.keyword = "grub_cmd" ->
            [ok |-> TRUE, kind |-> "grub_command", subtype |-> "COMMAND",
             file |-> NULL, string |-> a]
       [] v.keyword = "kernel_cmdline" ->
            IF a.file = NULL \/ ~grub_file_parse(a.file).ok THEN [ok |-> FALSE]
            ELSE [ok |-> TRUE, kind |-> "grub_command", subtype |-> "KERNEL_CMDLINE",
                  file |-> grub_file_parse(a.file), string |-> a]
       [] OTHER -> [ok |-> FALSE]

grub_file_event_parse(v) ==
  IF grub_file_parse(v).ok
  THEN [ok |-> TRUE, kind |-> "grub_file", file |-> grub_file_parse(v)]
  ELSE [ok |-> FALSE]

(* __tpm_event_shim_event_parse: a variable the shim table knows. *)
shim_event_parse(v) ==
  IF v \in ShimVars THEN [ok |-> TRUE, kind |-> "shim", var |-> v] ELSE [ok |-> FALSE]

systemd_event_parse(v) == [ok |-> TRUE, kind |-> "systemd", string |-> v]

(* __tpm_event_parse_tag: an event id the kernel uses, in a body that     *)
(* frames.                                                                 *)
parse_tag(b) ==
  CASE ~b.framed -> [ok |-> FALSE]
    [] b.id = "LOAD_OPTIONS" -> [ok |-> TRUE, kind |-> "tag_options"]
    [] b.id = "INITRD" -> [ok |-> TRUE, kind |-> "tag_initrd"]
    [] OTHER -> [ok |-> FALSE]

(* __tpm_event_parse_ipl: an empty body marks the event COPY and parses   *)
(* to an event without callbacks; a body without its NUL fails; else the   *)
(* PCR picks the parser.                                                   *)
parse_ipl(ev) ==
  CASE ev.body.empty -> [ok |-> TRUE, kind |-> "none", copy |-> TRUE]
    [] ~ev.body.nul -> [ok |-> FALSE]
    [] ev.pcr = 8  -> grub_command_parse(ev.body.value)
    [] ev.pcr = 9  -> grub_file_event_parse(ev.body.value)
    [] ev.pcr = 12 -> systemd_event_parse(ev.body.value)
    [] ev.pcr = 14 -> shim_event_parse(ev.body.value)
    [] OTHER -> [ok |-> FALSE]

(* tpm_event_parse: __tpm_event_parse by event type, NULL on failure.      *)
(* The EFI variable, application and GPT parsers are not under src/; their *)
(* events are not part of the modelled logs.                               *)
tpm_event_parse(ev) ==
  LET p == CASE ev.type = "EVENT_TAG" -> parse_tag(ev.body)
             [] ev.type = "IPL" -> parse_ipl(ev)
             [] OTHER -> [ok |-> FALSE]
  IN IF p.ok THEN p ELSE NULL

-----------------------------------------------------------------------------
(* The rehash callbacks *)

(* sdb_is_kernel: the path starts with "/<token>/" and has a component     *)
(* starting with "linux-".                                                 *)
sdb_is_kernel(s, path) == s.token # NULL /\ path.top = s.token /\ path.kind = "linux"

(* sdb_is_initrd and sdb_is_boot_entry are not under src/: spec.md 4.G     *)
(* names them as the initrd and the entry .conf of the token.              *)
sdb_is_initrd(s, path) == s.token # NULL /\ path.top = s.token /\ path.kind = "initrd"
sdb_is_boot_entry(s, path) == path.top = "loader" /\ path.kind = "conf"

grub_file_rehash_no_crypto(s, p) ==
  LET f  == p.file
      be == s.ctx.boot_entry
  IN CASE f.device = NULL -> Digest(s, "rootfs", f.path)
       [] sdb_is_boot_entry(s, f.path) /\ s.ctx.boot_entry_path # NULL ->
            Digest(s, "rootfs", s.ctx.boot_entry_path)
       [] sdb_is_kernel(s, f.path) /\ be # NULL -> Digest(s, "efi", be.image)
       [] sdb_is_initrd(s, f.path) /\ be # NULL -> Digest(s, "efi", be.initrd)
       [] OTHER -> Digest(s, "efi", f.path)

__tpm_event_grub_file_rehash(s, p) ==
  LET f  == p.file
      be == s.ctx.boot_entry
  IN CASE f.device = NULL \/ f.device = "crypto0" -> Digest(s, "rootfs", f.path)
       [] sdb_is_boot_entry(s, f.path) /\ s.ctx.boot_entry_path # NULL ->
            Digest(s, "rootfs", s.ctx.boot_entry_path)
       [] sdb_is_kernel(s, f.path) /\ be # NULL -> Digest(s, "efi", be.image)
       [] sdb_is_initrd(s, f.path) /\ be # NULL -> Digest(s, "efi", be.initrd)
       [] OTHER -> Digest(s, "efi", f.path)

(* __grub_file_join, on a parsed file and on the text of an argument. *)
Join(device, path) == <<device, path>>
RawJoin(f) == IF f = NULL THEN NULL
              ELSE Join(IF f.form = "dev" THEN f.device ELSE NULL, f.path)

(* The digest of a command string "verb (device)path opts". *)
Str(verb, file, opts) == <<"str", verb, file, opts>>
StrOf(a) == Str(a.verb, RawJoin(a.file), a.opts)

grub_command_rehash_no_device(s, p) ==
  LET be  == s.ctx.boot_entry
      sub == be # NULL /\ p.file # NULL
  IN CASE p.subtype = "COMMAND_LINUX" /\ sub ->
            Str("linux", Join(p.file.device, be.image), be.options)
       [] p.subtype = "COMMAND_INITRD" /\ sub ->
            Str("initrd", Join(p.file.device, be.initrd), "")
       [] p.subtype = "KERNEL_CMDLINE" /\ sub ->
            Str("", Join(NULL, be.image), be.options)
       [] OTHER -> StrOf(p.string)

(* __tpm_event_grub_command_rehash: with a boot entry, a linux, initrd or  *)
(* kernel_cmdline command is rebuilt with the entry's image, initrd and    *)
(* options on the device of the logged command; anything else hashes the   *)
(* logged string.                                                          *)
__tpm_event_grub_command_rehash(s, p) ==
  LET be  == s.ctx.boot_entry
      sub == be # NULL /\ p.file # NULL
  IN CASE p.subtype = "COMMAND_LINUX" /\ sub ->
            Str("linux", Join(p.file.device, be.image), be.options)
       [] p.subtype = "COMMAND_INITRD" /\ sub ->
            Str("initrd", Join(p.file.device, be.initrd), "")
       [] p.subtype = "KERNEL_CMDLINE" /\ sub ->
            Str("", Join(p.file.device, be.image), be.options)
       [] OTHER -> StrOf(p.string)

(* tpm_event_get_digest: the event's digest of the bank's algorithm,     *)
(* NULL when the event has none.                                           *)
tpm_event_get_digest(s, j) == s.hist[j]

(* path_unix2dos (not under src/): the initrd path with '\' for '/'. *)
path_unix2dos(path) == <<"dos", path>>

(* __tpm_event_systemd_rehash: without a boot entry, the logged digest;    *)
(* else "initrd=<dos path> <options>" with its NUL, in UTF-16LE.           *)
__tpm_event_systemd_rehash(s, j) ==
  LET be == s.ctx.boot_entry
  IN CASE be = NULL -> tpm_event_get_digest(s, j)
       [] be.image = NULL -> NULL
       [] OTHER -> <<"utf16", path_unix2dos(be.initrd), be.options>>

(* __tpm_event_tag_options_rehash: the kernel's LOAD_OPTIONS tag is      *)
(* rehashed as systemd-boot's load options are.                           *)
__tpm_event_tag_options_rehash(s, j) == __tpm_event_systemd_rehash(s, j)

__tpm_event_tag_initrd_rehash(s, j) ==
  LET be == s.ctx.boot_entry
  IN CASE be = NULL -> tpm_event_get_digest(s, j)
       [] be.initrd = NULL -> NULL
       [] OTHER -> Digest(s, "efi", be.initrd)

(* __tpm_event_shim_rehash via __tpm_event_rehash_efi_variable. *)
__tpm_event_shim_rehash(s, p) == IF p.var \in s.vars THEN <<"var", p.var>> ELSE NULL

(* tpm_parsed_event_rehash: the callback the parser attached. *)
tpm_parsed_event_rehash(s, j, p) ==
  CASE p.kind = "grub_file"    -> __tpm_event_grub_file_rehash(s, p)
    [] p.kind = "grub_command" -> __tpm_event_grub_command_rehash(s, p)
    [] p.kind = "systemd"      -> __tpm_event_systemd_rehash(s, j)
    [] p.kind = "tag_options"  -> __tpm_event_tag_options_rehash(s, j)
    [] p.kind = "tag_initrd"   -> __tpm_event_tag_initrd_rehash(s, j)
    [] p.kind = "shim"         -> __tpm_event_shim_rehash(s, p)
    [] OTHER -> NULL

-----------------------------------------------------------------------------
(***************************************************************************)
(* The prediction loop and the PCR bank (spec.md 4.G, 4.F and 7).  Each    *)
(* event is parsed; an empty IPL is copied, an event that does not parse   *)
(* keeps its logged digest, any other is rehashed.  A rehash that finds    *)
(* nothing falls back to the logged digest for an EFI variable and fails   *)
(* the prediction otherwise.  The digest is extended into the event's PCR *)
(* when the bank's mask selects it.                                        *)
(***************************************************************************)

ExtendAnyPcr(b, pcr, d) ==
  [q \in DOMAIN b \cup {pcr} |-> IF q = pcr THEN Append(IF q \in DOMAIN b THEN b[q] ELSE <<>>, d)
                                ELSE b[q]]

(* pcr_bank_extend_register: a PCR outside the mask is left alone. *)
Extend(b, pcr, d) ==
  IF pcr \in PcrMask THEN [b EXCEPT ![pcr] = Append(@, d)] ELSE b

Strategy(p) ==
  CASE p = NULL -> "PARSE_FAIL"
    [] p.kind = "none" -> "COPY"
    [] OTHER -> "REHASH"

(* The digest the loop extends for event j, or NULL for a failure. *)
NewDigest(s, j, p) ==
  LET d == IF Strategy(p) = "REHASH" THEN tpm_parsed_event_rehash(s, j, p) ELSE s.hist[j]
  IN IF d = NULL /\ Strategy(p) = "REHASH" /\ p.kind = "shim" THEN s.hist[j] ELSE d

Init ==
  /\ sc \in Scenarios
  /\ k = 1
  /\ strategy = <<>>
  /\ bank = [q \in PcrMask |-> <<>>]
  /\ status = "running"

(* One event of the log: tpm_event_parse, then the digest by strategy. *)
PredictEvent ==
  /\ status = "running"
  /\ k <= Len(sc.log)
  /\ LET ev == sc.log[k]
         p  == tpm_event_parse(ev)
         d  == NewDigest(sc, k, p)
     IN /\ strategy' = Append(strategy, Strategy(p))
        /\ IF d = NULL
           THEN /\ status' = "failed"
                /\ UNCHANGED <<k, bank>>
           ELSE /\ bank' = Extend(bank, ev.pcr, d)
                /\ k' = k + 1
                /\ UNCHANGED status
  /\ UNCHANGED sc

(* The whole log has been predicted. *)
Finish ==
  /\ status = "running"
  /\ k > Len(sc.log)
  /\ status' = "done"
  /\ UNCHANGED <<sc, k, strategy, bank>>

Next == PredictEvent \/ Finish

(* The loop runs to its end: it is the only thing the program does. *)
Spec == Init /\ [][Next]_vars /\ WF_vars(Next)

-----------------------------------------------------------------------------
(* Properties *)

TypeOK ==
  /\ sc \in Scenarios
  /\ status \in {"running", "done", "failed"}
  /\ k \in 1..Len(sc.log) + 1
  /\ strategy \in Seq({"COPY", "PARSE_FAIL", "REHASH"})
  /\ DOMAIN bank = PcrMask

(* A prediction that completes holds, in every PCR of the mask, exactly   *)
(* the digests the next boot extends: for a context without boot entry    *)
(* (spec.md's no-rehash identity) those of the log, and for a boot entry   *)
(* those of its kernel, initrd, options and entry file.  This is about the *)
(* parsers' dispatch by event type and PCR, the device rule and the        *)
(* boot-entry substitutions of the grub file rehash, the rebuilt grub      *)
(* command lines and the systemd load options.                             *)
PredictionIsNextBoot ==
  status = "done" => bank = sc.expected

(* When the running system can read every file and variable the next boot *)
(* measures, the prediction completes.  This is about every rehash         *)
(* callback finding its source where the next boot finds it.               *)
PredictionCompletes ==
  sc.available ~> status = "done"

=============================================================================
