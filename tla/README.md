# TLA+ models of pcr-oracle

pcr-oracle predicts the values that the TPM 2.0 Platform Configuration
Registers (PCRs) will hold after a pending update of the boot chain. It then
seals a secret under a policy that only those values satisfy. This directory
holds TLA+ models of the parts of `src/src/` whose control can go wrong in ways
that unit tests reach badly. It also holds the TLC configurations that check
them.

The program is single-threaded and synchronous (spec.md section 5). Its hard
behaviours are therefore not thread interleavings. They are:

- long sequences of records in a binary log;
- the order of magic records against measurements;
- tables at their size limit;
- early exits that leave handles, files or static buffers in a bad state;
- ordering rules that must be total and consistent.

## 1. Inventory

### Components, their state and operations

| Component | Source | State | Operations | Interacts with |
|---|---|---|---|---|
| **Event-log reader** | `eventlog.c` 36-323 | The reader struct: fd, `tpm_version`, `event_count`, `tcg2_info.algorithms[64]` and `tpm_startup`. Also the file offset. | `event_log_open`, `event_log_read_next` (a `goto again` loop that swallows the Spec ID header and StartupLocality), `__tpm_event_parse_tcg2_info`, `event_log_get_locality`, `event_log_close` | Digest registry (built-in algorithms); feeds the parser and the bank |
| **Event parser** | `eventlog.c` 460-1120 | `ev->__parsed` (memoised) and `ev->rehash_strategy` | `tpm_event_parse`, which dispatches on the event type and, for IPL events, on the PCR: grub command (PCR 8), grub file (9), systemd (12), shim (14), tag events | Reader events; the rehash engine |
| **Rehash engine** | `eventlog.c` 453-1042 | None of its own. It reads `ctx->boot_entry`, `boot_entry_path` and `algo`. | Each variant's `rehash`: EFI variable, grub file (rootfs, EFI or boot-entry substitution), grub command rebuild, systemd/tag options, tag initrd | Boot-entry loader (`sdb_is_kernel`), runtime file/variable digests |
| **PCR bank simulator** | `pcr.c` (not under `src/`; interface in `pcr.h`) | `pcr_mask`, `valid_mask`, `pcr[24]` | init (zero, per-PCR defaults, locality), extend, `pcr_bank_register_is_valid` | Prediction loop; policy builder |
| **TPM policy builder** | `pcr-policy.c` 339-1000 | ESYS handles: trial and policy sessions, sequence handles, loaded objects, the primary | `esys_start_auth_session`, `esys_flush_context`, `__pcr_bank_hash`, `esys_policy_pcr`, `__pcr_policy_make`, `esys_create_authorized_policy`, `esys_create_primary`, `esys_create`, `esys_unseal_pcr`, `esys_unseal_authorized`, `__pcr_policy_sign`, `pcr_read_into_bank` | TSS2 ESYS (external); the bank |
| **Seal, unseal and sign flows** | `pcr-policy.c` 1014-1591 | Output files; the sealed blob; the `authPolicy` sequence | `pcr_seal_secret`, `pcr_authorized_policy_create`, `pcr_authorized_policy_seal_secret`, `pcr_policy_sign`, `pcr_unseal_secret_new`, `tpm2key_unseal_secret` (tries `authPolicy` entries in order), `pcr_policy_sign_systemd` | Policy builder; platform adapters |
| **Platform adapters** | `pcr-policy.c` 1593-1769 | The `target_platforms` table | oldgrub, tpm2.0 and systemd writers/readers; `pcr_get_target_platform` | Flows; files |
| **Boot-entry loader** | `sd-boot.c` 36-414 | Static buffers of `read_entry_token`, `read_os_release` and `read_machine_id`; the entry list (at most `SDB_MAX_ENTRIES`) | `get_token_id`, `read_entry`, `sdb_get_entry_list` (filter, parse, qsort with `entrycmp`), `sdb_is_kernel`, `sdb_get_next_kernel` | Rehash engine; the `--next-kernel auto` option |
| **Version compare** | `sd-boot.c` 177-264 | None (pure) | `vercmp`, `natoi`, `isvalid` | `entrycmp` |
| **systemd policy JSON** | `sd-boot.c` 416-556 | The JSON document on disk | `sdb_policy_entry_get/set_pcr_mask`, `sdb_policy_find_or_create_entry`, `sdb_policy_file_add_entry` (only called from `#ifdef notyet`) | systemd adapter |
| **RSA keys** | `rsa.c` | An OpenSSL `EVP_PKEY` | read/write PEM, sign, `tpm_rsa_key_to_tss2` | Policy signing |
| **Secure Boot probe** | `secure_boot.c` | None | `secure_boot_enabled` (reads one efivar byte) | CLI |

### Properties that make each component correct

- **Reader.**
  - The events returned are exactly the log's measurements, in order: version switch, digests and indices all correct (spec section 8, "reader round-trip").
  - The reader exits on a malformed log and only on one.
  - The StartupLocality is kept.
  - The algorithm table is never written out of bounds.
- **Parser and rehash.**
  - An event parses to the variant its type and PCR select.
  - A failed parse leaves the event unparsed.
  - Rehash picks the source that spec section 4.G names.
  - With no boot entry and an unchanged system, the prediction equals the replay of the log (spec section 8, "no-rehash identity").
- **Bank.**
  - `valid_mask` is a subset of `pcr_mask`.
  - `extend` is deterministic, and only the registers in `pcr_mask` change.
  - The initial values follow spec section 4.F.
- **Policy builder.**
  - Every session, sequence and object handle is flushed on every exit path.
  - No handle is flushed that was never created or was already flushed.
  - An authorized-policy digest depends only on the selection and the key name.
- **Flows.**
  - A failed prediction or TPM error never leaves a sealed or signed output file (spec section 7).
  - `tpm2key_unseal_secret` succeeds exactly when some `authPolicy` entry satisfies the PCRs.
- **Boot entries.**
  - The next kernel is the newest entry by `(sort_key, machine_id, version)`.
  - The token id follows the documented order.
  - Parsing an entry file gives each key the value of its last line.
- **Version compare.**
  - Antisymmetric and transitive.
  - The spec's examples hold (`"1.0" > "1.0~rc1"`).
- **JSON.**
  - Upsert is idempotent: one entry per `pol`.
  - The PCR list written decodes back to the mask.

### Hazards

Every hazard is listed with its line and its covering properties under
`hazards` in `PROJECT.json`. In short:

- the Spec ID and StartupLocality records are recognised only while
  `event_count == 0`;
- `algorithms[algo_id]` is written for ids 64..68 of a 64-entry table;
- ids above `TPM2_ALG_LAST` are dropped from the header;
- digest counts are capped at 32;
- `vercmp` checks the end of the string before `~`;
- `natoi` copies without a terminating NUL;
- `read_entry` uses `strncpy` without a NUL, and the value of a shorter second
  line keeps the old tail;
- `read_os_release` returns one static buffer for both `ID` and `IMAGE_ID`;
- `get_token_id` picks `id` where `image_id` was found;
- `sdb_policy_entry_set_pcr_mask` starts at PCR 1;
- the upsert writes `pfkp`, not the `pkfp` systemd reads, and leaves an old
  `pkfp` in place;
- `json_object_to_file` truncates before it writes, so a failed write loses
  the whole policy file;
- `pcr_bank_init_from_current` returns nothing, so an unseal goes on with a
  partly read bank;
- `esys_create_authorized_policy` flushes handles that are never initialised
  on its early error paths;
- `pcr_policy_sign_systemd` truncates the output before any work and calls
  `fclose(NULL)`;
- `pcr_read_into_bank` ignores the count the TPM returns;
- `__pcr_bank_hash` forgets the sequence handle before the final
  `Esys_SequenceComplete` is known to have succeeded;
- the seal and sign paths build the PCR selection differently from the
  unseal path, and both must agree across the byte and chunk boundary at 8;
- a Key File with `authPolicy` entries is unsealed through them only, and
  the loop must try each in a fresh session until one unseals;
- a Key File replays the selection of the registers the prediction made
  valid, so a register it left unused is never checked at unseal;
- both unseal paths ignore the result of writing the secret;
- `__tpm_event_systemd_rehash` checks the image path but not the initrd path;
- `tpm_rsa_key_public_digest` keeps `i2d_PublicKey`'s result unsigned, so
  its error checks never fire;
- `tpm_rsa_key_write_private` relies on the umask, which a file that
  already exists ignores;
- a parse failure keeps the historical digest silently.

## 2. Plan

The order is by importance to the prediction and sealing chain.

1. **`EventLogReader`** (done). The reader with its `goto again` loop and the
   header parse. Runs: `reader` (pass) and `reader_header_table` (violation:
   the out-of-bounds table write).
2. **`Vercmp`, `VersionCompare`** (done). `vercmp` and `natoi` as RECURSIVE
   operators, with `natoi`'s stack array threaded through the calls. Run:
   `vercmp_examples` (violation: the spec's `"1.0"` vs `"1.0~rc1"`).
3. **`BootEntries`** (done). `get_token_id` with the static buffers,
   `read_entry`, `sdb_get_entry_list` (token filter, `SDB_MAX_ENTRIES`,
   glibc's merge sort) and `sdb_get_next_kernel`. Runs: `boot_entries`
   (pass), `next_kernel` (violation: `natoi`'s stale digits) and
   `token_order` (violation: the token order).
4. **`EventRehash`** (done). The parse dispatch and the per-variant rehash of
   `eventlog.c`, driven by the prediction loop of spec.md 4.G and 7, with the
   bank's extend rule of 4.F (`pcr.c` and `oracle.c` are not under `src/`, so
   the loop and the bank are spec_modelled). Run: `rehash` (pass).
5. **`TpmPolicy`** (done). The ESYS calls and handles of the `esys_*`
   helpers, with any one TPM call failing, and the six oldgrub commands over
   the files they read and write. Runs: `tpm_policy` (pass), `tpm_handle_leak`
   and `tpm_flush_uninit` (violations).
6. **`SealedSecret`** (done). The abstract promise of the seal, sign and
   unseal commands in terms of register values. `TpmPolicy` is shown to
   implement it with `INSTANCE ... WITH`; the refinement is the property
   `SealedSecretSpec` of the `tpm_policy` run.
7. **`SystemdPolicy`** (done). `sdb_policy_file_add_entry` (the JSON upsert),
   `pcr_policy_sign_systemd` and `systemd_write_signed_policy`. Runs:
   `systemd_json` (pass) and `systemd_entry` (violation: the PCR list starts
   at 1 and the fingerprint member is misnamed).
8. **The tpm2.0 platform** (done). The Key File writers
   (`tpm2key_write_sealed_secret`, `tpm2key_write_signed_policy`) and
   `tpm2key_unseal_secret` with `__pcr_policy_unseal_policy_seq` and its
   PolicyPCR and PolicyAuthorize interpreters, as more of `TpmPolicy`,
   checked by `tpm_policy`; `SealedSecret` now holds a set of signatures.
9. **`RsaKey`** (done). `rsa.c`'s private-key reader, fingerprint and
   signing, called by `pcr_policy_sign_systemd` in `SystemdPolicy` and
   checked by `systemd_json`.
    The same sitting added the `target_platforms` table to `TpmPolicy`,
    with the systemd row in `tpm_policy`'s instance.
10. **Next.** All 12 runs are used, so further work adds properties and
   actions to the existing runs.
   - Two `authPolicy` entries where only the older one unseals: this needs
     a fifth command, and `tpm_policy` takes about 9 minutes at 5.
   - The `__tpm_event_systemd_rehash` entry without an initrd, as an entry
     of `rehash` (it needs a property that holds, or a run slot).

Runs are capped at 12. Each question gets one run, and each violation run
checks one property that the spec, a comment or a test states.

## 3. Modules and runs

### EventLogReader (`EventLogReader.tla`, `MC_EventLogReader.tla`)

**State.**

- `log` is the file, a sequence of abstract records. It is chosen in `Init`
  and never changes.
- `state` is the reader's life-cycle: `init`, then `open` or `failed_open`,
  then `eof` and `closed`, or `fatal` for `fatal()`/`exit(1)`.
- `rd` is the reader struct plus the file offset:
  - `pos`, `tpm_version` and `event_count`;
  - `algorithms`: the ids whose table entry was filled;
  - `oob`: ids written past the table;
  - `startup`.
- `events` are the events returned so far.

**Records.** A record keeps the following:

- the event type;
- the PCR;
- the digest algorithm ids;
- the body kind: `specid`, `locality` or `data`;
- the locality byte;
- the parsed header (spec major, `(id, size)` table, and whether the table
  parses);
- whether the record is truncated or oversized.

Digest bytes, sizes and the platform class are left out. No property
distinguishes them.

**Actions.**

- `Open` is `event_log_open`: `runtime_open_eventlog` may fail.
- `ReadNext` is one whole call of `event_log_read_next`. `ReadNextCall` is a
  RECURSIVE operator for its `goto again` loop. `ParseTcg2Info` models
  `__tpm_event_parse_tcg2_info`, and `Resolves` models
  `event_log_get_algo_info`.
  `EndOfLog` is `__read_u32le_or_eof` returning false: the log ends
  cleanly only at a record boundary. `ReadComplete` is `__read_exactly`: a
  truncated record is a short read, and the reader calls `fatal()`.
- `Close` is `event_log_close` after the caller has seen NULL.

Deadlock checking is off: the program stops, by `fatal()`, by a failed open,
or after closing.

**Reference.** `Measurements`, `WellFormedLog` and `LocalityOf` state what
spec.md section 4.D says a log means. They are written independently of the
reader's control flow.

**Run `reader`** (`EventLogReader.cfg`).

- **Logs.** Every log of up to 3 records over these parts:
  - 4 headers: TCG2 declaring SHA3-256 plus a size-conflicting SHA-256, TCG2
    with an empty table, spec version 1, and a table cut short;
  - or no header;
  - types NO_ACTION and SEPARATOR;
  - PCRs 0 and 7;
  - `data` and `locality` bodies;
  - digest lists `<<SHA256>>`, `<<SHA1,SHA256>>`, `<<SHA3_256>>` and
    `<<SHA3_384>>`, where SHA3_384 is declared by no header;
  - truncated and oversized records.

  Logs are restricted to the TCG order: StartupLocality only before the first
  measurement.
- **Scaled bound.** The digest-count limit is scaled from 32 to 1, so that the
  count check fires with two-digest records.
- **Invariants.**
  - `TypeOK`.
  - `RoundTrip`: the events are a prefix of the measurements, and all of them
    once NULL has been returned.
  - `OutcomeMatchesLog`: `fatal` iff the log is malformed.
  - `StartupLocalityKept`: once the log has been read,
    `event_log_get_locality` reports the locality of the log's
    StartupLocality record for PCR 0, and none for another PCR.
- **Result.** 25,682 distinct states, and all hold.
- **Bounds.** Three records are enough for these combinations:
  - a header, a locality and a measurement;
  - a header, then two records with different digest lists;
  - a measurement followed by a PCR-0 NO_ACTION, which must not be swallowed.

**Run `reader_header_table`** (`EventLogHeaderTable.cfg`, violation).

A header declaring `TPM2_ALG_CFB` (0x43) makes `__tpm_event_parse_tcg2_info`
write `algorithms[67]` in a 64-entry table (`eventlog.c:313`). The id passes
the `algo_id > TPM2_ALG_LAST` test and is not a built-in digest. Entry 64
overlaps `tpm_startup`, and higher ids run past the heap object. TLC finds
`NoWriteOutsideTable` violated after the first `ReadNext`.

### Vercmp and VersionCompare (`Vercmp.tla`, `VersionCompare.tla`, `MC_VersionCompare.tla`)

`Vercmp` has no state. It gives `vercmp` of `sd-boot.c:198-264` as
RECURSIVE operators:

- `VercmpLoop` is one pass of the `for(;;)` loop. Its helpers are:
  - `SkipInvalid`, which skips invalid characters;
  - `EndCmp`, the end-of-string test at line 222;
  - `SepLoop`, the loop over `~-^.`;
  - `RunEnd`, which finds the end of a digit or letter run;
  - `CompareRuns`, the numeric comparison;
  - `Strncmp`, the letter comparison.
- `cmp` is kept as its sign (`Sign`). Every caller uses only the sign.
- `Natoi` is `natoi` (`sd-boot.c:189-196`).
  - `strncpy(line, a, n)` writes the first `n` bytes of the uninitialised
    stack array `line` and no NUL.
  - `atoi` then reads on into whatever an earlier call left there.
  - The array is an argument (`line`) and a result (`buf`) of every operator,
    so successive calls share it, as they share the stack slot.
  - The two `natoi` calls of `cmp(natoi(a), natoi(b))` are unsequenced in C.
    The argument `order` chooses which one runs first. gcc runs the right one
    first.
- `UapiCmp` is the reference order, written from spec.md section 4.I and the
  UAPI version format. In it the tilde sorts before everything, the end of a
  string included.

`VersionCompare` makes a sequence of `vercmp` calls (`Compare`) and records
them in `history`. The array `buf` carries over from one call to the next.

**Run `vercmp_examples`** (`VersionCompareExamples.cfg`, violation).

`SpecExamplesHold` states the three examples of spec.md section 8. TLC finds
that `vercmp("1.0", "1.0~rc1")` is negative, where the spec says positive.
The test for the end of either string (line 222) comes before the separator
loop, so the tilde rule never applies when one string has ended.

### BootEntries (`BootEntries.tla`, `MC_BootEntries.tla`)

**Action.** `GetNextKernel` is one whole call of `sdb_get_next_kernel`
(`sd-boot.c:397-414`). It includes:

- `sdb_get_entry_list`, which calls `get_token_id`;
- `opendir`, which may fail;
- the `readdir` loop (`ScanDir`), which:
  - breaks at `SDB_MAX_ENTRIES` before the name filter;
  - filters by token prefix;
  - skips files `read_entry` cannot open;
- the `qsort` by `entrycmp`;
- the copy of `entries[0].image`.

**`get_token_id`** keeps the static buffers:

- `read_os_release` returns its one `static char id[128]` for both keys, so
  the ID pointer reads the IMAGE_ID value once IMAGE_ID was found
  (`OsReleaseBuffer`);
- line 324 assigns `token_id = id` where `image_id` was found;
- the entry-token is taken without testing its directory;
- a missing machine-id makes the call fail.

**`read_entry`** is a fold over the file's lines.

- A recognised key overwrites its field with
  `strncpy(dest, v, strlen(v) - 1)`.
- That is the value without its newline, or without its last character on a
  last line with no newline (`CopiedValue`).
- No NUL is written (`Overwrite`).
- The fields start zeroed by the `memset` of `sdb_get_next_kernel`.

**`qsort`** is glibc 2.36's `msort`, the one the build uses for arrays this
small. It is a merge sort:

- it splits `n` into `n/2` and the rest;
- it sorts the left half, then the right;
- it merges, taking the left element when the comparison is `<= 0`.

The order of `entrycmp` calls, and so the contents of `natoi`'s array, are
the library's.

**State.**

- `sys` is the host's files: `/etc/kernel/entry-token`, the `ID` and
  `IMAGE_ID` of `/etc/os-release`, `/etc/machine-id`, and the directories
  under `/boot/efi`.
- `dir` is the entries directory in readdir order. Each entry has its name,
  whether it can be opened, and its lines `(key, value, newline?)`.
- `buf` and `argorder` are the `natoi` array and the evaluation order.
- `phase`, `token`, `list` and `next` are the call's outcome.

Tokens and names are sequences of words, so the `strncmp` prefix test is
`IsPrefix`. An empty entry-token file gives the empty token, which matches
every file.

**Reference.**

- `SpecToken` is the token order of spec.md 4.I.
- `SpecOrder` is sort-key, then machine-id (ASCII), then `UapiCmp`.
- `Listable` is the readable entry files of a token.

**Run `boot_entries`** (`BootEntries.cfg`, pass).

- **Files.** The versions of spec.md 4.I's example but the pre-release:
  `6.1.0`, `6.1.1` and `5.14.21-150500`. The pre-release's order is the
  question of `vercmp_examples`. Also:
  - a `sle` entry `6.2.0`, which only the empty token lists;
  - an unreadable `tw` entry `6.3.0`, newer than all.
- **Cases covered.**
  - all 120 readdir orders;
  - four hosts: an entry-token, an ID directory, an empty entry-token, and no
    machine-id;
  - both evaluation orders;
  - a zeroed and a digit-filled initial `natoi` array.
- **Invariants.**
  - `TypeOK`.
  - `NextKernelIsNewest`: the returned image is that of an entry maximal under
    `SpecOrder` among the listable entries, or `""` when there is none.
- **Result.** Both hold, over 5,280 distinct states.
- **Why the stale digits do not matter here.** Digit runs of equal length
  read the same stale tail. Where lengths differ ("5" and "6", "14" and "1"),
  the first separator or digit decides before the stale tail matters.
- **Bounds.**
  - `SDB_LINE_MAX` is scaled to 6, the longest digit run ("150500").
  - `SDB_MAX_ENTRIES` (in `sd-boot.h`, not in the repository) is set to 8,
    above the number of files.

**Run `next_kernel`** (`NextKernelNatoi.cfg`, violation).

The entries are `6.1.8`, `6.1.9`, `6.1.10` and `5.14.21-150500`.
`NextKernelIsNewest` fails:

- comparing `9` with `10`, the right-hand `natoi` copies `"10"`;
- the left-hand one then copies `"9"` over the `1`;
- `atoi` reads `"90"`.

So `6.1.9` sorts newer than `6.1.10`. This was reproduced with the C code
compiled by gcc: the wrong kernel was picked in 23 of 24 readdir orders.

**Run `token_order`** (`TokenOrder.cfg`, violation).

`TokenFollowsSpec` compares `token` with `SpecToken`. TLC finds a host with
`IMAGE_ID` only, whose directory exists. `get_token_id` assigns `id` (NULL)
and falls through to the machine-id.

### EventRehash (`EventRehash.tla`, `MC_EventRehash.tla`)

The prediction loop over a read log: each event is parsed, given a strategy
and extended into the bank. `oracle.c` (the loop) and `pcr.c` (the bank) are
not under `src/`; they are written from spec.md 4.F, 4.G and 7 and marked
spec_modelled in the map. The parsers and rehash callbacks are translated from
`eventlog.c`.

**State.**

- `sc` is the scenario, fixed in `Init`:
  - the log and the historical digest of each event;
  - the rehash context (`boot_entry`, `boot_entry_path`);
  - the token `get_token_id` returns;
  - the files and EFI variables the running system has.
- `k` is the next event, `strategy` the strategy of each event so far.
- `bank` maps each PCR of the mask to the digests extended into it.
- `status` is `running`, `done` or `failed`.

**Operators.**

- `tpm_event_parse` is `__tpm_event_parse` and `tpm_event_parse`: tag events
  (`parse_tag`, with the framing check), IPL events by PCR (`parse_ipl`: an
  empty body parses to nothing, a body without NUL fails), and the variant
  parsers of grub commands (the `:` split and the `grub_cmd` and
  `kernel_cmdline` keywords), grub files (`(device)/path`), systemd options
  and shim.
- `tpm_parsed_event_rehash` dispatches to the variant's rehash:
  - `__tpm_event_grub_file_rehash`: an EFI-partition path when a device is
    named, the root file system otherwise, and the next kernel or initrd in
    place of the booted one when `sdb_is_kernel` or `sdb_is_initrd` says so.
    A crypto device is read from the root file system too.
  - `__tpm_event_grub_command_rehash`: the command string rebuilt from the
    parsed verb, file and options, with the file of the next boot entry.
  - `__tpm_event_systemd_rehash` and the tag rehashes: the load options
    `initrd=<dos path> <options>` of the next entry.
  - `__tpm_event_shim_rehash`: the EFI variable, if present.
- A digest is the value it is a hash of; a file's digest names the file.
- `Extend` appends to the register, and is a no-op outside the mask.

**Actions.** `PredictEvent` handles one event: parse, strategy (COPY for an
event with nothing to parse, PARSE_FAIL for one whose parse failed, REHASH
otherwise), digest, extend. An unavailable source is a failure, except for an
EFI variable, which falls back to the historical digest (spec.md 7).
`Finish` ends the loop after the last event.

**Run `rehash`** (`EventRehash.cfg`, pass).

- **Logs.** A grub2 log of 15 events and a systemd-boot log of 11. Their
  events cover every parser: grub files on both file systems and a crypto
  device, an unparseable file, commands with and without `:`, the kernel
  command line, a body without NUL, an empty IPL, the systemd options, the
  three tags and a short tag, a known and an unknown shim variable, and a
  separator.
- **Scenarios.** 16: both logs, with and without a next boot entry, with all
  files or without the next initrd, with and without the shim variable. The
  expected PCR values are the replay of what a boot of the next entry (the
  booted one when there is none) measures, written per event role in the MC
  module, apart from the code.
- **Properties.**
  - `TypeOK`.
  - `PredictionIsNextBoot`: when the prediction completes, the bank is what
    the next boot produces.
  - `PredictionCompletes` (liveness, weak fairness on `Next`): when the
    system has every file and variable, the prediction completes. The
    program runs the loop to its end without waiting, which justifies the
    fairness.
- **Result.** All hold, over 220 distinct states.

### TpmPolicy (`TpmPolicy.tla`, `MC_TpmPolicy.tla`)

The commands of the three target platforms, each one action: the process
runs a command from start to exit with its own ESYS context. The seal and
sign commands dispatch through `target_platforms`, the platform table:

- oldgrub writes the blob and a signature file;
- tpm2.0 writes and updates a Key File;
- systemd seals as tpm2.0 does, and its `systemd_write_signed_policy`
  always fails.

**ESYS.** A command's context is a record: the handles the TPM holds, the
ESYS calls made so far, which call fails (`fail`, its position among the
command's calls; 0 for none), and whether a flush named a handle the TPM does
not hold. Any one call may fail, since the TPM's answer is outside the code's
control. Each `esys_*` helper is an operator over this record. `FailStep`
finds the call that fails among the next ones, and the helper makes the calls
up to it, loads the handles they create and runs the flushes of its cleanup
label. The TPM also refuses on its own:

- `Unseal` when the session's policy is not the object's `authPolicy`;
- `VerifySignature` unless the signature is the loaded key's over the live
  PCR policy.

Handles are named by their role (`seq`, `trial`, `policy`, `ext`, `srk`,
`sealed`). A handle variable that was never initialised reads as `NONE` or as
an ESYS_TR the context does not know; both are possible stack contents.
Flushing a loaded handle is taken to succeed.

**Digests.** A PCR digest is the sequence of register values hashed, in index
order; a policy digest is the policy commands that made it
(`PcrPolicy(selection, digest)`, `AuthPolicy(key)`). Selections are the three
bytes of `pcrSelect`, built bit by bit (`__pcr_selection_add`) at seal and
sign time and from a mask (`__pcr_selection_build`) at unseal time.
`pcr_read_into_bank` reads the mask in chunks of 8 registers; an invalid
(all-zero) live register is left out of the valid mask.

**Key Files.** On the tpm2.0 platform the sealed file also holds a policy
sequence and a list of `authPolicy` entries, each a sequence of commands
(`PolicyPCRCmd(sel)`, `PolicyAuthorizeCmd(key, sig)`).
`tpm2key_write_sealed_secret` stores PolicyPCR of the selection of the
bank's valid registers (`pcr_bank_to_selection`), or nothing for an
authorized seal. `tpm2key_write_signed_policy` prepends the entry PolicyPCR
of the signed bank's selection, then PolicyAuthorize with the key and the
signature. The builders of these entries are in `tpm2key.c`, which is not
under `src/`: since `tpm2key_add_policy_policypcr` is given only the
selection, the stored PolicyPCR has an empty digest and the TPM hashes its
own registers. `tpm2key_unseal_secret` loads the object, then runs
`__pcr_policy_unseal_policy_seq` for every `authPolicy` entry until one
unseals, or for the policy sequence when there are no entries. Each run
starts a policy session and folds the commands over the session digest
(`RunPolicyCommand`). It then calls `Unseal` and flushes the session.
PolicyAuthorize makes six ESYS calls and flushes the key it loaded. The
TPM refuses `VerifySignature` unless the signature is over the session's
current digest. Only the in-place update of the Key File is modelled: with
a separate output path, the update only copies the file first.

**State.** `tpmpcr` (the live PCRs), `loaded`, `badflush`, the three files
(`sealed`, `authpolicy`, `signed`, each with the bank or key it was made
for; `sealed.keyfile` is the Key File part, `NULL` for oldgrub), `out` (what the last unseal wrote), `last` (the last command, whether
a TPM call failed in it, its mask and key) and `ncmd`.

**Actions.** `PcrSealSecret`, `PcrAuthorizedPolicyCreate`,
`PcrAuthorizedPolicySealSecret`, `PcrPolicySign`, `PcrUnsealSecretPcr`,
`PcrAuthorizedPolicyUnsealSecret` (oldgrub files), `Tpm2keyUnsealSecret`
(Key Files; the platform's `unseal_secret` of `pcr_unseal_secret_new`),
and `Reboot`, which sets new PCR values
and drops every transient handle (a TPM reset).

**Run `tpm_policy`** (`TpmPolicy.cfg`, pass).

- **Bounds.** PCRs 7 and 8: they lie on both sides of the chunk and byte
  boundary at 8. The predicted banks extend both registers or only PCR 7.
  Live values are `a`, `b` or zero. There are two keys (symmetric), all
  three platforms, and up to 4 commands, the length of the
  authorized flow (create, seal, sign, unseal), with any number of reboots.
  Within that bound a Key File has at most two `authPolicy` entries, and a
  file with two is PCR-sealed (no entry unlocks it) or has no authorized seal
  left to unseal it. The first-success loop over several entries of the
  sealing key is therefore not reached (section 2).
- **Properties.**
  - `TypeOK`.
  - `UnsealRoundTrip`: an unseal in which the TPM fails no call returns the
    secret if and only if the live PCRs are those the secret was sealed, or
    the policy signed, for. This ties the selection and digest built at seal
    and sign time to the ones built at unseal time. For a Key File it reads
    spec.md 4.H: an entry of the sealing key over the live registers of its
    bank releases the secret when there are entries, and otherwise the
    sealed bank's live registers do.
  - `SealedSecretSpec`: the commands implement `SealedSecret` (see below).
- **Result.** All three hold, over 34,356 distinct states, in about a
  minute.
- **Reduction.** An input a failed command never used (the platform of a
  seal whose ESYS calls failed, the key and platform of a sign whose policy
  failed, the key of a failed authorized policy) is enumerated once
  (`Given`). The stack contents of an uninitialised handle are enumerated
  only where the flush reads them (`StackSlot`). The record of the last
  command keeps the key only for the authorized unseal, whose property
  reads it.

**Refinement.** `SealedSecret.tla` states what the commands promise,
without digests. Its state is the live registers, what the sealed secret is
bound to (a bank, or a key), the key of the authorized-policy file, the set of signatures
that exist (bank and key), and what the last unseal returned. Signatures
come only from signing; a seal or a sign may drop earlier ones. Any command
may fail, and a failed command changes nothing. An unseal may return the
secret only while every register the bound bank covers (or the bank whose
policy the bound key signed) holds its predicted value. `TpmPolicy` maps
onto it by forgetting the digests, the handles and the command record:
`binding` is the bank or key of `sealed`, `authorized` is the key of
`authpolicy`, and `signatures` holds the bank and key of `signed` and of
every `authPolicy` entry of a Key File.
Unlike `UnsealRoundTrip`, the refinement also covers commands in which an
ESYS call fails. This includes an unseal that goes on with a bank that a
failed `Esys_PCR_Read` left partly read, since `pcr_bank_init_from_current`
returns nothing (lines 1050 and 1235). The TPM's own policy check is then
all that keeps the secret. It is checked as a PROPERTY of `tpm_policy`. Its
mutant hashes the registers in `__pcr_bank_hash` from high to low, and the
TPM then releases the secret to swapped register values.

**Run `tpm_handle_leak`** (`TpmHandlesReleased.cfg`, violation).

`HandlesReleased` states spec.md 4.H and 7: every handle is flushed on every
exit path. `__pcr_bank_hash` sets `sequence_handle = ESYS_TR_NONE` (line 472)
before it checks the result of the final `Esys_SequenceComplete`. When that
call fails, the sequence object stays loaded after `pcr_seal_secret` exits.

**Run `tpm_flush_uninit`** (`TpmFlushOnlyLoaded.cfg`, violation).

`FlushOnlyLoaded` says every `Esys_FlushContext` names a handle the TPM
holds. `esys_create_authorized_policy` declares `session_handle` and
`pub_key_handle` without initialising them (lines 543 and 545). When
`Esys_LoadExternal` fails, its `out` label flushes both.

### SystemdPolicy (`SystemdPolicy.tla`, `MC_SystemdPolicy.tla`)

The systemd signed-policy JSON file of spec.md 6, and the three functions
that write it.

- `sdb_policy_file_add_entry` (`sd-boot.c`) reads or creates the document,
  finds or creates the bank's array, then upserts the entry of the policy
  with `sdb_policy_find_or_create_entry`. It sets `pcrs` with
  `sdb_policy_entry_set_pcr_mask` and the `pfkp` and `sig` members, then
  writes with `json_object_to_file`.
- `pcr_policy_sign_systemd` (`pcr-policy.c`) opens the file with `"w"`
  first, then reads the private key, makes the policy and signs it, then
  prints a document with one bank and one entry. The key steps are the
  operators of `RsaKey` (`rsa.c`):
  - `tpm_rsa_key_read_private`: `fopen`, `PEM_read_PrivateKey`, and the
    RSA type check;
  - `tpm_rsa_key_public_digest`: the fingerprint written as `pkfp`;
  - `tpm_rsa_sign`: refuses a public key, and may fail in EVP.
- `systemd_write_signed_policy` always fails.

Neither of the first two is called in this build. The call of
`sdb_policy_file_add_entry` is under `#ifdef notyet`, and nothing calls
`pcr_policy_sign_systemd`. They are modelled because they are the code that
spec.md 6 describes.

**State.** `file` is one of the following:

- `Absent`;
- `Denied`: `access` fails other than with ENOENT, and `fopen` fails;
- `Garbage`: not JSON, either empty or cut short;
- `NonObject`;
- a document: a function from algorithm names to `NonArray` or to a
  sequence of entry records (`pol`, `pcrs`, `pkfp`, `pfkp`, `sig`; NULL
  where the member is missing).

`signedfor` is a history variable. For each algorithm and policy, it holds
the key and mask of the last command that wrote the entry and succeeded.
`last` and `ncmd` record the command.

**Actions.** One action per function, as above. Each error path of
`sdb_policy_file_add_entry` leaves the file as it was. Its
`json_object_to_file` opens with `O_TRUNC`: when the open fails the file is
as it was, and when a write fails it is cut short (`Garbage`).
`pcr_policy_sign_systemd` has already truncated the file when its key,
policy or signature step fails, which leaves `Garbage`. The key file it is
given is one of the following: an RSA private key, an RSA public key (no
private block, so `PEM_read_PrivateKey` finds nothing), an EC private key
(refused by the type check), a file without PEM, or no file. When `fopen` fails,
its `out` label calls `fclose(NULL)`, recorded as a crash.

**Bounds.** Two algorithms and three banks: two policies of the sha256 bank,
over PCRs {0, 7} and {7}, and one of sha1. PCR 0 is where an off-by-one in
the mask encoding shows. There are two keys (symmetric), so that a policy is
re-signed with another key, and up to 3 commands. Every starting file is
tried: absent, denied, not JSON, not an object, a sha256 member that is not
an array, an entry another tool wrote without `pol`, and a document
`pcr_policy_sign_systemd` wrote. Deadlock is not checked, since the tool
runs one command per process and a behaviour ends with the last command the
bound allows.

**Run `systemd_json`** (`SystemdPolicy.cfg`, pass).

- `TypeOK`.
- `UpsertCurrent` (spec.md 8, "JSON upsert idempotence"): in every bank
  array, each policy has at most one entry. It carries the signature of the
  last command that signed that policy and succeeded.
- `AddKeepsOthers` (action property): a successful add keeps every other
  bank and, in its own bank, every other policy's entry, in order.
- **Result.** All hold, over 2,301 distinct states in 2 s.

**Run `systemd_entry`** (`SystemdEntryAsSigned.cfg`, violation).

`EntryAsSigned` says every entry systemd reads back describes what was
signed for its policy (spec.md 6). Its `pcrs` list must decode, through
`sdb_policy_entry_get_pcr_mask`, to the bank's mask, and its `pkfp` must name
the signing key. The first add on an absent file breaks both:

- mask {7} is written as `[8]`, because `sdb_policy_entry_set_pcr_mask`
  counts from 1 (line 457; spec.md 9(b) calls this a bug);
- the entry gets `pfkp`, a member systemd does not read, and no `pkfp`
  (line 539).

## 4. What is not modelled, and why

- **The rest of `rsa.c`**: `tpm_rsa_key_read_public`,
  `tpm_rsa_key_write_private` and `tpm_rsa_generate` are called only from
  outside `src/`. `tpm_rsa_key_to_tss2` and `rsa_pubkey_alloc` fill in a
  `TPM2B_PUBLIC`, including the 1024 to 4096 bit key-size check.
  `TpmPolicy` keeps a key as a name, because its state space has no room
  for key sizes. `tpm_rsa_key_write_private` sets umask 077 only for a
  file it creates, and calls `fclose(NULL)` when `fopen` fails. Both are
  listed as hazards; no modelled command writes a key.
- **Secure Boot probe (`secure_boot.c`)**: a single read of an EFI
  variable, and nothing under `src/` calls `secure_boot_enabled`.
- **Digest registry, buffer codec, runtime file/variable access, PE/COFF
  hashing, ASN.1 TPM 2.0 Key File codec, CLI (`oracle.c`)**: not under `src/`.
  Where their behaviour matters, they appear as nondeterministic outcomes
  (success or failure, equal or different content).
- **TSS2 ESYS transport**: an external collaborator. Each ESYS call is
  modelled as an outcome (success or an error rc). Handles are modelled as
  created or flushed.
- **EFI variable, boot-services application and GPT events**: their parsers
  and rehash callbacks are not under `src/`. The logs of `rehash` hold none.
- **File I/O of the policy commands**: reading the secret, keys, digests and
  signatures, and the platforms' writers, are taken to succeed in
  `TpmPolicy`. They sit before the first or after the last ESYS call, so they
  change which files exist but not the handles.
- **`old_pcr_authorized_policy_seal_secret`**: no header declares it, and
  it does what `pcr_authorized_policy_seal_secret` does on the oldgrub
  platform.
- **The exit status against the output file**: both unseal paths ignore
  the result of `buffer_write_file` (lines 1057 and 1507), so a command can
  report success without writing the secret. File writes are taken to
  succeed, and no run compares the two.
- **The text of the systemd JSON**: `SystemdPolicy` keeps the members of the
  document, not its characters. The stray `\{` of `pcr_policy_sign_systemd`
  (spec.md 9(a)) is an unknown escape that compilers read as `{`, so it
  changes nothing. `print_pcr_mask` and `print_hex_string_buffer` are not in
  the repository: the first is taken to print the mask's indexes (spec.md
  6), and the hex a policy is matched by is taken as the digest itself, so
  the case-insensitive `strcasecmp` match is an equality.
- **A TPM that returns fewer PCR digests than selected**: `TpmPolicy`'s TPM
  returns one per selected register, as an allocated bank does.
