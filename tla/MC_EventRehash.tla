---------------------------- MODULE MC_EventRehash ----------------------------
(***************************************************************************)
(* Predictions over logs that a boot of a grub2 or a systemd-boot entry    *)
(* writes.  Each event of a log plays a role; Measure gives what a boot of *)
(* an entry extends for a role, so that the log's digests are those of the *)
(* booted entry and the expected PCR values those of the next entry.       *)
(***************************************************************************)
EXTENDS EventRehash

P(top, kind, ver) == [top |-> top, kind |-> kind, ver |-> ver]

Kernel(v) == P("tw", "linux", v)
Initrd(v) == P("tw", "initrd", v)
Conf(v)   == P("loader", "conf", v)       \* on the EFI partition
ConfMnt(v) == P("boot", "conf", v)        \* the same file under /boot/efi
GrubCfg   == P("EFI", "cfg", "g")         \* on the EFI partition
RootCfg   == P("boot", "cfg", "r")        \* /boot/grub2 on the root file system

Entry(v) == [ver |-> v, image |-> Kernel(v), initrd |-> Initrd(v), options |-> "o_" \o v]

Booted == Entry("old")
NextEntry == Entry("new")

EfiDev == "hd0,gpt1"

DevFile(d, path) == [form |-> "dev", device |-> d, path |-> path]
AbsFile(path) == [form |-> "abs", device |-> NULL, path |-> path]
Cmd(kw, verb, file, opts) ==
  [colon |-> TRUE, keyword |-> kw, arg |-> [verb |-> verb, file |-> file, opts |-> opts]]
Ipl(pcr, v) == [type |-> "IPL", pcr |-> pcr, body |-> [empty |-> FALSE, nul |-> TRUE, value |-> v]]
Tag(id, framed) == [type |-> "EVENT_TAG", pcr |-> 9, body |-> [framed |-> framed, id |-> id]]

(* The event a boot of entry e logs for a role. *)
Event(r, e) ==
  CASE r = "grub_cfg"    -> Ipl(9, DevFile(EfiDev, GrubCfg))
    [] r = "root_cfg"    -> Ipl(9, AbsFile(RootCfg))
    [] r = "crypt_cfg"   -> Ipl(9, DevFile("crypto0", RootCfg))
    [] r = "kernel_file" -> Ipl(9, DevFile(EfiDev, e.image))
    [] r = "initrd_file" -> Ipl(9, DevFile(EfiDev, e.initrd))
    [] r = "conf_file"   -> Ipl(9, DevFile(EfiDev, Conf(e.ver)))
    [] r = "bad_file"    -> Ipl(9, [form |-> "bad"])
    [] r = "cmd_set"     -> Ipl(8, Cmd("grub_cmd", "set", NULL, "timeout"))
    [] r = "cmd_linux"   -> Ipl(8, Cmd("grub_cmd", "linux", DevFile(EfiDev, e.image), e.options))
    [] r = "cmd_initrd"  -> Ipl(8, Cmd("grub_cmd", "initrd", DevFile(EfiDev, e.initrd), ""))
    [] r = "cmdline"     -> Ipl(8, Cmd("kernel_cmdline", "", DevFile(EfiDev, e.image), e.options))
    [] r = "no_colon"    -> Ipl(8, [Cmd("grub_cmd", "set", NULL, "x") EXCEPT !.colon = FALSE])
    [] r = "no_nul"      -> [Ipl(8, "x") EXCEPT !.body.nul = FALSE]
    [] r = "empty_ipl"   -> [Ipl(8, "x") EXCEPT !.body.empty = TRUE]
    [] r = "sd_options"  -> Ipl(12, "loadopts")
    [] r = "tag_options" -> Tag("LOAD_OPTIONS", TRUE)
    [] r = "tag_initrd"  -> Tag("INITRD", TRUE)
    [] r = "tag_other"   -> Tag("OTHER", TRUE)
    [] r = "tag_short"   -> Tag("INITRD", FALSE)
    [] r = "shim"        -> Ipl(14, "MokList")
    [] r = "shim_unknown" -> Ipl(14, "Unknown")
    [] r = "separator"   -> [type |-> "SEPARATOR", pcr |-> 7, body |-> "sep"]

(* What a boot of entry e extends for a role: grub hashes the files it    *)
(* loads and the command text after its label, systemd-boot and the       *)
(* kernel hash the load options "initrd=<dos path> <options>" in UTF-16LE *)
(* and the kernel the initrd it loads, shim the variable.  Events that do *)
(* not depend on the entry measure the same at every boot.                *)
Measure(r, e) ==
  CASE r = "grub_cfg"    -> <<"file", "cfg", "g">>
    [] r \in {"root_cfg", "crypt_cfg"} -> <<"file", "cfg", "r">>
    [] r = "kernel_file" -> <<"file", "linux", e.ver>>
    [] r \in {"initrd_file", "tag_initrd"} -> <<"file", "initrd", e.ver>>
    [] r = "conf_file"   -> <<"file", "conf", e.ver>>
    [] r = "cmd_set"     -> Str("set", NULL, "timeout")
    [] r = "cmd_linux"   -> Str("linux", Join(EfiDev, e.image), e.options)
    [] r = "cmd_initrd"  -> Str("initrd", Join(EfiDev, e.initrd), "")
    [] r = "cmdline"     -> Str("", Join(EfiDev, e.image), e.options)
    [] r \in {"sd_options", "tag_options"} -> <<"utf16", path_unix2dos(e.initrd), e.options>>
    [] r = "shim"        -> <<"var", "MokList">>
    [] OTHER             -> <<"fixed", r>>

(* The PCR values a boot of e produces for a log of roles. *)
Replay(roles, e) ==
  [q \in PcrMask |->
     LET js == SelectSeq([j \in 1..Len(roles) |-> j], LAMBDA j : Event(roles[j], e).pcr = q)
     IN [i \in 1..Len(js) |-> Measure(roles[js[i]], e)]]

GrubLog == <<"grub_cfg", "crypt_cfg", "cmd_set", "no_colon", "cmd_linux", "cmd_initrd",
             "kernel_file", "initrd_file", "cmdline", "root_cfg", "bad_file",
             "tag_options", "tag_initrd", "shim", "separator">>
SdBootLog == <<"shim", "shim_unknown", "conf_file", "sd_options", "no_nul", "empty_ipl",
               "tag_options", "tag_short", "tag_other", "tag_initrd", "separator">>

(* The files the running system has: the booted entry's and the next       *)
(* entry's kernels, initrds and entry files on the EFI partition, and the  *)
(* grub configuration files.                                               *)
AllFiles ==
  {<<"efi", GrubCfg>>, <<"rootfs", RootCfg>>} \cup
  UNION {{<<"efi", e.image>>, <<"efi", e.initrd>>, <<"efi", Conf(e.ver)>>,
          <<"rootfs", ConfMnt(e.ver)>>} : e \in {Booted, NextEntry}}

NoCtx == [boot_entry |-> NULL, boot_entry_path |-> NULL]
NextCtx == [boot_entry |-> NextEntry, boot_entry_path |-> ConfMnt(NextEntry.ver)]

Scenario(roles, ctx, live, vs) ==
  [log |-> [j \in 1..Len(roles) |-> Event(roles[j], Booted)],
   hist |-> [j \in 1..Len(roles) |-> Measure(roles[j], Booted)],
   ctx |-> ctx, token |-> "tw", live |-> live, vars |-> vs,
   expected |-> Replay(roles, IF ctx.boot_entry = NULL THEN Booted ELSE ctx.boot_entry),
   available |-> live = AllFiles /\ vs = {"MokList"}]

(* Without and with a next boot entry, with every file, without the new    *)
(* initrd, and without the shim variable.                                  *)
MC_Scenarios ==
  {Scenario(l, c, live, vs) :
     l \in {GrubLog, SdBootLog},
     c \in {NoCtx, NextCtx},
     live \in {AllFiles, AllFiles \ {<<"efi", NextEntry.initrd>>}},
     vs \in {{"MokList"}, {}}}

MC_ShimVars == {"MokList"}
MC_PcrMask == {8, 9, 12, 14}

=============================================================================
