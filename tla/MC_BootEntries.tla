---------------------------- MODULE MC_BootEntries ----------------------------
(***************************************************************************)
(* Instances of the boot-entry loader: a host whose entry files are the    *)
(* versions of spec.md's example, readdir in every order, and natoi's      *)
(* array starting zeroed or full of digits.                                *)
(***************************************************************************)
EXTENDS BootEntries, TLC

MC_Letters == <<"c", "r">>

V610    == <<"6", ".", "1", ".", "0">>
V611    == <<"6", ".", "1", ".", "1">>
V5      == <<"5", ".", "1", "4", ".", "2", "1", "-", "1", "5", "0", "5", "0", "0">>
V620    == <<"6", ".", "2", ".", "0">>
V630    == <<"6", ".", "3", ".", "0">>
V619    == <<"6", ".", "1", ".", "9">>
V6110   == <<"6", ".", "1", ".", "1", "0">>
V6118   == <<"6", ".", "1", ".", "8">>

(* An entry file of the distribution "tw" or "sle" for kernel version v, *)
(* whose linux line names an image of the same version.                 *)
Entry(os, v, readable) ==
  [name |-> <<os, v>>, readable |-> readable,
   lines |-> << [key |-> "version", val |-> v, nl |-> TRUE],
                [key |-> "linux",   val |-> v, nl |-> TRUE] >>]

(* Every readdir order of the files. *)
Orders(files) == SetToSeqs(files)

(* spec.md section 4.I's versions but the pre-release, whose order is   *)
(* the question of the vercmp_examples run; an entry of another           *)
(* distribution, newest of all, and an unreadable entry newer still.     *)
SpecFiles == {Entry("tw", V610, TRUE), Entry("tw", V611, TRUE), Entry("tw", V5, TRUE),
              Entry("sle", V620, TRUE), Entry("tw", V630, FALSE)}

NatoiFiles == {Entry("tw", V619, TRUE), Entry("tw", V6110, TRUE),
               Entry("tw", V5, TRUE), Entry("tw", V6118, TRUE)}

MC_SpecDirs  == Orders(SpecFiles)
MC_NatoiDirs == Orders(NatoiFiles)

Host(et, id, img, mid, dirs) ==
  [entry_token |-> et, id |-> id, image_id |-> img, machine_id |-> mid,
   efi_dirs |-> dirs]

(* An entry-token file naming tw; none, with the ID directory present; an *)
(* empty entry-token file; no machine-id.                                 *)
MC_Systems ==
  { Host(<<"tw">>, <<"tw">>, NULL, <<"m1">>, {<<"tw">>}),
    Host(NULL, <<"tw">>, NULL, <<"m1">>, {<<"tw">>}),
    Host(<<>>, <<"tw">>, NULL, <<"m1">>, {<<"tw">>}),
    Host(<<"tw">>, <<"tw">>, NULL, NULL, {<<"tw">>}) }

(* SDB_LINE_MAX is abstracted to the longest digit run of the versions.   *)
MC_InitialBufs == { [k \in 1..6 |-> NUL], [k \in 1..6 |-> "9"] }

MC_MaxEntries == 8

(* Hosts for the token order: an entry-token whose directory is missing, *)
(* ID and IMAGE_ID both set with only the ID directory, only the IMAGE_ID *)
(* directory, and ID absent.                                              *)
MC_TokenSystems ==
  { Host(<<"old">>, <<"tw">>, NULL, <<"m1">>, {<<"tw">>}),
    Host(NULL, <<"tw">>, <<"img">>, <<"m1">>, {<<"tw">>}),
    Host(NULL, <<"tw">>, <<"img">>, <<"m1">>, {<<"img">>}),
    Host(NULL, NULL, <<"img">>, <<"m1">>, {<<"img">>, <<"m1">>}) }

MC_TokenDirs == { <<Entry("tw", V611, TRUE), Entry("img", V610, TRUE)>> }

=============================================================================
