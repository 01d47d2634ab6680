------------------------- MODULE MC_VersionCompare -------------------------
(* The spec's version examples, compared once each from a zeroed natoi    *)
(* array.                                                                 *)
EXTENDS VersionCompare

MC_Letters == <<"c", "r">>
MC_Versions ==
  { <<"1", ".", "0">>, <<"1", ".", "0", "~", "r", "c", "1">>,
    <<"1", ".", "0", ".", "1">>, <<"1", ".", "0", "-", "1">> }
MC_InitialBufs == {<<NUL, NUL>>}
=============================================================================
