\* get_token_id against the token order of spec.md section 4.I.
CONSTANTS
  Letters <- MC_Letters
  Systems <- MC_TokenSystems
  Dirs <- MC_TokenDirs
  MaxEntries <- MC_MaxEntries
  InitialBufs <- MC_InitialBufs
  NULL = NULL
SPECIFICATION Spec
INVARIANT TokenFollowsSpec
\* The program calls sdb_get_next_kernel once and stops.
CHECK_DEADLOCK FALSE
