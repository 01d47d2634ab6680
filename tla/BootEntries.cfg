\* sdb_get_next_kernel on the entries of spec.md section 4.I's example.
CONSTANTS
  Letters <- MC_Letters
  Systems <- MC_Systems
  Dirs <- MC_SpecDirs
  MaxEntries <- MC_MaxEntries
  InitialBufs <- MC_InitialBufs
  NULL = NULL
SPECIFICATION Spec
INVARIANT TypeOK
INVARIANT NextKernelIsNewest
\* The program calls sdb_get_next_kernel once and stops.
CHECK_DEADLOCK FALSE
