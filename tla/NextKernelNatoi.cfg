\* sdb_get_next_kernel when the versions' digit runs differ in length
\* (6.1.9, 6.1.10, 6.1.8, 5.14.21-150500).
CONSTANTS
  Letters <- MC_Letters
  Systems <- MC_Systems
  Dirs <- MC_NatoiDirs
  MaxEntries <- MC_MaxEntries
  InitialBufs <- MC_InitialBufs
  NULL = NULL
SPECIFICATION Spec
INVARIANT NextKernelIsNewest
\* The program calls sdb_get_next_kernel once and stops.
CHECK_DEADLOCK FALSE
