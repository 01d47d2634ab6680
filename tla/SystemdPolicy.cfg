CONSTANTS
  NULL = NULL
  Absent = Absent
  Denied = Denied
  Garbage = Garbage
  NonObject = NonObject
  NonArray = NonArray
  NoFile = NoFile
  NotPem = NotPem
  KeyFiles <- MC_KeyFiles
  p1 = p1
  p2 = p2
  p3 = p3
  k1 = k1
  k2 = k2
  Algos <- MC_Algos
  Pols <- MC_Pols
  Keys <- MC_Keys
  Banks <- MC_Banks
  InitFiles <- MC_InitFiles
  MaxCommands <- MC_MaxCommands
SPECIFICATION Spec
SYMMETRY KeySymmetry
INVARIANT TypeOK
INVARIANT UpsertCurrent
PROPERTY AddKeepsOthers
\* pcr-oracle runs one command per process; a behaviour ends after the
\* last command the bound allows.
CHECK_DEADLOCK FALSE
