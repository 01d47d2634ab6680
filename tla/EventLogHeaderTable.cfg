CONSTANTS
  Logs <- MC_CfbLogs
  BuiltinAlgs <- MC_BuiltinAlgs
  SHA1 <- MC_SHA1
  MaxAlgos <- MC_MaxAlgos
  AlgLast <- MC_AlgLast
  MaxEventDigests <- MC_MaxEventDigests
  NoHeader = NoHeader
SPECIFICATION Spec
INVARIANT NoWriteOutsideTable
CHECK_DEADLOCK FALSE
