CONSTANTS
  Logs <- MC_Logs
  BuiltinAlgs <- MC_BuiltinAlgs
  SHA1 <- MC_SHA1
  MaxAlgos <- MC_MaxAlgos
  AlgLast <- MC_AlgLast
  MaxEventDigests <- MC_MaxEventDigests
  NoHeader = NoHeader
SPECIFICATION Spec
INVARIANT TypeOK
INVARIANT RoundTrip
INVARIANT OutcomeMatchesLog
INVARIANT StartupLocalityKept
\* The program ends: after fatal(), a failed open or event_log_close.
CHECK_DEADLOCK FALSE
