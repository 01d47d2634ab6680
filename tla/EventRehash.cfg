\* The prediction loop over grub2 and systemd-boot logs, with and without
\* a next boot entry.
CONSTANTS
  Scenarios <- MC_Scenarios
  ShimVars <- MC_ShimVars
  PcrMask <- MC_PcrMask
  NULL = NULL
SPECIFICATION Spec
INVARIANT TypeOK
INVARIANT PredictionIsNextBoot
PROPERTY PredictionCompletes
\* The loop ends with the prediction done or failed, and the program stops.
CHECK_DEADLOCK FALSE
