CONSTANTS
  Letters <- MC_Letters
  Versions <- MC_Versions
  InitialBufs <- MC_InitialBufs
  MaxCalls = 1
SPECIFICATION Spec
INVARIANT SpecExamplesHold
\* The caller makes MaxCalls comparisons and stops.
CHECK_DEADLOCK FALSE
