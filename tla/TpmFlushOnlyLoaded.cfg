CONSTANTS
  NULL = NULL
  Zero = "zero"
  Pcrs <- MC_Pcrs
  Measured <- MC_Measured
  Invalid <- MC_Invalid
  Banks <- MC_Banks
  Masks <- MC_Masks
  k1 = k1
  k2 = k2
  Keys <- MC_Keys
  Platforms <- MC_Platforms
  MaxCommands <- MC_MaxCommands
SPECIFICATION Spec
SYMMETRY KeySymmetry
INVARIANT FlushOnlyLoaded
