CONSTANTS
  KSM = KSM
  la = la
  lb = lb
  lc = lc
  va = va
  vb = vb
  None = None
  Currencies <- MC_Currencies
  Locations <- MC_Locations
  ValidatorLocations <- MC_ValidatorLocations
  IndexBits = 2
  MinsMaxs <- MC_MinsMaxs
  MaxLengthLimit = 2
  Derivative <- MC_Derivative
SPECIFICATION Spec
INVARIANT ValidatorsWithinMaximum
