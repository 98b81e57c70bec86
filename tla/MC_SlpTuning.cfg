CONSTANTS
  KSM = KSM
  la = la
  lb = lb
  lc = lc
  va = va
  None = None
  Currencies <- MC_Currencies
  Locations <- MC_Locations
  ValidatorLocations <- MC_ValidatorLocations
  IndexBits = 2
  MinsMaxs <- MC_MinsMaxs
  MaxLengthLimit = 1
  Derivative <- MC_Derivative
  TuneLimit <- MC_TuneLimit
  MaxTimeUnit = 1
  TokenAmounts = {0, 1}
  PoolCap = 3
SPECIFICATION Spec
INVARIANT TuningTypeOK
INVARIANT AtMostLimitTuningsPerTimeUnit
INVARIANT OneTuningPerDelegatorPerTimeUnit
INVARIANT NoOrphanLedger
