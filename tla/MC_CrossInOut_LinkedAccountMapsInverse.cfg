CONSTANTS
  u1 = u1
  u2 = u2
  l1 = l1
  l2 = l2
  fil = fil
  ksm = ksm
  Accounts <- MC_Accounts
  Locations <- MC_Locations
  Currencies <- MC_Currencies
  FIL = fil
  Amounts = {1}
  MaxBalance = 1
SYMMETRY Symmetry
SPECIFICATION Spec
INVARIANT LinkedAccountMapsInverse
