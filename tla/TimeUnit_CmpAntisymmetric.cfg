CONSTANTS
  Bits = 2
SPECIFICATION Spec
INVARIANT CmpAntisymmetric
