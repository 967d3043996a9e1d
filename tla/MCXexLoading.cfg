CONSTANTS
  WordSize = 32
  ImageBase = 16
  Exports <- MCExports
  Inputs <- MCInputs
SPECIFICATION LoadSpec
INVARIANTS
  PatchedImage
  DecompressesInPlace
  StaysInside
  DamageIsFound
  LoadsImage
CHECK_DEADLOCK FALSE
