CONSTANTS
  CodeWords = 3
  MemoryStart <- MCMemoryStart
  Base = 20
  Modulus = 64
  MaxBlocks = 12
  Targets <- MCTargets
  Kinds <- Ops
  Programs <- MCPrograms
SPECIFICATION FairSpec
INVARIANTS
  TypeOK
  SanityCheck
  OnlyReachableDecoded
  ExtentIsReachable
  SizeIsUsable
  ExtentIsComplete
PROPERTIES
  Termination
