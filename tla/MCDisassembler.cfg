SPECIFICATION Spec
CONSTANTS
  OptionSets <- MCOptionSets
  Codes <- MCCodes
  Memaddr <- MCMemaddr
  Leftovers <- MCLeftovers
  Bases <- MCBases
  Samples <- MCSamples
  Masks <- MCMasks
  MaxCalls = 1
INVARIANTS
  BranchesAreKept
  TargetsAreCollected
  ConditionsAreKnown
  OperandsComeBack
CHECK_DEADLOCK FALSE
