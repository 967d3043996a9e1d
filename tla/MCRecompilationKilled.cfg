CONSTANTS
  Exes = {1, 2}
  Patches = {1}
  Applies <- MCApplies
  Nothing = Nothing
  Functions <- MCFunctions
  PerFile = 2
  Faults = 1
  Edits = 0
SPECIFICATION Spec
INVARIANTS
  ImageIsWhole
