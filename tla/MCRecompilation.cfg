CONSTANTS
  Exes = {1, 2}
  Patches = {1}
  Applies <- MCApplies
  Nothing = Nothing
  Functions <- MCFunctions
  PerFile = 2
  Faults = 2
  Edits = 1
SPECIFICATION FairSpec
INVARIANTS
  OutputsAreCurrent
  PatchIsApplied
PROPERTIES
  IdenticalUntouched
  OutputsBecomeCurrent
