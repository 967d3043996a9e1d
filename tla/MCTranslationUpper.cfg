CONSTANTS
  Length = 4
  Modulus = 3
  Addends = {0, 1}
  Conditions <- MCConditions
  Functions <- MCFunctions
  Elided <- MCElided
  Programs <- MCPrograms
SPECIFICATION Spec
INVARIANTS
  DefaultIsUnreachable
CHECK_DEADLOCK FALSE
