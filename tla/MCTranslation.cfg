CONSTANTS
  Length = 4
  Modulus = 3
  Addends <- MCSubtract
  Conditions <- MCConditions
  Functions <- MCFunctions
  Elided <- MCElided
  Programs <- MCPrograms
SPECIFICATION Spec
INVARIANTS
  GotosResolve
PROPERTIES
  DoesWhatTheGuestDoes
CHECK_DEADLOCK FALSE
