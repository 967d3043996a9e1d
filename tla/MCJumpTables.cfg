CONSTANTS
  ScanLimit = 8
  Half = 32
  Images <- MCImages
SPECIFICATION Spec
INVARIANTS
  JumpsGetTheirTables
  FindsEveryJump
CHECK_DEADLOCK FALSE
