CONSTANTS
  Listings <- MCPrograms
  Files <- MCFiles
  Memory <- MCMemory
SPECIFICATION UnitSpec
INVARIANTS
  SequencesMove
PROPERTIES
  ImplementsGuest
CHECK_DEADLOCK FALSE
