CONSTANTS
  Length = 3
  HookMoves = FALSE
  LongJmpKeeps = FALSE
  Programs <- MCPrograms
SPECIFICATION Spec
INVARIANTS
  TypeOK
  FlushModeCorrect
  CachedModeIsHostMode
  TrackedStateIsTrue
