CONSTANTS
  W = 4
  Threads = {1, 2}
  Starts <- MCStarts
SPECIFICATION MCSpec
INVARIANTS
  SequencesCompute
  NoLostUpdate
  MutualExclusion
PROPERTIES
  ImplementsGuest
  Termination
CHECK_DEADLOCK FALSE
