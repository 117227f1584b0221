SPECIFICATION FairSpec
CONSTANTS
  Locks = TRUE
  MaxCalls = 3
  MaxPauses = 2
  MaxFailures = 1
INVARIANTS
  CallsFindRepository
  NeverOpenTwice
  PauseCloses
PROPERTIES
  CallsEnd
CHECK_DEADLOCK FALSE
