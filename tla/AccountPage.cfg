SPECIFICATION FairSpec
CONSTANTS
  MaxExpenses = 2
  MaxOthers = 1
  MaxMishaps = 1
INVARIANTS
  ParentIsLatest
  HistoryComplete
  SettledPageIsRight
PROPERTIES
  HistoryKeptUnlessStale
  PageSettles
CHECK_DEADLOCK FALSE
