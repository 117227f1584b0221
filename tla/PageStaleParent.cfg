SPECIFICATION Spec
CONSTANTS
  MaxExpenses = 2
  MaxOthers = 1
  MaxMishaps = 0
PROPERTIES
  HistoryKept
CHECK_DEADLOCK FALSE
