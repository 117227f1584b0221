SPECIFICATION Spec
CONSTANTS
  phone = phone
  laptop = laptop
  Clients <- TwoClients
  Kinds = {"expense"}
  Faults = {}
  WriteThrough = TRUE
  MaxExpenses = 2
  MaxCrashes = 1
  MaxFaults = 0
SYMMETRY ClientSymmetry
INVARIANTS OwnHistoryComplete NoLitter
PROPERTIES KeepsSynchronized ImplementsSharedLog
