SPECIFICATION Spec
CONSTANTS
  phone = phone
  laptop = laptop
  Clients <- TwoClients
  Kinds = {"expense", "edit", "deletion"}
  Faults = {}
  WriteThrough = FALSE
  MaxExpenses = 1
  MaxCrashes = 2
  MaxFaults = 0
SYMMETRY ClientSymmetry
INVARIANTS ChainsReadable CommonHistory
