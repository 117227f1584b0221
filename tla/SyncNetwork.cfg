SPECIFICATION Spec
CONSTANTS
  phone = phone
  laptop = laptop
  Clients <- TwoClients
  Kinds = {"expense"}
  Faults = {"request_late", "request_lost", "reply_lost", "server_crash"}
  WriteThrough = TRUE
  MaxExpenses = 2
  MaxCrashes = 0
  MaxFaults = 2
SYMMETRY ClientSymmetry
INVARIANTS TypeOK CopiesAgree ServerLogFaithful
PROPERTIES ServerKeepsTransactions ServerLogGrows
