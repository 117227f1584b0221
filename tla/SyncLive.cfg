SPECIFICATION FairSpec
CONSTANTS
  phone = phone
  laptop = laptop
  Clients <- TwoClients
  Kinds = {"expense"}
  Faults = {"request_lost", "server_crash"}
  WriteThrough = TRUE
  MaxExpenses = 2
  MaxCrashes = 0
  MaxFaults = 1
PROPERTIES EventuallyInSync ImplementsFairSharedLog
