SPECIFICATION FairSpec
CONSTANTS
  phone = phone
  laptop = laptop
  Clients <- TwoClients
  Kinds = {"expense"}
  Faults = {"reply_lost"}
  WriteThrough = TRUE
  MaxExpenses = 1
  MaxCrashes = 0
  MaxFaults = 1
PROPERTIES EventuallyInSync
