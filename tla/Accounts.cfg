SPECIFICATION Spec
CONSTANTS
  Laptops = {laptop}
  Phones = {phone}
  AccountIds = {1, 2}
  Labels = {"trip"}
  MaxTransactions = 1
  MaxPages = 2
INVARIANTS
  SharedMeansOnServer
  CanBeShared
  OnlyLostAnswersBlock
PROPERTIES
  ServerKeepsAccounts
  ExpensesKept
CHECK_DEADLOCK FALSE
