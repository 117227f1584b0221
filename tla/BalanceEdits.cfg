SPECIFICATION BalanceSpec
CONSTANTS
  Devices = {d1, d2}
  m1 = m1
  m2 = m2
  Members <- TwoMembers
  Expenses <- TwoExpenses
  MaxTransactions = 4
  MaxId = 5
INVARIANT BalanceOfShownUnlessOrphaned
CHECK_DEADLOCK FALSE
