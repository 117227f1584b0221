SPECIFICATION Spec
CONSTANTS
  NbPersons = 5
  Persons <- MCPersons
  Balances <- MCBalances
INVARIANTS TypeOK NobodyOvershoots EachTransferSettlesSomeone SolutionSettles FindsFewestTransfers SolvedUnlessOverpaid
PROPERTY Terminates
CHECK_DEADLOCK FALSE
