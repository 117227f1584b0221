------------------------------ MODULE MCTransfers -----------------------------
(* Balances for TLC.  The search does not distinguish persons, so one order  *)
(* of every balance is enough.                                               *)
EXTENDS Transfers

CONSTANT NbPersons

MCPersons == 1..NbPersons

Sorted(amounts) ==
  {b \in [MCPersons -> amounts] : \A p, q \in MCPersons : p < q => b[p] <= b[q]}

\* Of five persons: groups that settle among themselves, credits met by several
\* debts and the other way round, persons who are settled already; and what is
\* left when shares do not add up to the amount.
MCBalances ==
  {b \in Sorted(-4..4) : Balanced(b)}
    \cup {b \in Sorted(-2..2) : Total(b, MCPersons) \in {-1, 1}}
===============================================================================
