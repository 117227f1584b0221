--------------------------------- MODULE Totals --------------------------------
(* What the balances of some persons, or their shares, amount to together.   *)
EXTENDS Integers, SequencesExt

Total(b, group) == MapThenSumSet(LAMBDA p : b[p], group)
===============================================================================
