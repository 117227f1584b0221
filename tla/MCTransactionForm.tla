--------------------------- MODULE MCTransactionForm --------------------------
(* TransactionForm for TLC.  Nothing in it tells one member from another, so *)
(* that the run may permute them.                                            *)
EXTENDS TransactionForm, TLC

MemberSymmetry == Permutations(Members)
===============================================================================
