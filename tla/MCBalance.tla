------------------------------- MODULE MCBalance ------------------------------
(* Two expenses that cannot be taken for each other in a balance.            *)
EXTENDS Balance

CONSTANTS m1, m2

TwoMembers == {m1, m2}

TwoExpenses == {[amount |-> 1, payedBy |-> m1, payedFor |-> m2],
                [amount |-> 5, payedBy |-> m2, payedFor |-> m1]}
===============================================================================
