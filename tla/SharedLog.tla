------------------------------- MODULE SharedLog -------------------------------
(* What synchronization promises: one log of expenses that grows at its end, *)
(* and devices that each know a beginning of it.  A device appends its own   *)
(* expenses, in the order it recorded them and none twice, and only when it  *)
(* knows the whole log ("Accept new transactions only if on top of latest",  *)
(* DESIGN).                                                                  *)
EXTENDS Naturals, Sequences, FiniteSets

CONSTANTS
  Clients,      \* the devices
  MaxExpenses   \* bound: expenses recorded by each device

VARIABLES
  log,    \* the expenses on the server, oldest first
  known   \* known[c]: how many of them device c knows to be on the server

Init ==
  /\ log = << >>
  /\ known = [c \in Clients |-> 0]

Published(c) == Cardinality({i \in DOMAIN log : log[i].by = c})

\* Device c appends the next n of its expenses.
Publish(c, n) ==
  /\ known[c] = Len(log)
  /\ log' = log \o [i \in 1..n |-> [by |-> c, nth |-> Published(c) + i]]
  /\ UNCHANGED known

\* Device c learns that the log is at least n long.
Learn(c, n) ==
  /\ known[c] < n
  /\ known' = [known EXCEPT ![c] = n]
  /\ UNCHANGED log

Next ==
  \E c \in Clients :
    \/ \E n \in 1..(MaxExpenses - Published(c)) : Publish(c, n)
    \/ \E n \in 1..Len(log) : Learn(c, n)

Spec == Init /\ [][Next]_<<log, known>>

\* A device that keeps synchronizing does not stay behind the log.
Fairness == \A c \in Clients : WF_<<log, known>>(\E n \in 1..Len(log) : Learn(c, n))

FairSpec == Spec /\ Fairness
===============================================================================
