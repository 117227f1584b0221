------------------------------ MODULE Transfers ------------------------------
(* get_transfers of lib/src/repository.rs: the search for a short list of    *)
(* transfers that settles a balance.  get_transfers_helper calls itself once *)
(* per transfer; its call stack is `frames`.                                 *)
(*                                                                           *)
(* The order in which a HashMap is walked is undefined, and a clone of it    *)
(* need not be walked in the order of the original: every choice of the next *)
(* creditor and of the next debitor is open.                                 *)
EXTENDS Totals

CONSTANTS
  Persons,
  Balances  \* what get_transfers may be called with

ASSUME BalancesAssumption ==
  /\ IsFiniteSet(Persons)
  /\ Balances \subseteq [Persons -> Int]

VARIABLES
  owed,       \* what each person is owed, as given by the caller
  balance,    \* the balance the innermost call was given
  frames,     \* the calls that loop over debitors, outermost first
  transfers,  \* the list that all calls share
  solved,     \* a solution has been found
  solution,   \* the best solution found, << >> before the first
  control     \* what runs next: a new call, the loop of the innermost one, or
              \* nothing

vars == <<owed, balance, frames, transfers, solved, solution, control>>

Creditors(b) == {p \in Persons : b[p] > 0}

\* Mutant: who is settled is a debitor too.
Debitors_OrSettled(b) == {p \in Persons : b[p] <= 0}

Debitors(b) == {p \in Persons : b[p] < 0}

Init ==
  /\ owed \in Balances
  /\ balance = owed
  /\ frames = << >>
  /\ transfers = << >>
  /\ solved = FALSE
  /\ solution = << >>
  /\ control = "call"

-------------------------------------------------------------------------------

\* Mutant: the transfer is not popped.
Return_WithoutPop(callers) ==
  /\ frames' = callers
  /\ control' = IF callers = << >> THEN "done" ELSE "loop"
  /\ balance' = IF callers = << >> THEN owed ELSE Last(callers).balance
  /\ UNCHANGED transfers

\* The innermost call returns; its caller pops the transfer it had pushed.
Return(callers) ==
  /\ frames' = callers
  /\ IF callers = << >>
       THEN control' = "done" /\ balance' = owed /\ UNCHANGED transfers
       ELSE /\ control' = "loop"
            /\ balance' = Last(callers).balance
            /\ transfers' = Front(transfers)

\* Mutant: the longer list wins.
IsSolutionBetter_Longer(candidate, existing) == Len(candidate) > Len(existing)

IsSolutionBetter(candidate, existing) == Len(candidate) < Len(existing)

\* No creditor is left.
FindSolution ==
  /\ control = "call"
  /\ Creditors(balance) = {}
  /\ IF ~solved \/ IsSolutionBetter(transfers, solution)
       THEN solved' = TRUE /\ solution' = transfers
       ELSE UNCHANGED <<solved, solution>>
  /\ Return(frames)
  /\ UNCHANGED owed

\* One more transfer cannot beat the best solution.
TooLong == solved /\ Len(transfers) >= Len(solution)

Prune ==
  /\ control = "call"
  /\ Creditors(balance) # {}
  /\ TooLong
  /\ Return(frames)
  /\ UNCHANGED <<owed, solved, solution>>

\* The call picks a creditor and goes through all debitors.
PickCreditor ==
  /\ control = "call"
  /\ ~TooLong
  /\ \E c \in Creditors(balance) :
       frames' = Append(frames, [balance |-> balance, creditor |-> c,
                                 left |-> Debitors(balance)])
  /\ control' = "loop"
  /\ UNCHANGED <<owed, balance, transfers, solved, solution>>

\* Mutant: the whole debt, even if it is more than the credit.
TransferAmount_WholeDebt(credit, debt) == debt

\* i64::min
TransferAmount(credit, debt) == IF credit <= debt THEN credit ELSE debt

\* Mutant: the debitor is not given credit for what he payed.
Apply_DebitorForgotten(b, t) == [b EXCEPT ![t.creditor] = @ - t.amount]

\* The balance after transfer t.
Apply(b, t) == [b EXCEPT ![t.creditor] = @ - t.amount,
                         ![t.debitor]  = @ + t.amount]

\* Mutant: the loop starts over after each call.
TransferTo_StartOver(d) ==
  LET f == Last(frames)
      t == [debitor |-> d, creditor |-> f.creditor,
            amount |-> TransferAmount(f.balance[f.creditor], -f.balance[d])]
  IN  /\ transfers' = Append(transfers, t)
      /\ balance' = Apply(f.balance, t)
      /\ UNCHANGED frames

TransferTo(d) ==
  LET f == Last(frames)
      t == [debitor |-> d, creditor |-> f.creditor,
            amount |-> TransferAmount(f.balance[f.creditor], -f.balance[d])]
  IN  /\ transfers' = Append(transfers, t)
      /\ balance' = Apply(f.balance, t)
      /\ frames' = Append(Front(frames), [f EXCEPT !.left = @ \ {d}])

TryDebitor ==
  /\ control = "loop"
  /\ \E d \in Last(frames).left : TransferTo(d)
  /\ control' = "call"
  /\ UNCHANGED <<owed, solved, solution>>

EndLoop ==
  /\ control = "loop"
  /\ Last(frames).left = {}
  /\ Return(Front(frames))
  /\ UNCHANGED <<owed, solved, solution>>

Next == FindSolution \/ Prune \/ PickCreditor \/ TryDebitor \/ EndLoop

\* A call runs until it returns.
Spec == Init /\ [][Next]_vars /\ WF_vars(Next)

-------------------------------------------------------------------------------
(* Properties.                                                               *)

\* x is on the way from start to zero.
Between(x, start) ==
  IF start >= 0 THEN 0 <= x /\ x <= start ELSE start <= x /\ x <= 0

Transfer == [debitor : Persons, creditor : Persons, amount : Nat \ {0}]

Frame == [balance : [Persons -> Int], creditor : Persons, left : SUBSET Persons]

TypeOK ==
  /\ owed \in Balances
  /\ balance \in [Persons -> Int]
  /\ frames \in Seq(Frame)
  /\ transfers \in Seq(Transfer)
  /\ solved \in BOOLEAN
  /\ solution \in Seq(Transfer)
  /\ control \in {"call", "loop", "done"}

\* Nobody is made to pay more than they owe or is payed more than they are owed,
\* on any branch of the search: balances only move towards zero.
\* (get_transfers_helper, the choice of transfer_amount.)
NobodyOvershoots ==
  \A p \in Persons :
    /\ Between(balance[p], owed[p])
    /\ \A i \in DOMAIN frames : Between(frames[i].balance[p], owed[p])

Unsettled(b) == {p \in Persons : b[p] # 0}

\* Every transfer settles somebody for good: the recursion is never deeper than
\* the number of persons who owe or are owed, and no solution is longer.
\* (get_transfers_helper.)
EachTransferSettlesSomeone ==
  LET most == Cardinality(Unsettled(owed))
  IN  /\ \A i \in DOMAIN frames :
           i - 1 + Cardinality(Unsettled(frames[i].balance)) <= most
      /\ control = "call" => Len(transfers) + Cardinality(Unsettled(balance)) <= most
      /\ Len(solution) <= most

Balanced(b) == Total(b, Persons) = 0

\* What p ends up with when everybody does their transfers.
Received(p, ts) ==
  Total([i \in DOMAIN ts |-> (IF ts[i].creditor = p THEN ts[i].amount ELSE 0)
                              - (IF ts[i].debitor = p THEN ts[i].amount ELSE 0)],
        DOMAIN ts)

\* Whenever a solution has been found it pays everybody what they are owed, and
\* settles the debts as well if they are not more than that.  (get_transfers.)
SolutionSettles ==
  solved => \A p \in Persons :
    owed[p] >= 0 \/ Balanced(owed) => Received(p, solution) = owed[p]

\* Persons who settle among themselves, and such groups of different persons.
SettlingGroups(b) == {g \in SUBSET Unsettled(b) : g # {} /\ Total(b, g) = 0}

Groupings(b) ==
  {P \in SUBSET SettlingGroups(b) : \A g, h \in P : g = h \/ g \cap h = {}}

\* k persons who settle among themselves need k - 1 transfers, so the fewest are
\* needed when the persons form as many such groups as they can.
FewestTransfers(b) ==
  Cardinality(Unsettled(b)) - Max({Cardinality(P) : P \in Groupings(b)})

\* In whatever order the hash maps are walked, the search ends with as few
\* transfers as possible.  (is_solution_better and the test
\* test_get_transfers_less_trivial, "HashMap's iteration order is undefined".)
FindsFewestTransfers ==
  control = "done" /\ Balanced(owed) =>
    solved /\ Len(solution) = FewestTransfers(owed)

\* The search ends.  (get_transfers_helper.)
Terminates == <>(control = "done")

\* get_transfers unwraps the solution: there is one unless more is owed to the
\* persons than they owe together, which happens when the shares of a transaction
\* do not add up to its amount; then there is none, in whatever order the hash
\* maps are walked.
SolvedUnlessOverpaid ==
  control = "done" => (solved <=> Total(owed, Persons) <= 0)
===============================================================================
