----------------------------- MODULE BalanceProofs -----------------------------
(* get_transfers, for any finite set of persons and any balance: the search   *)
(* never makes anybody pay too much, is never deeper than the number of       *)
(* persons who are not settled, keeps only solutions that pay everybody,      *)
(* keeps one whenever the persons owe at least what they are owed, and keeps   *)
(* one that no list of transfers beats when they owe just that.               *)
(*                                                                            *)
(* Inv adds to the properties what ties the call stack together: a caller's   *)
(* creditor is still owed something, its debitors still owe something, and    *)
(* there is one transfer in the list for each caller.  SInv adds what the     *)
(* transfers add up to: the balance of a call is what is owed less what the   *)
(* transfers on its way pay, and a loop that has run without a solution had   *)
(* nobody left to pay.  FInv adds what has been tried: the solution kept is   *)
(* no longer than what the first debitors of every loop could lead to.        *)
(*                                                                            *)
(* get_balance, for any history: the balance is known and that of the         *)
(* transactions the list shows, unless two devices edited or deleted the same *)
(* one or a rebase renamed what an edit or a deletion is about.  LogInv ties  *)
(* every other edit and deletion to an earlier transaction that is no         *)
(* deletion, on the server and on every device.                               *)
EXTENDS Balance, Transfers, TotalsProofs, FunctionTheorems

\* Each caller on the stack has work left for its creditor and its debitors.
CallersOwed ==
  \A i \in DOMAIN frames :
    /\ frames[i].balance[frames[i].creditor] > 0
    /\ frames[i].left \subseteq Debitors(frames[i].balance)

\* The list of transfers has one entry per caller of the innermost call.
OneTransferPerCaller ==
  /\ control = "call" => Len(frames) = Len(transfers)
  /\ control = "loop" => Len(frames) = Len(transfers) + 1

Inv ==
  /\ TypeOK
  /\ NobodyOvershoots
  /\ CallersOwed
  /\ OneTransferPerCaller
  /\ EachTransferSettlesSomeone

-------------------------------------------------------------------------------

\* Unsettled persons can be counted.  (The length of a balance.)
LEMMA UnsettledFinite ==
  ASSUME NEW b
  PROVE  /\ IsFiniteSet(Unsettled(b))
         /\ Cardinality(Unsettled(b)) \in Nat
  BY BalancesAssumption, FS_Subset, FS_CardinalityType DEF Unsettled

\* One transfer between somebody who is owed and somebody who owes is a positive
\* amount, moves both balances towards zero, nobody else's, and settles at least
\* one of the two.  (The loop of get_transfers_helper.)
LEMMA OneTransfer ==
  ASSUME NEW b \in [Persons -> Int], NEW c \in Persons, NEW d \in Persons,
         b[c] > 0, b[d] < 0,
         NEW t, t = [debitor |-> d, creditor |-> c,
                     amount |-> TransferAmount(b[c], -b[d])]
  PROVE  /\ t \in Transfer
         /\ Apply(b, t) \in [Persons -> Int]
         /\ \A p \in Persons : Between(Apply(b, t)[p], b[p])
         /\ Cardinality(Unsettled(Apply(b, t))) + 1 <= Cardinality(Unsettled(b))
<1> DEFINE after == Apply(b, t)
<1>1. t.amount \in Nat \ {0} /\ t.amount <= b[c] /\ t.amount <= -b[d]
  BY DEF TransferAmount
<1>2. t.amount = b[c] \/ t.amount = -b[d]
  BY DEF TransferAmount
<1>3. t \in Transfer
  BY <1>1 DEF Transfer
<1>4. c # d
  OBVIOUS
<1>5. /\ after \in [Persons -> Int]
      /\ after[c] = b[c] - t.amount
      /\ after[d] = b[d] + t.amount
      /\ \A p \in Persons \ {c, d} : after[p] = b[p]
  BY <1>1, <1>4 DEF Apply
<1> HIDE DEF after
<1>6. \A p \in Persons : Between(after[p], b[p])
  BY <1>1, <1>5 DEF Between
<1>7. PICK s \in {c, d} : after[s] = 0
  BY <1>1, <1>2, <1>5
<1>8. Unsettled(after) \subseteq Unsettled(b) \ {s}
  BY <1>5, <1>7 DEF Unsettled
<1>9. s \in Unsettled(b)
  BY DEF Unsettled
<1>10. Cardinality(Unsettled(b) \ {s}) = Cardinality(Unsettled(b)) - 1
  BY <1>9, UnsettledFinite, FS_RemoveElement
<1>11. Cardinality(Unsettled(after)) <= Cardinality(Unsettled(b) \ {s})
  BY <1>8, UnsettledFinite, FS_Subset, FS_RemoveElement
<1>12. Cardinality(Unsettled(after)) + 1 <= Cardinality(Unsettled(b))
  BY <1>10, <1>11, UnsettledFinite
<1>13. QED
  BY <1>3, <1>5, <1>6, <1>12 DEF after

\* Two moves towards zero are one.  (Composition of transfers.)
LEMMA BetweenTransitive ==
  ASSUME NEW x \in Int, NEW y \in Int, NEW z \in Int, Between(x, y), Between(y, z)
  PROVE  Between(x, z)
  BY DEF Between

-------------------------------------------------------------------------------

\* The search starts in Inv.  (get_transfers.)
LEMMA InitInv == Init => Inv
<1> SUFFICES ASSUME Init PROVE Inv
  OBVIOUS
<1>1. owed \in [Persons -> Int] /\ balance = owed /\ frames = << >>
      /\ transfers = << >> /\ solution = << >> /\ Len(<< >>) = 0
  BY BalancesAssumption DEF Init
<1>2. TypeOK
  <2>1. owed \in Balances /\ solved = FALSE /\ control = "call"
    BY DEF Init
  <2>2. << >> \in Seq(Frame) /\ << >> \in Seq(Transfer)
    OBVIOUS
  <2>3. QED
    BY <1>1, <2>1, <2>2 DEF TypeOK
<1>3. NobodyOvershoots
  BY <1>1 DEF NobodyOvershoots, Between
<1>4. CallersOwed /\ OneTransferPerCaller
  BY <1>1 DEF Init, CallersOwed, OneTransferPerCaller
<1>5. EachTransferSettlesSomeone
  BY <1>1, UnsettledFinite DEF Init, EachTransferSettlesSomeone
<1>6. QED
  BY <1>2, <1>3, <1>4, <1>5 DEF Inv

\* A return keeps everything: what is left of the stack is unchanged, and the
\* caller's own balance becomes the innermost one.  (The two ways to return.)
LEMMA ReturnInv ==
  ASSUME Inv, NEW callers, Return(callers), UNCHANGED owed,
         callers \in Seq(Frame), Len(callers) <= Len(frames),
         Len(callers) = Len(transfers),
         \A i \in 1..Len(callers) : callers[i] = frames[i],
         solved' \in BOOLEAN, solution' \in Seq(Transfer),
         solution' \in {solution, transfers},
         solution' = transfers => Len(transfers) <= Cardinality(Unsettled(owed))
  PROVE  Inv'
<1> USE UnsettledFinite
<1>1. frames' = callers /\ callers \in Seq(Frame) /\ Len(callers) \in Nat
      /\ DOMAIN callers = 1..Len(callers)
      /\ 1..Len(callers) \subseteq DOMAIN frames
  BY DEF Return, Inv, TypeOK
<1>2. owed \in [Persons -> Int]
  BY BalancesAssumption DEF Inv, TypeOK
<1>3. CASE callers = << >>
  <2>1. control' = "done" /\ balance' = owed /\ transfers' = transfers
    BY <1>3 DEF Return
  <2>2. TypeOK'
    BY <1>1, <1>2, <2>1 DEF Inv, TypeOK
  <2>3. NobodyOvershoots'
    BY <1>1, <1>2, <1>3, <2>1 DEF NobodyOvershoots, Between
  <2>4. CallersOwed' /\ OneTransferPerCaller'
    BY <1>1, <1>3, <2>1 DEF CallersOwed, OneTransferPerCaller
  <2>5. EachTransferSettlesSomeone'
    BY <1>1, <1>3, <2>1 DEF Inv, EachTransferSettlesSomeone
  <2>6. QED
    BY <2>2, <2>3, <2>4, <2>5 DEF Inv
<1>4. CASE callers # << >>
  <2>1. /\ control' = "loop"
        /\ balance' = callers[Len(callers)].balance
        /\ transfers' = SubSeq(transfers, 1, Len(transfers) - 1)
    BY <1>4 DEF Return, Last, Front
  <2>2. Len(callers) \in 1..Len(callers) /\ callers[Len(callers)] \in Frame
        /\ Len(callers) \in DOMAIN frames
    BY <1>1, <1>4
  <2>3. transfers' \in Seq(Transfer) /\ Len(transfers') = Len(transfers) - 1
    BY <2>1, <2>2 DEF Inv, TypeOK
  <2>4. TypeOK'
    BY <1>1, <2>1, <2>2, <2>3 DEF Inv, TypeOK, Frame
  <2>5. NobodyOvershoots'
    BY <1>1, <2>1, <2>2 DEF Inv, NobodyOvershoots
  <2>6. CallersOwed'
    BY <1>1 DEF Inv, CallersOwed
  <2>7. OneTransferPerCaller'
    BY <1>1, <2>1, <2>3 DEF OneTransferPerCaller
  <2>8. EachTransferSettlesSomeone'
    BY <1>1, <2>1 DEF Inv, EachTransferSettlesSomeone
  <2>9. QED
    BY <2>4, <2>5, <2>6, <2>7, <2>8 DEF Inv
<1>5. QED
  BY <1>3, <1>4

\* (The arm of get_transfers_helper without a creditor.)
LEMMA FindSolutionInv == ASSUME Inv, FindSolution PROVE Inv'
<1>1. frames \in Seq(Frame) /\ transfers \in Seq(Transfer)
      /\ Len(frames) = Len(transfers) /\ Len(transfers) \in Nat
      /\ Return(frames) /\ UNCHANGED owed
  BY DEF Inv, TypeOK, FindSolution, OneTransferPerCaller
<1>2. /\ solved' \in BOOLEAN
      /\ solution' \in Seq(Transfer)
      /\ solution' \in {solution, transfers}
  BY DEF Inv, TypeOK, FindSolution
<1>3. Len(transfers) <= Cardinality(Unsettled(owed))
  BY <1>1, UnsettledFinite DEF Inv, FindSolution, EachTransferSettlesSomeone
<1>4. QED
  BY <1>1, <1>2, <1>3, ReturnInv

\* (The early return of get_transfers_helper.)
LEMMA PruneInv == ASSUME Inv, Prune PROVE Inv'
<1>1. frames \in Seq(Frame) /\ Len(frames) = Len(transfers)
      /\ Return(frames) /\ UNCHANGED <<owed, solved, solution>>
  BY DEF Inv, TypeOK, Prune, OneTransferPerCaller
<1>2. solution = transfers => Len(transfers) <= Cardinality(Unsettled(owed))
  BY DEF Inv, EachTransferSettlesSomeone
<1>3. Len(frames) \in Nat /\ solved \in BOOLEAN /\ solution \in Seq(Transfer)
  BY DEF Inv, TypeOK
<1>4. QED
  BY <1>1, <1>2, <1>3, ReturnInv

\* (The end of get_transfers_helper.)
LEMMA EndLoopInv == ASSUME Inv, EndLoop PROVE Inv'
<1>1. frames \in Seq(Frame) /\ Len(frames) = Len(transfers) + 1
      /\ transfers \in Seq(Transfer)
      /\ Return(Front(frames)) /\ UNCHANGED <<owed, solved, solution>>
  BY DEF Inv, TypeOK, EndLoop, OneTransferPerCaller
<1>2. /\ Front(frames) \in Seq(Frame)
      /\ Len(Front(frames)) = Len(frames) - 1
      /\ \A i \in 1..Len(Front(frames)) : Front(frames)[i] = frames[i]
  BY <1>1 DEF Front
<1>3. solution = transfers => Len(transfers) <= Cardinality(Unsettled(owed))
  BY DEF Inv, EachTransferSettlesSomeone
<1>4. Len(frames) \in Nat /\ Len(transfers) \in Nat
      /\ solved \in BOOLEAN /\ solution \in Seq(Transfer)
  BY DEF Inv, TypeOK
<1>5. QED
  BY <1>1, <1>2, <1>3, <1>4, ReturnInv

\* (The loop of get_transfers_helper is entered.)
LEMMA PickCreditorInv == ASSUME Inv, PickCreditor PROVE Inv'
<1> USE UnsettledFinite
<1>1. PICK c \in Creditors(balance) :
        frames' = Append(frames, [balance |-> balance, creditor |-> c,
                                  left |-> Debitors(balance)])
  BY DEF PickCreditor
<1>2. /\ control = "call" /\ control' = "loop"
      /\ UNCHANGED <<owed, balance, transfers, solved, solution>>
      /\ frames \in Seq(Frame) /\ Len(frames) \in Nat
      /\ Len(frames) = Len(transfers)
  BY DEF PickCreditor, Inv, TypeOK, OneTransferPerCaller
<1> DEFINE f == [balance |-> balance, creditor |-> c, left |-> Debitors(balance)]
<1>3. /\ f \in Frame /\ f.balance = balance
      /\ f.balance[f.creditor] > 0 /\ f.left \subseteq Debitors(f.balance)
  BY DEF Inv, TypeOK, Frame, Creditors, Debitors
<1> HIDE DEF f
<1>4. /\ frames' \in Seq(Frame) /\ Len(frames') = Len(frames) + 1
      /\ \A i \in DOMAIN frames' :
           \/ i \in DOMAIN frames /\ frames'[i] = frames[i]
           \/ i = Len(frames) + 1 /\ frames'[i] = f
  BY <1>1, <1>2, <1>3 DEF f
<1>5. TypeOK'
  BY <1>2, <1>4 DEF Inv, TypeOK
<1>6. NobodyOvershoots'
  BY <1>2, <1>3, <1>4 DEF Inv, NobodyOvershoots
<1>7. CallersOwed'
  BY <1>3, <1>4 DEF Inv, CallersOwed
<1>8. OneTransferPerCaller'
  BY <1>2, <1>4 DEF OneTransferPerCaller
<1>9. EachTransferSettlesSomeone'
  BY <1>2, <1>3, <1>4 DEF Inv, EachTransferSettlesSomeone
<1>10. QED
  BY <1>5, <1>6, <1>7, <1>8, <1>9 DEF Inv

\* (One turn of the loop of get_transfers_helper.)
LEMMA TryDebitorInv == ASSUME Inv, TryDebitor PROVE Inv'
<1> USE UnsettledFinite
<1> DEFINE f == Last(frames)
<1>1. /\ control = "loop" /\ control' = "call"
      /\ UNCHANGED <<owed, solved, solution>>
      /\ frames \in Seq(Frame) /\ transfers \in Seq(Transfer)
      /\ Len(transfers) \in Nat /\ Len(frames) = Len(transfers) + 1
  BY DEF TryDebitor, Inv, TypeOK, OneTransferPerCaller
<1>2. Len(frames) \in DOMAIN frames /\ f = frames[Len(frames)] /\ f \in Frame
  BY <1>1 DEF Last
<1> HIDE DEF f
<1>3. PICK d \in f.left :
        /\ transfers' = Append(transfers,
                          [debitor |-> d, creditor |-> f.creditor,
                           amount |-> TransferAmount(f.balance[f.creditor], -f.balance[d])])
        /\ balance' = Apply(f.balance,
                          [debitor |-> d, creditor |-> f.creditor,
                           amount |-> TransferAmount(f.balance[f.creditor], -f.balance[d])])
        /\ frames' = Append(Front(frames), [f EXCEPT !.left = @ \ {d}])
  BY DEF TryDebitor, TransferTo, f
<1> DEFINE t == [debitor |-> d, creditor |-> f.creditor,
                 amount |-> TransferAmount(f.balance[f.creditor], -f.balance[d])]
           g == [f EXCEPT !.left = @ \ {d}]
<1>4. /\ f.balance \in [Persons -> Int] /\ f.creditor \in Persons
      /\ f.balance[f.creditor] > 0
      /\ d \in Persons /\ f.balance[d] < 0
      /\ f.left \subseteq Debitors(f.balance)
  BY <1>2, <1>3 DEF Inv, CallersOwed, Frame, Debitors
<1>5. /\ g \in Frame /\ g.balance = f.balance /\ g.creditor = f.creditor
      /\ g.left \subseteq f.left
  BY <1>2 DEF Frame
<1>6. /\ t \in Transfer
      /\ balance' \in [Persons -> Int]
      /\ \A p \in Persons : Between(balance'[p], f.balance[p])
      /\ Cardinality(Unsettled(balance')) + 1 <= Cardinality(Unsettled(f.balance))
  BY <1>3, <1>4, OneTransfer
<1>7. transfers' = Append(transfers, t) /\ frames' = Append(Front(frames), g)
  BY <1>3
<1> HIDE DEF t, g
<1>8. /\ frames' \in Seq(Frame) /\ Len(frames') = Len(frames)
      /\ \A i \in DOMAIN frames' :
           (i \in DOMAIN frames /\ frames'[i] = frames[i]) \/ (i = Len(frames) /\ frames'[i] = g)
  BY <1>1, <1>5, <1>7 DEF Front
<1>9. transfers' \in Seq(Transfer) /\ Len(transfers') = Len(transfers) + 1
  BY <1>1, <1>6, <1>7
<1>10. owed \in [Persons -> Int]
  BY BalancesAssumption DEF Inv, TypeOK
<1>11. TypeOK'
  BY <1>1, <1>6, <1>8, <1>9 DEF Inv, TypeOK
<1>12. NobodyOvershoots'
  <2>1. \A p \in Persons : Between(f.balance[p], owed[p])
    BY <1>2 DEF Inv, NobodyOvershoots
  <2>2. \A p \in Persons : Between(balance'[p], owed[p])
    BY <1>4, <1>6, <1>10, <2>1, BetweenTransitive
  <2>3. QED
    BY <1>1, <1>5, <1>8, <2>1, <2>2 DEF Inv, NobodyOvershoots
<1>13. CallersOwed'
  BY <1>4, <1>5, <1>8 DEF Inv, CallersOwed
<1>14. OneTransferPerCaller'
  BY <1>1, <1>8, <1>9 DEF OneTransferPerCaller
<1>15. EachTransferSettlesSomeone'
  <2>1. Len(frames) - 1 + Cardinality(Unsettled(f.balance)) <= Cardinality(Unsettled(owed))
    BY <1>2 DEF Inv, EachTransferSettlesSomeone
  <2>2. Len(transfers') + Cardinality(Unsettled(balance')) <= Cardinality(Unsettled(owed))
    BY <1>1, <1>6, <1>9, <2>1
  <2>3. \A i \in DOMAIN frames' :
          i - 1 + Cardinality(Unsettled(frames'[i].balance)) <= Cardinality(Unsettled(owed))
    BY <1>5, <1>8, <2>1 DEF Inv, EachTransferSettlesSomeone
  <2>4. QED
    BY <1>1, <2>2, <2>3 DEF Inv, EachTransferSettlesSomeone
<1>16. QED
  BY <1>11, <1>12, <1>13, <1>14, <1>15 DEF Inv

\* Every step of the search keeps Inv.  (get_transfers_helper.)
LEMMA NextInv == Inv /\ [Next]_vars => Inv'
<1> SUFFICES ASSUME Inv, [Next]_vars PROVE Inv'
  OBVIOUS
<1>1. CASE FindSolution
  BY <1>1, FindSolutionInv
<1>2. CASE Prune
  BY <1>2, PruneInv
<1>3. CASE PickCreditor
  BY <1>3, PickCreditorInv
<1>4. CASE TryDebitor
  BY <1>4, TryDebitorInv
<1>5. CASE EndLoop
  BY <1>5, EndLoopInv
<1>6. CASE UNCHANGED vars
  BY <1>6 DEF vars, Inv, TypeOK, NobodyOvershoots, CallersOwed, OneTransferPerCaller,
              EachTransferSettlesSomeone
<1>7. QED
  BY <1>1, <1>2, <1>3, <1>4, <1>5, <1>6 DEF Next

\* Inv holds all along the search.  (get_transfers.)
LEMMA InvAlways == Spec => []Inv
  BY InitInv, NextInv, PTL DEF Spec

\* Every transfer on any branch is a positive amount that one person pays to
\* another.  (get_transfers_helper.)
THEOREM TransfersTyped == Spec => []TypeOK
<1>1. Inv => TypeOK
  BY DEF Inv
<1>2. QED
  BY <1>1, InvAlways, PTL

\* For any balance, nobody pays more than they owe or gets more than they are
\* owed on any branch of the search.  (get_transfers_helper.)
THEOREM NobodyPaysTooMuch == Spec => []NobodyOvershoots
<1>1. Inv => NobodyOvershoots
  BY DEF Inv
<1>2. QED
  BY <1>1, InvAlways, PTL

\* For any finite set of persons, the recursion is no deeper and the solution no
\* longer than the number of persons who are not settled.
\* (get_transfers_helper.)
THEOREM DepthBounded == Spec => []EachTransferSettlesSomeone
<1>1. Inv => EachTransferSettlesSomeone
  BY DEF Inv
<1>2. QED
  BY <1>1, InvAlways, PTL

-------------------------------------------------------------------------------
(* What the transfers add up to.                                             *)

\* What p gets by transfer t.
Gain(p, t) == (IF t.creditor = p THEN t.amount ELSE 0) - (IF t.debitor = p THEN t.amount ELSE 0)

LEMMA GainInt ==
  ASSUME NEW p, NEW t \in Transfer
  PROVE  Gain(p, t) \in Int
<1>1. t.amount \in Int
  BY DEF Transfer
<1>2. QED
  BY <1>1 DEF Gain

\* Nothing is received by no transfers, and by one more what it gives.
LEMMA ReceivedByNone == ASSUME NEW p PROVE Received(p, << >>) = 0
<1>1. DOMAIN << >> = {}
  OBVIOUS
<1>2. QED
  BY <1>1, TotalByFirst, FS_EmptySet DEF Received

LEMMA ReceivedInt ==
  ASSUME NEW p, NEW ts \in Seq(Transfer)
  PROVE  Received(p, ts) \in Int
<1> DEFINE f == [i \in DOMAIN ts |-> Gain(p, ts[i])]
<1>1. DOMAIN ts = 1..Len(ts) /\ Len(ts) \in Nat /\ \A i \in DOMAIN ts : ts[i] \in Transfer
  OBVIOUS
<1>2. Received(p, ts) = Total(f, DOMAIN ts)
  BY DEF Received, Gain
<1>3. IsFiniteSet(DOMAIN ts) /\ \A i \in DOMAIN ts : f[i] \in Int
  BY <1>1, FS_Interval, GainInt
<1> HIDE DEF f
<1>4. QED
  BY <1>2, <1>3, TotalInt

LEMMA ReceivedByOneMore ==
  ASSUME NEW p, NEW ts \in Seq(Transfer), NEW t \in Transfer
  PROVE  Received(p, Append(ts, t)) = Received(p, ts) + Gain(p, t)
<1> DEFINE n == Len(ts)
           us == Append(ts, t)
           f == [i \in DOMAIN ts |-> Gain(p, ts[i])]
           g == [i \in DOMAIN us |-> Gain(p, us[i])]
<1>1. /\ n \in Nat /\ DOMAIN ts = 1..n /\ DOMAIN us = 1..(n + 1)
      /\ us[n + 1] = t /\ \A i \in 1..n : us[i] = ts[i] /\ ts[i] \in Transfer
  OBVIOUS
<1>2. Received(p, ts) = Total(f, 1..n) /\ Received(p, us) = Total(g, 1..(n + 1))
  BY <1>1 DEF Received, Gain
<1>3. /\ \A i \in 1..n : f[i] \in Int /\ g[i] = f[i]
      /\ g[n + 1] = Gain(p, t)
      /\ \A i \in 1..(n + 1) : i \in 1..n \/ i = n + 1
      /\ n + 1 \in 1..(n + 1) /\ 1..(n + 1) \ {n + 1} = 1..n
      /\ \A i \in 1..n : i \in 1..(n + 1)
  BY <1>1, GainInt
<1> HIDE DEF f, g, us
<1>4. \A i \in 1..(n + 1) : g[i] \in Int
  BY <1>3, GainInt
<1>5. IsFiniteSet(1..n) /\ IsFiniteSet(1..(n + 1))
  BY <1>1, FS_Interval
<1>6. Total(f, 1..n) \in Int
  BY <1>3, <1>5, TotalInt
<1>7. Total(g, 1..(n + 1)) = g[n + 1] + Total(g, 1..n)
  <2> DEFINE S == 1..(n + 1)
  <2>1. IsFiniteSet(S) /\ (\A i \in S : g[i] \in Int) /\ n + 1 \in S /\ S \ {n + 1} = 1..n
    BY <1>3, <1>4, <1>5
  <2> HIDE DEF S
  <2>2. Total(g, S) = g[n + 1] + Total(g, S \ {n + 1})
    BY <2>1, TotalByAny
  <2>3. QED
    BY <2>1, <2>2 DEF S
<1>8. Total(g, 1..n) = Total(f, 1..n)
  BY <1>3, <1>5, TotalOfSame
<1>9. Gain(p, t) \in Int
  BY GainInt
<1>10. QED
  BY <1>2, <1>3, <1>6, <1>7, <1>8, <1>9 DEF us

\* The balance after a transfer.
LEMMA ApplyMoves ==
  ASSUME NEW b \in [Persons -> Int], NEW t \in Transfer, t.creditor # t.debitor
  PROVE  /\ t.creditor \in Persons /\ t.debitor \in Persons /\ t.amount \in Nat \ {0}
         /\ Apply(b, t) \in [Persons -> Int]
         /\ Apply(b, t)[t.creditor] = b[t.creditor] - t.amount
         /\ Apply(b, t)[t.debitor] = b[t.debitor] + t.amount
         /\ \A p \in Persons : p # t.creditor /\ p # t.debitor => Apply(b, t)[p] = b[p]
<1>1. t.creditor \in Persons /\ t.debitor \in Persons /\ t.amount \in Nat \ {0}
  BY DEF Transfer
<1>2. QED
  BY <1>1 DEF Apply

\* A transfer takes from one what it gives to the other.
LEMMA TotalKept ==
  ASSUME NEW b \in [Persons -> Int], NEW t \in Transfer, t.creditor # t.debitor,
         NEW S \in SUBSET Persons, t.creditor \in S <=> t.debitor \in S
  PROVE  Total(Apply(b, t), S) = Total(b, S)
<1> DEFINE a == Apply(b, t)
           c == t.creditor
           d == t.debitor
           R == (S \ {c}) \ {d}
<1>1. c \in Persons /\ d \in Persons /\ t.amount \in Int /\ c # d
  BY DEF Transfer
<1>2. /\ a \in [Persons -> Int]
      /\ a[c] = b[c] - t.amount /\ a[d] = b[d] + t.amount
      /\ \A p \in R : a[p] = b[p]
  BY ApplyMoves
<1> HIDE DEF a, c, d
<1>3. IsFiniteSet(S) /\ IsFiniteSet(S \ {c}) /\ IsFiniteSet(R)
  <2>1. IsFiniteSet(S)
    BY BalancesAssumption, FS_Subset
  <2>2. QED
    BY <2>1, FS_Subset
<1>4. CASE c \notin S /\ d \notin S
  <2>1. S = R
    BY <1>4
  <2> HIDE DEF R
  <2>2. Total(a, S) = Total(b, S)
    BY <1>2, <1>3, <2>1, TotalOfSame
  <2>3. QED
    BY <2>2 DEF a
<1>5. CASE c \in S /\ d \in S
  <2>1. ASSUME NEW f \in [Persons -> Int]
        PROVE  Total(f, S) = f[c] + (f[d] + Total(f, R)) /\ Total(f, R) \in Int
    <3>1. (\A p \in S : f[p] \in Int) /\ d \in S \ {c} /\ \A p \in S \ {c} : f[p] \in Int
      BY <1>1, <1>5
    <3>2. Total(f, S) = f[c] + Total(f, S \ {c})
      BY <1>3, <1>5, <3>1, TotalByAny
    <3>3. Total(f, S \ {c}) = f[d] + Total(f, R)
      BY <1>3, <3>1, TotalByAny
    <3>4. Total(f, R) \in Int
      BY <1>3, <3>1, TotalInt
    <3>5. QED
      BY <3>2, <3>3, <3>4
  <2>2. Total(a, R) = Total(b, R)
    <3> HIDE DEF R
    <3> QED
      BY <1>2, <1>3, TotalOfSame
  <2>3. /\ Total(a, S) = a[c] + (a[d] + Total(a, R))
        /\ Total(b, S) = b[c] + (b[d] + Total(b, R)) /\ Total(b, R) \in Int
    BY <1>2, <2>1
  <2>4. b[c] \in Int /\ b[d] \in Int
    BY <1>1
  <2> HIDE DEF R
  <2>5. Total(a, S) = Total(b, S)
    BY <1>1, <1>2, <2>2, <2>3, <2>4
  <2>6. QED
    BY <2>5 DEF a
<1>6. QED
  BY <1>4, <1>5 DEF c, d

-------------------------------------------------------------------------------
(* The balance of a call is what its transfers leave to be settled.          *)

\* When the transfers ts are done, b is left of start.
Leaves(start, ts, b) ==
  /\ \A p \in Persons : b[p] + Received(p, ts) = start[p]
  /\ Total(b, Persons) = Total(start, Persons)

Accounted ==
  /\ control = "call" => Leaves(owed, transfers, balance)
  /\ \A i \in DOMAIN frames : Leaves(owed, SubSeq(transfers, 1, i - 1), frames[i].balance)

\* A search in which the persons owe enough has found a solution when a loop has gone
\* through one of its debitors, or is over; in any other it finds none.
Searched ==
  /\ solved => Total(owed, Persons) <= 0
  /\ Total(owed, Persons) <= 0 =>
       /\ control = "done" => solved
       /\ control = "loop" =>
            solved \/ Last(frames).left = Debitors(Last(frames).balance)

SInv == Accounted /\ SolutionSettles /\ Searched

LEMMA OwedInt ==
  ASSUME Inv
  PROVE  owed \in [Persons -> Int] /\ IsFiniteSet(Persons) /\ Total(owed, Persons) \in Int
<1>1. owed \in [Persons -> Int] /\ IsFiniteSet(Persons)
  BY BalancesAssumption DEF Inv, TypeOK
<1>2. QED
  BY <1>1, TotalInt

LEMMA InitSInv == Init => SInv
<1> SUFFICES ASSUME Init PROVE SInv
  OBVIOUS
<1>1. owed \in [Persons -> Int] /\ balance = owed /\ DOMAIN frames = {}
      /\ transfers = << >> /\ control = "call" /\ solved = FALSE
  BY BalancesAssumption DEF Init
<1>2. Leaves(owed, transfers, balance)
  BY <1>1, ReceivedByNone DEF Leaves
<1>3. QED
  BY <1>1, <1>2 DEF SInv, Accounted, SolutionSettles, Searched

\* The beginning of a list of transfers is not changed at its end.
LEMMA Beginnings ==
  ASSUME NEW ts \in Seq(Transfer), NEW t \in Transfer
  PROVE  /\ \A k \in 0..Len(ts) : SubSeq(Append(ts, t), 1, k) = SubSeq(ts, 1, k)
         /\ ts # << >> => \A k \in 0..(Len(ts) - 1) : SubSeq(Front(ts), 1, k) = SubSeq(ts, 1, k)
         /\ SubSeq(ts, 1, Len(ts)) = ts
<1>1. Len(ts) \in Nat
  OBVIOUS
<1>2. ASSUME NEW k \in 0..Len(ts)
      PROVE  SubSeq(Append(ts, t), 1, k) = SubSeq(ts, 1, k)
  <2> DEFINE us == Append(ts, t)
  <2>1. us \in Seq(Transfer) /\ Len(us) = Len(ts) + 1 /\ \A i \in 1..Len(ts) : us[i] = ts[i]
    OBVIOUS
  <2> HIDE DEF us
  <2>2. k \in Nat /\ \A i \in 1..k : i \in 1..Len(ts)
    BY <1>1, <1>2
  <2>3. QED
    BY <1>1, <2>1, <2>2
<1>3. ASSUME ts # << >>, NEW k \in 0..(Len(ts) - 1)
      PROVE  SubSeq(Front(ts), 1, k) = SubSeq(ts, 1, k)
  <2> DEFINE n == Len(ts) - 1
             us == SubSeq(ts, 1, n)
  <2>1. n \in Nat /\ Front(ts) = us
    BY <1>1, <1>3 DEF Front
  <2>2. k \in Nat /\ k <= n /\ n <= Len(ts) /\ \A i \in 1..k : i \in 1..n
    BY <1>1, <1>3, <2>1
  <2> HIDE DEF n
  <2>3. us \in Seq(Transfer) /\ Len(us) = n /\ \A i \in 1..n : us[i] = ts[i]
    BY <1>1, <2>1, <2>2
  <2> HIDE DEF us
  <2>4. SubSeq(us, 1, k) = SubSeq(ts, 1, k)
    BY <1>1, <2>1, <2>2, <2>3
  <2>5. QED
    BY <2>1, <2>4
<1>4. SubSeq(ts, 1, Len(ts)) = ts
  OBVIOUS
<1>5. QED
  BY <1>2, <1>3, <1>4

\* A return keeps what the calls that are left account for.
LEMMA ReturnAccounted ==
  ASSUME Inv, Accounted, NEW callers, Return(callers), UNCHANGED owed,
         callers \in Seq(Frame), Len(callers) <= Len(frames),
         Len(callers) = Len(transfers),
         \A i \in 1..Len(callers) : callers[i] = frames[i]
  PROVE  Accounted'
<1>1. transfers \in Seq(Transfer) /\ frames \in Seq(Frame)
  BY DEF Inv, TypeOK
<1>2. /\ frames' = callers /\ control' # "call"
      /\ callers # << >> => transfers' = Front(transfers)
  BY DEF Return
<1>3. Len(callers) \in Nat /\ DOMAIN callers = 1..Len(callers)
      /\ 1..Len(callers) \subseteq DOMAIN frames
  BY <1>1
<1>4. ASSUME NEW i \in 1..Len(callers)
      PROVE  Leaves(owed, SubSeq(transfers', 1, i - 1), callers[i].balance)
  <2>1. callers # << >> /\ i - 1 \in 0..(Len(transfers) - 1) /\ transfers # << >>
    BY <1>3, <1>4
  <2>2. PICK t \in Transfer : TRUE
    BY <1>1, <2>1
  <2>3. SubSeq(Front(transfers), 1, i - 1) = SubSeq(transfers, 1, i - 1)
    BY <1>1, <2>1, <2>2, Beginnings
  <2>4. Leaves(owed, SubSeq(transfers, 1, i - 1), frames[i].balance)
    BY <1>3 DEF Accounted
  <2>5. transfers' = Front(transfers) /\ callers[i] = frames[i]
    BY <1>2, <2>1
  <2>6. QED
    BY <2>3, <2>4, <2>5
<1>5. control' # "call" /\ frames' = callers /\ DOMAIN callers = 1..Len(callers) /\ owed' = owed
  BY <1>2, <1>3
<1>6. QED
  BY <1>4, <1>5 DEF Accounted

\* What a return needs to know to keep the rest.
LEMMA ReturnSearched ==
  ASSUME Inv, SInv, NEW callers, Return(callers), UNCHANGED owed,
         solved' => Total(owed, Persons) <= 0,
         Total(owed, Persons) <= 0 => solved',
         SolutionSettles', Accounted'
  PROVE  SInv'
<1>1. control' \in {"done", "loop"}
  BY DEF Return
<1>2. QED
  BY <1>1 DEF SInv, Searched

LEMMA FindSolutionSInv == ASSUME Inv, SInv, FindSolution PROVE SInv'
<1>1. frames \in Seq(Frame) /\ transfers \in Seq(Transfer)
      /\ Len(frames) = Len(transfers) /\ Len(frames) \in Nat
      /\ Return(frames) /\ UNCHANGED owed
      /\ balance \in [Persons -> Int] /\ solved \in BOOLEAN
  BY DEF Inv, TypeOK, FindSolution, OneTransferPerCaller
<1>2. Accounted'
  BY <1>1, ReturnAccounted DEF SInv
<1>3. \A p \in Persons : balance[p] <= 0
  BY <1>1 DEF FindSolution, Creditors
<1>4. Leaves(owed, transfers, balance)
  BY DEF SInv, Accounted, FindSolution
<1>5. owed \in [Persons -> Int] /\ IsFiniteSet(Persons) /\ Total(owed, Persons) \in Int
  BY OwedInt
<1>6. \A p \in Persons : Total(owed, Persons) <= balance[p]
  BY <1>1, <1>3, <1>4, <1>5, TotalOfDebts DEF Leaves
<1>7. Total(owed, Persons) <= 0
  <2>1. CASE Persons = {}
    <3>1. Total(owed, Persons) = 0
      BY <1>5, <2>1, TotalByFirst
    <3>2. QED
      BY <3>1
  <2>2. CASE Persons # {}
    <3>1. PICK p \in Persons : TRUE
      BY <2>2
    <3>2. balance[p] \in Int /\ balance[p] <= 0 /\ Total(owed, Persons) <= balance[p]
      BY <1>1, <1>3, <1>6
    <3>3. QED
      BY <1>5, <3>2
  <2>3. QED
    BY <2>1, <2>2
<1>8. \A p \in Persons : owed[p] >= 0 \/ Balanced(owed) => Received(p, transfers) = owed[p]
  <2> SUFFICES ASSUME NEW p \in Persons, owed[p] >= 0 \/ Balanced(owed)
               PROVE  Received(p, transfers) = owed[p]
    OBVIOUS
  <2>1. balance[p] \in Int /\ owed[p] \in Int /\ balance[p] <= 0
    BY <1>1, <1>3, <1>5
  <2>2. balance[p] = 0
    <3>1. CASE owed[p] >= 0
      BY <2>1, <3>1 DEF Inv, NobodyOvershoots, Between
    <3>2. CASE Balanced(owed)
      BY <1>6, <2>1, <3>2 DEF Balanced
    <3>3. QED
      BY <3>1, <3>2
  <2>3. balance[p] + Received(p, transfers) = owed[p]
    BY <1>4 DEF Leaves
  <2>4. Received(p, transfers) \in Int
    BY <1>1, ReceivedInt
  <2>5. QED
    BY <2>1, <2>2, <2>3, <2>4
<1>9. SolutionSettles'
  BY <1>1, <1>8 DEF SInv, SolutionSettles, FindSolution
<1>10. solved' = TRUE
  BY <1>1 DEF FindSolution
<1>11. QED
  BY <1>1, <1>2, <1>7, <1>9, <1>10, ReturnSearched

LEMMA PruneSInv == ASSUME Inv, SInv, Prune PROVE SInv'
<1>1. frames \in Seq(Frame) /\ Len(frames) = Len(transfers) /\ Len(frames) \in Nat
      /\ Return(frames) /\ UNCHANGED <<owed, solved, solution>> /\ solved
  BY DEF Inv, TypeOK, Prune, OneTransferPerCaller, TooLong
<1>2. Accounted'
  BY <1>1, ReturnAccounted DEF SInv
<1>3. SolutionSettles'
  BY <1>1 DEF SInv, SolutionSettles
<1>4. QED
  BY <1>1, <1>2, <1>3, ReturnSearched DEF SInv, Searched

\* The innermost caller: its balance, of which the list but for the present transfer
\* leaves something to be settled.
LEMMA Innermost ==
  ASSUME Inv, control = "loop", NEW f, f = Last(frames)
  PROVE  /\ f \in Frame /\ Len(frames) \in DOMAIN frames /\ f = frames[Len(frames)]
         /\ Len(frames) - 1 = Len(transfers)
         /\ f.balance \in [Persons -> Int] /\ f.creditor \in Persons
         /\ f.balance[f.creditor] > 0 /\ f.left \subseteq Debitors(f.balance)
<1>1. frames \in Seq(Frame) /\ transfers \in Seq(Transfer) /\ Len(frames) = Len(transfers) + 1
  BY DEF Inv, TypeOK, OneTransferPerCaller
<1>2. f = frames[Len(frames)] /\ Len(frames) \in DOMAIN frames /\ f \in Frame
  BY <1>1 DEF Last
<1>3. Len(frames) - 1 = Len(transfers)
  BY <1>1
<1>4. f.balance \in [Persons -> Int] /\ f.creditor \in Persons
  BY <1>2 DEF Frame
<1>5. f.balance[f.creditor] > 0 /\ f.left \subseteq Debitors(f.balance)
  BY <1>2 DEF Inv, CallersOwed
<1>6. QED
  BY <1>2, <1>3, <1>4, <1>5

\* When somebody is owed and the persons together are owed no more than they owe,
\* somebody owes.
LEMMA SomebodyOwes ==
  ASSUME NEW b \in [Persons -> Int], NEW c \in Persons, b[c] > 0, Total(b, Persons) <= 0
  PROVE  Debitors(b) # {}
<1>1. SUFFICES ASSUME Debitors(b) = {} PROVE FALSE
  BY <1>1
<1>2. IsFiniteSet(Persons) /\ \A p \in Persons : b[p] \in Nat
  BY <1>1, BalancesAssumption DEF Debitors
<1>3. b[c] <= Total(b, Persons) /\ Total(b, Persons) \in Int /\ b[c] \in Int
  BY <1>2, TotalOfCredits, TotalInt
<1>4. QED
  BY <1>3

LEMMA EndLoopSInv == ASSUME Inv, SInv, EndLoop PROVE SInv'
<1>1. frames \in Seq(Frame) /\ Len(frames) = Len(transfers) + 1
      /\ transfers \in Seq(Transfer) /\ Return(Front(frames))
      /\ UNCHANGED <<owed, solved, solution>> /\ control = "loop" /\ Last(frames).left = {}
  BY DEF Inv, TypeOK, EndLoop, OneTransferPerCaller
<1>2. /\ Front(frames) \in Seq(Frame)
      /\ Len(Front(frames)) = Len(frames) - 1
      /\ \A i \in 1..Len(Front(frames)) : Front(frames)[i] = frames[i]
  BY <1>1 DEF Front
<1>3. Len(Front(frames)) <= Len(frames) /\ Len(Front(frames)) = Len(transfers)
  BY <1>1, <1>2
<1>4. Accounted'
  BY <1>1, <1>2, <1>3, ReturnAccounted DEF SInv
<1>5. SolutionSettles'
  BY <1>1 DEF SInv, SolutionSettles
<1> DEFINE f == Last(frames)
<1>6. /\ Len(frames) \in DOMAIN frames /\ f = frames[Len(frames)]
      /\ f.balance \in [Persons -> Int] /\ f.creditor \in Persons
      /\ f.balance[f.creditor] > 0
  BY <1>1, Innermost
<1>7. Total(f.balance, Persons) = Total(owed, Persons)
  BY <1>6 DEF SInv, Accounted, Leaves
<1>8. Total(owed, Persons) <= 0 => solved
  <2> SUFFICES ASSUME Total(owed, Persons) <= 0, ~solved PROVE FALSE
    OBVIOUS
  <2>1. Debitors(f.balance) = {}
    BY <1>1 DEF SInv, Searched
  <2> HIDE DEF f
  <2>2. QED
    BY <1>6, <1>7, <2>1, SomebodyOwes
<1>9. QED
  BY <1>1, <1>4, <1>5, <1>8, ReturnSearched DEF SInv, Searched

LEMMA PickCreditorSInv == ASSUME Inv, SInv, PickCreditor PROVE SInv'
<1>1. PICK c \in Creditors(balance) :
        frames' = Append(frames, [balance |-> balance, creditor |-> c,
                                  left |-> Debitors(balance)])
  BY DEF PickCreditor
<1> DEFINE f == [balance |-> balance, creditor |-> c, left |-> Debitors(balance)]
<1>2. /\ control = "call" /\ control' = "loop"
      /\ UNCHANGED <<owed, balance, transfers, solved, solution>>
      /\ frames \in Seq(Frame) /\ Len(frames) = Len(transfers)
      /\ transfers \in Seq(Transfer) /\ Len(frames) \in Nat
  BY DEF PickCreditor, Inv, TypeOK, OneTransferPerCaller
<1>3. f \in Frame /\ f.balance = balance /\ f.left = Debitors(balance)
  BY DEF Inv, TypeOK, Frame, Creditors, Debitors
<1>4. frames' = Append(frames, f)
  BY <1>1
<1> HIDE DEF f
<1>5. /\ Last(frames') = f /\ DOMAIN frames' = 1..(Len(frames) + 1)
      /\ frames'[Len(frames) + 1] = f /\ \A i \in DOMAIN frames : frames'[i] = frames[i]
      /\ DOMAIN frames = 1..Len(frames)
  BY <1>2, <1>3, <1>4 DEF Last
<1>6. ASSUME NEW i \in DOMAIN frames'
      PROVE  Leaves(owed, SubSeq(transfers, 1, i - 1), frames'[i].balance)
  <2>1. CASE i \in DOMAIN frames
    BY <1>5, <2>1 DEF SInv, Accounted
  <2>2. CASE i = Len(frames) + 1
    <3>1. i - 1 = Len(transfers) /\ frames'[i].balance = balance
      BY <1>2, <1>3, <1>5, <2>2
    <3>2. SubSeq(transfers, 1, Len(transfers)) = transfers
      BY <1>2
    <3>3. Leaves(owed, transfers, balance)
      BY <1>2 DEF SInv, Accounted
    <3>4. QED
      BY <3>1, <3>2, <3>3
  <2>3. QED
    BY <1>2, <1>5, <2>1, <2>2
<1>7. Accounted'
  BY <1>2, <1>6 DEF Accounted
<1>8. SolutionSettles'
  BY <1>2 DEF SInv, SolutionSettles
<1>9. Searched'
  BY <1>2, <1>3, <1>5 DEF SInv, Searched
<1>10. QED
  BY <1>7, <1>8, <1>9 DEF SInv

LEMMA TryDebitorSInv == ASSUME Inv, SInv, TryDebitor PROVE SInv'
<1> DEFINE f == Last(frames)
<1>1. /\ control = "loop" /\ control' = "call"
      /\ UNCHANGED <<owed, solved, solution>>
      /\ frames \in Seq(Frame) /\ transfers \in Seq(Transfer)
  BY DEF TryDebitor, Inv, TypeOK
<1>2. /\ f \in Frame /\ Len(frames) \in DOMAIN frames /\ f = frames[Len(frames)]
      /\ Len(frames) - 1 = Len(transfers)
      /\ f.balance \in [Persons -> Int] /\ f.creditor \in Persons
      /\ f.balance[f.creditor] > 0 /\ f.left \subseteq Debitors(f.balance)
  BY <1>1, Innermost
<1> HIDE DEF f
<1>3. PICK d \in f.left :
        /\ transfers' = Append(transfers,
                          [debitor |-> d, creditor |-> f.creditor,
                           amount |-> TransferAmount(f.balance[f.creditor], -f.balance[d])])
        /\ balance' = Apply(f.balance,
                          [debitor |-> d, creditor |-> f.creditor,
                           amount |-> TransferAmount(f.balance[f.creditor], -f.balance[d])])
        /\ frames' = Append(Front(frames), [f EXCEPT !.left = @ \ {d}])
  BY DEF TryDebitor, TransferTo, f
<1> DEFINE t == [debitor |-> d, creditor |-> f.creditor,
                 amount |-> TransferAmount(f.balance[f.creditor], -f.balance[d])]
           g == [f EXCEPT !.left = @ \ {d}]
<1>4. d \in Persons /\ f.balance[d] < 0
  BY <1>2 DEF Debitors
<1>5. t \in Transfer /\ Apply(f.balance, t) \in [Persons -> Int]
  BY <1>2, <1>4, OneTransfer
<1>6. g \in Frame /\ g.balance = f.balance
  BY <1>2 DEF Frame
<1>7. /\ transfers' = Append(transfers, t) /\ balance' = Apply(f.balance, t)
      /\ frames' = Append(Front(frames), g)
      /\ t.creditor = f.creditor /\ t.debitor = d /\ t.creditor # t.debitor
  BY <1>2, <1>3, <1>4
<1> HIDE DEF t, g
<1>8. /\ DOMAIN frames' = DOMAIN frames /\ DOMAIN frames = 1..Len(frames) /\ Len(frames) \in Nat
      /\ \A i \in DOMAIN frames' : frames'[i].balance = frames[i].balance
  <2>1. /\ Len(frames') = Len(frames) /\ frames' \in Seq(Frame)
        /\ \A i \in DOMAIN frames' :
           (i \in DOMAIN frames /\ frames'[i] = frames[i]) \/ (i = Len(frames) /\ frames'[i] = g)
    BY <1>1, <1>2, <1>6, <1>7 DEF Front
  <2>2. QED
    BY <1>1, <1>2, <1>6, <2>1
<1>9. \A k \in 0..Len(transfers) : SubSeq(transfers', 1, k) = SubSeq(transfers, 1, k)
  BY <1>1, <1>5, <1>7, Beginnings
<1>10. ASSUME NEW i \in DOMAIN frames'
       PROVE  Leaves(owed, SubSeq(transfers', 1, i - 1), frames'[i].balance)
  <2>1. i - 1 \in 0..Len(transfers) /\ i \in DOMAIN frames
    BY <1>2, <1>8
  <2>2. Leaves(owed, SubSeq(transfers, 1, i - 1), frames[i].balance)
    BY <2>1 DEF SInv, Accounted
  <2>3. QED
    BY <1>8, <1>9, <2>1, <2>2
<1>11. Leaves(owed, transfers, f.balance)
  <2>1. SubSeq(transfers, 1, Len(transfers)) = transfers
    BY <1>1
  <2>2. Leaves(owed, SubSeq(transfers, 1, Len(frames) - 1), frames[Len(frames)].balance)
    BY <1>2 DEF SInv, Accounted
  <2>3. QED
    BY <1>2, <2>1, <2>2
<1>12. Leaves(owed, transfers', balance')
  <2>1. Total(balance', Persons) = Total(f.balance, Persons)
    <3>1. t.creditor \in Persons /\ t.debitor \in Persons
      BY <1>5 DEF Transfer
    <3>2. QED
      BY <1>2, <1>5, <1>7, <3>1, TotalKept
  <2>2. ASSUME NEW p \in Persons
        PROVE  balance'[p] + Received(p, transfers') = owed[p]
    <3>1. Received(p, transfers') = Received(p, transfers) + Gain(p, t)
      BY <1>1, <1>5, <1>7, ReceivedByOneMore
    <3>2. balance'[p] = f.balance[p] - Gain(p, t)
      <4>1. t.amount \in Int /\ f.balance[p] \in Int
        BY <1>2, <1>5 DEF Transfer
      <4>2. balance'[p] = IF p = t.creditor THEN f.balance[p] - t.amount
                          ELSE IF p = t.debitor THEN f.balance[p] + t.amount ELSE f.balance[p]
        BY <1>2, <1>4, <1>7 DEF Apply
      <4>3. QED
        BY <1>7, <4>1, <4>2 DEF Gain
    <3>3. f.balance[p] + Received(p, transfers) = owed[p]
      BY <1>11 DEF Leaves
    <3>4. f.balance[p] \in Int /\ Received(p, transfers) \in Int /\ Gain(p, t) \in Int
      BY <1>1, <1>2, <1>5, ReceivedInt, GainInt
    <3>5. QED
      BY <3>1, <3>2, <3>3, <3>4
  <2>3. QED
    BY <1>11, <2>1, <2>2 DEF Leaves
<1>13. Accounted'
  BY <1>1, <1>10, <1>12 DEF Accounted
<1>14. SolutionSettles' /\ Searched'
  BY <1>1 DEF SInv, SolutionSettles, Searched
<1>15. QED
  BY <1>13, <1>14 DEF SInv

LEMMA NextSInv == Inv /\ SInv /\ [Next]_vars => SInv'
<1> SUFFICES ASSUME Inv, SInv, [Next]_vars PROVE SInv'
  OBVIOUS
<1>1. CASE FindSolution
  BY <1>1, FindSolutionSInv
<1>2. CASE Prune
  BY <1>2, PruneSInv
<1>3. CASE PickCreditor
  BY <1>3, PickCreditorSInv
<1>4. CASE TryDebitor
  BY <1>4, TryDebitorSInv
<1>5. CASE EndLoop
  BY <1>5, EndLoopSInv
<1>6. CASE UNCHANGED vars
  BY <1>6 DEF vars, SInv, Accounted, SolutionSettles, Searched
<1>7. QED
  BY <1>1, <1>2, <1>3, <1>4, <1>5, <1>6 DEF Next

\* SInv holds all along the search.  (get_transfers.)
LEMMA SInvAlways == Spec => []SInv
  BY InitSInv, NextSInv, InvAlways, PTL DEF Spec

\* Whatever solution the search keeps, at any time, pays everybody what they are owed,
\* and settles all debts when they make up for the credits.  (get_transfers.)
THEOREM SolutionsSettle == Spec => []SolutionSettles
<1>1. SInv => SolutionSettles
  BY DEF SInv
<1>2. QED
  BY <1>1, SInvAlways, PTL

\* get_transfers has a solution to unwrap exactly when the persons owe at least what they
\* are owed, in whatever order it goes through its hash maps.
THEOREM UnwrapsUnlessOverpaid == Spec => []SolvedUnlessOverpaid
<1>1. Inv /\ SInv => SolvedUnlessOverpaid
  BY DEF SInv, Searched, SolvedUnlessOverpaid, Inv, TypeOK
<1>2. QED
  BY <1>1, SInvAlways, InvAlways, PTL

-------------------------------------------------------------------------------
(* Groups that settle among themselves.                                      *)

\* Who is settled does not count.
LEMMA TotalOfUnsettled ==
  ASSUME NEW b \in [Persons -> Int], NEW S \in SUBSET Persons
  PROVE  /\ IsFiniteSet(S) /\ Total(b, S) \in Int
         /\ Total(b, S) = Total(b, S \cap Unsettled(b))
<1>1. IsFiniteSet(S)
  BY BalancesAssumption, FS_Subset
<1>2. \A p \in S : b[p] \in Int
  OBVIOUS
<1>3. S \cap Unsettled(b) \in SUBSET S /\ \A p \in S \ (S \cap Unsettled(b)) : b[p] = 0
  BY DEF Unsettled
<1>4. Total(b, S) = Total(b, S \cap Unsettled(b))
  BY <1>1, <1>2, <1>3, TotalOfPart
<1>5. QED
  BY <1>1, <1>2, <1>4, TotalInt

\* There are at most as many groups as persons who are not settled: each has one of
\* its own.
LEMMA GroupsCounted ==
  ASSUME NEW b \in [Persons -> Int], NEW P \in Groupings(b)
  PROVE  /\ IsFiniteSet(P) /\ Cardinality(P) \in Nat
         /\ Cardinality(P) <= Cardinality(Unsettled(b))
<1> DEFINE one == [g \in P |-> First(g)]
<1>1. \A g \in P : g # {} /\ g \subseteq Unsettled(b)
  BY DEF Groupings, SettlingGroups
<1>2. \A g \in P : one[g] \in g /\ one[g] \in Unsettled(b)
  BY <1>1, FirstIn
<1>3. \A g, h \in P : one[g] = one[h] => g = h
  <2> HIDE DEF one
  <2> QED
    BY <1>2 DEF Groupings
<1>4. one \in Injection(P, Unsettled(b))
  BY <1>2, <1>3 DEF Injection, IsInjective
<1>5. QED
  BY <1>4, UnsettledFinite, FS_Injection, FS_CardinalityType

\* There is a grouping with the most groups.
LEMMA BestGrouping ==
  ASSUME NEW b \in [Persons -> Int]
  PROVE  /\ FewestTransfers(b) \in Nat
         /\ \A Q \in Groupings(b) :
              FewestTransfers(b) <= Cardinality(Unsettled(b)) - Cardinality(Q)
         /\ \E P \in Groupings(b) :
              FewestTransfers(b) = Cardinality(Unsettled(b)) - Cardinality(P)
<1> DEFINE n == Cardinality(Unsettled(b))
           N == {Cardinality(P) : P \in Groupings(b)}
           K == {n - k : k \in N}
<1>1. n \in Nat /\ \A k \in N : k \in Nat /\ k <= n
  BY GroupsCounted, UnsettledFinite
<1>2. {} \in Groupings(b)
  BY DEF Groupings
<1>3. K \in SUBSET Nat /\ K # {}
  <2>1. K # {}
    BY <1>2
  <2>2. \A k \in N : n - k \in Nat
    BY <1>1
  <2>3. QED
    BY <2>1, <2>2
<1>4. PICK m \in K : \A k \in K : m <= k
  BY <1>3, LeastElement
<1>5. PICK x \in N : m = n - x
  OBVIOUS
<1> HIDE DEF n, N
<1>6. \A y \in N : x >= y
  <2>1. TAKE y \in N
  <2>2. n - y \in K
    OBVIOUS
  <2>3. n - x <= n - y
    BY <1>4, <1>5, <2>2
  <2>4. QED
    BY <1>1, <2>3
<1>7. Max(N) \in N /\ \A y \in N : Max(N) >= y
  BY <1>5, <1>6 DEF Max
<1>8. FewestTransfers(b) = n - Max(N)
  BY DEF FewestTransfers, n, N
<1>9. \A k \in N : n - Max(N) <= n - k /\ n - Max(N) \in Nat
  BY <1>1, <1>7
<1>10. FewestTransfers(b) \in Nat
  BY <1>7, <1>8, <1>9
<1>11. \A Q \in Groupings(b) : FewestTransfers(b) <= n - Cardinality(Q)
  BY <1>8, <1>9 DEF N
<1>12. \E P \in Groupings(b) : FewestTransfers(b) = n - Cardinality(P)
  BY <1>7, <1>8 DEF N
<1>13. QED
  BY <1>10, <1>11, <1>12 DEF n

\* Some of the groups, and the persons in them.
LEMMA PartOfGrouping ==
  ASSUME NEW b \in [Persons -> Int], NEW P \in Groupings(b), NEW Q \in SUBSET P
  PROVE  Q \in Groupings(b) /\ UNION Q \in SUBSET Unsettled(b) /\ UNION Q \in SUBSET Persons
<1>1. Q \in Groupings(b)
  BY DEF Groupings
<1>2. UNION Q \in SUBSET Unsettled(b)
  BY DEF Groupings, SettlingGroups
<1>3. QED
  BY <1>1, <1>2 DEF Unsettled

\* Groups that settle among themselves settle among themselves.
LEMMA GroupsSettle ==
  ASSUME NEW b \in [Persons -> Int], NEW P \in Groupings(b)
  PROVE  Total(b, UNION P) = 0
<1> DEFINE D == {Q \in SUBSET P : Total(b, UNION Q) # 0}
<1>1. SUFFICES ASSUME D # {} PROVE FALSE
  <2>1. P \in SUBSET P /\ P \notin D
    BY <1>1
  <2>2. QED
    BY <2>1
<1>2. \A Q \in SUBSET P : IsFiniteSet(Q) /\ UNION Q \in SUBSET Persons
  BY GroupsCounted, FS_Subset, PartOfGrouping
<1>3. PICK Q \in D : \A R \in D : Cardinality(Q) <= Cardinality(R)
  <2>1. \A Q \in D : IsFiniteSet(Q)
    BY <1>2
  <2> HIDE DEF D
  <2>2. QED
    BY <1>1, <2>1, SmallestSet
<1>4. Q # {}
  <2>1. SUFFICES ASSUME Q = {} PROVE FALSE
    OBVIOUS
  <2>2. UNION Q = {} /\ Total(b, {}) = 0
    BY <2>1, FS_EmptySet, TotalByFirst
  <2>3. QED
    BY <1>3, <2>2
<1>5. PICK g \in Q : TRUE
  BY <1>4
<1> DEFINE R == Q \ {g}
<1>6. R \in SUBSET P /\ R \notin D
  <2>1. ~(Cardinality(Q) <= Cardinality(R))
    BY <1>2, OneLessIsFewer
  <2>2. QED
    BY <1>3, <2>1
<1>7. Total(b, UNION R) = 0
  BY <1>6
<1>8. Total(b, g) = 0 /\ \A h \in R : g \cap h = {}
  BY DEF Groupings, SettlingGroups
<1>9. (UNION Q) \ g = UNION R /\ g \in SUBSET UNION Q
  BY <1>8
<1>10. Total(b, UNION Q) = Total(b, g) + Total(b, (UNION Q) \ g)
  <2>1. IsFiniteSet(UNION Q) /\ \A p \in UNION Q : b[p] \in Int
    BY <1>2, TotalOfUnsettled
  <2>2. QED
    BY <1>9, <2>1, TotalSplit
<1>11. Total(b, UNION Q) = 0
  <2>1. Total(b, (UNION Q) \ g) = 0
    BY <1>7, <1>9
  <2>2. QED
    BY <1>8, <1>10, <2>1
<1>12. QED
  BY <1>3, <1>11

\* When the persons owe what they are owed, a grouping that leaves somebody out is
\* not the best: those who are left out settle among themselves.
LEMMA BestCovers ==
  ASSUME NEW b \in [Persons -> Int], Balanced(b), NEW P \in Groupings(b),
         FewestTransfers(b) = Cardinality(Unsettled(b)) - Cardinality(P)
  PROVE  UNION P = Unsettled(b)
<1> DEFINE U == Unsettled(b)
           rest == U \ UNION P
<1>1. U \in SUBSET Persons /\ IsFiniteSet(U)
  BY UnsettledFinite DEF Unsettled
<1>2. UNION P \in SUBSET U /\ Total(b, UNION P) = 0
  BY PartOfGrouping, GroupsSettle
<1>3. Total(b, U) = 0
  <2>1. Persons \cap U = U
    BY <1>1
  <2>2. QED
    BY <2>1, TotalOfUnsettled DEF Balanced
<1>4. Total(b, rest) = 0
  <2>1. /\ Total(b, U) = Total(b, UNION P) + Total(b, rest)
        /\ Total(b, rest) \in Int
    <3>1. \A p \in U : b[p] \in Int
      BY <1>1
    <3> HIDE DEF U
    <3>2. QED
      BY <1>1, <1>2, <3>1, TotalSplit
  <2>2. QED
    BY <1>2, <1>3, <2>1
<1>5. SUFFICES ASSUME rest # {} PROVE FALSE
  BY <1>2
<1> DEFINE Q == P \cup {rest}
<1>6. Q \in Groupings(b) /\ rest \notin P
  <2>1. rest \in SettlingGroups(b) /\ \A g \in P : g \cap rest = {} /\ g # {}
    BY <1>4, <1>5 DEF Groupings, SettlingGroups
  <2>2. rest \notin P
    BY <2>1
  <2>3. Q \in SUBSET SettlingGroups(b)
    BY <2>1 DEF Groupings
  <2>4. \A g, h \in Q : g = h \/ g \cap h = {}
    BY <2>1 DEF Groupings
  <2>5. QED
    BY <2>2, <2>3, <2>4 DEF Groupings
<1>7. Cardinality(Q) = Cardinality(P) + 1 /\ Cardinality(P) \in Nat
  BY <1>6, GroupsCounted, FS_AddElement
<1>8. FewestTransfers(b) <= Cardinality(U) - Cardinality(Q)
  BY <1>6, BestGrouping
<1>9. Cardinality(U) \in Nat
  BY <1>1, FS_CardinalityType
<1> HIDE DEF Q
<1>10. QED
  BY <1>7, <1>8, <1>9

LEMMA CardinalitySplit ==
  ASSUME NEW S, IsFiniteSet(S), NEW T
  PROVE  /\ IsFiniteSet(S \ T) /\ IsFiniteSet(S \cap T)
         /\ Cardinality(S) \in Nat /\ Cardinality(S \ T) \in Nat /\ Cardinality(S \cap T) \in Nat
         /\ Cardinality(S) = Cardinality(S \ T) + Cardinality(S \cap T)
<1>1. /\ IsFiniteSet(S \ T) /\ IsFiniteSet(S \cap T)
      /\ Cardinality(S \ T) = Cardinality(S) - Cardinality(S \cap T)
  BY FS_Difference, FS_Intersection
<1>2. Cardinality(S) \in Nat /\ Cardinality(S \ T) \in Nat /\ Cardinality(S \cap T) \in Nat
  BY <1>1, FS_CardinalityType
<1>3. QED
  BY <1>1, <1>2

LEMMA PairCardinality ==
  ASSUME NEW c, NEW d, c # d
  PROVE  /\ IsFiniteSet({c, d}) /\ Cardinality({c, d}) = 2
         /\ \A S \in SUBSET {c, d} : Cardinality(S) \in Nat /\ Cardinality(S) <= 2
<1>1. IsFiniteSet({c}) /\ Cardinality({c}) = 1 /\ {c, d} = {c} \cup {d} /\ d \notin {c}
  BY FS_Singleton
<1>2. IsFiniteSet({c, d}) /\ Cardinality({c, d}) = 2
  BY <1>1, FS_AddElement
<1>3. \A S \in SUBSET {c, d} : Cardinality(S) \in Nat /\ Cardinality(S) <= 2
  BY <1>2, FS_Subset, FS_CardinalityType
<1>4. QED
  BY <1>2, <1>3

\* Groups for another balance, b: those of P that settle there as well, and
\* those of g who are not settled, in place of the other groups of P.
LEMMA Regrouped ==
  ASSUME NEW a \in [Persons -> Int], NEW b \in [Persons -> Int],
         NEW P \in Groupings(a), NEW hit \in SUBSET P, NEW g \in SUBSET Persons,
         \A h \in P \ hit : h \in SettlingGroups(b) /\ h \cap g = {},
         Total(b, g) = 0
  PROVE  FewestTransfers(b) <= Cardinality(Unsettled(b)) - (Cardinality(P) - Cardinality(hit))
                                 - (IF g \cap Unsettled(b) = {} THEN 0 ELSE 1)
<1> DEFINE kept == P \ hit
           m == g \cap Unsettled(b)
           n == Cardinality(Unsettled(b))
<1>1. /\ IsFiniteSet(kept) /\ Cardinality(kept) = Cardinality(P) - Cardinality(hit)
      /\ Cardinality(kept) \in Nat /\ Cardinality(P) \in Nat /\ Cardinality(hit) \in Nat
  <2>1. IsFiniteSet(P) /\ P \cap hit = hit
    BY GroupsCounted
  <2>2. /\ IsFiniteSet(P \ hit) /\ Cardinality(P) \in Nat /\ Cardinality(P \ hit) \in Nat
        /\ Cardinality(hit) \in Nat /\ Cardinality(P) = Cardinality(P \ hit) + Cardinality(hit)
    <3> DEFINE both == P \cap hit
    <3>1. both = hit
      BY <2>1
    <3>2. /\ IsFiniteSet(P \ hit) /\ Cardinality(P) \in Nat /\ Cardinality(P \ hit) \in Nat
          /\ Cardinality(both) \in Nat /\ Cardinality(P) = Cardinality(P \ hit) + Cardinality(both)
      BY <2>1, CardinalitySplit
    <3> HIDE DEF both
    <3>3. QED
      BY <3>1, <3>2
  <2>3. QED
    BY <2>2
<1>2. kept \in Groupings(b)
  BY DEF Groupings
<1>3. n \in Nat
  BY UnsettledFinite
<1>4. CASE m = {}
  <2>1. FewestTransfers(b) <= n - Cardinality(kept)
    BY <1>2, BestGrouping
  <2> HIDE DEF n, m, kept
  <2>2. FewestTransfers(b) <= n - (Cardinality(P) - Cardinality(hit)) - 0
    BY <1>1, <1>3, <2>1
  <2>3. QED
    BY <1>4, <2>2 DEF m, n
<1>5. CASE m # {}
  <2> DEFINE Q == kept \cup {m}
  <2>1. Total(b, m) = 0 /\ m \in SettlingGroups(b)
    <3>1. Total(b, m) = 0
      BY TotalOfUnsettled
    <3>2. QED
      BY <1>5, <3>1 DEF SettlingGroups
  <2>2. \A h \in kept : h \cap m = {} /\ h # {}
    BY DEF SettlingGroups
  <2>3. m \notin kept
    BY <1>5, <2>2
  <2>4. Q \in Groupings(b)
    <3> HIDE DEF m, kept
    <3> QED
      BY <1>2, <2>1, <2>2 DEF Groupings
  <2>5. Cardinality(Q) = Cardinality(kept) + 1
    BY <1>1, <2>3, FS_AddElement
  <2>6. FewestTransfers(b) <= n - Cardinality(Q)
    BY <2>4, BestGrouping
  <2> HIDE DEF n, m, kept, Q
  <2>7. FewestTransfers(b) <= n - (Cardinality(P) - Cardinality(hit)) - 1
    BY <1>1, <1>3, <2>5, <2>6
  <2>8. QED
    BY <1>5, <2>7 DEF m, n
<1>6. QED
  BY <1>4, <1>5

\* A group of neither the creditor nor the debitor settles before a transfer if it does
\* after it, and the other way round.
LEMMA OthersSettle ==
  ASSUME NEW b \in [Persons -> Int], NEW t \in Transfer, t.creditor # t.debitor,
         NEW g, t.creditor \notin g, t.debitor \notin g
  PROVE  g \in SettlingGroups(b) <=> g \in SettlingGroups(Apply(b, t))
<1> DEFINE a == Apply(b, t)
<1>1. \A p \in Persons : p # t.creditor /\ p # t.debitor => a[p] = b[p]
  BY ApplyMoves
<1>2. g \in SUBSET Persons => Total(a, g) = Total(b, g)
  BY TotalKept
<1>3. g \in SUBSET Unsettled(b) <=> g \in SUBSET Unsettled(a)
  BY <1>1 DEF Unsettled
<1>4. g \in SUBSET Unsettled(b) => g \in SUBSET Persons
  BY DEF Unsettled
<1> HIDE DEF a
<1>5. g \in SettlingGroups(b) <=> g \in SettlingGroups(a)
  BY <1>2, <1>3, <1>4 DEF SettlingGroups
<1>6. QED
  BY <1>5 DEF a

\* No transfer brings the end more than one transfer closer.
LEMMA OneTransferCloser ==
  ASSUME NEW b \in [Persons -> Int], Balanced(b), NEW t \in Transfer,
         t.creditor # t.debitor
  PROVE  FewestTransfers(b) <= 1 + FewestTransfers(Apply(b, t))
<1> DEFINE a == Apply(b, t)
           c == t.creditor
           d == t.debitor
           A == Unsettled(a)
           B == Unsettled(b)
           pair == {c, d}
<1>1. /\ a \in [Persons -> Int] /\ c \in Persons /\ d \in Persons /\ c # d
      /\ \A p \in Persons : p # c /\ p # d => a[p] = b[p]
  BY ApplyMoves
<1>2. Balanced(a)
  BY <1>1, TotalKept DEF Balanced
<1> HIDE DEF a, c, d
<1>3. PICK P \in Groupings(a) : FewestTransfers(a) = Cardinality(A) - Cardinality(P)
  BY <1>1, BestGrouping
<1>4. UNION P = A
  BY <1>1, <1>2, <1>3, BestCovers
<1> DEFINE hit == {g \in P : c \in g \/ d \in g}
           g == (UNION hit) \cup pair
           k == Cardinality(A \cap pair)
           j == Cardinality(B \cap pair)
           r == Cardinality(A \ pair)
           f == FewestTransfers(b)
           h == Cardinality(hit)
           q == Cardinality(P)
<1>5. hit \in SUBSET P /\ UNION hit \in SUBSET A /\ UNION hit \in SUBSET Persons
      /\ Total(a, UNION hit) = 0
  BY <1>1, PartOfGrouping, GroupsSettle
<1>6. g \in SUBSET Persons /\ g \cap A = UNION hit
  <2>1. g \in SUBSET Persons
    BY <1>1, <1>5
  <2>2. \A p \in pair \cap A : p \in UNION hit
    BY <1>4
  <2> HIDE DEF hit, A
  <2>3. QED
    BY <1>5, <2>1, <2>2
<1>7. Total(b, g) = 0
  <2>1. Total(a, g) = Total(a, UNION hit)
    <3> HIDE DEF g, hit
    <3> QED
      BY <1>1, <1>6, TotalOfUnsettled
  <2>2. t.creditor \in g /\ t.debitor \in g /\ t.creditor # t.debitor
    BY DEF c, d
  <2> HIDE DEF g
  <2>3. Total(a, g) = Total(b, g)
    BY <1>6, <2>2, TotalKept DEF a
  <2>4. QED
    BY <1>5, <2>1, <2>3
<1>8. \A e \in P \ hit : e \in SettlingGroups(b) /\ e \cap g = {}
  <2> SUFFICES ASSUME NEW e \in P \ hit PROVE e \in SettlingGroups(b) /\ e \cap g = {}
    OBVIOUS
  <2>1. c \notin e /\ d \notin e /\ e \in SettlingGroups(a)
    BY DEF Groupings
  <2>2. e \in SettlingGroups(b)
    BY <2>1, OthersSettle DEF a, c, d
  <2>3. e \cap UNION hit = {}
    BY <2>1 DEF Groupings
  <2>4. QED
    BY <2>1, <2>2, <2>3
<1>9. f <= Cardinality(B) - (q - h) - (IF g \cap B = {} THEN 0 ELSE 1)
  <2> HIDE DEF g, hit
  <2> QED
    BY <1>1, <1>5, <1>6, <1>7, <1>8, Regrouped
<1>10. Cardinality(A) = r + k /\ Cardinality(B) = r + j /\ r \in Nat /\ j \in Nat /\ k \in Nat
  <2>1. A \ pair = B \ pair
    BY <1>1 DEF Unsettled
  <2>2. IsFiniteSet(A) /\ IsFiniteSet(B)
    BY UnsettledFinite
  <2> HIDE DEF A, B, pair
  <2>3. QED
    BY <2>1, <2>2, CardinalitySplit
<1>11. j <= 2 /\ (g \cap B = {} => j = 0)
  <2>1. B \cap pair \in SUBSET {c, d}
    OBVIOUS
  <2>2. g \cap B = {} => B \cap pair = {}
    OBVIOUS
  <2> HIDE DEF B, g, pair
  <2>3. QED
    BY <1>1, <2>1, <2>2, PairCardinality, FS_EmptySet
<1>12. h <= k /\ h \in Nat /\ q \in Nat
  <2> DEFINE one == [e \in hit |-> IF c \in e THEN c ELSE d]
  <2>1. \A e \in hit : one[e] \in e /\ one[e] \in A \cap pair
    BY <1>5
  <2>2. \A e, x \in hit : e = x \/ e \cap x = {}
    BY DEF Groupings
  <2> HIDE DEF one
  <2>3. \A e, x \in hit : one[e] = one[x] => e = x
    BY <2>1, <2>2
  <2>4. one \in Injection(hit, A \cap pair)
    BY <2>1, <2>3 DEF Injection, IsInjective, one
  <2>5. IsFiniteSet(A \cap pair)
    BY UnsettledFinite, FS_Intersection
  <2> HIDE DEF hit, A, pair
  <2>6. IsFiniteSet(hit) /\ h <= k
    BY <2>4, <2>5, FS_Injection
  <2>7. QED
    BY <1>1, <1>3, <2>6, FS_CardinalityType, GroupsCounted
<1>13. f \in Nat
  BY BestGrouping
<1> HIDE DEF A, B, pair, hit, g, k, j, r, f, h, q
<1>14. FewestTransfers(a) = r + k - q
  BY <1>3, <1>10, <1>12 DEF q
<1>15. f <= 1 + (r + k - q)
  <2>1. CASE g \cap B = {}
    <3>1. f <= r + j - (q - h) - 0 /\ j = 0
      BY <1>9, <1>10, <1>11, <1>12, <2>1
    <3>2. QED
      BY <1>10, <1>12, <1>13, <3>1
  <2>2. CASE g \cap B # {}
    <3>1. f <= r + j - (q - h) - 1
      BY <1>9, <1>10, <1>12, <2>2
    <3>2. QED
      BY <1>10, <1>11, <1>12, <1>13, <3>1
  <2>3. QED
    BY <2>1, <2>2
<1>16. QED
  BY <1>14, <1>15 DEF a, f

\* Whoever is owed something, there is somebody whose transfer brings the end one
\* transfer closer: somebody who owes, of a group the creditor settles with.
LEMMA SomeTransferHelps ==
  ASSUME NEW b \in [Persons -> Int], Balanced(b), NEW c \in Persons, b[c] > 0
  PROVE  \E d \in Debitors(b) :
           LET t == [debitor |-> d, creditor |-> c, amount |-> TransferAmount(b[c], -b[d])]
           IN  1 + FewestTransfers(Apply(b, t)) <= FewestTransfers(b)
<1> DEFINE B == Unsettled(b)
<1>1. PICK P \in Groupings(b) : FewestTransfers(b) = Cardinality(B) - Cardinality(P)
  BY BestGrouping
<1>2. UNION P = B /\ c \in B
  BY <1>1, BestCovers DEF Unsettled
<1>3. PICK g \in P : c \in g
  BY <1>2
<1>4. g \in SettlingGroups(b) /\ g \in SUBSET B /\ g \in SUBSET Persons /\ Total(b, g) = 0
  BY DEF Groupings, SettlingGroups, Unsettled
<1>5. PICK d \in g : b[d] < 0
  <2>1. SUFFICES ASSUME \A p \in g : ~(b[p] < 0) PROVE FALSE
    OBVIOUS
  <2>2. IsFiniteSet(g) /\ \A p \in g : b[p] \in Nat
    BY <1>4, <2>1, TotalOfUnsettled
  <2>3. b[c] <= Total(b, g) /\ b[c] \in Int
    BY <1>3, <2>2, TotalOfCredits
  <2>4. QED
    BY <1>4, <2>3
<1> DEFINE t == [debitor |-> d, creditor |-> c, amount |-> TransferAmount(b[c], -b[d])]
           a == Apply(b, t)
           A == Unsettled(a)
<1>6. d \in Persons /\ d \in Debitors(b) /\ d # c
  BY <1>4, <1>5 DEF Debitors
<1>7. /\ t \in Transfer /\ a \in [Persons -> Int]
      /\ \A p \in Persons : Between(a[p], b[p])
      /\ Cardinality(A) + 1 <= Cardinality(B)
  BY <1>5, <1>6, OneTransfer
<1>8. t.creditor = c /\ t.debitor = d
  OBVIOUS
<1> HIDE DEF t, a
<1>9. \A e \in P \ {g} : e \in SettlingGroups(a) /\ e \cap g = {}
  <2> SUFFICES ASSUME NEW e \in P \ {g} PROVE e \in SettlingGroups(a) /\ e \cap g = {}
    OBVIOUS
  <2>1. e \cap g = {} /\ e \in SettlingGroups(b)
    BY DEF Groupings
  <2>2. c \notin e /\ d \notin e
    BY <1>3, <1>5, <2>1
  <2>3. QED
    BY <1>6, <1>7, <1>8, <2>1, <2>2, OthersSettle DEF a
<1>10. Total(a, g) = 0
  BY <1>3, <1>4, <1>5, <1>6, <1>7, <1>8, TotalKept DEF a
<1> DEFINE f == FewestTransfers(a)
           n == Cardinality(A)
           q == Cardinality(P)
<1>11. f <= n - (q - 1) - (IF g \cap A = {} THEN 0 ELSE 1)
  <2>1. {g} \in SUBSET P /\ Cardinality({g}) = 1 /\ P \ {g} = P \ {g}
    BY FS_Singleton
  <2> HIDE DEF A
  <2>2. QED
    BY <1>4, <1>7, <1>9, <1>10, <2>1, Regrouped DEF A
<1>12. g \cap A = {} => n + 2 <= Cardinality(B)
  <2> SUFFICES ASSUME g \cap A = {} PROVE n + 2 <= Cardinality(B)
    OBVIOUS
  <2>1. \A p \in A : p \in B
    BY <1>7 DEF Unsettled, Between
  <2>2. A \in SUBSET (B \ {c, d})
    BY <1>3, <1>5, <2>1
  <2>3. {c, d} \in SUBSET B /\ B \cap {c, d} = {c, d}
    BY <1>3, <1>4, <1>5
  <2>4. IsFiniteSet(B) /\ IsFiniteSet(A)
    BY UnsettledFinite
  <2> HIDE DEF A, B
  <2>5. Cardinality(B) = Cardinality(B \ {c, d}) + 2 /\ IsFiniteSet(B \ {c, d})
        /\ Cardinality(B \ {c, d}) \in Nat
    <3>1. Cardinality(B \cap {c, d}) = 2
      <4>1. Cardinality({c, d}) = 2
        BY <1>6, PairCardinality
      <4> DEFINE both == B \cap {c, d}
      <4>2. both = {c, d}
        BY <2>3
      <4> HIDE DEF both
      <4>3. Cardinality(both) = 2
        BY <4>1, <4>2
      <4>4. QED
        BY <4>3 DEF both
    <3>2. QED
      BY <2>4, <3>1, CardinalitySplit
  <2>6. n <= Cardinality(B \ {c, d}) /\ n \in Nat
    BY <2>2, <2>4, <2>5, FS_Subset, FS_CardinalityType
  <2>7. QED
    BY <2>5, <2>6
<1>13. /\ n \in Nat /\ Cardinality(B) \in Nat /\ q \in Nat /\ f \in Nat
  BY <1>7, UnsettledFinite, GroupsCounted, BestGrouping
<1>14. 1 + f <= Cardinality(B) - q
  <2> HIDE DEF f, n, q, A, B
  <2>1. CASE g \cap A = {}
    BY <1>11, <1>12, <1>13, <2>1
  <2>2. CASE g \cap A # {}
    <3>1. n + 1 <= Cardinality(B)
      BY <1>7 DEF n
    <3>2. QED
      BY <1>11, <1>13, <2>2, <3>1
  <2>3. QED
    BY <2>1, <2>2
<1>15. 1 + FewestTransfers(a) <= FewestTransfers(b)
  BY <1>1, <1>14
<1>16. QED
  BY <1>6, <1>15 DEF a, t

\* When nobody is owed anything nothing is left to do.
LEMMA NothingLeft ==
  ASSUME NEW b \in [Persons -> Int], Balanced(b), Creditors(b) = {}
  PROVE  FewestTransfers(b) = 0
<1>1. \A p \in Persons : b[p] \in Int /\ b[p] <= 0
  BY DEF Creditors
<1>2. \A p \in Persons : 0 <= b[p]
  BY <1>1, BalancesAssumption, TotalOfDebts DEF Balanced
<1>3. Unsettled(b) = {}
  BY <1>1, <1>2 DEF Unsettled
<1>4. Cardinality(Unsettled(b)) = 0
  BY <1>3, FS_EmptySet
<1>5. PICK P \in Groupings(b) : FewestTransfers(b) = Cardinality(Unsettled(b)) - Cardinality(P)
  BY BestGrouping
<1>6. Cardinality(P) \in Nat /\ FewestTransfers(b) \in Nat
  BY GroupsCounted, BestGrouping
<1>7. QED
  BY <1>4, <1>5, <1>6

-------------------------------------------------------------------------------
(* The search finds the fewest.                                              *)

\* What a loop pays its creditor with.
Payment(f, d) == [debitor |-> d, creditor |-> f.creditor,
                  amount |-> TransferAmount(f.balance[f.creditor], -f.balance[d])]

\* One debitor of each loop but perhaps the innermost is being tried.
Underway(i) == i < Len(frames) \/ control = "call"

Following(i) == IF i < Len(frames) THEN frames[i + 1].balance ELSE balance

\* The solution is as good as any that goes on from b after n transfers.
AsGood(n, b) == solved /\ Len(solution) <= n + FewestTransfers(b)

\* No path through the search is shorter than the fewest transfers.
NoneShorter ==
  /\ solved => FewestTransfers(owed) <= Len(solution)
  /\ control = "call" => FewestTransfers(owed) <= Len(transfers) + FewestTransfers(balance)
  /\ \A i \in DOMAIN frames :
       FewestTransfers(owed) <= i - 1 + FewestTransfers(frames[i].balance)

\* The debitors a loop has been through lead to nothing better than the solution.
Tried ==
  /\ \A i \in DOMAIN frames : \A d \in Debitors(frames[i].balance) \ frames[i].left :
       LET after == Apply(frames[i].balance, Payment(frames[i], d))
       IN  AsGood(i, after) \/ (Underway(i) /\ after = Following(i))
  /\ control = "done" => AsGood(0, owed)

FInv == Balanced(owed) => NoneShorter /\ Tried

LEMMA InitFInv == Init => FInv
<1> SUFFICES ASSUME Init PROVE FInv
  OBVIOUS
<1>1. owed \in [Persons -> Int] /\ balance = owed /\ DOMAIN frames = {}
      /\ Len(transfers) = 0 /\ control = "call" /\ solved = FALSE
  BY BalancesAssumption DEF Init
<1>2. FewestTransfers(owed) \in Nat
  BY <1>1, BestGrouping
<1>3. QED
  BY <1>1, <1>2 DEF FInv, NoneShorter, Tried

\* All calls are about balances that add up, and the first is about what is owed.
LEMMA CallsBalanced ==
  ASSUME Inv, SInv, Balanced(owed)
  PROVE  /\ owed \in [Persons -> Int] /\ balance \in [Persons -> Int]
         /\ control = "call" => Balanced(balance)
         /\ \A i \in DOMAIN frames : /\ frames[i].balance \in [Persons -> Int]
                                     /\ Balanced(frames[i].balance)
         /\ control = "call" /\ frames = << >> => balance = owed
         /\ frames # << >> => 1 \in DOMAIN frames /\ frames[1].balance = owed
<1>1. /\ owed \in [Persons -> Int] /\ balance \in [Persons -> Int] /\ frames \in Seq(Frame)
      /\ transfers \in Seq(Transfer)
  BY OwedInt DEF Inv, TypeOK
<1>2. \A i \in DOMAIN frames : frames[i].balance \in [Persons -> Int]
  <2>1. \A i \in DOMAIN frames : frames[i] \in Frame
    BY <1>1
  <2>2. QED
    BY <2>1 DEF Frame
<1>3. /\ control = "call" => Balanced(balance)
      /\ \A i \in DOMAIN frames : Balanced(frames[i].balance)
  BY DEF SInv, Accounted, Leaves, Balanced
<1>4. ASSUME NEW b \in [Persons -> Int], Leaves(owed, << >>, b) PROVE b = owed
  <2>1. \A p \in Persons : b[p] + 0 = owed[p] /\ b[p] \in Int
    BY <1>4, ReceivedByNone DEF Leaves
  <2>2. QED
    BY <1>1, <2>1
<1>5. control = "call" /\ frames = << >> => balance = owed
  <2> SUFFICES ASSUME control = "call", frames = << >> PROVE balance = owed
    OBVIOUS
  <2>1. transfers = << >>
    BY <1>1 DEF Inv, OneTransferPerCaller
  <2>2. QED
    BY <1>1, <1>4, <2>1 DEF SInv, Accounted
<1>6. frames # << >> => 1 \in DOMAIN frames /\ frames[1].balance = owed
  <2> SUFFICES ASSUME frames # << >> PROVE 1 \in DOMAIN frames /\ frames[1].balance = owed
    OBVIOUS
  <2>1. 1 \in DOMAIN frames
    BY <1>1
  <2>2. SubSeq(transfers, 1, 1 - 1) = << >>
    BY <1>1
  <2>3. Leaves(owed, SubSeq(transfers, 1, 1 - 1), frames[1].balance)
    BY <2>1 DEF SInv, Accounted
  <2>4. Leaves(owed, << >>, frames[1].balance)
    BY <2>2, <2>3
  <2>5. QED
    BY <1>2, <1>4, <2>1, <2>4
<1>7. QED
  BY <1>1, <1>2, <1>3, <1>5, <1>6

\* A call about b returns when there is a solution that is as good as any from b on.
LEMMA ReturnFInv ==
  ASSUME Inv, SInv, FInv, Balanced(owed), NEW callers, Return(callers), UNCHANGED owed,
         callers \in Seq(Frame), Len(callers) <= Len(frames),
         \A i \in 1..Len(callers) : callers[i] = frames[i],
         NEW b \in [Persons -> Int],
         solved', solution' \in Seq(Transfer), Len(solution') <= Len(callers) + FewestTransfers(b),
         solved => Len(solution') <= Len(solution),
         FewestTransfers(owed) <= Len(solution'),
         callers = << >> => b = owed,
         \A i \in 1..Len(callers) : i = Len(callers) => Following(i) = b
  PROVE  FInv'
<1>1. /\ frames \in Seq(Frame) /\ solution \in Seq(Transfer) /\ owed' = owed
      /\ frames' = callers /\ control' = IF callers = << >> THEN "done" ELSE "loop"
  BY DEF Inv, TypeOK, Return
<1>2. /\ Len(callers) \in Nat /\ DOMAIN callers = 1..Len(callers)
      /\ Len(frames) \in Nat /\ DOMAIN frames = 1..Len(frames)
      /\ \A i \in 1..Len(callers) : i \in DOMAIN frames /\ callers[i] = frames[i]
  BY <1>1
<1>3. NoneShorter /\ Tried
  BY DEF FInv
<1>4. NoneShorter'
  BY <1>1, <1>2, <1>3 DEF NoneShorter
<1>5. ASSUME NEW n \in Nat, NEW x \in [Persons -> Int], AsGood(n, x)
      PROVE  AsGood(n, x)'
  <2>1. Len(solution) \in Nat /\ Len(solution') \in Nat /\ FewestTransfers(x) \in Nat
    BY <1>1, BestGrouping
  <2>2. solved /\ Len(solution) <= n + FewestTransfers(x)
    BY <1>5 DEF AsGood
  <2>3. Len(solution') <= n + FewestTransfers(x)
    BY <2>1, <2>2
  <2>4. QED
    BY <2>3 DEF AsGood
<1>6. ASSUME NEW i \in 1..Len(callers), NEW d \in Debitors(callers[i].balance) \ callers[i].left
      PROVE  LET after == Apply(callers[i].balance, Payment(callers[i], d))
             IN  AsGood(i, after)' \/ (Underway(i)' /\ after = Following(i)')
  <2>1. i \in DOMAIN frames /\ callers[i] = frames[i]
    BY <1>2
  <2>2. i \in Nat /\ i <= Len(callers) /\ Len(callers) \in Nat /\ Len(callers) <= Len(frames)
        /\ Len(frames) \in Nat
    <3>1. Len(callers) \in Nat /\ Len(frames) \in Nat
      BY <1>2
    <3> DEFINE n == Len(callers)
    <3>2. i \in 1..n /\ n \in Nat
      BY <3>1
    <3> HIDE DEF n
    <3>3. i \in Nat /\ i <= n
      BY <3>2
    <3>4. QED
      BY <3>1, <3>3 DEF n
  <2> DEFINE after == Apply(callers[i].balance, Payment(callers[i], d))
  <2>3. AsGood(i, after) \/ (Underway(i) /\ after = Following(i))
    BY <1>3, <1>6, <2>1 DEF Tried
  <2>4. after \in [Persons -> Int]
    <3>1. frames[i] \in Frame
      BY <1>1, <2>1
    <3>2. /\ frames[i].balance \in [Persons -> Int] /\ frames[i].creditor \in Persons
          /\ frames[i].balance[frames[i].creditor] > 0 /\ d \in Persons /\ frames[i].balance[d] < 0
      BY <1>6, <2>1, <3>1 DEF Frame, Inv, CallersOwed, Debitors
    <3>3. QED
      BY <3>2, OneTransfer DEF Payment
  <2> HIDE DEF after
  <2>5. CASE AsGood(i, after)
    <3>1. AsGood(i, after)'
      BY <1>5, <2>2, <2>4, <2>5
    <3>2. QED
      BY <3>1 DEF after
  <2>6. CASE Underway(i) /\ after = Following(i) /\ i < Len(callers)
    <3>1. i + 1 \in 1..Len(callers) /\ i < Len(frames)
      BY <2>2, <2>6
    <3>2. Following(i) = frames[i + 1].balance /\ Following(i)' = callers[i + 1].balance
      BY <1>1, <2>6, <3>1 DEF Following
    <3>3. after = Following(i)' /\ Underway(i)'
      BY <1>1, <1>2, <2>6, <3>1, <3>2 DEF Underway
    <3>4. QED
      BY <3>3 DEF after
  <2>7. CASE after = Following(i) /\ ~(i < Len(callers))
    <3>1. i = Len(callers)
      BY <2>2, <2>7
    <3>2. after = b
      BY <2>7, <3>1
    <3>3. AsGood(i, after)'
      BY <3>1, <3>2 DEF AsGood
    <3>4. QED
      BY <3>3 DEF after
  <2>8. QED
    BY <2>3, <2>5, <2>6, <2>7
<1>7. control' = "done" => AsGood(0, owed)'
  BY <1>1 DEF AsGood
<1>8. Tried'
  BY <1>1, <1>2, <1>6, <1>7 DEF Tried
<1>9. QED
  BY <1>4, <1>8 DEF FInv

\* What was followed by the call that returns.
LEMMA FollowedByCall ==
  ASSUME Inv, SInv, Balanced(owed), control = "call"
  PROVE  /\ frames \in Seq(Frame) /\ Len(frames) \in Nat /\ Len(frames) = Len(transfers)
         /\ frames = << >> => balance = owed
         /\ \A i \in 1..Len(frames) : i = Len(frames) => Following(i) = balance
         /\ balance \in [Persons -> Int] /\ Balanced(balance)
         /\ transfers \in Seq(Transfer) /\ solution \in Seq(Transfer)
         /\ FewestTransfers(balance) \in Nat /\ FewestTransfers(owed) \in Nat
<1>1. frames \in Seq(Frame) /\ Len(frames) = Len(transfers)
      /\ transfers \in Seq(Transfer) /\ solution \in Seq(Transfer)
  BY DEF Inv, TypeOK, OneTransferPerCaller
<1>2. \A i \in 1..Len(frames) : i = Len(frames) => Following(i) = balance
  BY <1>1 DEF Following
<1>3. QED
  BY <1>1, <1>2, CallsBalanced, BestGrouping

LEMMA FindSolutionFInv == ASSUME Inv, SInv, FInv, FindSolution PROVE FInv'
<1> SUFFICES ASSUME Balanced(owed) PROVE FInv'
  BY DEF FInv, FindSolution
<1>1. /\ control = "call" /\ Creditors(balance) = {} /\ Return(frames) /\ owed' = owed
      /\ solved \in BOOLEAN
  BY DEF FindSolution, Inv, TypeOK
<1>2. /\ frames \in Seq(Frame) /\ Len(frames) \in Nat /\ Len(frames) = Len(transfers)
      /\ frames = << >> => balance = owed
      /\ \A i \in 1..Len(frames) : i = Len(frames) => Following(i) = balance
      /\ balance \in [Persons -> Int] /\ Balanced(balance)
      /\ transfers \in Seq(Transfer) /\ solution \in Seq(Transfer)
      /\ FewestTransfers(balance) \in Nat /\ FewestTransfers(owed) \in Nat
  BY <1>1, FollowedByCall
<1>3. FewestTransfers(balance) = 0
  BY <1>1, <1>2, NothingLeft
<1>4. /\ FewestTransfers(owed) <= Len(transfers)
      /\ solved => FewestTransfers(owed) <= Len(solution)
  BY <1>1, <1>2, <1>3 DEF FInv, NoneShorter
<1>5. /\ solved' /\ solution' \in Seq(Transfer)
      /\ Len(solution') <= Len(frames) + FewestTransfers(balance)
      /\ solved => Len(solution') <= Len(solution)
      /\ FewestTransfers(owed) <= Len(solution')
  <2>1. CASE ~solved \/ IsSolutionBetter(transfers, solution)
    <3>1. solved' = TRUE /\ solution' = transfers
      BY <2>1 DEF FindSolution
    <3>2. Len(transfers) \in Nat /\ Len(solution) \in Nat
      BY <1>2
    <3>3. QED
      BY <1>2, <1>3, <1>4, <2>1, <3>1, <3>2 DEF IsSolutionBetter
  <2>2. CASE solved /\ ~IsSolutionBetter(transfers, solution)
    <3>1. solved' = solved /\ solution' = solution
      BY <2>2 DEF FindSolution
    <3>2. Len(transfers) \in Nat /\ Len(solution) \in Nat
      BY <1>2
    <3>3. QED
      BY <1>2, <1>3, <1>4, <2>2, <3>1, <3>2 DEF IsSolutionBetter
  <2>3. QED
    BY <1>1, <2>1, <2>2
<1>6. Len(frames) <= Len(frames) /\ \A i \in 1..Len(frames) : frames[i] = frames[i]
  BY <1>2
<1>7. QED
  BY <1>1, <1>2, <1>5, <1>6, ReturnFInv

LEMMA PruneFInv == ASSUME Inv, SInv, FInv, Prune PROVE FInv'
<1> SUFFICES ASSUME Balanced(owed) PROVE FInv'
  BY DEF FInv, Prune
<1>1. /\ control = "call" /\ Return(frames) /\ owed' = owed /\ solved' = solved
      /\ solution' = solution /\ solved /\ Len(transfers) >= Len(solution)
  BY DEF Prune, TooLong
<1>2. /\ frames \in Seq(Frame) /\ Len(frames) \in Nat /\ Len(frames) = Len(transfers)
      /\ frames = << >> => balance = owed
      /\ \A i \in 1..Len(frames) : i = Len(frames) => Following(i) = balance
      /\ balance \in [Persons -> Int]
      /\ transfers \in Seq(Transfer) /\ solution \in Seq(Transfer)
      /\ FewestTransfers(balance) \in Nat
  BY <1>1, FollowedByCall
<1>3. /\ FewestTransfers(owed) <= Len(solution')
      /\ Len(solution') <= Len(frames) + FewestTransfers(balance)
      /\ Len(solution') <= Len(solution)
  <2>1. Len(solution) \in Nat /\ FewestTransfers(owed) <= Len(solution)
    BY <1>1, <1>2 DEF FInv, NoneShorter
  <2>2. QED
    BY <1>1, <1>2, <2>1
<1>4. Len(frames) <= Len(frames) /\ \A i \in 1..Len(frames) : frames[i] = frames[i]
  BY <1>2
<1>5. QED
  BY <1>1, <1>2, <1>3, <1>4, ReturnFInv

LEMMA EndLoopFInv == ASSUME Inv, SInv, FInv, EndLoop PROVE FInv'
<1> SUFFICES ASSUME Balanced(owed) PROVE FInv'
  BY DEF FInv, EndLoop
<1> DEFINE callers == Front(frames)
           f == Last(frames)
           n == Len(frames)
           b == f.balance
<1>1. /\ frames \in Seq(Frame) /\ n = Len(transfers) + 1 /\ solution \in Seq(Transfer)
      /\ transfers \in Seq(Transfer) /\ Return(callers) /\ owed' = owed /\ solved' = solved
      /\ solution' = solution /\ control = "loop" /\ f.left = {} /\ n \in Nat
  BY DEF Inv, TypeOK, EndLoop, OneTransferPerCaller
<1>2. /\ callers \in Seq(Frame) /\ Len(callers) = n - 1
      /\ \A i \in 1..Len(callers) : callers[i] = frames[i]
  BY <1>1 DEF Front
<1>3. /\ n \in DOMAIN frames /\ f = frames[n]
      /\ b \in [Persons -> Int] /\ f.creditor \in Persons /\ b[f.creditor] > 0
  BY <1>1, Innermost
<1> HIDE DEF callers, f
<1>4. Balanced(b)
  BY <1>3, CallsBalanced
<1>5. PICK d \in Debitors(b) : 1 + FewestTransfers(Apply(b, Payment(f, d))) <= FewestTransfers(b)
  <2>1. \E d \in Debitors(b) :
           LET t == [debitor |-> d, creditor |-> f.creditor,
                     amount |-> TransferAmount(b[f.creditor], -b[d])]
           IN  1 + FewestTransfers(Apply(b, t)) <= FewestTransfers(b)
    BY <1>3, <1>4, SomeTransferHelps
  <2>2. QED
    BY <2>1 DEF Payment
<1> DEFINE a == Apply(b, Payment(f, d))
<1>6. solved /\ Len(solution) <= n + FewestTransfers(a)
  <2>1. d \in Debitors(frames[n].balance) \ frames[n].left
    BY <1>1, <1>3
  <2>2. ~Underway(n)
    BY <1>1 DEF Underway
  <2>3. AsGood(n, a)
    BY <1>3, <2>1, <2>2 DEF FInv, Tried
  <2>4. QED
    BY <2>3 DEF AsGood
<1>7. a \in [Persons -> Int]
  <2>1. d \in Persons /\ b[d] < 0
    BY DEF Debitors
  <2>2. QED
    BY <1>3, <2>1, OneTransfer DEF Payment
<1>8. FewestTransfers(a) \in Nat /\ FewestTransfers(b) \in Nat /\ Len(solution) \in Nat
  BY <1>1, <1>3, <1>7, BestGrouping
<1> HIDE DEF a, b, n
<1>9. Len(solution') <= Len(callers) + FewestTransfers(b) /\ Len(callers) <= Len(frames)
  BY <1>1, <1>2, <1>5, <1>6, <1>8 DEF a, n
<1>10. callers = << >> => b = owed
  <2> SUFFICES ASSUME callers = << >> PROVE b = owed
    OBVIOUS
  <2>1. n = 1
    BY <1>1, <1>2
  <2>2. frames # << >>
    BY <1>1, <1>3
  <2>3. QED
    BY <1>3, <2>1, <2>2, CallsBalanced DEF b
<1>11. \A i \in 1..Len(callers) : i = Len(callers) => Following(i) = b
  BY <1>1, <1>2, <1>3 DEF Following, b, n
<1>12. /\ FewestTransfers(owed) <= Len(solution') /\ solution' \in Seq(Transfer) /\ solved'
       /\ solved => Len(solution') <= Len(solution)
  BY <1>1, <1>6, <1>8 DEF FInv, NoneShorter
<1>13. b \in [Persons -> Int] /\ Return(callers) /\ owed' = owed
  BY <1>1, <1>3 DEF b
<1>14. QED
  BY <1>2, <1>9, <1>10, <1>11, <1>12, <1>13, ReturnFInv

LEMMA PickCreditorFInv == ASSUME Inv, SInv, FInv, PickCreditor PROVE FInv'
<1> SUFFICES ASSUME Balanced(owed) PROVE FInv'
  BY DEF FInv, PickCreditor
<1>1. PICK c \in Creditors(balance) :
        frames' = Append(frames, [balance |-> balance, creditor |-> c,
                                  left |-> Debitors(balance)])
  BY DEF PickCreditor
<1> DEFINE f == [balance |-> balance, creditor |-> c, left |-> Debitors(balance)]
           n == Len(frames)
<1>2. /\ control = "call" /\ control' = "loop"
      /\ owed' = owed /\ balance' = balance /\ transfers' = transfers
      /\ solved' = solved /\ solution' = solution
      /\ frames \in Seq(Frame) /\ n = Len(transfers) /\ n \in Nat
  BY DEF PickCreditor, Inv, TypeOK, OneTransferPerCaller
<1>3. f \in Frame /\ f.balance = balance /\ f.left = Debitors(balance)
  BY DEF Inv, TypeOK, Frame, Creditors, Debitors
<1>4. frames' = Append(frames, f)
  BY <1>1
<1> HIDE DEF f
<1>5. /\ Len(frames') = n + 1 /\ DOMAIN frames' = 1..(n + 1) /\ DOMAIN frames = 1..n
      /\ frames'[n + 1] = f /\ \A i \in 1..n : frames'[i] = frames[i]
  BY <1>2, <1>3, <1>4
<1>6. NoneShorter /\ Tried
  BY DEF FInv
<1> HIDE DEF n
<1>7. NoneShorter'
  <2>1. ASSUME NEW i \in 1..(n + 1)
        PROVE  FewestTransfers(owed) <= i - 1 + FewestTransfers(frames'[i].balance)
    <3>1. CASE i \in 1..n
      BY <1>5, <1>6, <3>1 DEF NoneShorter
    <3>2. CASE i = n + 1
      <4>1. FewestTransfers(owed) <= n + FewestTransfers(balance)
        BY <1>2, <1>6 DEF NoneShorter
      <4>2. i - 1 = n /\ frames'[i].balance = balance
        BY <1>2, <1>3, <1>5, <3>2
      <4>3. QED
        BY <4>1, <4>2
    <3>3. QED
      BY <1>2, <3>1, <3>2
  <2>2. QED
    BY <1>2, <1>5, <1>6, <2>1 DEF NoneShorter
<1>8. ASSUME NEW i \in 1..(n + 1), NEW d \in Debitors(frames'[i].balance) \ frames'[i].left
      PROVE  LET after == Apply(frames'[i].balance, Payment(frames'[i], d))
             IN  \/ solved' /\ Len(solution') <= i + FewestTransfers(after)
                 \/ Underway(i)' /\ after = Following(i)'
  <2>1. i # n + 1
    BY <1>3, <1>5
  <2>2. i \in 1..n /\ i < n + 1
    BY <1>2, <2>1
  <2> DEFINE after == Apply(frames[i].balance, Payment(frames[i], d))
  <2>3. AsGood(i, after) \/ (Underway(i) /\ after = Following(i))
    BY <1>5, <1>6, <2>2 DEF Tried
  <2>4. Underway(i)' /\ Following(i)' = Following(i)
    <3>1. Underway(i)'
      BY <1>5, <2>2 DEF Underway
    <3>2. Following(i)' = frames'[i + 1].balance
      BY <1>5, <2>2 DEF Following
    <3>3. CASE i < n
      <4>1. i + 1 \in 1..n
        BY <1>2, <2>2, <3>3
      <4>2. QED
        BY <1>5, <3>1, <3>2, <3>3, <4>1 DEF Following, n
    <3>4. CASE ~(i < n)
      <4>1. i = n
        BY <1>2, <2>2, <3>4
      <4>2. QED
        BY <1>3, <1>5, <3>1, <3>2, <3>4, <4>1 DEF Following, n
    <3>5. QED
      BY <3>3, <3>4
  <2>5. frames'[i] = frames[i]
    BY <1>5, <2>2
  <2>6. CASE AsGood(i, after)
    <3>1. solved /\ Len(solution) <= i + FewestTransfers(after)
      BY <2>6 DEF AsGood
    <3>2. solved' /\ Len(solution') <= i + FewestTransfers(Apply(frames'[i].balance, Payment(frames'[i], d)))
      BY <1>2, <2>5, <3>1
    <3>3. QED
      BY <3>2
  <2>7. CASE after = Following(i)
    <3>1. Apply(frames'[i].balance, Payment(frames'[i], d)) = Following(i)'
      BY <2>4, <2>5, <2>7
    <3>2. QED
      BY <2>4, <3>1
  <2>8. QED
    BY <2>3, <2>6, <2>7
<1>9. Tried'
  BY <1>2, <1>5, <1>8 DEF Tried, AsGood
<1>10. QED
  BY <1>7, <1>9 DEF FInv

LEMMA TryDebitorFInv == ASSUME Inv, SInv, FInv, TryDebitor PROVE FInv'
<1> SUFFICES ASSUME Balanced(owed) PROVE FInv'
  BY DEF FInv, TryDebitor
<1> DEFINE f == Last(frames)
           n == Len(frames)
<1>1. /\ control = "loop" /\ control' = "call" /\ owed' = owed /\ solved' = solved
      /\ solution' = solution
      /\ frames \in Seq(Frame) /\ transfers \in Seq(Transfer) /\ n \in Nat
  BY DEF TryDebitor, Inv, TypeOK
<1>2. /\ f \in Frame /\ n \in DOMAIN frames /\ f = frames[n] /\ n - 1 = Len(transfers)
      /\ f.balance \in [Persons -> Int] /\ f.creditor \in Persons
      /\ f.balance[f.creditor] > 0 /\ f.left \subseteq Debitors(f.balance)
  BY <1>1, Innermost
<1> HIDE DEF f
<1>3. PICK d \in f.left :
        /\ transfers' = Append(transfers, Payment(f, d))
        /\ balance' = Apply(f.balance, Payment(f, d))
        /\ frames' = Append(Front(frames), [f EXCEPT !.left = @ \ {d}])
  BY DEF TryDebitor, TransferTo, f, Payment
<1> DEFINE t == Payment(f, d)
           g == [f EXCEPT !.left = @ \ {d}]
           after == Apply(f.balance, t)
<1>4. d \in Persons /\ f.balance[d] < 0 /\ d # f.creditor
  BY <1>2 DEF Debitors
<1>5. t \in Transfer /\ after \in [Persons -> Int] /\ t.creditor # t.debitor
  BY <1>2, <1>4, OneTransfer DEF Payment
<1>6. /\ g \in Frame /\ g.balance = f.balance /\ g.creditor = f.creditor
      /\ g.left = f.left \ {d}
  BY <1>2 DEF Frame
<1>7. transfers' = Append(transfers, t) /\ balance' = after /\ frames' = Append(Front(frames), g)
  BY <1>3
<1> HIDE DEF t, g, after
<1>8. /\ Len(frames') = n /\ DOMAIN frames' = 1..n /\ DOMAIN frames = 1..n
      /\ frames'[n] = g /\ \A i \in 1..(n - 1) : frames'[i] = frames[i]
      /\ Len(transfers') = n
  <2>1. Front(frames) \in Seq(Frame) /\ Len(Front(frames)) = n - 1
        /\ \A i \in 1..(n - 1) : Front(frames)[i] = frames[i]
    BY <1>1, <1>2 DEF Front
  <2>2. /\ Len(frames') = n /\ DOMAIN frames' = 1..n /\ frames'[n] = g
        /\ \A i \in 1..(n - 1) : frames'[i] = frames[i]
    BY <1>1, <1>6, <1>7, <2>1
  <2>3. Len(transfers') = n
    BY <1>1, <1>2, <1>5, <1>7
  <2>4. QED
    BY <1>1, <2>2, <2>3
<1>9. NoneShorter /\ Tried
  BY DEF FInv
<1> HIDE DEF n
<1>10. /\ FewestTransfers(f.balance) <= 1 + FewestTransfers(after)
       /\ FewestTransfers(f.balance) \in Nat /\ FewestTransfers(after) \in Nat
       /\ FewestTransfers(owed) \in Nat
  <2>1. Balanced(f.balance) /\ owed \in [Persons -> Int]
    BY <1>2, CallsBalanced
  <2>2. QED
    BY <1>2, <1>5, <2>1, OneTransferCloser, BestGrouping DEF after
<1>11. NoneShorter'
  <2>1. FewestTransfers(owed) <= n - 1 + FewestTransfers(f.balance)
    BY <1>2, <1>8, <1>9 DEF NoneShorter
  <2>2. FewestTransfers(owed) <= Len(transfers') + FewestTransfers(balance')
    BY <1>1, <1>7, <1>8, <1>10, <2>1 DEF n
  <2>3. ASSUME NEW i \in 1..n
        PROVE  FewestTransfers(owed) <= i - 1 + FewestTransfers(frames'[i].balance)
    <3>1. frames'[i].balance = frames[i].balance
      <4>1. CASE i = n
        BY <1>2, <1>6, <1>8, <4>1
      <4>2. CASE i # n
        <5>1. i \in 1..(n - 1)
          BY <1>1, <4>2 DEF n
        <5>2. QED
          BY <1>8, <5>1
      <4>3. QED
        BY <4>1, <4>2
    <3>2. FewestTransfers(owed) <= i - 1 + FewestTransfers(frames[i].balance)
      BY <1>8, <1>9 DEF NoneShorter
    <3>3. QED
      BY <3>1, <3>2
  <2>4. QED
    BY <1>1, <1>8, <1>9, <2>2, <2>3 DEF NoneShorter
<1>12. ASSUME NEW i \in 1..n, NEW e \in Debitors(frames'[i].balance) \ frames'[i].left
       PROVE  LET a == Apply(frames'[i].balance, Payment(frames'[i], e))
              IN  \/ solved' /\ Len(solution') <= i + FewestTransfers(a)
                  \/ Underway(i)' /\ a = Following(i)'
  <2>1. Underway(i)'
    BY <1>1 DEF Underway
  <2>2. CASE i = n
    <3>1. Apply(frames'[i].balance, Payment(frames'[i], e)) = Apply(f.balance, Payment(f, e))
      BY <1>6, <1>8, <2>2 DEF Payment
    <3>2. CASE e = d
      <4>1. Following(i)' = after
        BY <1>1, <1>7, <1>8, <2>2 DEF Following, n
      <4>2. QED
        BY <2>1, <3>1, <3>2, <4>1 DEF after, t
    <3>3. CASE e # d
      <4>1. e \in Debitors(frames[n].balance) \ frames[n].left
        BY <1>2, <1>6, <1>8, <2>2, <3>3
      <4>2. ~Underway(n)
        BY <1>1 DEF Underway, n
      <4>3. AsGood(n, Apply(frames[n].balance, Payment(frames[n], e)))
        BY <1>2, <1>9, <4>1, <4>2 DEF Tried
      <4>4. solved /\ Len(solution) <= n + FewestTransfers(Apply(f.balance, Payment(f, e)))
        BY <1>2, <4>3 DEF AsGood
      <4>5. QED
        BY <1>1, <2>2, <3>1, <4>4
    <3>4. QED
      BY <3>2, <3>3
  <2>3. CASE i # n
    <3>1. i \in 1..(n - 1) /\ i < n /\ i + 1 \in 1..n
      BY <1>1, <2>3 DEF n
    <3>2. frames'[i] = frames[i] /\ i \in DOMAIN frames
      BY <1>8, <3>1
    <3>3. Following(i)' = Following(i)
      <4>1. frames'[i + 1].balance = frames[i + 1].balance
        <5>1. CASE i + 1 = n
          BY <1>2, <1>6, <1>8, <5>1
        <5>2. CASE i + 1 # n
          <6>1. i + 1 \in 1..(n - 1)
            BY <1>1, <3>1, <5>2 DEF n
          <6>2. QED
            BY <1>8, <6>1
        <5>3. QED
          BY <5>1, <5>2
      <4>2. QED
        BY <1>8, <3>1, <4>1 DEF Following, n
    <3> DEFINE a == Apply(frames[i].balance, Payment(frames[i], e))
    <3>4. AsGood(i, a) \/ (Underway(i) /\ a = Following(i))
      BY <1>9, <3>2 DEF Tried
    <3>5. CASE AsGood(i, a)
      <4>1. solved /\ Len(solution) <= i + FewestTransfers(a)
        BY <3>5 DEF AsGood
      <4>2. QED
        BY <1>1, <3>2, <4>1
    <3>6. CASE a = Following(i)
      BY <2>1, <3>2, <3>3, <3>6
    <3>7. QED
      BY <3>4, <3>5, <3>6
  <2>4. QED
    BY <2>2, <2>3
<1>13. Tried'
  BY <1>1, <1>8, <1>12 DEF Tried, AsGood
<1>14. QED
  BY <1>11, <1>13 DEF FInv

LEMMA NextFInv == Inv /\ SInv /\ FInv /\ [Next]_vars => FInv'
<1> SUFFICES ASSUME Inv, SInv, FInv, [Next]_vars PROVE FInv'
  OBVIOUS
<1>1. CASE FindSolution
  BY <1>1, FindSolutionFInv
<1>2. CASE Prune
  BY <1>2, PruneFInv
<1>3. CASE PickCreditor
  BY <1>3, PickCreditorFInv
<1>4. CASE TryDebitor
  BY <1>4, TryDebitorFInv
<1>5. CASE EndLoop
  BY <1>5, EndLoopFInv
<1>6. CASE UNCHANGED vars
  BY <1>6 DEF vars, FInv, NoneShorter, Tried, AsGood, Underway, Following
<1>7. QED
  BY <1>1, <1>2, <1>3, <1>4, <1>5, <1>6 DEF Next

\* FInv holds all along the search.  (get_transfers_helper.)
LEMMA FInvAlways == Spec => []FInv
  BY InitFInv, NextFInv, InvAlways, SInvAlways, PTL DEF Spec

\* In whatever order the search goes through its hash maps, it ends with as few
\* transfers as possible, for any finite set of persons and any balance that adds up.
\* (get_transfers.)
THEOREM SearchFindsFewest == Spec => []FindsFewestTransfers
<1>1. Inv /\ FInv => FindsFewestTransfers
  <2> SUFFICES ASSUME Inv, FInv, control = "done", Balanced(owed)
               PROVE  solved /\ Len(solution) = FewestTransfers(owed)
    BY DEF FindsFewestTransfers
  <2>1. solved /\ Len(solution) <= 0 + FewestTransfers(owed)
    BY DEF FInv, Tried, AsGood
  <2>2. FewestTransfers(owed) <= Len(solution)
    BY <2>1 DEF FInv, NoneShorter
  <2>3. Len(solution) \in Nat /\ FewestTransfers(owed) \in Nat
    BY OwedInt, BestGrouping DEF Inv, TypeOK
  <2>4. QED
    BY <2>1, <2>2, <2>3
<1>2. QED
  BY <1>1, InvAlways, FInvAlways, PTL

-------------------------------------------------------------------------------
(* FewestTransfers is what its name says.                                    *)

\* Whoever pays whom how much, also in ways the search does not consider: a list of
\* transfers that settles the balance has at least as many as FewestTransfers counts.
\* (get_transfers.)
THEOREM NoShorterListSettles ==
  ASSUME NEW b \in [Persons -> Int], Balanced(b), NEW ts \in Seq(Transfer),
         \A p \in Persons : Received(p, ts) = b[p]
  PROVE  FewestTransfers(b) <= Len(ts)
<1> DEFINE Settles(ts1, b1) == \A p \in Persons : Received(p, ts1) = b1[p]
           Lists(b1) == {u \in Seq(Transfer) : Settles(u, b1)}
           Short(b1) == {u \in Lists(b1) : ~(FewestTransfers(b1) <= Len(u))}
           Even == {b1 \in [Persons -> Int] : Balanced(b1)}
           L == {k \in Nat : \E b1 \in Even : \E u \in Short(b1) : k = Len(u)}
<1>1. SUFFICES ASSUME L # {} PROVE FALSE
  <2>1. SUFFICES ASSUME ~(FewestTransfers(b) <= Len(ts)) PROVE Len(ts) \in L
    BY <1>1
  <2>2. b \in Even /\ ts \in Short(b) /\ Len(ts) \in Nat
    BY <2>1
  <2>3. QED
    BY <2>2
<1>2. PICK k \in L : \A l \in L : k <= l
  <2>1. L \in SUBSET Nat
    OBVIOUS
  <2> HIDE DEF L
  <2>2. QED
    BY <1>1, <2>1, LeastElement
<1>3. PICK a \in Even : \E u \in Short(a) : k = Len(u)
  OBVIOUS
<1>4. PICK u \in Short(a) : k = Len(u)
  BY <1>3
<1>5. /\ a \in [Persons -> Int] /\ Balanced(a) /\ u \in Seq(Transfer) /\ Len(u) = k /\ k \in Nat
      /\ \A p \in Persons : Received(p, u) = a[p]
      /\ ~(FewestTransfers(a) <= k)
  BY <1>4
<1>6. ASSUME NEW c \in [Persons -> Int], Balanced(c), NEW w \in Seq(Transfer), Len(w) < k,
             \A p \in Persons : Received(p, w) = c[p]
      PROVE  FewestTransfers(c) <= Len(w)
  <2>1. SUFFICES ASSUME ~(FewestTransfers(c) <= Len(w)) PROVE FALSE
    OBVIOUS
  <2>2. c \in Even /\ w \in Short(c) /\ Len(w) \in Nat
    BY <1>6, <2>1
  <2>3. Len(w) \in L
    BY <2>2
  <2> HIDE DEF L
  <2>4. k <= Len(w)
    BY <1>2, <2>3
  <2>5. QED
    BY <1>5, <1>6, <2>2, <2>4
<1> HIDE DEF L, Short, Even
<1>7. CASE u = << >>
  <2>1. \A p \in Persons : a[p] = 0
    BY <1>5, <1>7, ReceivedByNone
  <2>2. Creditors(a) = {}
    BY <2>1 DEF Creditors
  <2>3. FewestTransfers(a) = 0
    BY <1>5, <2>2, NothingLeft
  <2>4. QED
    BY <1>5, <1>7, <2>3
<1>8. CASE u # << >>
  <2> DEFINE w == Front(u)
             t == Last(u)
             c == Apply(a, t)
  <2>1. /\ w \in Seq(Transfer) /\ t \in Transfer /\ u = Append(w, t) /\ Len(w) = k - 1
    BY <1>5, <1>8 DEF Front, Last
  <2> HIDE DEF w, t
  <2>2. \A p \in Persons : /\ Received(p, w) + Gain(p, t) = a[p]
                          /\ Received(p, w) \in Int /\ Gain(p, t) \in Int
    BY <1>5, <2>1, ReceivedByOneMore, ReceivedInt, GainInt
  <2>3. CASE t.creditor = t.debitor
    <3>1. \A p \in Persons : Gain(p, t) = 0
      <4>1. t.amount \in Int
        BY <2>1 DEF Transfer
      <4>2. QED
        BY <2>3, <4>1 DEF Gain
    <3>2. \A p \in Persons : Received(p, w) = a[p]
      BY <2>2, <3>1
    <3>3. FewestTransfers(a) <= Len(w)
      <4>1. Len(w) < k
        BY <1>5, <2>1
      <4>2. QED
        BY <1>5, <1>6, <2>1, <3>2, <4>1
    <3>4. FewestTransfers(a) \in Nat
      BY <1>5, BestGrouping
    <3>5. QED
      BY <1>5, <2>1, <3>3, <3>4
  <2>4. CASE t.creditor # t.debitor
    <3>1. c \in [Persons -> Int] /\ Balanced(c)
      <4>1. t.creditor \in Persons /\ t.debitor \in Persons /\ c \in [Persons -> Int]
        BY <1>5, <2>1, <2>4, ApplyMoves
      <4>2. QED
        BY <1>5, <2>1, <2>4, <4>1, TotalKept DEF Balanced
    <3>2. ASSUME NEW p \in Persons PROVE Received(p, w) = c[p]
      <4>1. /\ t.amount \in Int /\ a[p] \in Int
            /\ c[t.creditor] = a[t.creditor] - t.amount
            /\ c[t.debitor] = a[t.debitor] + t.amount
            /\ p # t.creditor /\ p # t.debitor => c[p] = a[p]
        <5>1. a \in [Persons -> Int]
          BY <1>5
        <5>2. t \in Transfer
          BY <2>1
        <5>3. /\ t.amount \in Nat \ {0}
              /\ c[t.creditor] = a[t.creditor] - t.amount
              /\ c[t.debitor] = a[t.debitor] + t.amount
              /\ p # t.creditor /\ p # t.debitor => c[p] = a[p]
          BY <2>4, <5>1, <5>2, ApplyMoves
        <5>4. t.amount \in Int /\ a[p] \in Int
          BY <5>1, <5>3
        <5>5. QED
          BY <5>3, <5>4
      <4> HIDE DEF c
      <4>2. c[p] = a[p] - Gain(p, t)
        BY <2>4, <4>1 DEF Gain
      <4>3. QED
        BY <2>2, <4>1, <4>2
    <3>3. FewestTransfers(c) <= k - 1
      <4> HIDE DEF c
      <4>1. Len(w) < k
        BY <1>5, <2>1
      <4>2. FewestTransfers(c) <= Len(w)
        BY <1>6, <2>1, <3>1, <3>2, <4>1
      <4>3. QED
        BY <2>1, <4>2
    <3>4. FewestTransfers(a) <= 1 + FewestTransfers(c)
      BY <1>5, <2>1, <2>4, OneTransferCloser
    <3>5. FewestTransfers(a) \in Nat /\ FewestTransfers(c) \in Nat
      BY <1>5, <3>1, BestGrouping
    <3> HIDE DEF c
    <3>6. QED
      BY <1>5, <3>3, <3>4, <3>5
  <2>5. QED
    BY <2>3, <2>4
<1>9. QED
  BY <1>7, <1>8

\* A list of transfers after which everybody has what they are owed.
SettlesOwed(ts) == \A p \in Persons : Received(p, ts) = owed[p]

\* The search ends with a list of transfers that settles the balance, and with none
\* that another list beats.
ShortestOfAll ==
  control = "done" /\ Balanced(owed) =>
    /\ solved
    /\ SettlesOwed(solution)
    /\ \A ts \in Seq(Transfer) : SettlesOwed(ts) => Len(solution) <= Len(ts)

\* For any finite set of persons and any balance that adds up, in whatever order the
\* hash maps are gone through, nobody can settle it with fewer transfers than the
\* search does: not with transfers of other amounts, nor through persons who were
\* settled, nor from somebody who is owed.  (get_transfers.)
THEOREM NothingBeatsTheSolution == Spec => []ShortestOfAll
<1>1. Inv /\ SolutionSettles /\ FindsFewestTransfers => ShortestOfAll
  <2> SUFFICES ASSUME Inv, SolutionSettles, FindsFewestTransfers, control = "done",
                      Balanced(owed)
               PROVE  /\ solved
                      /\ SettlesOwed(solution)
                      /\ \A ts \in Seq(Transfer) :
                           SettlesOwed(ts) => Len(solution) <= Len(ts)
    BY DEF ShortestOfAll
  <2>1. solved /\ Len(solution) = FewestTransfers(owed)
    BY DEF FindsFewestTransfers
  <2>2. SettlesOwed(solution)
    BY <2>1 DEF SolutionSettles, SettlesOwed
  <2>3. ASSUME NEW ts \in Seq(Transfer), SettlesOwed(ts)
        PROVE  Len(solution) <= Len(ts)
    <3>1. owed \in [Persons -> Int]
      BY OwedInt DEF Inv, TypeOK
    <3>2. FewestTransfers(owed) <= Len(ts)
      BY <2>3, <3>1, NoShorterListSettles DEF SettlesOwed
    <3>3. QED
      BY <2>1, <3>2
  <2>4. QED
    BY <2>1, <2>2, <2>3
<1>2. QED
  BY <1>1, InvAlways, SolutionsSettle, SearchFindsFewest, PTL

-------------------------------------------------------------------------------
(* The balance: what the log and the transactions of a device satisfy.       *)

Tx == [uuid : Nat, amount : Nat, payedBy : Members, payedFor : Members,
       replaces : Nat, deleted : BOOLEAN]

\* What txs[i] replaces is an earlier transaction that is no deletion.
ReplacesEarlier(txs, i) ==
  \E k \in DOMAIN txs :
    k < i /\ txs[k].uuid = txs[i].replaces /\ ~txs[k].deleted

\* Uuids are distinct and less than n, and only the transactions in lost may
\* replace something that is not there.
IsHistory(txs, lost, n) ==
  /\ txs \in Seq(Tx)
  /\ \A i \in DOMAIN txs :
       /\ txs[i].uuid # NoId /\ txs[i].uuid < n
       /\ \A j \in DOMAIN txs : txs[i].uuid = txs[j].uuid => i = j
       /\ txs[i].deleted => txs[i].replaces # NoId
       /\ txs[i].replaces # NoId /\ txs[i].uuid \notin lost => ReplacesEarlier(txs, i)

LogInv ==
  /\ nextId \in Nat \ {NoId}
  /\ seen \in [Devices -> Nat]
  /\ own \in [Devices -> Seq(Tx)]
  /\ IsHistory(log, orphans, nextId)
  /\ \A d \in Devices : seen[d] <= Len(log) /\ IsHistory(Chain(d), orphans, nextId)

LEMMA SecondHalf ==
  ASSUME NEW S, NEW a \in Seq(S), NEW b \in Seq(S)
  PROVE  \A i \in 1..Len(b) : (a \o b)[Len(a) + i] = b[i]
<1>1. \A i \in 1..Len(b) : Len(a) + i \in 1..(Len(a) + Len(b)) /\ Len(a) + i > Len(a)
                           /\ Len(a) + i - Len(a) = i
  OBVIOUS
<1>2. QED
  BY <1>1

LEMMA BalanceInitInv == BalanceInit => LogInv
<1> SUFFICES ASSUME BalanceInit PROVE LogInv
  OBVIOUS
<1>1. log = << >> /\ nextId = 1 /\ \A d \in Devices : seen[d] = 0 /\ own[d] = << >>
  BY DEF BalanceInit
<1>2. \A d \in Devices : Chain(d) = << >>
  BY <1>1 DEF Chain
<1>3. IsHistory(<< >>, orphans, nextId)
  BY DEF IsHistory
<1>4. own \in [Devices -> Seq(Tx)] /\ seen \in [Devices -> Nat]
  BY DEF BalanceInit
<1>5. QED
  BY <1>1, <1>2, <1>3, <1>4 DEF LogInv, NoId

LEMMA HistoryTyped ==
  ASSUME NEW txs, NEW lost, NEW n, IsHistory(txs, lost, n)
  PROVE  /\ txs \in Seq(Tx) /\ Len(txs) \in Nat /\ DOMAIN txs = 1..Len(txs)
         /\ \A i \in 1..Len(txs) :
              txs[i].uuid \in Nat /\ txs[i].uuid # NoId /\ txs[i].uuid < n
<1>1. txs \in Seq(Tx)
  BY DEF IsHistory
<1>2. Len(txs) \in Nat /\ DOMAIN txs = 1..Len(txs) /\ \A i \in 1..Len(txs) : txs[i] \in Tx
  BY <1>1
<1>3. \A i \in 1..Len(txs) : txs[i].uuid \in Nat
  BY <1>2 DEF Tx
<1>4. \A i \in DOMAIN txs : txs[i].uuid # NoId /\ txs[i].uuid < n
  BY DEF IsHistory
<1>5. QED
  BY <1>1, <1>2, <1>3, <1>4

LEMMA HistoryStays ==
  ASSUME NEW txs, NEW lost, NEW n \in Nat, IsHistory(txs, lost, n),
         NEW more, lost \subseteq more, NEW m \in Nat, n <= m
  PROVE  IsHistory(txs, more, m)
<1>1. \A i \in DOMAIN txs : txs[i].uuid \in Nat
  BY HistoryTyped
<1>2. QED
  BY <1>1 DEF IsHistory

\* One more transaction that is well formed.
LEMMA HistoryGrows ==
  ASSUME NEW txs, NEW lost, NEW n \in Nat \ {NoId}, IsHistory(txs, lost, n),
         NEW tx \in Tx, tx.uuid = n,
         tx.deleted => tx.replaces # NoId,
         tx.replaces # NoId =>
           \E k \in DOMAIN txs : txs[k].uuid = tx.replaces /\ ~txs[k].deleted
  PROVE  IsHistory(Append(txs, tx), lost, n + 1)
<1> DEFINE l == Len(txs)
           all == Append(txs, tx)
<1>1. txs \in Seq(Tx) /\ l \in Nat /\ DOMAIN txs = 1..l
  BY DEF IsHistory
<1>2. /\ all \in Seq(Tx) /\ DOMAIN all = 1..(l + 1)
      /\ all[l + 1] = tx /\ \A i \in 1..l : all[i] = txs[i]
  BY <1>1
<1>3. \A i \in 1..l : txs[i].uuid \in Nat /\ txs[i].uuid # NoId /\ txs[i].uuid < n
  BY HistoryTyped
<1> HIDE DEF all, l
<1>4. ASSUME NEW i \in 1..(l + 1)
      PROVE  /\ all[i].uuid # NoId /\ all[i].uuid < n + 1
             /\ \A j \in 1..(l + 1) : all[i].uuid = all[j].uuid => i = j
             /\ all[i].deleted => all[i].replaces # NoId
             /\ all[i].replaces # NoId /\ all[i].uuid \notin lost => ReplacesEarlier(all, i)
  <2>1. CASE i \in 1..l
    <3>1. all[i].uuid # NoId /\ all[i].uuid < n + 1
      BY <1>2, <1>3, <2>1
    <3>2. \A j \in 1..(l + 1) : all[i].uuid = all[j].uuid => i = j
      <4>1. TAKE j \in 1..(l + 1)
      <4>2. CASE j \in 1..l
        BY <1>1, <1>2, <2>1, <4>2 DEF IsHistory
      <4>3. CASE j = l + 1
        BY <1>2, <1>3, <2>1, <4>3
      <4>4. QED
        BY <1>1, <4>2, <4>3
    <3>3. all[i].deleted => all[i].replaces # NoId
      BY <1>1, <1>2, <2>1 DEF IsHistory
    <3>4. ASSUME all[i].replaces # NoId, all[i].uuid \notin lost PROVE ReplacesEarlier(all, i)
      <4>1. ReplacesEarlier(txs, i)
        BY <1>1, <1>2, <2>1, <3>4 DEF IsHistory
      <4>2. PICK k \in 1..l : k < i /\ txs[k].uuid = txs[i].replaces /\ ~txs[k].deleted
        BY <1>1, <4>1 DEF ReplacesEarlier
      <4>3. k \in DOMAIN all /\ all[k] = txs[k] /\ all[i] = txs[i]
        BY <1>1, <1>2, <2>1, <4>2
      <4>4. QED
        BY <4>2, <4>3 DEF ReplacesEarlier
    <3>5. QED
      BY <3>1, <3>2, <3>3, <3>4
  <2>2. CASE i = l + 1
    <3>1. all[i] = tx
      BY <1>2, <2>2
    <3>2. \A j \in 1..(l + 1) : all[i].uuid = all[j].uuid => i = j
      BY <1>1, <1>2, <1>3, <2>2
    <3>3. ASSUME tx.replaces # NoId PROVE ReplacesEarlier(all, i)
      <4>1. PICK k \in 1..l : txs[k].uuid = tx.replaces /\ ~txs[k].deleted
        BY <1>1, <3>3
      <4>2. k \in DOMAIN all /\ all[k] = txs[k] /\ k < i
        BY <1>1, <1>2, <2>2, <4>1
      <4>3. QED
        BY <3>1, <4>1, <4>2 DEF ReplacesEarlier
    <3>4. QED
      BY <3>1, <3>2, <3>3 DEF NoId
  <2>3. QED
    BY <1>1, <2>1, <2>2
<1>5. QED
  BY <1>2, <1>4 DEF IsHistory, all

\* r has the transactions of o with uuids from n on.
IsRenamed(o, r, n) ==
  /\ r \in Seq(Tx) /\ Len(r) = Len(o)
  /\ \A i \in 1..Len(o) : /\ r[i].uuid = n + i - 1
                          /\ r[i].replaces = o[i].replaces
                          /\ r[i].deleted = o[i].deleted

\* more has what is in lost, and the new uuids of what is orphaned.
HasOrphans(o, r, lost, more) ==
  /\ lost \subseteq more
  /\ \A i \in DOMAIN o :
       o[i].replaces \in Uuids(o) \/ o[i].uuid \in lost => r[i].uuid \in more

LEMMA RebasedIsRenamed ==
  ASSUME NEW o \in Seq(Tx), nextId \in Nat
  PROVE  IsRenamed(o, Rebased(o), nextId)
<1> DEFINE r == Rebased(o)
<1>1. /\ Len(o) \in Nat /\ DOMAIN o = 1..Len(o)
      /\ \A i \in 1..Len(o) : o[i] \in Tx /\ nextId + i - 1 \in Nat
  OBVIOUS
<1>2. DOMAIN r = 1..Len(o)
      /\ \A i \in 1..Len(o) : r[i] = [o[i] EXCEPT !.uuid = nextId + i - 1]
  BY <1>1 DEF Rebased
<1>3. r = [i \in 1..Len(o) |-> r[i]]
  BY <1>1 DEF Rebased
<1> HIDE DEF r
<1>4. \A i \in 1..Len(o) : /\ r[i] \in Tx
                           /\ r[i].uuid = nextId + i - 1
                           /\ r[i].replaces = o[i].replaces
                           /\ r[i].deleted = o[i].deleted
  BY <1>1, <1>2 DEF Tx
<1>5. r \in Seq(Tx) /\ Len(r) = Len(o)
  BY <1>1, <1>3, <1>4
<1>6. QED
  BY <1>4, <1>5 DEF IsRenamed, r

\* What a rebase puts on top of the log.
LEMMA HistoryRebased ==
  ASSUME NEW n \in Nat \ {NoId}, NEW lost, NEW base, IsHistory(base, lost, n),
         NEW s \in Nat, s <= Len(base), NEW o \in Seq(Tx),
         IsHistory(SubSeq(base, 1, s) \o o, lost, n),
         NEW r, IsRenamed(o, r, n),
         NEW more, HasOrphans(o, r, lost, more)
  PROVE  IsHistory(base \o r, more, n + Len(o))
<1> DEFINE l == Len(base)
           k == Len(o)
           old == SubSeq(base, 1, s) \o o
           new == base \o r
<1>1. base \in Seq(Tx) /\ l \in Nat /\ k \in Nat /\ DOMAIN base = 1..l /\ DOMAIN o = 1..k
  BY DEF IsHistory
<1>2. r \in Seq(Tx) /\ Len(r) = k
  BY DEF IsRenamed
<1>3. \A i \in 1..k : /\ r[i].uuid = n + i - 1 /\ r[i].replaces = o[i].replaces
                      /\ r[i].deleted = o[i].deleted
  BY DEF IsRenamed
<1>4. /\ DOMAIN old = 1..(s + k)
      /\ \A i \in 1..s : old[i] = base[i]
      /\ \A i \in 1..k : old[s + i] = o[i]
  BY <1>1
<1>5. /\ new \in Seq(Tx) /\ DOMAIN new = 1..(l + k)
      /\ \A i \in 1..l : new[i] = base[i]
      /\ \A i \in 1..k : new[l + i] = r[i]
  <2>1. /\ k \in Nat /\ Len(r) = k /\ r \in Seq(Tx)
        /\ base \in Seq(Tx) /\ l \in Nat /\ Len(base) = l
    BY <1>1, <1>2
  <2> HIDE DEF k, l
  <2>2. new \in Seq(Tx) /\ Len(new) = l + k
    BY <2>1
  <2>3. DOMAIN new = 1..(l + k)
    BY <2>2
  <2>4. \A i \in 1..l : new[i] = base[i]
    BY <2>1
  <2>5. \A i \in 1..k : new[l + i] = r[i]
    <3>1. \A i \in 1..Len(r) : (base \o r)[Len(base) + i] = r[i]
      BY <2>1, SecondHalf, Zenon
    <3>2. QED
      BY <2>1, <3>1, Zenon
  <2>6. QED
    BY <2>2, <2>3, <2>4, <2>5
<1>6. \A i \in 1..l : base[i].uuid \in Nat /\ base[i].uuid # NoId /\ base[i].uuid < n
  BY HistoryTyped
<1>7. \A i \in 1..(l + k) : i \in 1..l \/ \E j \in 1..k : i = l + j
  <2>1. TAKE i \in 1..(l + k)
  <2>2. CASE i > l
    <3>1. i - l \in 1..k /\ i = l + (i - l)
      BY <1>1, <2>2
    <3>2. QED
      BY <3>1
  <2>3. QED
    BY <1>1, <2>2
<1> HIDE DEF old, new, l, k
<1>8. ASSUME NEW i \in 1..(l + k)
      PROVE  /\ new[i].uuid # NoId /\ new[i].uuid < n + k
             /\ \A j \in 1..(l + k) : new[i].uuid = new[j].uuid => i = j
             /\ new[i].deleted => new[i].replaces # NoId
             /\ new[i].replaces # NoId /\ new[i].uuid \notin more => ReplacesEarlier(new, i)
  <2>1. CASE i \in 1..l
    <3>1. new[i] = base[i] /\ new[i].uuid \in Nat /\ new[i].uuid # NoId /\ new[i].uuid < n
      BY <1>5, <1>6, <2>1
    <3>2. \A j \in 1..(l + k) : new[i].uuid = new[j].uuid => i = j
      <4>1. ASSUME NEW j \in 1..l, new[i].uuid = new[j].uuid PROVE i = j
        BY <1>1, <1>5, <2>1, <4>1 DEF IsHistory
      <4>2. ASSUME NEW j \in 1..k PROVE new[i].uuid # new[l + j].uuid
        <5>1. new[l + j].uuid = n + j - 1
          BY <1>3, <1>5
        <5>2. QED
          BY <3>1, <5>1
      <4>3. QED
        BY <1>7, <4>1, <4>2
    <3>3. new[i].deleted => new[i].replaces # NoId
      BY <1>1, <2>1, <3>1 DEF IsHistory
    <3>4. ASSUME new[i].replaces # NoId, new[i].uuid \notin more PROVE ReplacesEarlier(new, i)
      <4>1. ReplacesEarlier(base, i)
        BY <1>1, <2>1, <3>1, <3>4 DEF IsHistory, HasOrphans
      <4>2. PICK j \in 1..l : j < i /\ base[j].uuid = base[i].replaces /\ ~base[j].deleted
        BY <1>1, <4>1 DEF ReplacesEarlier
      <4>3. j \in DOMAIN new /\ new[j] = base[j]
        BY <1>1, <1>5, <4>2
      <4>4. QED
        BY <3>1, <4>2, <4>3 DEF ReplacesEarlier
    <3>5. QED
      BY <1>1, <3>1, <3>2, <3>3, <3>4, n + k \in Nat
  <2>2. ASSUME NEW p \in 1..k, i = l + p
        PROVE  /\ new[i].uuid # NoId /\ new[i].uuid < n + k
               /\ \A j \in 1..(l + k) : new[i].uuid = new[j].uuid => i = j
               /\ new[i].deleted => new[i].replaces # NoId
               /\ new[i].replaces # NoId /\ new[i].uuid \notin more => ReplacesEarlier(new, i)
    <3>1. /\ new[i] = r[p] /\ new[i].uuid = n + p - 1 /\ new[i].replaces = o[p].replaces
          /\ new[i].deleted = o[p].deleted
      BY <1>3, <1>5, <2>2
    <3>2. new[i].uuid # NoId /\ new[i].uuid < n + k
      BY <1>1, <3>1 DEF NoId
    <3>3. \A j \in 1..(l + k) : new[i].uuid = new[j].uuid => i = j
      <4>1. ASSUME NEW j \in 1..l PROVE new[i].uuid # new[j].uuid
        BY <1>5, <1>6, <3>1
      <4>2. ASSUME NEW j \in 1..k, new[i].uuid = new[l + j].uuid PROVE i = l + j
        <5>1. new[l + j].uuid = n + j - 1
          BY <1>3, <1>5
        <5>2. n + p - 1 = n + j - 1
          BY <3>1, <4>2, <5>1
        <5>3. p = j
          BY <5>2
        <5>4. QED
          BY <2>2, <5>3
      <4>3. QED
        BY <1>7, <4>1, <4>2
    <3>4. s + p \in 1..(s + k) /\ old[s + p] = o[p]
      BY <1>1, <1>4
    <3>5. new[i].deleted => new[i].replaces # NoId
      <4>1. \A q \in DOMAIN old : old[q].deleted => old[q].replaces # NoId
        BY DEF IsHistory, old
      <4>2. o[p].deleted => o[p].replaces # NoId
        BY <1>4, <3>4, <4>1
      <4>3. QED
        BY <3>1, <4>2
    <3>6. ASSUME new[i].replaces # NoId, new[i].uuid \notin more PROVE ReplacesEarlier(new, i)
      <4>1. o[p].replaces \notin Uuids(o) /\ o[p].uuid \notin lost
        BY <1>1, <3>1, <3>6 DEF k, HasOrphans
      <4>2. ReplacesEarlier(old, s + p)
        BY <1>4, <3>1, <3>4, <3>6, <4>1 DEF IsHistory, old
      <4>3. PICK j \in 1..(s + k) : old[j].uuid = o[p].replaces /\ ~old[j].deleted
        BY <1>4, <3>4, <4>2 DEF ReplacesEarlier
      <4>4. j \in 1..s
        <5>1. SUFFICES ASSUME j \notin 1..s PROVE FALSE
          OBVIOUS
        <5>2. j - s \in 1..k /\ j = s + (j - s)
          BY <1>1, <5>1
        <5>3. old[j] = o[j - s] /\ j - s \in DOMAIN o
          BY <1>1, <1>4, <5>2 DEF k
        <5>4. o[p].replaces \in Uuids(o)
          BY <4>3, <5>3 DEF Uuids
        <5>5. QED
          BY <4>1, <5>4
      <4>5. j \in 1..l /\ j < i
        BY <1>1, <2>2, <4>4 DEF l
      <4>6. j \in DOMAIN new /\ new[j] = old[j]
        BY <1>1, <1>4, <1>5, <4>4, <4>5
      <4>7. QED
        BY <3>1, <4>3, <4>5, <4>6 DEF ReplacesEarlier
    <3>7. QED
      BY <3>2, <3>3, <3>5, <3>6
  <2>3. QED
    BY <1>7, <2>1, <2>2
<1>9. QED
  BY <1>5, <1>8 DEF IsHistory, new, k

\* A device has recorded a transaction that is well formed.
LEMMA RecordInv ==
  ASSUME LogInv, NEW d \in Devices, NEW e, NEW replaces \in Nat, NEW deleted \in BOOLEAN,
         Record(d, e, replaces, deleted),
         e.amount \in Nat, e.payedBy \in Members, e.payedFor \in Members,
         deleted => replaces # NoId,
         replaces # NoId =>
           \E k \in DOMAIN Chain(d) :
             Chain(d)[k].uuid = replaces /\ ~Chain(d)[k].deleted
  PROVE  LogInv'
<1> DEFINE tx == [uuid |-> nextId, amount |-> e.amount, payedBy |-> e.payedBy,
                  payedFor |-> e.payedFor, replaces |-> replaces, deleted |-> deleted]
<1>1. /\ own' = [own EXCEPT ![d] = Append(@, tx)] /\ nextId' = nextId + 1
      /\ UNCHANGED <<log, seen, orphans>>
  BY DEF Record
<1>2. tx \in Tx /\ tx.uuid = nextId /\ tx.replaces = replaces /\ tx.deleted = deleted
  BY DEF Tx, LogInv
<1> HIDE DEF tx
<1>3. own \in [Devices -> Seq(Tx)] /\ seen \in [Devices -> Nat] /\ nextId \in Nat \ {NoId}
  BY DEF LogInv
<1>4. own' \in [Devices -> Seq(Tx)] /\ nextId' \in Nat \ {NoId}
  BY <1>1, <1>2, <1>3 DEF NoId
<1>5. IsHistory(log', orphans', nextId')
  <2>1. nextId' \in Nat /\ nextId \in Nat /\ nextId <= nextId'
    BY <1>1, <1>3
  <2>2. QED
    BY <1>1, <2>1, HistoryStays DEF LogInv
<1>6. IsHistory(Chain(d)', orphans', nextId')
  <2>1. IsHistory(Append(Chain(d), tx), orphans, nextId + 1)
    BY <1>2, <1>3, HistoryGrows DEF LogInv
  <2>2. Chain(d)' = SubSeq(log, 1, seen[d]) \o Append(own[d], tx)
    BY <1>1, <1>3 DEF Chain
  <2>3. log \in Seq(Tx) /\ own[d] \in Seq(Tx) /\ seen[d] \in Nat /\ seen[d] <= Len(log)
    BY <1>3 DEF LogInv, IsHistory
  <2>4. SubSeq(log, 1, seen[d]) \o Append(own[d], tx) = Append(Chain(d), tx)
    <3> DEFINE p == SubSeq(log, 1, seen[d])
               o == own[d]
    <3>1. p \in Seq(Tx) /\ o \in Seq(Tx)
      BY <2>3
    <3>2. p \o Append(o, tx) = Append(p \o o, tx)
      <4> HIDE DEF p, o
      <4> QED
        BY <1>2, <3>1
    <3>3. QED
      BY <3>2 DEF Chain
  <2>5. QED
    BY <1>1, <2>1, <2>2, <2>4
<1>7. ASSUME NEW x \in Devices, x # d PROVE IsHistory(Chain(x)', orphans', nextId')
  <2>1. Chain(x)' = Chain(x)
    BY <1>1, <1>3, <1>7 DEF Chain
  <2>2. nextId' \in Nat /\ nextId \in Nat /\ nextId <= nextId'
    BY <1>1, <1>3
  <2>3. QED
    BY <1>1, <2>1, <2>2, HistoryStays DEF LogInv
<1>8. QED
  BY <1>1, <1>3, <1>4, <1>5, <1>6, <1>7 DEF LogInv

\* What a device can tap on is among its transactions, and no deletion.
LEMMA EditableIsLive ==
  ASSUME LogInv, NEW d \in Devices, NEW old \in Editable(d)
  PROVE  /\ old \in Tx /\ old.uuid # NoId
         /\ \E k \in DOMAIN Chain(d) : Chain(d)[k].uuid = old.uuid /\ ~Chain(d)[k].deleted
<1>1. PICK k \in DOMAIN Chain(d) : old = Chain(d)[k] /\ ~Chain(d)[k].deleted
  BY DEF Editable, Shown
<1>2. Chain(d) \in Seq(Tx) /\ Chain(d)[k].uuid # NoId
  BY DEF LogInv, IsHistory
<1>3. QED
  BY <1>1, <1>2

\* What a fetch leaves on top of the log is well formed.
LEMMA FetchInv ==
  ASSUME LogInv, NEW d \in Devices, Synchronize(d),
         NEW news, news = SubSeq(log, seen[d] + 1, Len(log)),
         NEW fetched, fetched = IF news = << >> THEN own[d] ELSE Rebased(own[d])
  PROVE  /\ fetched \in Seq(Tx) /\ IsHistory(log \o fetched, orphans', nextId')
         /\ nextId' \in Nat /\ nextId <= nextId' /\ orphans \subseteq orphans'
<1>1. /\ nextId \in Nat \ {NoId} /\ log \in Seq(Tx) /\ own[d] \in Seq(Tx)
      /\ seen[d] \in Nat /\ seen[d] <= Len(log)
      /\ IsHistory(log, orphans, nextId) /\ IsHistory(Chain(d), orphans, nextId)
  BY DEF LogInv, IsHistory
<1>2. CASE news = << >>
  <2>1. UNCHANGED <<nextId, orphans>> /\ fetched = own[d]
    BY <1>2 DEF Synchronize
  <2>2. SubSeq(log, 1, seen[d]) = log
    <3>1. seen[d] = Len(log)
      BY <1>1, <1>2
    <3>2. QED
      BY <1>1, <3>1
  <2>3. Chain(d) = log \o fetched
    BY <2>1, <2>2 DEF Chain
  <2> HIDE DEF Chain
  <2>4. IsHistory(log \o fetched, orphans', nextId')
    BY <1>1, <2>1, <2>3
  <2>5. QED
    BY <1>1, <2>1, <2>4
<1>3. CASE news # << >>
  <2>1. /\ nextId' = nextId + Len(own[d]) /\ orphans' = orphans \cup Orphaned(own[d])
        /\ fetched = Rebased(own[d])
    BY <1>3 DEF Synchronize
  <2>2. IsRenamed(own[d], fetched, nextId)
    BY <1>1, <2>1, RebasedIsRenamed
  <2>3. HasOrphans(own[d], fetched, orphans, orphans')
    BY <2>1 DEF Orphaned, HasOrphans
  <2>4. IsHistory(SubSeq(log, 1, seen[d]) \o own[d], orphans, nextId)
    BY <1>1 DEF Chain
  <2>5. IsHistory(log \o fetched, orphans', nextId + Len(own[d]))
    BY <1>1, <2>2, <2>3, <2>4, HistoryRebased
  <2>6. nextId' \in Nat /\ nextId <= nextId'
    BY <1>1, <2>1
  <2>7. fetched \in Seq(Tx)
    BY <2>2 DEF IsRenamed
  <2>8. QED
    BY <2>1, <2>5, <2>6, <2>7
<1>4. QED
  BY <1>2, <1>3

LEMMA SynchronizeInv ==
  ASSUME LogInv, NEW d \in Devices, Synchronize(d)
  PROVE  LogInv'
<1> DEFINE news == SubSeq(log, seen[d] + 1, Len(log))
           fetched == IF news = << >> THEN own[d] ELSE Rebased(own[d])
           all == log \o fetched
<1>1. PICK pushed \in BOOLEAN, answered \in BOOLEAN :
        /\ log' = IF pushed THEN all ELSE log
        /\ seen' = [seen EXCEPT ![d] = IF answered THEN Len(log') ELSE Len(log)]
        /\ own' = [own EXCEPT ![d] = IF pushed /\ answered THEN << >> ELSE fetched]
  BY DEF Synchronize
<1>2. /\ fetched \in Seq(Tx) /\ IsHistory(all, orphans', nextId')
      /\ nextId' \in Nat /\ nextId <= nextId' /\ orphans \subseteq orphans'
  BY FetchInv
<1> HIDE DEF fetched
<1>3. /\ nextId \in Nat \ {NoId} /\ log \in Seq(Tx)
      /\ own \in [Devices -> Seq(Tx)] /\ seen \in [Devices -> Nat]
      /\ \A x \in Devices : seen[x] <= Len(log) /\ IsHistory(Chain(x), orphans, nextId)
      /\ IsHistory(log, orphans, nextId)
  BY DEF LogInv, IsHistory
<1>4. /\ all \in Seq(Tx) /\ Len(all) = Len(log) + Len(fetched) /\ Len(log) \in Nat
      /\ Len(fetched) \in Nat
      /\ SubSeq(all, 1, Len(log)) = log /\ SubSeq(all, 1, Len(all)) = all
      /\ SubSeq(log, 1, Len(log)) = log /\ all \o << >> = all
  BY <1>2, <1>3
<1>5. ASSUME NEW k \in Nat, k <= Len(log) PROVE SubSeq(all, 1, k) = SubSeq(log, 1, k)
  BY <1>2, <1>3, <1>5
<1>6. IsHistory(log, orphans', nextId')
  BY <1>2, <1>3, HistoryStays
<1> HIDE DEF all
<1>7. Chain(d)' = all
  <2>1. seen'[d] = IF answered THEN Len(log') ELSE Len(log)
    BY <1>1, <1>3
  <2>2. own'[d] = IF pushed /\ answered THEN << >> ELSE fetched
    BY <1>1, <1>3
  <2>3. Chain(d)' = SubSeq(log', 1, seen'[d]) \o own'[d]
    BY DEF Chain
  <2>4. CASE pushed /\ answered
    BY <1>1, <1>4, <2>1, <2>2, <2>3, <2>4
  <2>5. CASE pushed /\ ~answered
    BY <1>1, <1>4, <2>1, <2>2, <2>3, <2>5 DEF all
  <2>6. CASE ~pushed
    BY <1>1, <1>4, <2>1, <2>2, <2>3, <2>6 DEF all
  <2>7. QED
    BY <2>4, <2>5, <2>6
<1>8. ASSUME NEW x \in Devices, x # d PROVE IsHistory(Chain(x)', orphans', nextId')
  <2>1. seen'[x] = seen[x] /\ own'[x] = own[x]
    BY <1>1, <1>3, <1>8
  <2>2. SubSeq(log', 1, seen[x]) = SubSeq(log, 1, seen[x])
    BY <1>1, <1>3, <1>5
  <2>3. Chain(x)' = Chain(x)
    BY <2>1, <2>2 DEF Chain
  <2>4. QED
    BY <1>2, <1>3, <2>3, HistoryStays
<1>9. \A x \in Devices : seen'[x] <= Len(log')
  BY <1>1, <1>3, <1>4
<1>10. own' \in [Devices -> Seq(Tx)] /\ seen' \in [Devices -> Nat]
  <2>1. << >> \in Seq(Tx) /\ Len(log') \in Nat
    BY <1>1, <1>4
  <2>2. QED
    BY <1>1, <1>2, <1>3, <1>4, <2>1
<1>11. nextId' \in Nat \ {NoId}
  BY <1>2, <1>3 DEF NoId
<1>12. IsHistory(log', orphans', nextId')
  BY <1>1, <1>2, <1>6
<1>13. QED
  BY <1>2, <1>7, <1>8, <1>9, <1>10, <1>11, <1>12 DEF LogInv

LEMMA BalanceNextInv == LogInv /\ [BalanceNext]_balanceVars => LogInv'
<1> SUFFICES ASSUME LogInv, [BalanceNext]_balanceVars PROVE LogInv'
  OBVIOUS
<1>1. CASE UNCHANGED balanceVars
  BY <1>1 DEF balanceVars, LogInv, Chain
<1>2. ASSUME NEW e \in Expenses
      PROVE  e.amount \in Nat /\ e.payedBy \in Members /\ e.payedFor \in Members
  BY ConstantsAssumption
<1>3. ASSUME NEW d \in Devices, RecordExpense(d) PROVE LogInv'
  <2>1. PICK e \in Expenses : Record(d, e, NoId, FALSE)
    BY <1>3 DEF RecordExpense
  <2>2. NoId \in Nat
    BY DEF NoId
  <2>3. QED
    BY <1>2, <2>1, <2>2, RecordInv
<1>4. ASSUME NEW d \in Devices, EditTransaction(d) PROVE LogInv'
  <2>1. PICK e \in Expenses, old \in Editable(d) : Record(d, e, old.uuid, FALSE)
    BY <1>4 DEF EditTransaction
  <2>2. /\ old \in Tx /\ old.uuid # NoId
        /\ \E k \in DOMAIN Chain(d) : Chain(d)[k].uuid = old.uuid /\ ~Chain(d)[k].deleted
    BY EditableIsLive
  <2>3. old.uuid \in Nat
    BY <2>2 DEF Tx
  <2>4. QED
    BY <1>2, <2>1, <2>2, <2>3, RecordInv
<1>5. ASSUME NEW d \in Devices, DeleteTransaction(d) PROVE LogInv'
  <2>1. PICK old \in Editable(d) : Record(d, old, old.uuid, TRUE)
    BY <1>5 DEF DeleteTransaction
  <2>2. /\ old \in Tx /\ old.uuid # NoId
        /\ \E k \in DOMAIN Chain(d) : Chain(d)[k].uuid = old.uuid /\ ~Chain(d)[k].deleted
    BY EditableIsLive
  <2>3. /\ old.uuid \in Nat /\ old.amount \in Nat
        /\ old.payedBy \in Members /\ old.payedFor \in Members
    BY <2>2 DEF Tx
  <2>4. QED
    BY <2>1, <2>2, <2>3, RecordInv
<1>6. ASSUME NEW d \in Devices, Synchronize(d) PROVE LogInv'
  BY <1>6, SynchronizeInv
<1>7. QED
  BY <1>1, <1>3, <1>4, <1>5, <1>6 DEF BalanceNext

LEMMA LogInvAlways == BalanceSpec => []LogInv
  BY BalanceInitInv, BalanceNextInv, PTL DEF BalanceSpec

-------------------------------------------------------------------------------
(* What one transaction does to a balance.                                   *)

\* A history in which everything that is replaced is there.
Sourced(txs) == \E n : IsHistory(txs, {}, n)

\* Where what txs[i] replaces is.
Original(txs, i) == Place(txs, txs[i].replaces)

Credit(t, m) ==
  (IF t.payedBy = m THEN t.amount ELSE 0) - (IF t.payedFor = m THEN t.amount ELSE 0)

Added(txs, i, m) == IF txs[i].deleted THEN 0 ELSE Credit(txs[i], m)

TakenBack(txs, i, m) ==
  IF txs[i].replaces = NoId THEN 0 ELSE Credit(txs[Original(txs, i)], m)

LEMMA SourcedTyped ==
  ASSUME NEW txs, Sourced(txs)
  PROVE  /\ txs \in Seq(Tx) /\ DOMAIN txs = 1..Len(txs) /\ Len(txs) \in Nat
         /\ \A i, j \in DOMAIN txs : txs[i].uuid = txs[j].uuid => i = j
         /\ \A i \in DOMAIN txs : /\ txs[i] \in Tx /\ txs[i].uuid # NoId
                                  /\ txs[i].deleted => txs[i].replaces # NoId
                                  /\ txs[i].replaces # NoId => ReplacesEarlier(txs, i)
  BY DEF Sourced, IsHistory

LEMMA OriginalIs ==
  ASSUME NEW txs, Sourced(txs), NEW i \in DOMAIN txs, txs[i].replaces # NoId
  PROVE  /\ Original(txs, i) \in DOMAIN txs
         /\ Original(txs, i) < i
         /\ ~txs[Original(txs, i)].deleted
         /\ txs[Original(txs, i)].uuid = txs[i].replaces
<1>1. PICK k \in DOMAIN txs : k < i /\ txs[k].uuid = txs[i].replaces /\ ~txs[k].deleted
  BY SourcedTyped DEF ReplacesEarlier
<1>2. txs[i].replaces \in Uuids(txs)
  BY <1>1 DEF Uuids
<1>3. Original(txs, i) = CHOOSE j \in DOMAIN txs : txs[j].uuid = txs[i].replaces
  BY <1>2 DEF Original, Place
<1>4. /\ Original(txs, i) \in DOMAIN txs /\ txs[Original(txs, i)].uuid = txs[i].replaces
  BY <1>1, <1>3
<1>5. Original(txs, i) = k
  BY <1>1, <1>4, SourcedTyped
<1>6. QED
  BY <1>1, <1>4, <1>5

LEMMA TxFields ==
  ASSUME NEW t \in Tx
  PROVE  t.payedBy \in Members /\ t.payedFor \in Members /\ t.amount \in Int
  BY DEF Tx

LEMMA CreditInt == ASSUME NEW t \in Tx, NEW m PROVE Credit(t, m) \in Int
<1>1. t.amount \in Int
  BY TxFields
<1>2. QED
  BY <1>1 DEF Credit

LEMMA EffectInt ==
  ASSUME NEW txs, Sourced(txs), NEW i \in DOMAIN txs, NEW m
  PROVE  /\ Added(txs, i, m) \in Int /\ TakenBack(txs, i, m) \in Int
         /\ txs[i] \in Tx
         /\ txs[i].replaces # NoId => txs[Original(txs, i)] \in Tx
<1>1. txs[i] \in Tx
  BY SourcedTyped
<1>2. txs[i].replaces # NoId => txs[Original(txs, i)] \in Tx
  BY OriginalIs, SourcedTyped
<1>3. QED
  BY <1>1, <1>2, CreditInt DEF Added, TakenBack

LEMMA UpdateBalanceMoves ==
  ASSUME NEW b \in [Members -> Int], NEW t \in Tx, NEW f, NEW k \in Int, k = t.amount * f
  PROVE  UpdateBalance(b, t, f) =
           [m \in Members |-> b[m] + ((IF t.payedBy = m THEN k ELSE 0)
                                        - (IF t.payedFor = m THEN k ELSE 0))]
<1> DEFINE by == t.payedBy
           for == t.payedFor
           payed == [b EXCEPT ![by] = @ + k]
<1>1. by \in Members /\ for \in Members
  BY TxFields
<1>2. UpdateBalance(b, t, f) = [payed EXCEPT ![for] = @ - k]
  BY DEF UpdateBalance
<1> HIDE DEF by, for
<1>3. payed = [m \in Members |-> IF by = m THEN b[m] + k ELSE b[m]]
  BY <1>1
<1> HIDE DEF payed
<1>4. [payed EXCEPT ![for] = @ - k]
        = [m \in Members |-> b[m] + ((IF by = m THEN k ELSE 0) - (IF for = m THEN k ELSE 0))]
  <2>1. [payed EXCEPT ![for] = @ - k]
          = [m \in Members |-> IF for = m THEN payed[m] - k ELSE payed[m]]
    BY <1>1, <1>3
  <2>2. ASSUME NEW m \in Members
        PROVE  (IF for = m THEN payed[m] - k ELSE payed[m])
                 = b[m] + ((IF by = m THEN k ELSE 0) - (IF for = m THEN k ELSE 0))
    BY <1>3
  <2>3. QED
    BY <2>1, <2>2
<1>5. QED
  BY <1>2, <1>4 DEF by, for

LEMMA UpdateBalanceAdds ==
  ASSUME NEW b \in [Members -> Int], NEW t \in Tx
  PROVE  /\ UpdateBalance(b, t, 1) = [m \in Members |-> b[m] + Credit(t, m)]
         /\ UpdateBalance(b, t, -1) = [m \in Members |-> b[m] - Credit(t, m)]
<1> DEFINE a == t.amount
<1>1. a \in Int
  BY TxFields
<1> HIDE DEF a
<1>2. a = a * 1 /\ -a = a * (-1) /\ -a \in Int
  BY <1>1
<1>3. UpdateBalance(b, t, 1) =
        [m \in Members |-> b[m] + ((IF t.payedBy = m THEN a ELSE 0)
                                     - (IF t.payedFor = m THEN a ELSE 0))]
  <2> DEFINE one == 1
  <2>1. a = a * one
    BY <1>1
  <2> HIDE DEF one
  <2>2. UpdateBalance(b, t, one) =
          [m \in Members |-> b[m] + ((IF t.payedBy = m THEN a ELSE 0)
                                       - (IF t.payedFor = m THEN a ELSE 0))]
    BY <1>1, <2>1, UpdateBalanceMoves DEF a
  <2>3. QED
    BY <2>2 DEF one
<1>4. UpdateBalance(b, t, -1) =
        [m \in Members |-> b[m] + ((IF t.payedBy = m THEN -a ELSE 0)
                                     - (IF t.payedFor = m THEN -a ELSE 0))]
  BY <1>1, <1>2, UpdateBalanceMoves DEF a
<1>5. ASSUME NEW m \in Members
      PROVE  b[m] + ((IF t.payedBy = m THEN -a ELSE 0) - (IF t.payedFor = m THEN -a ELSE 0))
               = b[m] - Credit(t, m)
  BY <1>1 DEF Credit, a
<1>6. \A m : Credit(t, m) = (IF t.payedBy = m THEN a ELSE 0) - (IF t.payedFor = m THEN a ELSE 0)
  BY DEF Credit, a
<1>7. QED
  BY <1>3, <1>4, <1>5, <1>6

\* What is replaced is no deletion: the walk back ends where it starts.
LEMMA AncestorIs ==
  ASSUME NEW txs, Sourced(txs), NEW i \in DOMAIN txs, txs[i].replaces # NoId
  PROVE  FirstNonDeletedAncestor(txs, txs[i]) = Original(txs, i)
<1> DEFINE IsWalk(f) ==
             f = [j \in 0..Len(txs) |->
                    IF j # 0 /\ txs[j].deleted THEN f[Place(txs, txs[j].replaces)] ELSE j]
           w == [j \in 0..Len(txs) |-> IF j # 0 /\ txs[j].deleted THEN Original(txs, j) ELSE j]
           f == CHOOSE f : IsWalk(f)
<1>1. DOMAIN txs = 1..Len(txs) /\ Len(txs) \in Nat
  BY SourcedTyped
<1>2. IsWalk(w)
  <2>1. ASSUME NEW j \in 0..Len(txs), j # 0, txs[j].deleted
        PROVE  w[j] = w[Place(txs, txs[j].replaces)]
    <3>1. j \in DOMAIN txs
      BY <1>1, <2>1
    <3>2. txs[j].replaces # NoId
      BY <2>1, <3>1, SourcedTyped
    <3>3. Original(txs, j) \in DOMAIN txs /\ ~txs[Original(txs, j)].deleted
      BY <3>1, <3>2, OriginalIs
    <3>4. Original(txs, j) = Place(txs, txs[j].replaces)
      BY DEF Original
    <3>5. w[Original(txs, j)] = Original(txs, j)
      BY <1>1, <3>3
    <3>6. w[j] = Original(txs, j)
      BY <2>1
    <3>7. QED
      BY <3>4, <3>5, <3>6
  <2>2. ASSUME NEW j \in 0..Len(txs), ~(j # 0 /\ txs[j].deleted) PROVE w[j] = j
    BY <2>2
  <2>3. DOMAIN w = 0..Len(txs)
    OBVIOUS
  <2>4. w = [j \in 0..Len(txs) |-> w[j]]
    OBVIOUS
  <2> HIDE DEF w
  <2>5. QED
    BY <2>1, <2>2, <2>4
<1>3. IsWalk(f)
  <2> HIDE DEF IsWalk
  <2> QED
    BY <1>2
<1>4. FirstNonDeletedAncestor(txs, txs[i]) = f[Original(txs, i)]
  BY DEF FirstNonDeletedAncestor, Original
<1>5. Original(txs, i) \in DOMAIN txs /\ ~txs[Original(txs, i)].deleted
  BY OriginalIs
<1>6. QED
  <2> HIDE DEF f
  <2> QED
    BY <1>1, <1>3, <1>4, <1>5

LEMMA ApplyAdds ==
  ASSUME NEW txs, Sourced(txs), NEW b \in [Members -> Int], NEW i \in DOMAIN txs
  PROVE  ApplyTransaction(b, txs, txs[i])
           = [m \in Members |-> b[m] + (Added(txs, i, m) - TakenBack(txs, i, m))]
<1> DEFINE added == IF txs[i].deleted THEN b ELSE UpdateBalance(b, txs[i], 1)
           r == Original(txs, i)
<1>1. txs[i] \in Tx /\ (TakesBack(txs[i]) => txs[i].replaces # NoId /\ txs[r] \in Tx)
  BY EffectInt, SourcedTyped DEF TakesBack
<1>2. \A m \in Members : Added(txs, i, m) \in Int /\ TakenBack(txs, i, m) \in Int
  BY EffectInt
<1>3. added = [m \in Members |-> b[m] + Added(txs, i, m)]
  BY <1>1, UpdateBalanceAdds DEF Added
<1>4. added \in [Members -> Int]
  <2> HIDE DEF added
  <2> QED
    BY <1>2, <1>3
<1>5. CASE ~TakesBack(txs[i])
  <2>1. ApplyTransaction(b, txs, txs[i]) = added
    BY <1>5 DEF ApplyTransaction
  <2>2. \A m \in Members : TakenBack(txs, i, m) = 0
    BY <1>5 DEF TakenBack, TakesBack
  <2> HIDE DEF added
  <2>3. QED
    BY <1>2, <1>3, <2>1, <2>2
<1>6. CASE TakesBack(txs[i])
  <2>1. ApplyTransaction(b, txs, txs[i]) = UpdateBalance(added, txs[r], -1)
    BY <1>1, <1>6, AncestorIs DEF ApplyTransaction
  <2>2. \A m \in Members : TakenBack(txs, i, m) = Credit(txs[r], m)
    BY <1>1, <1>6 DEF TakenBack
  <2> HIDE DEF added, r
  <2>3. UpdateBalance(added, txs[r], -1) = [m \in Members |-> added[m] - Credit(txs[r], m)]
    BY <1>1, <1>4, <1>6, UpdateBalanceAdds
  <2>4. \A m \in Members : added[m] - Credit(txs[r], m)
                            = b[m] + (Added(txs, i, m) - TakenBack(txs, i, m))
    BY <1>2, <1>3, <2>2
  <2>5. QED
    BY <2>1, <2>3, <2>4
<1>7. QED
  BY <1>5, <1>6

-------------------------------------------------------------------------------
(* A fold that adds something for each transaction.                          *)

Zero == [m \in Members |-> 0]

\* Column m of a table.
Column(d, m) == [i \in DOMAIN d |-> d[i][m]]

Sum(d, s) == [m \in Members |-> Total(Column(d, m), s)]

LEMMA SumGrows ==
  ASSUME NEW n \in Nat, NEW d \in [1..n -> [Members -> Int]], NEW s \in SUBSET (1..n)
  PROVE  /\ Sum(d, s) \in [Members -> Int]
         /\ s = {} => Sum(d, s) = Zero
         /\ s # {} => /\ s \ {Max(s)} \in SUBSET (1..n)
                      /\ Max(s) \in 1..n
                      /\ Sum(d, s) = [m \in Members |->
                                        Sum(d, s \ {Max(s)})[m] + d[Max(s)][m]]
<1>1. IsFiniteSet(s)
  <2>1. IsFiniteSet(1..n)
    BY FS_Interval
  <2>2. QED
    BY <2>1, FS_Subset
<1>2. \A m \in Members : \A i \in s : Column(d, m)[i] \in Int /\ Column(d, m)[i] = d[i][m]
  BY DEF Column
<1>3. \A m \in Members : Total(Column(d, m), s) \in Int
  BY <1>1, <1>2, TotalInt
<1>4. Sum(d, s) \in [Members -> Int]
  BY <1>3 DEF Sum
<1>5. ASSUME s = {} PROVE Sum(d, s) = Zero
  <2>1. \A m \in Members : Total(Column(d, m), s) = 0
    BY <1>1, <1>5, TotalByFirst
  <2>2. QED
    BY <2>1 DEF Sum, Zero
<1>6. ASSUME s # {}
      PROVE  /\ s \ {Max(s)} \in SUBSET (1..n) /\ Max(s) \in 1..n
             /\ Sum(d, s) = [m \in Members |-> Sum(d, s \ {Max(s)})[m] + d[Max(s)][m]]
  <2>1. Max(s) \in s
    BY <1>6, MaxIn
  <2>2. \A m \in Members : Total(Column(d, m), s)
                            = Column(d, m)[Max(s)] + Total(Column(d, m), s \ {Max(s)})
    BY <1>1, <1>2, <2>1, TotalByAny
  <2>3. \A m \in Members : Total(Column(d, m), s \ {Max(s)}) \in Int
    <3>1. IsFiniteSet(s \ {Max(s)})
      BY <1>1, FS_Subset
    <3>2. QED
      BY <1>2, <3>1, TotalInt
  <2>4. \A m \in Members : Total(Column(d, m), s)
                            = Total(Column(d, m), s \ {Max(s)}) + d[Max(s)][m]
    <3>1. TAKE m \in Members
    <3>2. Column(d, m)[Max(s)] = d[Max(s)][m] /\ d[Max(s)][m] \in Int
      BY <1>2, <2>1
    <3> DEFINE rest == Total(Column(d, m), s \ {Max(s)})
               last == d[Max(s)][m]
    <3>3. Total(Column(d, m), s) = last + rest /\ rest \in Int /\ last \in Int
      BY <2>2, <2>3, <3>2
    <3> HIDE DEF rest, last
    <3>4. Total(Column(d, m), s) = rest + last
      BY <3>3
    <3>5. QED
      BY <3>4 DEF rest, last
  <2>5. QED
    BY <2>1, <2>4 DEF Sum
<1>7. QED
  BY <1>4, <1>5, <1>6

\* A function that adds d[i] to what it is without the last element i is the sum.
LEMMA FoldIsSum ==
  ASSUME NEW n \in Nat, NEW d \in [1..n -> [Members -> Int]], NEW f,
         f[{}] = Zero,
         \A s \in SUBSET (1..n) :
           s # {} /\ f[s \ {Max(s)}] \in [Members -> Int] =>
             f[s] = [m \in Members |-> f[s \ {Max(s)}][m] + d[Max(s)][m]]
  PROVE  f[1..n] = Sum(d, 1..n)
<1> DEFINE g == [s \in SUBSET (1..n) |-> Sum(d, s)]
<1>1. ASSUME NEW s \in SUBSET (1..n), s # {} => f[s \ {Max(s)}] = g[s \ {Max(s)}]
      PROVE  f[s] = g[s]
  <2>1. CASE s = {}
    BY <2>1, SumGrows
  <2>2. CASE s # {}
    <3>1. /\ s \ {Max(s)} \in SUBSET (1..n)
          /\ Sum(d, s) = [m \in Members |-> Sum(d, s \ {Max(s)})[m] + d[Max(s)][m]]
      BY <2>2, SumGrows
    <3>2. f[s \ {Max(s)}] = Sum(d, s \ {Max(s)})
      BY <1>1, <2>2, <3>1
    <3>3. Sum(d, s \ {Max(s)}) \in [Members -> Int]
      BY <3>1, SumGrows
    <3>4. f[s] = [m \in Members |-> f[s \ {Max(s)}][m] + d[Max(s)][m]]
      BY <2>2, <3>2, <3>3
    <3>5. QED
      BY <3>1, <3>2, <3>4
  <2>3. QED
    BY <2>1, <2>2
<1>2. f[1..n] = g[1..n]
  <2> HIDE DEF g
  <2> QED
    BY <1>1, FoldsAgree
<1>3. QED
  BY <1>2

-------------------------------------------------------------------------------
(* The two folds.                                                            *)

\* get_balance adds up what each transaction does.
LEMMA GetBalanceIsSum ==
  ASSUME NEW txs, Sourced(txs)
  PROVE  LET d == [i \in DOMAIN txs |->
                     [m \in Members |-> Added(txs, Len(txs) - i + 1, m)
                                          - TakenBack(txs, Len(txs) - i + 1, m)]]
         IN  /\ d \in [1..Len(txs) -> [Members -> Int]]
             /\ GetBalance(txs) = Sum(d, 1..Len(txs))
<1> DEFINE n == Len(txs)
           d == [i \in DOMAIN txs |-> [m \in Members |-> Added(txs, n - i + 1, m)
                                                           - TakenBack(txs, n - i + 1, m)]]
           rev == Reverse(txs)
           IsFold(f) ==
             f = [s \in SUBSET DOMAIN rev |->
                    IF s = {} THEN [m \in Members |-> 0]
                      ELSE ApplyTransaction(f[s \ {Max(s)}], txs, rev[Max(s)])]
           f == CHOOSE f : IsFold(f)
           h == [s \in SUBSET (1..n) |-> Sum(d, s)]
<1>1. n \in Nat /\ DOMAIN txs = 1..n
  BY SourcedTyped
<1>2. DOMAIN rev = 1..n /\ \A i \in 1..n : rev[i] = txs[n - i + 1] /\ n - i + 1 \in 1..n
  BY <1>1 DEF Reverse
<1>3. d \in [1..n -> [Members -> Int]]
  <2>1. ASSUME NEW i \in 1..n, NEW m \in Members
        PROVE  Added(txs, n - i + 1, m) - TakenBack(txs, n - i + 1, m) \in Int
    BY <1>1, <1>2, EffectInt
  <2>2. QED
    BY <1>1, <2>1
<1>4. ASSUME NEW b \in [Members -> Int], NEW i \in 1..n
      PROVE  ApplyTransaction(b, txs, rev[i]) = [m \in Members |-> b[m] + d[i][m]]
  <2> DEFINE j == n - i + 1
  <2>1. j \in DOMAIN txs /\ rev[i] = txs[j]
    BY <1>1, <1>2
  <2>2. \A m \in Members : d[i][m] = Added(txs, j, m) - TakenBack(txs, j, m)
    BY <1>1
  <2> HIDE DEF j, rev, d
  <2>3. ApplyTransaction(b, txs, txs[j])
          = [m \in Members |-> b[m] + (Added(txs, j, m) - TakenBack(txs, j, m))]
    BY <2>1, ApplyAdds
  <2>4. QED
    BY <2>1, <2>2, <2>3
<1>5. GetBalance(txs) = f[1..n]
  <2>1. GetBalance(txs) = f[DOMAIN rev]
    BY DEF GetBalance, FoldLeft, MapThenFoldSet
  <2>2. QED
    BY <1>2, <2>1
<1> HIDE DEF d, rev, n
<1>6. ASSUME NEW s \in SUBSET (1..n), s # {}
      PROVE  /\ s \ {Max(s)} \in SUBSET (1..n) /\ Max(s) \in 1..n
             /\ Sum(d, s) = ApplyTransaction(Sum(d, s \ {Max(s)}), txs, rev[Max(s)])
  <2>1. /\ s \ {Max(s)} \in SUBSET (1..n)
        /\ Max(s) \in 1..n
        /\ Sum(d, s) = [m \in Members |-> Sum(d, s \ {Max(s)})[m] + d[Max(s)][m]]
    BY <1>1, <1>3, <1>6, SumGrows
  <2>2. Sum(d, s \ {Max(s)}) \in [Members -> Int]
    BY <1>1, <1>3, <2>1, SumGrows
  <2>3. QED
    BY <1>4, <2>1, <2>2
<1>7. Sum(d, {}) = [m \in Members |-> 0]
  BY <1>1, <1>3, SumGrows DEF Zero
<1>8. IsFold(h)
  BY <1>2, <1>6, <1>7
<1>9. IsFold(f)
  <2> HIDE DEF IsFold
  <2> QED
    BY <1>8
<1> HIDE DEF f
<1>10. f[{}] = Zero
  BY <1>9 DEF Zero
<1>11. ASSUME NEW s \in SUBSET (1..n), s # {}, f[s \ {Max(s)}] \in [Members -> Int]
       PROVE  f[s] = [m \in Members |-> f[s \ {Max(s)}][m] + d[Max(s)][m]]
  <2>1. Max(s) \in 1..n
    BY <1>6, <1>11
  <2>2. f[s] = ApplyTransaction(f[s \ {Max(s)}], txs, rev[Max(s)])
    BY <1>2, <1>9, <1>11
  <2>3. QED
    BY <1>4, <1>11, <2>1, <2>2
<1> HIDE DEF IsFold
<1>12. f[1..n] = Sum(d, 1..n)
  BY <1>1, <1>3, <1>10, <1>11, FoldIsSum
<1>13. QED
  BY <1>3, <1>5, <1>12 DEF d, n

\* The list's transactions, one after the other.
LEMMA ShownIsSum ==
  ASSUME NEW txs, Sourced(txs)
  PROVE  LET q == SetToSeq(Shown(txs))
             d == [i \in DOMAIN q |-> [m \in Members |-> Credit(txs[q[i]], m)]]
             add(all, i) == UpdateBalance(all, txs[i], 1)
         IN  /\ d \in [1..Cardinality(Shown(txs)) -> [Members -> Int]]
             /\ FoldLeft(add, [m \in Members |-> 0], q)
                   = Sum(d, 1..Cardinality(Shown(txs)))
             /\ q \in Bijection(1..Cardinality(Shown(txs)), Shown(txs))
<1> DEFINE shown == Shown(txs)
           n == Cardinality(shown)
           q == SetToSeq(shown)
           d == [i \in DOMAIN q |-> [m \in Members |-> Credit(txs[q[i]], m)]]
           add(all, i) == UpdateBalance(all, txs[i], 1)
           IsFold(f) ==
             f = [s \in SUBSET DOMAIN q |->
                    IF s = {} THEN [m \in Members |-> 0]
                      ELSE UpdateBalance(f[s \ {Max(s)}], txs[q[Max(s)]], 1)]
           f == CHOOSE f : IsFold(f)
           h == [s \in SUBSET (1..n) |-> Sum(d, s)]
<1>1. shown \subseteq DOMAIN txs /\ IsFiniteSet(shown) /\ n \in Nat
      /\ \A i \in shown : txs[i] \in Tx
  <2>1. IsFiniteSet(1..Len(txs)) /\ DOMAIN txs = 1..Len(txs) /\ \A i \in DOMAIN txs : txs[i] \in Tx
    BY FS_Interval, SourcedTyped
  <2>2. shown \subseteq DOMAIN txs
    BY DEF Shown
  <2> HIDE DEF shown
  <2>3. QED
    BY <2>1, <2>2, FS_Subset, FS_CardinalityType
<1> HIDE DEF shown
<1>2. q \in Bijection(1..n, shown)
  <2>1. PICK e : e \in Bijection(1..n, shown)
    BY <1>1, FS_CardinalityType DEF ExistsBijection
  <2>2. e \in [1..n -> shown] /\ IsInjective(e)
    BY <2>1 DEF Bijection, Injection
  <2>3. q \in [1..n -> shown] /\ IsInjective(q)
    BY <2>2 DEF SetToSeq
  <2> HIDE DEF q
  <2>4. q \in Injection(1..n, shown)
    BY <2>3 DEF Injection
  <2>5. Cardinality(1..n) = Cardinality(shown)
    BY <1>1, FS_Interval
  <2>6. q \in Surjection(1..n, shown)
    BY <1>1, <2>4, <2>5, FS_Injection
  <2>7. QED
    BY <2>4, <2>6 DEF Bijection
<1>3. DOMAIN q = 1..n /\ \A i \in 1..n : q[i] \in shown
  <2> HIDE DEF q
  <2> QED
    BY <1>2 DEF Bijection, Injection
<1>4. FoldLeft(add, [m \in Members |-> 0], q) = f[1..n]
  <2>1. FoldLeft(add, [m \in Members |-> 0], q) = f[DOMAIN q]
    BY DEF FoldLeft, MapThenFoldSet
  <2>2. QED
    BY <1>3, <2>1
<1> HIDE DEF q
<1>5. d \in [1..n -> [Members -> Int]]
  BY <1>1, <1>3, CreditInt
<1>6. ASSUME NEW b \in [Members -> Int], NEW i \in 1..n
      PROVE  UpdateBalance(b, txs[q[i]], 1) = [m \in Members |-> b[m] + d[i][m]]
  <2>1. txs[q[i]] \in Tx /\ \A m \in Members : d[i][m] = Credit(txs[q[i]], m)
    BY <1>1, <1>3
  <2> HIDE DEF d
  <2>2. QED
    BY <2>1, UpdateBalanceAdds
<1> HIDE DEF d, n
<1>7. ASSUME NEW s \in SUBSET (1..n), s # {}
      PROVE  /\ s \ {Max(s)} \in SUBSET (1..n) /\ Max(s) \in 1..n
             /\ Sum(d, s) = UpdateBalance(Sum(d, s \ {Max(s)}), txs[q[Max(s)]], 1)
  <2>1. /\ s \ {Max(s)} \in SUBSET (1..n)
        /\ Max(s) \in 1..n
        /\ Sum(d, s) = [m \in Members |-> Sum(d, s \ {Max(s)})[m] + d[Max(s)][m]]
    BY <1>1, <1>5, <1>7, SumGrows
  <2>2. Sum(d, s \ {Max(s)}) \in [Members -> Int]
    BY <1>1, <1>5, <2>1, SumGrows
  <2>3. QED
    BY <1>6, <2>1, <2>2
<1>8. Sum(d, {}) = [m \in Members |-> 0]
  BY <1>1, <1>5, SumGrows DEF Zero
<1>9. IsFold(h)
  BY <1>3, <1>7, <1>8
<1>10. IsFold(f)
  <2> HIDE DEF IsFold
  <2> QED
    BY <1>9
<1> HIDE DEF f
<1>11. f[{}] = Zero
  BY <1>10 DEF Zero
<1>12. ASSUME NEW s \in SUBSET (1..n), s # {}, f[s \ {Max(s)}] \in [Members -> Int]
       PROVE  f[s] = [m \in Members |-> f[s \ {Max(s)}][m] + d[Max(s)][m]]
  <2>1. Max(s) \in 1..n
    BY <1>7, <1>12
  <2>2. f[s] = UpdateBalance(f[s \ {Max(s)}], txs[q[Max(s)]], 1)
    BY <1>3, <1>10, <1>12
  <2>3. QED
    BY <1>6, <1>12, <2>1, <2>2
<1> HIDE DEF IsFold
<1>13. f[1..n] = Sum(d, 1..n)
  BY <1>1, <1>5, <1>11, <1>12, FoldIsSum
<1>14. QED
  BY <1>2, <1>4, <1>5, <1>13 DEF d, n, q, shown

-------------------------------------------------------------------------------
(* The balance is that of the transactions shown.                            *)

\* What is replaced is taken back exactly once, so that what is left are the
\* transactions shown.
LEMMA ColumnsAgree ==
  ASSUME NEW txs, Sourced(txs), NoConflict(txs), NEW m
  PROVE  LET added == [i \in DOMAIN txs |-> Added(txs, i, m)]
             back == [i \in DOMAIN txs |-> TakenBack(txs, i, m)]
             effect == [i \in DOMAIN txs |-> Added(txs, i, m) - TakenBack(txs, i, m)]
             credit == [i \in DOMAIN txs |-> Credit(txs[i], m)]
         IN  Total(effect, DOMAIN txs) = Total(credit, Shown(txs))
<1> DEFINE D == DOMAIN txs
           added == [i \in D |-> Added(txs, i, m)]
           back == [i \in D |-> TakenBack(txs, i, m)]
           effect == [i \in D |-> Added(txs, i, m) - TakenBack(txs, i, m)]
           credit == [i \in D |-> Credit(txs[i], m)]
           live == {i \in D : ~txs[i].deleted}
           edits == {i \in D : txs[i].replaces # NoId}
           original == [i \in D |-> Original(txs, i)]
           originals == {original[i] : i \in edits}
           replaced == [i \in D |-> credit[original[i]]]
<1>1. IsFiniteSet(D) /\ D \subseteq Nat
  <2>1. D = 1..Len(txs) /\ Len(txs) \in Nat
    BY SourcedTyped
  <2>2. QED
    BY <2>1, FS_Interval
<1>2. \A i \in D : /\ Added(txs, i, m) \in Int /\ TakenBack(txs, i, m) \in Int
                  /\ Credit(txs[i], m) \in Int
  BY EffectInt, CreditInt
<1>3. Total(effect, D) = Total(added, D) - Total(back, D)
  BY <1>1, <1>2, TotalOfDifference
<1>4. Total(added, D) = Total(credit, live)
  <2>1. live \in SUBSET D
    OBVIOUS
  <2>2. \A i \in D : added[i] \in Int /\ (i \in live => added[i] = credit[i])
                                /\ (i \notin live => added[i] = 0)
    BY <1>2 DEF Added
  <2> HIDE DEF added, credit, live
  <2>3. QED
    BY <1>1, <2>1, <2>2, TotalOfPart
<1>5. \A i \in edits : /\ original[i] \in D /\ original[i] \in live
                      /\ txs[original[i]].uuid = txs[i].replaces /\ original[i] < i
  BY OriginalIs
<1>6. Total(back, D) = Total(replaced, edits)
  <2>1. edits \in SUBSET D
    OBVIOUS
  <2>2. \A i \in D : back[i] \in Int /\ (i \in edits => back[i] = replaced[i])
                                 /\ (i \notin edits => back[i] = 0)
    BY <1>2, <1>5 DEF TakenBack
  <2> HIDE DEF back, replaced, edits
  <2>3. QED
    BY <1>1, <2>1, <2>2, TotalOfPart
<1>7. Total(replaced, edits) = Total(credit, originals)
  <2>1. IsFiniteSet(edits)
    BY <1>1, FS_Subset
  <2>2. \A x, y \in edits : original[x] = original[y] => x = y
    <3>1. \A x, y \in edits : original[x] = original[y] => txs[x].replaces = txs[y].replaces
      <4> HIDE DEF original, edits
      <4> QED
        BY <1>5
    <3>2. \A x, y \in edits : txs[x].replaces = txs[y].replaces => x = y
      BY DEF NoConflict
    <3>3. QED
      BY <3>1, <3>2
  <2>3. \A x \in edits : credit[original[x]] \in Int /\ replaced[x] = credit[original[x]]
    BY <1>2, <1>5
  <2> HIDE DEF replaced, credit, original, edits
  <2>4. QED
    BY <2>1, <2>2, <2>3, TotalRenamed
<1>8. originals \in SUBSET live /\ live \ originals = Shown(txs)
  <2>1. originals \in SUBSET live
    BY <1>5
  <2>2. ASSUME NEW i \in live \ originals PROVE i \in Shown(txs)
    <3>1. \A j \in D : txs[j].replaces # txs[i].uuid
      <4>1. SUFFICES ASSUME NEW j \in D, txs[j].replaces = txs[i].uuid PROVE FALSE
        OBVIOUS
      <4>2. j \in edits
        BY <4>1, SourcedTyped
      <4>3. original[j] = i
        <5>1. original[j] \in D /\ txs[original[j]].uuid = txs[i].uuid
          BY <1>5, <4>1, <4>2
        <5> HIDE DEF original
        <5>2. QED
          BY <5>1, SourcedTyped
      <4>4. QED
        BY <4>2, <4>3
    <3>2. QED
      BY <3>1 DEF Shown
  <2>3. ASSUME NEW i \in Shown(txs) PROVE i \in live \ originals
    <3>1. i \in live /\ \A j \in D : j > i => txs[j].replaces # txs[i].uuid
      BY DEF Shown
    <3>2. \A j \in edits : original[j] # i
      <4>1. SUFFICES ASSUME NEW j \in edits, original[j] = i PROVE FALSE
        OBVIOUS
      <4>2. txs[i].uuid = txs[j].replaces /\ i < j /\ j \in D /\ i \in D
        BY <1>5, <4>1
      <4>3. j > i
        BY <1>1, <4>2
      <4>4. QED
        BY <3>1, <4>2, <4>3
    <3>3. QED
      BY <3>1, <3>2
  <2>4. QED
    BY <2>1, <2>2, <2>3
<1>9. /\ Total(credit, live) = Total(credit, originals) + Total(credit, live \ originals)
      /\ Total(credit, live) \in Int
      /\ Total(credit, originals) \in Int /\ Total(credit, live \ originals) \in Int
  <2>1. IsFiniteSet(live) /\ \A i \in live : credit[i] \in Int
    BY <1>1, <1>2, FS_Subset
  <2> HIDE DEF live, originals, credit
  <2>2. QED
    BY <1>8, <2>1, TotalSplit
<1> HIDE DEF live, originals, credit, added, back, effect, replaced, edits, D
<1>10. Total(effect, D) = Total(credit, Shown(txs))
  <2>1. Total(credit, live \ originals) = Total(credit, Shown(txs))
    BY <1>8
  <2>2. Total(back, D) = Total(credit, originals)
    BY <1>6, <1>7
  <2> DEFINE a == Total(credit, originals)
             b == Total(credit, live \ originals)
  <2>3. a \in Int /\ b \in Int /\ Total(effect, D) = a + b - a
    BY <1>3, <1>4, <1>9, <2>2
  <2> HIDE DEF a, b
  <2>4. Total(effect, D) = b
    BY <2>3
  <2>5. QED
    BY <2>1, <2>4 DEF b
<1>11. QED
  BY <1>10 DEF effect, credit, D

LEMMA BalancesAgree == ASSUME NEW txs, Sourced(txs), NoConflict(txs) PROVE BalanceOfShown(txs)
<1> DEFINE n == Len(txs)
           D == DOMAIN txs
           q == SetToSeq(Shown(txs))
           k == Cardinality(Shown(txs))
           d == [i \in D |-> [m \in Members |-> Added(txs, n - i + 1, m) - TakenBack(txs, n - i + 1, m)]]
           e == [i \in DOMAIN q |-> [m \in Members |-> Credit(txs[q[i]], m)]]
           add(all, i) == UpdateBalance(all, txs[i], 1)
<1>1. d \in [1..n -> [Members -> Int]] /\ GetBalance(txs) = Sum(d, 1..n)
  BY GetBalanceIsSum
<1>2. /\ e \in [1..k -> [Members -> Int]] /\ q \in Bijection(1..k, Shown(txs))
      /\ FoldLeft(add, [m \in Members |-> 0], q) = Sum(e, 1..k)
  BY ShownIsSum
<1>3. n \in Nat /\ D = 1..n /\ Shown(txs) \subseteq D /\ k \in Nat /\ IsFiniteSet(D)
  <2>1. n \in Nat /\ D = 1..n /\ IsFiniteSet(1..n)
    BY FS_Interval, SourcedTyped
  <2>2. Shown(txs) \subseteq D
    BY DEF Shown
  <2> HIDE DEF D
  <2>3. k \in Nat
    BY <2>1, <2>2, FS_Subset, FS_CardinalityType
  <2>4. QED
    BY <2>1, <2>2, <2>3
<1>4. ASSUME NEW m \in Members
      PROVE  Total(Column(d, m), 1..n) = Total(Column(e, m), 1..k)
  <2> DEFINE effect == [i \in D |-> Added(txs, i, m) - TakenBack(txs, i, m)]
             credit == [i \in D |-> Credit(txs[i], m)]
             mirror == [i \in 1..n |-> n - i + 1]
  <2>1. Total(effect, D) = Total(credit, Shown(txs))
    BY ColumnsAgree
  <2>2. Total(Column(d, m), 1..n) = Total(effect, D)
    <3>1. {mirror[i] : i \in 1..n} = D
      <4>1. \A i \in 1..n : n - i + 1 \in 1..n /\ n - (n - i + 1) + 1 = i
        BY <1>3
      <4>2. QED
        BY <1>3, <4>1
    <3>2. \A x, y \in 1..n : mirror[x] = mirror[y] => x = y
      BY <1>3
    <3>3. \A x \in 1..n : mirror[x] \in D
      BY <1>3
    <3>4. \A x \in D : effect[x] \in Int
      <4>1. \A x \in D : Added(txs, x, m) \in Int /\ TakenBack(txs, x, m) \in Int
        BY EffectInt
      <4>2. QED
        BY <4>1
    <3>5. \A x \in 1..n : Column(d, m)[x] = effect[mirror[x]]
      BY <1>3, <3>3 DEF Column
    <3> DEFINE S == 1..n
               c == Column(d, m)
    <3>6. /\ IsFiniteSet(S)
          /\ \A x \in S : effect[mirror[x]] \in Int /\ c[x] = effect[mirror[x]]
      BY <1>3, <3>3, <3>4, <3>5
    <3>7. Total(c, S) = Total(effect, {mirror[x] : x \in S})
      <4> HIDE DEF mirror, effect, S, c
      <4>1. \A x, y \in S : mirror[x] = mirror[y] => x = y
        BY <3>2 DEF S
      <4>2. QED
        BY <3>6, <4>1, TotalRenamed
    <3>8. QED
      BY <3>1, <3>7
  <2>3. Total(Column(e, m), 1..k) = Total(credit, Shown(txs))
    <3>1. q \in [1..k -> Shown(txs)] /\ \A x, y \in 1..k : q[x] = q[y] => x = y
      BY <1>2 DEF Bijection, Injection, IsInjective
    <3>2. {q[x] : x \in 1..k} = Shown(txs)
      BY <1>2 DEF Bijection, Surjection
    <3>3. \A x \in D : credit[x] \in Int
      BY EffectInt, CreditInt
    <3>4. \A x \in 1..k : Column(e, m)[x] = credit[q[x]]
      BY <1>3, <3>1 DEF Column
    <3> DEFINE S == 1..k
               c == Column(e, m)
    <3>5. /\ IsFiniteSet(S)
          /\ \A x \in S : credit[q[x]] \in Int /\ c[x] = credit[q[x]]
      <4>1. IsFiniteSet(S)
        BY <1>3, FS_Interval
      <4>2. QED
        BY <1>3, <3>1, <3>3, <3>4, <4>1
    <3>6. Total(c, S) = Total(credit, {q[x] : x \in S})
      <4> HIDE DEF q, credit, S, c
      <4>1. \A x, y \in S : q[x] = q[y] => x = y
        BY <3>1 DEF S
      <4>2. QED
        BY <3>5, <4>1, TotalRenamed
    <3>7. QED
      BY <3>2, <3>6
  <2>4. QED
    BY <2>1, <2>2, <2>3
<1>5. Sum(d, 1..n) = Sum(e, 1..k)
  <2> HIDE DEF d, e, n, k
  <2> QED
    BY <1>4 DEF Sum
<1>6. FoldLeft(add, [m \in Members |-> 0], q) = GetBalance(txs)
  <2> HIDE DEF d, e, n, k
  <2> QED
    BY <1>1, <1>2, <1>5
<1>7. BalanceKnown(txs)
  <2>1. SUFFICES ASSUME NEW i \in DOMAIN txs, TakesBack(txs[i])
                 PROVE  FirstNonDeletedAncestor(txs, txs[i]) # 0
    BY DEF BalanceKnown
  <2>2. txs[i].replaces # NoId
    BY <2>1, SourcedTyped DEF TakesBack
  <2>3. Original(txs, i) \in DOMAIN txs
    BY <2>2, OriginalIs
  <2>4. QED
    BY <2>2, <2>3, AncestorIs, SourcedTyped
<1>8. QED
  BY <1>6, <1>7 DEF BalanceOfShown

\* The balance that get_balance computes is known, and that of the transactions
\* the list shows, for any history that a device can come to without editing or
\* deleting the same transaction as another, unknown to each other, and without
\* a rebase that renames what an edit or a deletion is about.  (get_balance,
\* flattenHistory, rebase_transactions.)
THEOREM BalanceIsThatOfTheList == BalanceSpec => []BalanceOfShownUnlessOrphaned
<1>1. ASSUME LogInv PROVE BalanceOfShownUnlessOrphaned
  <2>1. SUFFICES ASSUME NEW d \in Devices, NoConflict(Chain(d)),
                        Uuids(Chain(d)) \cap orphans = {}
                 PROVE  BalanceOfShown(Chain(d))
    BY DEF BalanceOfShownUnlessOrphaned
  <2> DEFINE txs == Chain(d)
  <2>2. IsHistory(txs, orphans, nextId)
    BY <1>1 DEF LogInv
  <2>3. \A i \in DOMAIN txs : txs[i].uuid \notin orphans
    BY <2>1 DEF Uuids
  <2> HIDE DEF txs
  <2>4. IsHistory(txs, {}, nextId)
    BY <2>2, <2>3 DEF IsHistory
  <2>5. Sourced(txs)
    BY <2>4 DEF Sourced
  <2>6. QED
    BY <2>1, <2>5, BalancesAgree DEF txs
<1>2. QED
  BY <1>1, LogInvAlways, PTL
===============================================================================
