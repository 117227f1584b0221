-------------------------------- MODULE Balance -------------------------------
(* What an account's history amounts to: get_balance of                      *)
(* lib/src/repository.rs against the list of transactions the mobile app     *)
(* shows (flattenHistory of mobile/lib/utils/transactions.dart).             *)
(*                                                                           *)
(* Devices record, edit and delete what their list shows and synchronize by  *)
(* way of the server's log (see FlouzeSync).  A rebase gives transactions    *)
(* new uuids and leaves alone what they replace.                             *)
EXTENDS Integers, SequencesExt

CONSTANTS
  Devices,
  Members,          \* of the account
  Expenses,         \* that can be entered, with one payer and one beneficiary
                    \* for the two lists of shares
  MaxTransactions,  \* bound: length of what a device has
  MaxId             \* bound: uuids generated

ASSUME ConstantsAssumption ==
  /\ IsFiniteSet(Members)
  /\ Expenses \subseteq [amount : Nat, payedBy : Members, payedFor : Members]
  /\ MaxTransactions \in Nat
  /\ MaxId \in Nat

VARIABLES
  log,     \* what the server has, oldest transaction first
  seen,    \* seen[d]: how much of it d calls synchronized
  own,     \* own[d]: what d has on top of that
  nextId,  \* a uuid not generated yet
  orphans  \* history: uuids of edits and deletions that have been rebased
           \* together with what they replace

balanceVars == <<log, seen, own, nextId, orphans>>

NoId == 0

BalanceInit ==
  /\ log = << >>
  /\ seen = [d \in Devices |-> 0]
  /\ own = [d \in Devices |-> << >>]
  /\ nextId = 1
  /\ orphans = {}

Uuids(txs) == {txs[i].uuid : i \in DOMAIN txs}

\* What device d stores, a transaction after its parent.
Chain(d) == SubSeq(log, 1, seen[d]) \o own[d]

-------------------------------------------------------------------------------
(* flattenHistory *)

\* A transaction is hidden if it is deleted or a newer one replaces it.
Shown(txs) ==
  {i \in DOMAIN txs :
     /\ ~txs[i].deleted
     /\ \A j \in DOMAIN txs : j > i => txs[j].replaces # txs[i].uuid}

-------------------------------------------------------------------------------
(* get_balance *)

UpdateBalance(balance, tx, factor) ==
  LET payed == [balance EXCEPT ![tx.payedBy] = @ + tx.amount * factor]
  IN  [payed EXCEPT ![tx.payedFor] = @ - tx.amount * factor]

\* Where txs has the transaction called id; 0 for NoSuchTransaction.
Place(txs, id) ==
  IF id \in Uuids(txs) THEN CHOOSE i \in DOMAIN txs : txs[i].uuid = id ELSE 0

FirstNonDeletedAncestor(txs, tx) ==
  LET walk[i \in 0..Len(txs)] ==
        IF i # 0 /\ txs[i].deleted THEN walk[Place(txs, txs[i].replaces)] ELSE i
  IN  walk[Place(txs, tx.replaces)]

TakesBack(tx) == tx.replaces # NoId \/ tx.deleted

\* get_balance returns no error.
BalanceKnown(txs) ==
  \A i \in DOMAIN txs :
    TakesBack(txs[i]) => FirstNonDeletedAncestor(txs, txs[i]) # 0

\* Mutant: the original of an edit is not taken back.
ApplyTransaction_Added(balance, txs, tx) ==
  IF tx.deleted
    THEN UpdateBalance(balance, txs[FirstNonDeletedAncestor(txs, tx)], -1)
    ELSE UpdateBalance(balance, tx, 1)

ApplyTransaction(balance, txs, tx) ==
  LET added == IF tx.deleted THEN balance ELSE UpdateBalance(balance, tx, 1)
  IN  IF TakesBack(tx)
        THEN UpdateBalance(added, txs[FirstNonDeletedAncestor(txs, tx)], -1)
        ELSE added

GetBalance(txs) ==
  LET apply(balance, tx) == ApplyTransaction(balance, txs, tx)
  IN  FoldLeft(apply, [m \in Members |-> 0], Reverse(txs))

-------------------------------------------------------------------------------

\* Device d records an expense, an edit or a deletion.  What a deletion has of
\* an expense is never read.
Record(d, e, replaces, deleted) ==
  /\ Len(Chain(d)) < MaxTransactions
  /\ nextId <= MaxId
  /\ own' = [own EXCEPT ![d] = Append(@,
       [uuid |-> nextId, amount |-> e.amount, payedBy |-> e.payedBy,
        payedFor |-> e.payedFor, replaces |-> replaces, deleted |-> deleted])]
  /\ nextId' = nextId + 1
  /\ UNCHANGED <<log, seen, orphans>>

RecordExpense(d) == \E e \in Expenses : Record(d, e, NoId, FALSE)

\* The transactions d can tap on.
Editable(d) == {Chain(d)[i] : i \in Shown(Chain(d))}

EditTransaction(d) ==
  \E e \in Expenses, old \in Editable(d) : Record(d, e, old.uuid, FALSE)

DeleteTransaction(d) ==
  \E old \in Editable(d) : Record(d, old, old.uuid, TRUE)

\* The transactions in txs with the uuids that rebase_transactions gives them.
Rebased(txs) == [i \in DOMAIN txs |-> [txs[i] EXCEPT !.uuid = nextId + i - 1]]

\* The new uuids of those that are left without what they replace.
Orphaned(txs) ==
  {Rebased(txs)[i].uuid :
     i \in {i \in DOMAIN txs : \/ txs[i].replaces \in Uuids(txs)
                               \/ txs[i].uuid \in orphans}}

\* sync(): fetch and rebase, and push what is on top.  The server may get out of
\* reach before the push, and its answer to the push may get lost.
Synchronize(d) ==
  LET news == SubSeq(log, seen[d] + 1, Len(log))
      fetched == IF news = << >> THEN own[d] ELSE Rebased(own[d])
  IN  /\ Uuids(news) \cap Uuids(own[d]) = {}
      /\ Len(log \o own[d]) <= MaxTransactions
      /\ nextId + Len(own[d]) <= MaxId + 1
      /\ \E pushed, answered \in BOOLEAN :
           /\ log' = IF pushed THEN log \o fetched ELSE log
           /\ seen' = [seen EXCEPT ![d] = IF answered THEN Len(log') ELSE Len(log)]
           /\ own' = [own EXCEPT ![d] = IF pushed /\ answered THEN << >> ELSE fetched]
      /\ IF news = << >>
           THEN UNCHANGED <<nextId, orphans>>
           ELSE /\ nextId' = nextId + Len(own[d])
                /\ orphans' = orphans \cup Orphaned(own[d])

BalanceNext ==
  \E d \in Devices :
    \/ RecordExpense(d)
    \/ EditTransaction(d)
    \/ DeleteTransaction(d)
    \/ Synchronize(d)

BalanceSpec == BalanceInit /\ [][BalanceNext]_balanceVars

-------------------------------------------------------------------------------
(* Properties.                                                               *)

\* Nothing has been edited or deleted by two devices that did not know of each
\* other.
NoConflict(txs) ==
  \A i, j \in DOMAIN txs :
    i # j /\ txs[i].replaces # NoId => txs[i].replaces # txs[j].replaces

\* The balance is known, and that of the transactions the list shows: each edit
\* replaces, each deletion takes back exactly what it is about.
\* (get_balance against flattenHistory.)
BalanceOfShown(txs) ==
  LET add(balance, i) == UpdateBalance(balance, txs[i], 1)
  IN  /\ BalanceKnown(txs)
      /\ GetBalance(txs) = FoldLeft(add, [m \in Members |-> 0],
                                    SetToSeq(Shown(txs)))

\* On every device get_balance and the list agree, as long as no two devices
\* edit or delete the same transaction and no rebase renames what an edit or a
\* deletion is about: edits of edits, deletions of edits and edits of different
\* transactions that cross each other are all taken back once, also after
\* rebases, fetches without a push and lost answers.
BalanceOfShownUnlessOrphaned ==
  \A d \in Devices :
    LET txs == Chain(d)
    IN  NoConflict(txs) /\ Uuids(txs) \cap orphans = {} => BalanceOfShown(txs)
===============================================================================
