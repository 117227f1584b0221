------------------------------ MODULE Repository ------------------------------
(* The part of a repository that belongs to one account, and the operators   *)
(* that lib/src/repository.rs and lib/src/sync.rs compute on it.  Accounts   *)
(* never share a key (sledrepository.rs tx_key), so one account is enough.   *)
(*                                                                           *)
(* A transaction is a record with fields uuid, parent, replaces, deleted and *)
(* body; body stands for everything a rebase copies untouched (label,        *)
(* amount, payers, date).  A uuid is a positive number, handed out in        *)
(* increasing order; only "fresh" and "equal" matter about it.               *)
EXTENDS Naturals, Sequences, Functions

\* model::INVALID_ID, the empty byte string: no transaction.
NoId == 0

EmptyRepo == [txs |-> [id \in {} |-> NoId], latest |-> NoId, synced |-> NoId]

HasTransaction(repo, id) == id \in DOMAIN repo.txs

\* A sled insert: it overwrites what the key held.
AddTransaction(repo, tx) ==
  [repo EXCEPT !.txs = [id \in DOMAIN @ \cup {tx.uuid} |->
                          IF id = tx.uuid THEN tx ELSE @[id]]]

DeleteTransaction(repo, id) ==
  [repo EXCEPT !.txs = [other \in DOMAIN @ \ {id} |-> @[other]]]

SetLatestTransaction(repo, id) == [repo EXCEPT !.latest = id]

SetLatestSynchronizedTransaction(repo, id) == [repo EXCEPT !.synced = id]

-------------------------------------------------------------------------------

\* Each transaction sits on the one before it; the first sits on anything.
CheckChainConsistency(txs) ==
  \A i \in 2..Len(txs) : txs[i].parent = txs[i - 1].uuid

\* What iterating get_transaction_chain yields down to (not including) base,
\* oldest first; it stops at the root and at a transaction that is not stored.
ChainSince(repo, base) ==
  LET since[id \in Nat] ==
        IF ~HasTransaction(repo, id) \/ id = base
          THEN << >>
          ELSE Append(since[repo.txs[id].parent], repo.txs[id])
  IN  since[repo.latest]

Stored(repo) == Range(repo.txs)

\* txs is the unbroken chain of stored transactions from base (or from the root)
\* to the latest one: iterating it met no NoSuchTransaction.
IsChainSince(repo, base, txs) ==
  LET first == IF txs = << >> THEN repo.latest ELSE txs[1].parent
  IN  /\ txs \in Seq(Stored(repo))
      /\ first = NoId \/ (first = base /\ HasTransaction(repo, base))
      /\ CheckChainConsistency(txs)
      /\ txs # << >> => txs[Len(txs)].uuid = repo.latest

Chain(repo) == ChainSince(repo, NoId)

IsReadable(repo) == IsChainSince(repo, NoId, Chain(repo))

\* get_child_transactions: base has to be stored, but nothing asks that it be
\* on the chain; when it is not, the whole chain is returned.
ChildTransactions(repo, base) == ChainSince(repo, base)

KnowsChildren(repo, base) ==
  /\ base = NoId \/ HasTransaction(repo, base)
  /\ IsChainSince(repo, base, ChildTransactions(repo, base))

-------------------------------------------------------------------------------

Uuids(txs) == {txs[i].uuid : i \in DOMAIN txs}

LastWithUuid(txs, id) ==
  CHOOSE i \in DOMAIN txs : /\ txs[i].uuid = id
                            /\ \A j \in DOMAIN txs : j > i => txs[j].uuid # id

\* add_transaction for each of txs in turn: of two with one uuid the last stays.
AddTransactions(repo, txs) ==
  [repo EXCEPT !.txs = [id \in DOMAIN @ \cup Uuids(txs) |->
                          IF id \in Uuids(txs) THEN txs[LastWithUuid(txs, id)]
                                               ELSE @[id]]]

\* Mutant: no MustRebase check.
Accepts_OnTopOfAnything(repo, txs) == CheckChainConsistency(txs)

\* The checks of receive_transactions (MustRebase and InconsistentChain).
Accepts(repo, txs) ==
  txs # << >> => /\ repo.latest = txs[1].parent
                 /\ CheckChainConsistency(txs)

ReceiveTransactions(repo, txs) ==
  IF txs = << >> \/ ~Accepts(repo, txs)
    THEN repo
    ELSE SetLatestTransaction(AddTransactions(repo, txs), txs[Len(txs)].uuid)

\* Mutant: news are never compared with what is stored.
CheckTransactionIdUniqueness_Skipped(repo, txs) == TRUE

\* check_transaction_id_uniqueness: none of txs is stored already.
CheckTransactionIdUniqueness(repo, txs) ==
  \A i \in DOMAIN txs : ~HasTransaction(repo, txs[i].uuid)

\* Mutant: without to_rebase.reverse().
RebaseTransactions_NewestFirst(txs, newBase, freshId) ==
  [i \in DOMAIN txs |->
     [txs[Len(txs) + 1 - i] EXCEPT
        !.uuid = freshId + i - 1,
        !.parent = IF i = 1 THEN newBase ELSE freshId + i - 2]]

\* Mutant: a rebased transaction keeps its uuid.
RebaseTransactions_SameUuid(txs, newBase, freshId) ==
  [i \in DOMAIN txs |-> IF i = 1 THEN [txs[i] EXCEPT !.parent = newBase] ELSE txs[i]]

\* rebase_transactions: every transaction gets a fresh uuid (freshId, freshId+1,
\* ...) and sits on the one rebased before it.  `replaces` is left as it is.
RebaseTransactions(txs, newBase, freshId) ==
  [i \in DOMAIN txs |->
     [txs[i] EXCEPT !.uuid = freshId + i - 1,
                    !.parent = IF i = 1 THEN newBase ELSE freshId + i - 2]]
===============================================================================
