------------------------------ MODULE AccountPage -----------------------------
(* The page of a shared account on a phone (mobile/lib/blocs/transactions.dart *)
(* and account_sync.dart, pages/account.dart).  The page calls the repository  *)
(* through one isolate that takes calls in turn, and goes on while they are    *)
(* under way; other devices synchronize the account too.                       *)
(*                                                                             *)
(* The page never asks which transaction is the latest: `latest` is a field of *)
(* the account object that the list of accounts handed out when it was read.   *)
(* An expense is stored, and the account synchronized, before a call of its    *)
(* own flushes what was written: what was not flushed, a killed app may lose.  *)
EXTENDS SyncCall, SequencesExt

CONSTANTS
  MaxExpenses,  \* bound: expenses, edits and deletions the page saves
  MaxOthers,    \* bound: transactions other devices push
  MaxMishaps    \* bound: calls that fail, requests and answers that get lost, pages
                \* that are left and opened again, kills of the app

ASSUME ConstantsAssumption ==
  {MaxExpenses, MaxOthers, MaxMishaps} \subseteq Nat

VARIABLES
  file,      \* what the phone stores of the account
  disk,      \* what of it a killed app finds again
  server,    \* what the server stores of it
  latest,    \* _account.latestTransaction
  page,      \* what the page shows: "loading", "loaded" or "error"
  shown,     \* the transactions of a page that is loaded
  syncing,   \* the page shows that it synchronizes
  editing,   \* the transaction that the editor on top of the page is to replace
  calls,     \* calls that the isolate has not taken yet
  answers,   \* answers that the page has not taken yet
  nextId,    \* the next transaction id that has not been generated
  counts,    \* how much of each bound is used up
  stored,    \* history: the numbers of the phone's expenses, as they were stored
  stale,     \* history: since `latest` was read, sync() moved the account or an
             \* expense could not be stored
  forked,    \* history: an expense was stored on top of something else than the
             \* latest transaction
  unnoticed, \* history: sync() changed the file, and the page will not read it
  rewound    \* history: a killed app lost what it had stored

vars == <<file, disk, server, latest, page, shown, syncing, editing, calls, answers,
          nextId, counts, stored, stale, forked, unnoticed, rewound>>

NoTransaction == [uuid |-> NoId]

\* A call or its answer: for an "add" the transaction, for the answer to a "list"
\* (and the call for its transfers) what it read; mine: the page that made the
\* call is still open.
Message(op) == [op |-> op, tx |-> NoTransaction, txs |-> << >>, ok |-> TRUE, mine |-> TRUE]

Init ==
  /\ file = EmptyRepo
  /\ disk = EmptyRepo
  /\ server = EmptyRepo
  /\ latest = NoId
  /\ page = "loading"
  /\ shown = << >>
  /\ syncing = FALSE
  /\ editing = NoId
  /\ calls = <<Message("list")>>
  /\ answers = << >>
  /\ nextId = 1
  /\ counts = [expenses |-> 0, others |-> 0, mishaps |-> 0]
  /\ stored = << >>
  /\ stale = FALSE
  /\ forked = FALSE
  /\ unnoticed = FALSE
  /\ rewound = FALSE

Count(what, bound) ==
  /\ counts[what] < bound
  /\ counts' = [counts EXCEPT ![what] = @ + 1]

NewTransaction(who, nth, parent, replaces, deleted) ==
  [uuid |-> nextId, parent |-> parent, replaces |-> replaces, deleted |-> deleted,
   body |-> [by |-> who, nth |-> nth]]

-------------------------------------------------------------------------------
(* The page.                                                                 *)

\* flattenHistory: what is deleted, or replaced by something newer, is hidden.
FlattenHistory(txs) ==
  {txs[i] : i \in {k \in DOMAIN txs :
     ~txs[k].deleted /\ \A j \in DOMAIN txs : j > k => txs[j].replaces # txs[k].uuid}}

\* Only what is there already can be deleted.
DeletedOrNot(replaces) == IF replaces = NoId THEN {FALSE} ELSE BOOLEAN

HistoryUnchanged == UNCHANGED <<stored, stale, forked, unnoticed, rewound>>

StoresUnchanged == UNCHANGED <<file, disk, server>>

\* The transaction that the page saves: an expense, or what the editor makes of the
\* one it was opened for.
Saved(deleted) == NewTransaction("phone", counts'.expenses, latest, editing, deleted)

\* Mutant: the list is read before the transaction is written.
SaveTransaction_LoadsFirst ==
  /\ page = "loaded"
  /\ Count("expenses", MaxExpenses)
  /\ \E deleted \in DeletedOrNot(editing) :
       calls' = calls \o <<Message("list"),
                           [Message("add") EXCEPT !.tx = Saved(deleted)]>>
  /\ latest' = nextId
  /\ nextId' = nextId + 1
  /\ page' = "loading"
  /\ editing' = NoId
  /\ UNCHANGED <<shown, syncing, answers>> /\ StoresUnchanged /\ HistoryUnchanged

\* Mutant: the account object is left as it is.
SaveTransaction_SameLatest ==
  /\ page = "loaded"
  /\ Count("expenses", MaxExpenses)
  /\ \E deleted \in DeletedOrNot(editing) :
       calls' = calls \o <<[Message("add") EXCEPT !.tx = Saved(deleted)],
                           Message("list")>>
  /\ nextId' = nextId + 1
  /\ page' = "loading"
  /\ editing' = NoId
  /\ UNCHANGED <<latest, shown, syncing, answers>> /\ StoresUnchanged /\ HistoryUnchanged

\* saveTransaction, once the form of a new expense or the editor has been left.  The
\* list with the new transaction on top is gone before anybody can see it.
SaveTransaction ==
  /\ page = "loaded"
  /\ Count("expenses", MaxExpenses)
  /\ \E deleted \in DeletedOrNot(editing) :
       calls' = calls \o <<[Message("add") EXCEPT !.tx = Saved(deleted)],
                           Message("list")>>
  /\ latest' = nextId
  /\ nextId' = nextId + 1
  /\ page' = "loading"
  /\ editing' = NoId
  /\ UNCHANGED <<shown, syncing, answers>> /\ StoresUnchanged /\ HistoryUnchanged

\* A tap on a transaction opens the editor, which takes its uuid and covers the page
\* until it is left; meanwhile what the page has begun goes on.
EditTransaction ==
  /\ page = "loaded"
  /\ editing = NoId
  /\ \E tx \in FlattenHistory(shown) : editing' = tx.uuid
  /\ UNCHANGED <<latest, page, shown, syncing, calls, answers, nextId, counts>>
  /\ StoresUnchanged /\ HistoryUnchanged

\* The editor is left without a word; or with an edit, and saveTransaction does
\* nothing, as the page is not loaded.
LeaveEditor ==
  /\ editing # NoId
  /\ editing' = NoId
  /\ UNCHANGED <<latest, page, shown, syncing, calls, answers, nextId, counts>>
  /\ StoresUnchanged /\ HistoryUnchanged

\* synchronize: it asks for the addresses of the repository and of the client.
Synchronize ==
  /\ editing = NoId
  /\ ~syncing
  /\ syncing' = TRUE
  /\ calls' = Append(calls, Message("pointers"))
  /\ UNCHANGED <<latest, page, shown, editing, answers, nextId, counts>>
  /\ StoresUnchanged /\ HistoryUnchanged

Orphans(msgs) == [i \in DOMAIN msgs |-> [msgs[i] EXCEPT !.mine = FALSE]]

\* The user leaves the page and opens it again, from the same list of accounts.
\* What the old page has begun goes on, and nobody takes note of how it ends.
Reopen ==
  /\ editing = NoId
  /\ Count("mishaps", MaxMishaps)
  /\ calls' = Append(Orphans(calls), Message("list"))
  /\ answers' = Orphans(answers)
  /\ page' = "loading"
  /\ syncing' = FALSE
  /\ UNCHANGED <<latest, shown, editing, nextId>> /\ StoresUnchanged /\ HistoryUnchanged

\* The app is killed between two calls and started again: the list of accounts is
\* read again, from what was flushed.  (A kill in the middle of sync() is the Crash
\* of FlouzeSync.)
Restart ==
  /\ Count("mishaps", MaxMishaps)
  /\ file' = disk
  /\ latest' = disk.latest
  /\ calls' = <<Message("list")>>
  /\ answers' = << >>
  /\ page' = "loading"
  /\ syncing' = FALSE
  /\ editing' = NoId
  /\ stale' = FALSE
  /\ unnoticed' = FALSE
  /\ rewound' = (rewound \/ disk # file)
  /\ UNCHANGED <<disk, server, shown, nextId, stored, forked>>

-------------------------------------------------------------------------------
(* The isolate takes a call and answers it.                                  *)

Take(op) ==
  /\ calls # << >>
  /\ Head(calls).op = op

Answer(m) ==
  /\ calls' = Tail(calls)
  /\ answers' = Append(answers, [m EXCEPT !.mine = Head(calls).mine])

PageUnchanged == UNCHANGED <<latest, page, shown, syncing, editing>>

\* Sled also flushes by itself, now and then.  (That a killed app keeps a part of
\* what one call wrote is in FlouzeSync.)
MaybeFlushed == disk' \in {disk, file'}

\* get_first_non_deleted_ancestor of a transaction that replaces the one called id
\* returns no NoSuchTransaction.
HasAncestor(repo, id) ==
  LET found[k \in Nat] ==
        /\ HasTransaction(repo, k)
        /\ repo.txs[k].deleted => found[repo.txs[k].replaces]
  IN  found[id]

\* get_balance returns no error: it looks up what each transaction replaces, which
\* need not be on the chain.
BalanceKnown(repo) ==
  \A tx \in Range(Chain(repo)) :
    tx.replaces # NoId \/ tx.deleted => HasAncestor(repo, tx.replaces)

CanShow(repo) == IsReadable(repo) /\ BalanceKnown(repo)

\* listTransactions and getBalance: both fail if the chain is broken.
ServeList ==
  /\ Take("list")
  /\ Answer([Message("list") EXCEPT !.txs = Chain(file), !.ok = CanShow(file)])
  /\ unnoticed' = (unnoticed /\ ~Head(calls).mine)
  /\ PageUnchanged /\ StoresUnchanged
  /\ UNCHANGED <<nextId, counts, stored, stale, forked, rewound>>

\* getTransfers reads no file; nor does asking for a pointer.
ServeWithoutFile ==
  /\ Take("transfers") \/ Take("pointers")
  /\ Answer(Head(calls))
  /\ PageUnchanged /\ StoresUnchanged /\ HistoryUnchanged
  /\ UNCHANGED <<nextId, counts>>

ServeFlush ==
  /\ Take("flush")
  /\ \/ /\ disk' = file
        /\ Answer(Message("flush"))
        /\ UNCHANGED <<counts, unnoticed>>
     \/ /\ Count("mishaps", MaxMishaps)
        /\ Answer([Message("flush") EXCEPT !.ok = FALSE])
        /\ unnoticed' = (unnoticed \/ Head(calls).mine)
        /\ UNCHANGED disk
  /\ PageUnchanged
  /\ UNCHANGED <<file, server, nextId, stored, stale, forked, rewound>>

\* Mutant: set_latest_transaction is forgotten.
WithTransaction_NotLatest(repo, tx) == AddTransaction(repo, tx)

\* add_transaction of the bindings: the transaction, then the account.
WithTransaction(repo, tx) == SetLatestTransaction(AddTransaction(repo, tx), tx.uuid)

\* addTransaction.
ServeAdd ==
  LET tx == Head(calls).tx
  IN  /\ Take("add")
      /\ \/ /\ file' = WithTransaction(file, tx)
            /\ stored' = Append(stored, tx.body.nth)
            /\ forked' = (forked \/ tx.parent # file.latest)
            /\ Answer(Message("add"))
            /\ UNCHANGED <<stale, counts>>
         \/ /\ Count("mishaps", MaxMishaps)
            /\ stale' = TRUE
            /\ Answer([Message("add") EXCEPT !.ok = FALSE])
            /\ UNCHANGED <<file, stored, forked>>
      /\ MaybeFlushed
      /\ PageUnchanged
      /\ UNCHANGED <<server, nextId, unnoticed, rewound>>

\* sync() returns: the file, the server's repository and whether all went well.
EndSync(local, remote, ok) ==
  /\ file' = local
  /\ server' = remote
  /\ Answer([Message("sync") EXCEPT !.ok = ok])
  /\ stale' = (stale \/ local.latest # file.latest)
  /\ unnoticed' = (unnoticed \/ (local # file /\ ~(ok /\ Head(calls).mine)))

\* sync() ends in one of its ways, or loses the server before it has got the news.
ServeSync ==
  /\ Take("sync")
  /\ \/ /\ nextId' = IF CanFetch(file, server)
                       THEN nextId + IdsForFetch(file, server)
                       ELSE nextId
        /\ \E o \in SyncOutcomes(file, server, nextId) :
             /\ EndSync(o.local, o.remote,
                        o.end = "returned" /\ CanSync(file, server, nextId))
             /\ \/ o.end = "returned" /\ UNCHANGED counts
                \/ o.end # "returned" /\ Count("mishaps", MaxMishaps)
     \/ /\ Count("mishaps", MaxMishaps)
        /\ EndSync(file, server, FALSE)
        /\ UNCHANGED nextId
  /\ MaybeFlushed
  /\ PageUnchanged
  /\ UNCHANGED <<stored, forked, rewound>>

Serve == ServeList \/ ServeWithoutFile \/ ServeFlush \/ ServeAdd \/ ServeSync

-------------------------------------------------------------------------------
(* The page takes an answer.                                                 *)

Receive(op) ==
  /\ answers # << >>
  /\ Head(answers).op = op
  /\ answers' = Tail(answers)

RestUnchanged ==
  UNCHANGED <<latest, editing, nextId, counts>> /\ StoresUnchanged /\ HistoryUnchanged

\* loadTransactions goes on with the transfers, or shows the error; a page that has
\* gone shows nothing.
ReceiveList ==
  /\ Receive("list")
  /\ \/ /\ Head(answers).ok
        /\ calls' = Append(calls, [Head(answers) EXCEPT !.op = "transfers"])
        /\ UNCHANGED page
     \/ /\ ~Head(answers).ok
        /\ page' = IF Head(answers).mine THEN "error" ELSE page
        /\ UNCHANGED calls
  /\ UNCHANGED <<shown, syncing>> /\ RestUnchanged

ReceiveTransfers ==
  /\ Receive("transfers")
  /\ \/ /\ Head(answers).mine
        /\ page' = "loaded"
        /\ shown' = Head(answers).txs
     \/ /\ ~Head(answers).mine
        /\ UNCHANGED <<page, shown>>
  /\ UNCHANGED <<syncing, calls>> /\ RestUnchanged

\* _sync goes on with the addresses, also when its page has gone.
ReceivePointers ==
  /\ Receive("pointers")
  /\ calls' = Append(calls, [Message("sync") EXCEPT !.mine = Head(answers).mine])
  /\ UNCHANGED <<page, shown, syncing>> /\ RestUnchanged

\* The transaction is flushed, also when its page has gone; nobody waits for that.
\* An error is nobody's.
ReceiveAdd ==
  /\ Receive("add")
  /\ calls' = IF Head(answers).ok
                THEN Append(calls, [Message("flush") EXCEPT !.mine = FALSE])
                ELSE calls
  /\ UNCHANGED <<page, shown, syncing>> /\ RestUnchanged

\* Mutant: after an error the account is not set free again.
ReceiveSync_ErrorSticks ==
  /\ Receive("sync")
  /\ \/ /\ Head(answers).ok
        /\ calls' = Append(calls, [Message("flush") EXCEPT !.mine = Head(answers).mine])
        /\ UNCHANGED syncing
     \/ /\ ~Head(answers).ok
        /\ UNCHANGED <<calls, syncing>>
  /\ UNCHANGED <<page, shown>> /\ RestUnchanged

\* _syncHelper goes on with flush, or ends with an error.
ReceiveSync ==
  /\ Receive("sync")
  /\ \/ /\ Head(answers).ok
        /\ calls' = Append(calls, [Message("flush") EXCEPT !.mine = Head(answers).mine])
        /\ UNCHANGED syncing
     \/ /\ ~Head(answers).ok
        /\ syncing' = IF Head(answers).mine THEN FALSE ELSE syncing
        /\ UNCHANGED calls
  /\ UNCHANGED <<page, shown>> /\ RestUnchanged

\* _syncHelper ends; the page reads the list again only if there was no error.
ReceiveFlush ==
  /\ Receive("flush")
  /\ syncing' = IF Head(answers).mine THEN FALSE ELSE syncing
  /\ \/ /\ Head(answers).mine /\ Head(answers).ok
        /\ page' = "loading"
        /\ calls' = Append(calls, Message("list"))
     \/ /\ ~(Head(answers).mine /\ Head(answers).ok)
        /\ UNCHANGED <<calls, page>>
  /\ UNCHANGED shown /\ RestUnchanged

ReceiveAnswer ==
  ReceiveList \/ ReceiveTransfers \/ ReceivePointers \/ ReceiveAdd \/ ReceiveSync
    \/ ReceiveFlush

\* Another device pushes what was recorded there on top of the server's log: an
\* expense, or an edit or a deletion of what it lists.
OtherPushes ==
  /\ Count("others", MaxOthers)
  /\ \E replaces \in {NoId} \cup {tx.uuid : tx \in FlattenHistory(Chain(server))} :
       \E deleted \in DeletedOrNot(replaces) :
         server' = ReceiveTransactions(server,
           <<NewTransaction("other", counts'.others, server.latest, replaces, deleted)>>)
  /\ nextId' = nextId + 1
  /\ PageUnchanged /\ HistoryUnchanged
  /\ UNCHANGED <<file, disk, calls, answers>>

-------------------------------------------------------------------------------

Next ==
  \/ SaveTransaction
  \/ EditTransaction
  \/ LeaveEditor
  \/ Synchronize
  \/ Reopen
  \/ Restart
  \/ Serve
  \/ ReceiveAnswer
  \/ OtherPushes

Spec == Init /\ [][Next]_vars

\* The isolate goes on taking calls, and the page taking answers: weak fairness of
\* Serve and ReceiveAnswer, with what enables them written out.
Fairness ==
  /\ []<>(calls = << >>) \/ []<><<Serve>>_vars
  /\ []<>(answers = << >>) \/ []<><<ReceiveAnswer>>_vars

FairSpec == Spec /\ Fairness

-------------------------------------------------------------------------------
(* Properties.                                                               *)

Bodies(txs) == {txs[i].body : i \in DOMAIN txs}

\* The numbers of the phone's transactions in txs.
OfPhone(txs) ==
  LET upTo[n \in 0..Len(txs)] ==
        IF n = 0 THEN << >>
        ELSE IF txs[n].body.by = "phone" THEN Append(upTo[n - 1], txs[n].body.nth)
                                         ELSE upTo[n - 1]
  IN  upTo[Len(txs)]

\* The positions of the calls that are to store an expense.
Adds(msgs) == {i \in DOMAIN msgs : msgs[i].op = "add"}

\* While the account object is not out of date, the next expense will sit on the
\* latest transaction: the one the file will have once every call made so far
\* has been taken.  (saveTransaction.)
ParentIsLatest ==
  ~stale => latest = IF Adds(calls) = {} THEN file.latest
                                         ELSE calls[Max(Adds(calls))].tx.uuid

\* Unless an expense was stored on the wrong parent or a killed app lost what it had
\* not flushed, the account can be read, its history holds all that was stored,
\* once and in that order, and the server gets it in that order, each once, also
\* when a push or its answer is lost.  (add_transaction, sync.)
HistoryComplete ==
  ~forked /\ ~rewound =>
    /\ IsReadable(file)
    /\ OfPhone(Chain(file)) = stored
    /\ IsPrefix(OfPhone(Chain(server)), stored)

\* Whenever the page has settled it can synchronize again, and shows what the file
\* holds if the list and the balance can be computed, unless a sync() that changed
\* the file failed or outlived its page.  (loadTransactions, account.dart.  When they
\* cannot, it shows an error, or the list of an earlier loading that ended later.)
SettledPageIsRight ==
  calls = << >> /\ answers = << >> /\ ~unnoticed =>
    /\ ~syncing
    /\ CanShow(file) => page = "loaded" /\ shown = Chain(file)

\* Nothing leaves the history of the phone, unless the account object was out of
\* date, an expense sits on the wrong parent already, or a killed app lost what it
\* had not flushed.  (saveTransaction.)
HistoryKeptUnlessStale ==
  [][ ~stale /\ ~forked /\ ~rewound' =>
        Bodies(Chain(file)) \subseteq Bodies(Chain(file')) ]_file

\* Nothing leaves the history of the phone.  (README, "a log of all expenses,
\* which can be synchronized across several devices".)
HistoryKept ==
  [][ Bodies(Chain(file)) \subseteq Bodies(Chain(file')) ]_file

\* A page that loads comes to an end of it, also when the list cannot be read,
\* and one that synchronizes does so too and can synchronize again.
\* (loadTransactions, _syncHelper.)
PageSettles ==
  /\ page = "loading" ~> page # "loading"
  /\ syncing ~> ~syncing
===============================================================================
