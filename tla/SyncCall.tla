-------------------------------- MODULE SyncCall ------------------------------
(* sync() and clone_remote() of lib/src/sync.rs as one call, for the modules *)
(* about what surrounds a call.  What may happen between its requests and    *)
(* writes is FlouzeSync.                                                     *)
EXTENDS Repository

News(local, remote) == ChildTransactions(remote, local.synced)

Unsynchronized(local) == ChainSince(local, local.synced)

UpToDate(local, remote) == local.synced = remote.latest

CanRebase(local, remote) ==
  /\ KnowsChildren(remote, local.synced)
  /\ News(local, remote) # << >>
  /\ CheckTransactionIdUniqueness(local, News(local, remote))
  /\ CheckChainConsistency(News(local, remote))
  /\ IsChainSince(local, local.synced, Unsynchronized(local))

\* rebase_local_transactions returns Ok.
CanFetch(local, remote) == UpToDate(local, remote) \/ CanRebase(local, remote)

\* How many ids it generates.
IdsForFetch(local, remote) ==
  IF UpToDate(local, remote) THEN 0 ELSE Len(Unsynchronized(local))

\* Mutant: the account is moved to the end of the news.
RebaseLocalTransactions_DropsOwn(local, remote, freshId) ==
  LET news   == News(local, remote)
      newest == news[Len(news)].uuid
      stored == AddTransactions(local, news).txs
  IN  [txs    |-> Restrict(stored, DOMAIN stored \ Uuids(Unsynchronized(local))),
       latest |-> newest,
       synced |-> newest]

\* What it leaves in the file: news and rebased transactions are stored, the
\* account is moved, the originals are deleted.
RebaseLocalTransactions(local, remote, freshId) ==
  LET news    == News(local, remote)
      newest  == news[Len(news)].uuid
      old     == Unsynchronized(local)
      rebased == RebaseTransactions(old, newest, freshId)
      stored  == AddTransactions(local, news \o rebased).txs
  IN  [txs    |-> Restrict(stored, DOMAIN stored \ Uuids(old)),
       latest |-> IF old = << >> THEN newest ELSE rebased[Len(rebased)].uuid,
       synced |-> newest]

Fetch(local, remote, freshId) ==
  IF UpToDate(local, remote) THEN local
                             ELSE RebaseLocalTransactions(local, remote, freshId)

\* The rest of sync(), on what Fetch has left.
CanPush(fetched, remote) ==
  /\ IsChainSince(fetched, fetched.synced, Unsynchronized(fetched))
  /\ Accepts(remote, Unsynchronized(fetched))

MarkPushed(fetched) ==
  IF Unsynchronized(fetched) = << >>
    THEN fetched
    ELSE SetLatestSynchronizedTransaction(fetched, fetched.latest)

\* sync() returns Ok.
CanSync(local, remote, freshId) ==
  CanFetch(local, remote) /\ CanPush(Fetch(local, remote, freshId), remote)

\* What a sync() leaves on the device, whether it succeeds or not, and what it
\* leaves on the server.
LocalAfterSync(local, remote, freshId) ==
  LET fetched == Fetch(local, remote, freshId)
  IN  IF ~CanFetch(local, remote)      THEN local
      ELSE IF CanPush(fetched, remote) THEN MarkPushed(fetched)
                                       ELSE fetched

RemoteAfterSync(local, remote, freshId) ==
  IF CanSync(local, remote, freshId)
    THEN ReceiveTransactions(remote, Unsynchronized(Fetch(local, remote, freshId)))
    ELSE remote

\* How a sync() ends.  It returns Ok, or an error before it has sent what the
\* device has of its own; or the push is lost, or stored and its answer lost: an
\* error too, and the device has kept what it fetched and marked nothing.
SyncOutcomes(local, remote, freshId) ==
  LET fetched == Fetch(local, remote, freshId)
      stored  == RemoteAfterSync(local, remote, freshId)
  IN  {[local  |-> LocalAfterSync(local, remote, freshId), remote |-> stored,
        end |-> "returned"]}
      \cup IF CanSync(local, remote, freshId) /\ Unsynchronized(fetched) # << >>
             THEN {[local |-> fetched, remote |-> remote, end |-> "not pushed"],
                   [local |-> fetched, remote |-> stored, end |-> "unanswered"]}
             ELSE {}
===============================================================================
