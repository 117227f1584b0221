------------------------------ MODULE FlouzeSync ------------------------------
(* Devices that record expenses for one account, and the server they         *)
(* synchronize it through: sync() of lib/src/sync.rs, the server's handlers  *)
(* of lib/src/jsonrpcremote.rs and the way a device records a transaction.   *)
(*                                                                           *)
(* Every write to a device's sled file is a step of its own.  A device runs  *)
(* one operation at a time (sled locks its file; the mobile app sends every  *)
(* native call to one isolate), so an operation is interrupted by crashes    *)
(* and by the other devices, never by another operation on the same file.    *)
(* The server handles a request under its RwLock: one step.                  *)
EXTENDS SyncCall, SequencesExt

CONSTANTS
  Clients,       \* the devices
  Kinds,         \* what devices record, a subset of AllKinds
  Faults,        \* what the network and the server may do, a subset of AllFaults
  WriteThrough,  \* TRUE: a crash loses no write; FALSE: it loses what sled has
                 \* not flushed yet
  MaxExpenses,   \* bound: transactions recorded by each device
  MaxCrashes,    \* bound: crashes of devices
  MaxFaults      \* bound: faults of the network and of the server

AllKinds  == {"expense", "edit", "deletion"}
AllFaults == {"request_lost", "request_late", "reply_lost", "server_crash"}

ASSUME ConstantsAssumption ==
  /\ Clients # {}
  /\ Kinds \subseteq AllKinds
  /\ Faults \subseteq AllFaults
  /\ WriteThrough \in BOOLEAN
  /\ MaxExpenses \in Nat
  /\ MaxCrashes \in Nat
  /\ MaxFaults \in Nat

VARIABLES
  repo,      \* repo[c]: what device c reads from its file
  disk,      \* disk[c]: what device c would read after a crash
  pc,        \* pc[c]: the step of its operation device c has reached
  job,       \* job[c]: the local variables of that operation
  server,    \* the server's repository
  late,      \* pushes whose device gave up, still on their way to the server
  nextId,    \* the next transaction id that has not been generated
  recorded,  \* recorded[c]: how many transactions device c has recorded
  crashes,   \* how many crashes have happened
  faults,    \* how many faults have happened
  rewound    \* history: a crash has lost writes of some device

vars == <<repo, disk, pc, job, server, late, nextId, recorded, crashes, faults,
          rewound>>

NoJob == [batch |-> << >>, latest |-> NoId, synced |-> NoId, garbage |-> << >>]

Init ==
  /\ repo = [c \in Clients |-> EmptyRepo]
  /\ disk = [c \in Clients |-> EmptyRepo]
  /\ pc = [c \in Clients |-> "idle"]
  /\ job = [c \in Clients |-> NoJob]
  /\ server = EmptyRepo
  /\ late = {}
  /\ nextId = 1
  /\ recorded = [c \in Clients |-> 0]
  /\ crashes = 0
  /\ faults = 0
  /\ rewound = FALSE

-------------------------------------------------------------------------------

\* Device c moves from one step of its operation to another.
Goto(c, from, to) ==
  /\ pc[c] = from
  /\ pc' = [pc EXCEPT ![c] = to]

SetJob(c, j) == job' = [job EXCEPT ![c] = j]

\* Device c writes to its file.
Write(c, r) ==
  /\ repo' = [repo EXCEPT ![c] = r]
  /\ disk' = IF WriteThrough THEN [disk EXCEPT ![c] = r] ELSE disk

Offline == UNCHANGED <<server, late, faults>>

NoCrash == UNCHANGED <<crashes, rewound>>

-------------------------------------------------------------------------------
(* Recording a transaction: Repository::add_transaction, then                *)
(* Repository::set_latest_transaction.                                       *)

\* What a new transaction of device c may say: <<replaces, deleted>>.  An edit
\* or a deletion replaces a transaction of the history, which is only shown if
\* all of it can be read.
Contents(c) ==
  LET history == IF IsReadable(repo[c]) THEN Uuids(Chain(repo[c])) ELSE {}
  IN  (IF "expense" \in Kinds THEN {<<NoId, FALSE>>} ELSE {})
        \cup (IF "edit" \in Kinds THEN history \X {FALSE} ELSE {})
        \cup (IF "deletion" \in Kinds THEN history \X {TRUE} ELSE {})

\* Mutant: devices number their transactions themselves.
NewTransaction_LocalIds(c, content) ==
  [uuid |-> recorded[c] + 1, parent |-> repo[c].latest,
   replaces |-> content[1], deleted |-> content[2],
   body |-> [by |-> c, nth |-> recorded[c] + 1]]

NewTransaction(c, content) ==
  [uuid |-> nextId, parent |-> repo[c].latest,
   replaces |-> content[1], deleted |-> content[2],
   body |-> [by |-> c, nth |-> recorded[c] + 1]]

RecordTransaction(c) ==
  /\ Goto(c, "idle", "recording")
  /\ recorded[c] < MaxExpenses
  /\ \E content \in Contents(c) :
       LET tx == NewTransaction(c, content)
       IN  /\ Write(c, AddTransaction(repo[c], tx))
           /\ SetJob(c, [NoJob EXCEPT !.latest = tx.uuid])
  /\ nextId' = nextId + 1
  /\ UNCHANGED recorded /\ Offline /\ NoCrash

SetLatest(c) ==
  /\ Goto(c, "recording", "idle")
  /\ Write(c, SetLatestTransaction(repo[c], job[c].latest))
  /\ SetJob(c, NoJob)
  /\ recorded' = [recorded EXCEPT ![c] = @ + 1]
  /\ UNCHANGED nextId /\ Offline /\ NoCrash

-------------------------------------------------------------------------------
(* sync() on the device.                                                     *)

\* The call get_latest_transaction, and the test for news it decides.
GetLatestTransaction(c) ==
  /\ Goto(c, "idle", IF UpToDate(repo[c], server) THEN "collecting"
                                                       ELSE "fetching")
  /\ UNCHANGED <<repo, disk, job, nextId, recorded>> /\ Offline /\ NoCrash

\* The call get_child_transactions, and everything computed from its answer.
GetChildTransactions(c) ==
  /\ CanRebase(repo[c], server)
  /\ Goto(c, "fetching", "storing")
  /\ LET news    == News(repo[c], server)
         newest  == news[Len(news)].uuid
         old     == Unsynchronized(repo[c])
         rebased == RebaseTransactions(old, newest, nextId)
     IN  /\ SetJob(c, [batch   |-> news \o rebased,
                       latest  |-> IF old = << >> THEN newest
                                     ELSE rebased[Len(rebased)].uuid,
                       synced  |-> newest,
                       garbage |-> [i \in DOMAIN old |-> old[i].uuid]])
         /\ nextId' = nextId + Len(old)
  /\ UNCHANGED <<repo, disk, recorded>> /\ Offline /\ NoCrash

\* sync() returns an error: nothing has been written by this call.
RefuseRebase(c) ==
  /\ ~CanRebase(repo[c], server)
  /\ Goto(c, "fetching", "idle")
  /\ UNCHANGED <<repo, disk, job, nextId, recorded>> /\ Offline /\ NoCrash

StoreTransaction(c) ==
  /\ job[c].batch # << >>
  /\ Goto(c, "storing", "storing")
  /\ Write(c, AddTransaction(repo[c], Head(job[c].batch)))
  /\ SetJob(c, [job[c] EXCEPT !.batch = Tail(@)])
  /\ UNCHANGED <<nextId, recorded>> /\ Offline /\ NoCrash

\* Mutant: the account is saved before the transactions it points to.
SaveAccount_TooEarly(c) ==
  /\ Goto(c, "storing", "deleting")
  /\ Write(c, SetLatestSynchronizedTransaction(
                SetLatestTransaction(repo[c], job[c].latest), job[c].synced))
  /\ UNCHANGED <<job, nextId, recorded>> /\ Offline /\ NoCrash

\* Repository::add_account with both ids moved at once.
SaveAccount(c) ==
  /\ job[c].batch = << >>
  /\ Goto(c, "storing", "deleting")
  /\ Write(c, SetLatestSynchronizedTransaction(
                SetLatestTransaction(repo[c], job[c].latest), job[c].synced))
  /\ UNCHANGED <<job, nextId, recorded>> /\ Offline /\ NoCrash

\* Mutant: what the garbage was recorded on goes as well.
CollectGarbage_WithParents(c) ==
  /\ job[c].garbage # << >>
  /\ Goto(c, "deleting", "deleting")
  /\ LET old == Head(job[c].garbage)
     IN  Write(c, DeleteTransaction(DeleteTransaction(repo[c], old),
                                    repo[c].txs[old].parent))
  /\ SetJob(c, [job[c] EXCEPT !.garbage = Tail(@)])
  /\ UNCHANGED <<nextId, recorded>> /\ Offline /\ NoCrash

CollectGarbage(c) ==
  /\ job[c].garbage # << >>
  /\ Goto(c, "deleting", "deleting")
  /\ Write(c, DeleteTransaction(repo[c], Head(job[c].garbage)))
  /\ SetJob(c, [job[c] EXCEPT !.garbage = Tail(@)])
  /\ UNCHANGED <<nextId, recorded>> /\ Offline /\ NoCrash

\* Mutant: garbage is left behind.
EndRebase_KeepsGarbage(c) ==
  /\ Goto(c, "deleting", "collecting")
  /\ SetJob(c, NoJob)
  /\ UNCHANGED <<repo, disk, nextId, recorded>> /\ Offline /\ NoCrash

EndRebase(c) ==
  /\ job[c].garbage = << >>
  /\ Goto(c, "deleting", "collecting")
  /\ SetJob(c, NoJob)
  /\ UNCHANGED <<repo, disk, nextId, recorded>> /\ Offline /\ NoCrash

\* Collects what the server does not have and calls receive_transactions.
PushTransactions(c) ==
  /\ IsChainSince(repo[c], repo[c].synced, Unsynchronized(repo[c]))
  /\ Unsynchronized(repo[c]) # << >>
  /\ Goto(c, "collecting", "pushing")
  /\ SetJob(c, [NoJob EXCEPT !.batch = Unsynchronized(repo[c])])
  /\ UNCHANGED <<repo, disk, nextId, recorded>> /\ Offline /\ NoCrash

\* Nothing to push, or the chain cannot be read: sync() returns.
PushNothing(c) ==
  /\ \/ Unsynchronized(repo[c]) = << >>
     \/ ~IsChainSince(repo[c], repo[c].synced, Unsynchronized(repo[c]))
  /\ Goto(c, "collecting", "idle")
  /\ UNCHANGED <<repo, disk, job, nextId, recorded>> /\ Offline /\ NoCrash

\* Mutant: the device does not note that its push was accepted.
SetLatestSynchronized_Forgotten(c) ==
  /\ Goto(c, "marking", "idle")
  /\ Write(c, repo[c])
  /\ SetJob(c, NoJob)
  /\ UNCHANGED <<nextId, recorded>> /\ Offline /\ NoCrash

\* Both writes that end sync(); the second writes the same account again.
SetLatestSynchronized(c) ==
  /\ Goto(c, "marking", "idle")
  /\ Write(c, SetLatestSynchronizedTransaction(repo[c], repo[c].latest))
  /\ SetJob(c, NoJob)
  /\ UNCHANGED <<nextId, recorded>> /\ Offline /\ NoCrash

-------------------------------------------------------------------------------
(* receive_transactions on the server, and what becomes of the answer.       *)

\* Mutant: the device does not look at the answer.
AnswerPush_Unchecked(c) ==
  /\ Goto(c, "pushing", "marking")
  /\ server' = ReceiveTransactions(server, job[c].batch)
  /\ SetJob(c, NoJob)
  /\ UNCHANGED <<repo, disk, late, nextId, recorded, faults>> /\ NoCrash

\* The server handles the push and device c gets the answer.
AnswerPush(c) ==
  /\ Goto(c, "pushing", IF Accepts(server, job[c].batch) THEN "marking" ELSE "idle")
  /\ server' = ReceiveTransactions(server, job[c].batch)
  /\ SetJob(c, NoJob)
  /\ UNCHANGED <<repo, disk, late, nextId, recorded, faults>> /\ NoCrash

\* The call fails on device c: sync() returns an error.
FailPush(c, fault) ==
  /\ fault \in Faults
  /\ faults < MaxFaults
  /\ faults' = faults + 1
  /\ Goto(c, "pushing", "idle")
  /\ SetJob(c, NoJob)
  /\ UNCHANGED <<repo, disk, nextId, recorded>> /\ NoCrash

LoseRequest(c) ==
  /\ FailPush(c, "request_lost")
  /\ UNCHANGED <<server, late>>

DelayRequest(c) ==
  /\ FailPush(c, "request_late")
  /\ late' = late \cup {job[c].batch}
  /\ UNCHANGED server

LoseReply(c) ==
  /\ FailPush(c, "reply_lost")
  /\ server' = ReceiveTransactions(server, job[c].batch)
  /\ UNCHANGED late

\* The server crashes while it stores an accepted push, before the account.
CrashServer(c) ==
  /\ FailPush(c, "server_crash")
  /\ Accepts(server, job[c].batch)
  /\ \E k \in 1..Len(job[c].batch) :
       server' = AddTransactions(server, SubSeq(job[c].batch, 1, k))
  /\ UNCHANGED late

AnswerLatePush ==
  \E batch \in late :
    /\ server' = ReceiveTransactions(server, batch)
    /\ late' = late \ {batch}
    /\ UNCHANGED <<repo, disk, pc, job, nextId, recorded, faults>> /\ NoCrash

-------------------------------------------------------------------------------
(* Crashes.  sled flushes in the background, the mobile app also on request. *)

\* Useless once no crash can follow.
Flush(c) ==
  /\ ~WriteThrough
  /\ crashes < MaxCrashes
  /\ disk[c] # repo[c]
  /\ disk' = [disk EXCEPT ![c] = repo[c]]
  /\ UNCHANGED <<repo, pc, job, nextId, recorded>> /\ Offline /\ NoCrash

\* The process of device c dies, or one of its writes fails and the operation
\* returns.  A push that is under way may still reach the server.
Crash(c) ==
  /\ crashes < MaxCrashes
  /\ crashes' = crashes + 1
  /\ repo' = [repo EXCEPT ![c] = disk[c]]
  /\ rewound' = (rewound \/ repo[c] # disk[c])
  /\ pc' = [pc EXCEPT ![c] = "idle"]
  /\ SetJob(c, NoJob)
  /\ \/ UNCHANGED late
     \/ pc[c] = "pushing" /\ late' = late \cup {job[c].batch}
  /\ UNCHANGED <<disk, server, nextId, recorded, faults>>

-------------------------------------------------------------------------------

\* What device c and the server do of their own accord.
Sync(c) ==
  \/ SetLatest(c)
  \/ GetLatestTransaction(c)
  \/ GetChildTransactions(c)
  \/ RefuseRebase(c)
  \/ StoreTransaction(c)
  \/ SaveAccount(c)
  \/ CollectGarbage(c)
  \/ EndRebase(c)
  \/ PushTransactions(c)
  \/ PushNothing(c)
  \/ AnswerPush(c)
  \/ SetLatestSynchronized(c)

Next ==
  \/ \E c \in Clients :
       \/ RecordTransaction(c)
       \/ Sync(c)
       \/ LoseRequest(c)
       \/ DelayRequest(c)
       \/ LoseReply(c)
       \/ CrashServer(c)
       \/ Flush(c)
       \/ Crash(c)
  \/ AnswerLatePush

Spec == Init /\ [][Next]_vars

\* An operation that has begun goes on, the server answers what reaches it, and
\* every device synchronizes again and again.
Fairness == \A c \in Clients : WF_vars(Sync(c))

FairSpec == Spec /\ Fairness

-------------------------------------------------------------------------------
(* Properties.                                                               *)

Expenses == [by : Clients, nth : 1..MaxExpenses]

Transactions ==
  [uuid : Nat \ {NoId}, parent : Nat, replaces : Nat, deleted : BOOLEAN,
   body : Expenses]

Jobs ==
  [batch : Seq(Transactions), latest : Nat, synced : Nat, garbage : Seq(Nat)]

Steps == {"idle", "recording", "fetching", "storing", "deleting", "collecting",
          "pushing", "marking"}

IsRepo(r) ==
  /\ r = [txs |-> r.txs, latest |-> r.latest, synced |-> r.synced]
  /\ r.txs = [id \in DOMAIN r.txs |-> r.txs[id]]
  /\ \A id \in DOMAIN r.txs : r.txs[id] \in Transactions /\ r.txs[id].uuid = id
  /\ r.latest \in {NoId} \cup DOMAIN r.txs
  /\ r.synced \in {NoId} \cup DOMAIN r.txs

\* Every variable has its type; above all, a transaction is filed under its own
\* uuid, and what an account points to is stored, between any two writes.
TypeOK ==
  /\ DOMAIN repo = Clients /\ DOMAIN disk = Clients
  /\ \A c \in Clients : IsRepo(repo[c]) /\ IsRepo(disk[c])
  /\ IsRepo(server)
  /\ pc \in [Clients -> Steps]
  /\ job \in [Clients -> Jobs]
  /\ \A batch \in late : batch \in Seq(Transactions)
  /\ nextId \in Nat \ {NoId}
  /\ recorded \in [Clients -> Nat]
  /\ crashes \in 0..MaxCrashes
  /\ faults \in 0..MaxFaults
  /\ rewound \in BOOLEAN

\* What an operation that has reached a step, with local variables j, still
\* promises of a file r: the account will point to something stored, and what
\* gets deleted is not that.
KeepsPlan(step, j, r) ==
  /\ step = "recording" => j.latest \in DOMAIN r.txs
  /\ step = "storing" => {j.latest, j.synced} \subseteq DOMAIN r.txs \cup Uuids(j.batch)
  /\ step = "deleting" => r.latest = j.latest /\ r.synced = j.synced
  /\ step \in {"storing", "deleting"} =>
       \A i \in DOMAIN j.garbage : j.garbage[i] \notin {j.latest, j.synced}

PlansKept == \A c \in Clients : KeepsPlan(pc[c], job[c], repo[c])

\* Every copy of a transaction: stored, planned, under way.
Copies ==
  UNION ({Stored(repo[c]) : c \in Clients} \cup {Stored(disk[c]) : c \in Clients}
           \cup {Stored(server)} \cup {Range(job[c].batch) : c \in Clients}
           \cup {Range(batch) : batch \in late})

\* A uuid names one transaction, whoever holds a copy of it, and ids not yet
\* generated name none.  (generate_transaction_id, rebase_transactions.)
CopiesAgree ==
  /\ \A tx, other \in Copies : tx.uuid = other.uuid => tx = other
  /\ \A tx \in Copies : tx.parent < tx.uuid /\ tx.uuid < nextId

\* The transactions a device knows the server to have, oldest first.
Synchronized(r) ==
  SubSeq(Chain(r), 1, Len(Chain(r)) - Len(ChainSince(r, r.synced)))

\* Where in txs the transactions are that device c recorded.
RecordedBy(c, txs) == {i \in DOMAIN txs : txs[i].body.by = c}

\* Of what device c recorded, txs holds the first n transactions, each once and in
\* the order of recording.
HoldsFirst(c, txs, n) ==
  /\ {txs[i].body.nth : i \in RecordedBy(c, txs)} = 1..n
  /\ \A i, j \in RecordedBy(c, txs) : i < j => txs[i].body.nth < txs[j].body.nth

\* A file can always be read, between any two writes and after any crash: the
\* chain of the account is unbroken and goes through the last synchronized
\* transaction.  (Order of the writes of rebase_local_transactions.)
ChainsReadable ==
  /\ \A c \in Clients : \A r \in {repo[c], disk[c]} :
       /\ IsReadable(r)
       /\ r.synced \in {NoId} \cup Uuids(Chain(r))
  /\ IsReadable(server)

\* What a device calls synchronized is the beginning of the server's log, the
\* same transactions in the same order.  (latest_synchronized_transaction.)
CommonHistory ==
  \A c \in Clients : \A r \in {repo[c], disk[c]} :
    IsPrefix(Synchronized(r), Chain(server))

\* On its own device, whatever is recorded stays in the history, once and in
\* the order of recording, through every rebase, error and crash that keeps
\* the writes.  (rebase_transactions and the garbage collection after it.)
OwnHistoryComplete ==
  ~rewound => \A c \in Clients : HoldsFirst(c, Chain(repo[c]), recorded[c])

\* The server's log holds the first so many transactions of each device, each
\* once and in the order of recording: retried, refused, late and repeated
\* pushes leave no gap and no duplicate.  (receive_transactions, sync.)
ServerLogFaithful ==
  ~rewound => \A c \in Clients :
                \E n \in 0..recorded[c] : HoldsFirst(c, Chain(server), n)

\* A device at rest stores nothing but its chain: a rebase leaves none of the
\* transactions it replaced behind, unless it was interrupted.
\* (Garbage collection of rebase_local_transactions.)
NoLitter ==
  \A c \in Clients :
    crashes = 0 /\ pc[c] = "idle" => DOMAIN repo[c].txs = Uuids(Chain(repo[c]))

\* The server never alters or drops a transaction it stores, although a push
\* overwrites whatever has the same uuid and nothing checks that pushed uuids
\* are new.  (receive_transactions, add_transaction.)
ServerKeepsTransactions ==
  [][ \A id \in DOMAIN server.txs :
        HasTransaction(server', id) /\ server'.txs[id] = server.txs[id] ]_server

\* The server's log only grows at its end: no push, however late, replaces or
\* drops what the server has acknowledged.  (MustRebase check.)
ServerLogGrows ==
  [][ IsPrefix(Chain(server), Chain(server')) ]_server

\* A device never drops a transaction that it knows the server to have, in no
\* step of a rebase or of its collection of garbage: what edits and deletions
\* of other devices name stays stored.  (rebase_local_transactions.)
KeepsSynchronized ==
  [][ ~rewound' => \A c \in Clients :
                     \A id \in Uuids(Synchronized(repo[c])) :
                       HasTransaction(repo'[c], id) ]_repo

InSync ==
  \A c \in Clients : repo[c].latest = server.latest /\ repo[c].synced = server.latest

\* Once nobody records any more, the devices and the server end up with the
\* same history.  (README, "synchronized across several devices".)
EventuallyInSync == <>[]InSync
===============================================================================
