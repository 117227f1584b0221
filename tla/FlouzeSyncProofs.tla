--------------------------- MODULE FlouzeSyncProofs ---------------------------
(* Proofs about FlouzeSync, for every set of devices and every bound.        *)
(*                                                                           *)
(* The inductive invariant Inv adds two things to the types: PlansKept, what *)
(* an interrupted rebase may rely on between its writes, and CopiesAgree,    *)
(* which makes every add_transaction that overwrites something write what    *)
(* is already there.  StepInv says once what all the steps have in common;   *)
(* the lemma of an action shows that its step is of that kind.               *)
(* Histories then says what the chains of the devices, of their disks and of *)
(* the server hold, through every step of a rebase.                          *)
(*                                                                           *)
(* On these rest the proofs that FlouzeSync loses, doubles and reorders      *)
(* nothing that a device recorded, neither in its own history nor in the     *)
(* server's log, and that it implements SharedLog: whatever devices, network *)
(* and server do to the log is an append by one device that knows all of it. *)
EXTENDS FlouzeSyncRefinement, SyncCallProofs, FiniteSetTheorems, FunctionTheorems

\* What a file stores is what it holds under some key.
LEMMA StoredElement ==
  ASSUME NEW r
  PROVE  \A tx : tx \in Stored(r) <=> \E id \in DOMAIN r.txs : tx = r.txs[id]
  BY DEF Stored, Range

\* A new account is well-formed and stores nothing (repository.rs add_account).
LEMMA EmptyRepoType == IsRepo(EmptyRepo) /\ Stored(EmptyRepo) = {}
  BY DEF IsRepo, EmptyRepo, NoId, Stored, Range

\* add_transaction keeps a file well-formed, and adds nothing but tx.
LEMMA AddTransactionType ==
  ASSUME NEW r, IsRepo(r), NEW tx \in Transactions
  PROVE  LET s == AddTransaction(r, tx)
         IN  /\ IsRepo(s)
             /\ DOMAIN s.txs = DOMAIN r.txs \cup {tx.uuid}
             /\ s.latest = r.latest /\ s.synced = r.synced
             /\ Stored(s) \subseteq Stored(r) \cup {tx}
  <1> DEFINE s == AddTransaction(r, tx)
             f == [id \in DOMAIN r.txs \cup {tx.uuid} |->
                          IF id = tx.uuid THEN tx ELSE r.txs[id]]
  <1>1. s = [txs |-> f, latest |-> r.latest, synced |-> r.synced]
    BY DEF AddTransaction, IsRepo
  <1>2. IsRepo(s)
    BY <1>1 DEF IsRepo
  <1>3. Stored(s) \subseteq Stored(r) \cup {tx}
    BY <1>1 DEF Stored, Range
  <1> QED BY <1>1, <1>2, <1>3

\* delete_transaction keeps a file well-formed, unless it deletes what the
\* account points to.
LEMMA DeleteTransactionType ==
  ASSUME NEW r, IsRepo(r), NEW id, id \notin {r.latest, r.synced}
  PROVE  LET s == DeleteTransaction(r, id)
         IN  /\ IsRepo(s)
             /\ s.latest = r.latest /\ s.synced = r.synced
             /\ Stored(s) \subseteq Stored(r)
  <1> DEFINE s == DeleteTransaction(r, id)
             f == [other \in DOMAIN r.txs \ {id} |-> r.txs[other]]
  <1>1. s = [txs |-> f, latest |-> r.latest, synced |-> r.synced]
    BY DEF DeleteTransaction, IsRepo
  <1>2. IsRepo(s)
    BY <1>1 DEF IsRepo
  <1>3. Stored(s) \subseteq Stored(r)
    BY <1>1 DEF Stored, Range
  <1> QED BY <1>1, <1>2, <1>3

\* set_latest_transaction keeps a file well-formed if id is stored.
LEMMA SetLatestType ==
  ASSUME NEW r, IsRepo(r), NEW id \in {NoId} \cup DOMAIN r.txs
  PROVE  LET s == SetLatestTransaction(r, id)
         IN  IsRepo(s) /\ s.txs = r.txs /\ s.latest = id /\ s.synced = r.synced
  BY DEF SetLatestTransaction, IsRepo

\* set_latest_synchronized_transaction keeps a file well-formed if id is stored.
LEMMA SetSynchronizedType ==
  ASSUME NEW r, IsRepo(r), NEW id \in {NoId} \cup DOMAIN r.txs
  PROVE  LET s == SetLatestSynchronizedTransaction(r, id)
         IN  IsRepo(s) /\ s.txs = r.txs /\ s.latest = r.latest /\ s.synced = id
  BY DEF SetLatestSynchronizedTransaction, IsRepo

\* Of the transactions pushed with one uuid there is a last one.
LEMMA LastWithUuidType ==
  ASSUME NEW txs \in Seq(Transactions), NEW id \in Uuids(txs)
  PROVE  LET i == LastWithUuid(txs, id)
         IN  i \in DOMAIN txs /\ txs[i].uuid = id /\ txs[i] \in Transactions
  <1> DEFINE I == {i \in DOMAIN txs : txs[i].uuid = id}
  <1>1. I # {} /\ I \in SUBSET (1..Len(txs)) /\ Len(txs) \in Nat
    BY LenProperties DEF Uuids
  <1>2. PICK m \in I : \A k \in I : k <= m
    BY <1>1, GreatestElement
  <1>3. \A j \in DOMAIN txs : j > m => txs[j].uuid # id
    BY <1>1, <1>2, LenProperties
  <1>4. LastWithUuid(txs, id) \in DOMAIN txs /\ txs[LastWithUuid(txs, id)].uuid = id
    BY <1>2, <1>3 DEF LastWithUuid
  <1> QED BY <1>4, LenProperties

\* Storing a list of transactions keeps a file well-formed, and adds nothing else.
LEMMA AddTransactionsType ==
  ASSUME NEW r, IsRepo(r), NEW txs \in Seq(Transactions)
  PROVE  LET s == AddTransactions(r, txs)
         IN  /\ IsRepo(s)
             /\ DOMAIN s.txs = DOMAIN r.txs \cup Uuids(txs)
             /\ s.latest = r.latest /\ s.synced = r.synced
             /\ Stored(s) \subseteq Stored(r) \cup Range(txs)
  <1> DEFINE s == AddTransactions(r, txs)
             f == [id \in DOMAIN r.txs \cup Uuids(txs) |->
                     IF id \in Uuids(txs) THEN txs[LastWithUuid(txs, id)]
                                          ELSE r.txs[id]]
  <1>1. s = [txs |-> f, latest |-> r.latest, synced |-> r.synced]
    BY DEF AddTransactions, IsRepo
  <1>2. \A id \in Uuids(txs) :
          /\ LastWithUuid(txs, id) \in DOMAIN txs
          /\ txs[LastWithUuid(txs, id)].uuid = id
          /\ txs[LastWithUuid(txs, id)] \in Transactions
    BY LastWithUuidType
  <1>3. DOMAIN s.txs = DOMAIN r.txs \cup Uuids(txs)
    BY <1>1
  <1>4. \A id \in DOMAIN s.txs :
          s.txs[id] \in Transactions /\ s.txs[id].uuid = id
    BY <1>1, <1>2 DEF IsRepo
  <1>5. IsRepo(s)
    <2>1. s = [txs |-> s.txs, latest |-> s.latest, synced |-> s.synced]
      BY <1>1
    <2>2. s.txs = [id \in DOMAIN s.txs |-> s.txs[id]]
      BY <1>1
    <2>3. s.latest \in {NoId} \cup DOMAIN s.txs /\ s.synced \in {NoId} \cup DOMAIN s.txs
      BY <1>1, <1>3 DEF IsRepo
    <2> QED BY <2>1, <2>2, <2>3, <1>4 DEF IsRepo
  <1>6. ASSUME NEW id \in DOMAIN s.txs
        PROVE  s.txs[id] \in Stored(r) \cup Range(txs)
    <2>1. CASE id \in Uuids(txs)
      <3>1. s.txs[id] = txs[LastWithUuid(txs, id)]
        BY <1>1, <2>1
      <3>2. LastWithUuid(txs, id) \in DOMAIN txs
        BY <1>2, <2>1
      <3> HIDE DEF s
      <3> QED BY <3>1, <3>2 DEF Range
    <2>2. CASE id \notin Uuids(txs)
      BY <1>1, <2>2 DEF Stored, Range
    <2> QED BY <2>1, <2>2
  <1>7. Stored(s) \subseteq Stored(r) \cup Range(txs)
    BY <1>6, StoredElement
  <1>8. s.latest = r.latest /\ s.synced = r.synced
    BY <1>1
  <1> QED BY <1>3, <1>5, <1>7, <1>8

\* receive_transactions keeps the repository well-formed, deletes nothing, and
\* adds nothing but what was pushed.
LEMMA ReceiveTransactionsType ==
  ASSUME NEW r, IsRepo(r), NEW txs \in Seq(Transactions)
  PROVE  LET s == ReceiveTransactions(r, txs)
         IN  /\ IsRepo(s)
             /\ DOMAIN r.txs \subseteq DOMAIN s.txs
             /\ Stored(s) \subseteq Stored(r) \cup Range(txs)
  <1>1. CASE txs = << >> \/ ~Accepts(r, txs)
    BY <1>1 DEF ReceiveTransactions
  <1>2. CASE ~(txs = << >> \/ ~Accepts(r, txs))
    <2> DEFINE a == AddTransactions(r, txs)
    <2>1. /\ IsRepo(a)
          /\ DOMAIN a.txs = DOMAIN r.txs \cup Uuids(txs)
          /\ Stored(a) \subseteq Stored(r) \cup Range(txs)
      BY AddTransactionsType
    <2>2. txs[Len(txs)].uuid \in Uuids(txs)
      BY <1>2, LenProperties, EmptySeq DEF Uuids
    <2>3. ReceiveTransactions(r, txs) = SetLatestTransaction(a, txs[Len(txs)].uuid)
      BY <1>2 DEF ReceiveTransactions
    <2> HIDE DEF a
    <2>4. IsRepo(ReceiveTransactions(r, txs)) /\ ReceiveTransactions(r, txs).txs = a.txs
      BY <2>1, <2>2, <2>3, SetLatestType
    <2> QED BY <2>1, <2>4 DEF Stored
  <1> QED BY <1>1, <1>2

\* rebase_transactions returns as many transactions as it got, with consecutive
\* fresh uuids, each on top of the one before it, the first on the new base.
LEMMA RebaseTransactionsType ==
  ASSUME NEW txs \in Seq(Transactions), NEW newBase \in Nat, NEW freshId \in Nat \ {NoId}
  PROVE  LET s == RebaseTransactions(txs, newBase, freshId)
         IN  /\ s \in Seq(Transactions) /\ Len(s) = Len(txs)
             /\ \A i \in DOMAIN txs :
                  /\ s[i].uuid = freshId + i - 1
                  /\ s[i].parent = IF i = 1 THEN newBase ELSE freshId + i - 2
  <1> DEFINE s == RebaseTransactions(txs, newBase, freshId)
             e(i) == [txs[i] EXCEPT !.uuid = freshId + i - 1,
                      !.parent = IF i = 1 THEN newBase ELSE freshId + i - 2]
  <1>1. Len(txs) \in Nat /\ DOMAIN txs = 1..Len(txs)
    BY LenProperties
  <1>2. ASSUME NEW i \in 1..Len(txs)
        PROVE  /\ e(i) \in Transactions /\ e(i).uuid = freshId + i - 1
               /\ e(i).parent = IF i = 1 THEN newBase ELSE freshId + i - 2
    <2>1. txs[i] \in Transactions
      BY ElementOfSeq
    <2>2. freshId + i - 1 \in Nat \ {NoId} /\ (i # 1 => freshId + i - 2 \in Nat)
      BY <1>1 DEF NoId
    <2> QED BY <2>1, <2>2 DEF Transactions
  <1>3. s = [i \in 1..Len(txs) |-> e(i)]
    BY <1>1 DEF RebaseTransactions
  <1> HIDE DEF e
  <1>4. s \in [1..Len(txs) -> Transactions]
    BY <1>2, <1>3
  <1>5. s \in Seq(Transactions) /\ Len(s) = Len(txs)
    BY <1>1, <1>4, SeqDef
  <1> QED BY <1>1, <1>2, <1>3, <1>5
-------------------------------------------------------------------------------
(* The inductive invariant.                                                  *)

Inv == TypeOK /\ PlansKept /\ CopiesAgree

\* Where the copies of transactions are.
LEMMA CopyPlaces ==
  \A tx : tx \in Copies <=>
    \/ \E c \in Clients : tx \in Stored(repo[c])
    \/ \E c \in Clients : tx \in Stored(disk[c])
    \/ tx \in Stored(server)
    \/ \E c \in Clients : tx \in Range(job[c].batch)
    \/ \E batch \in late : tx \in Range(batch)
  BY DEF Copies

\* Whatever is stored, planned or under way is a transaction.
LEMMA CopiesTyped ==
  ASSUME TypeOK
  PROVE  Copies \subseteq Transactions /\ \A tx \in Copies : tx.uuid \in Nat
  <1>1. \A tx \in Transactions : tx.uuid \in Nat
    BY DEF Transactions
  <1>2. ASSUME NEW r, IsRepo(r) PROVE Stored(r) \subseteq Transactions
    BY <1>2, StoredElement DEF IsRepo
  <1>3. ASSUME NEW txs \in Seq(Transactions) PROVE Range(txs) \subseteq Transactions
    BY LenProperties DEF Range
  <1>4. \A c \in Clients : job[c].batch \in Seq(Transactions)
    BY DEF TypeOK, Jobs
  <1>5. Copies \subseteq Transactions
    <2> SUFFICES ASSUME NEW tx \in Copies PROVE tx \in Transactions
      OBVIOUS
    <2> QED BY <1>2, <1>3, <1>4, CopyPlaces DEF TypeOK
  <1> QED BY <1>1, <1>5

\* The invariant holds before anything is recorded.
LEMMA InitInv == Init => Inv
  <1> SUFFICES ASSUME Init PROVE Inv
    OBVIOUS
  <1>1. NoJob \in Jobs /\ Range(NoJob.batch) = {}
    BY EmptySeq DEF NoJob, Jobs, NoId, Range
  <1>2. TypeOK
    <2>1. \A c \in Clients : IsRepo(repo[c]) /\ IsRepo(disk[c])
      BY EmptyRepoType DEF Init
    <2>2. IsRepo(server)
      BY EmptyRepoType DEF Init
    <2>3. job \in [Clients -> Jobs]
      BY <1>1 DEF Init
    <2>4. recorded \in [Clients -> Nat] /\ crashes \in 0..MaxCrashes
            /\ faults \in 0..MaxFaults
      BY ConstantsAssumption DEF Init
    <2>5. pc \in [Clients -> Steps] /\ nextId \in Nat \ {NoId}
      BY DEF Init, Steps, NoId
    <2>7. rewound \in BOOLEAN
      BY Zenon DEF Init
    <2>6. DOMAIN repo = Clients /\ DOMAIN disk = Clients /\ late = {}
      BY DEF Init
    <2> QED BY <2>1, <2>2, <2>3, <2>4, <2>5, <2>6, <2>7 DEF TypeOK
  <1>3. PlansKept
    BY DEF Init, PlansKept, KeepsPlan
  <1>4. Copies = {}
    BY <1>1, CopyPlaces, EmptyRepoType DEF Init
  <1> QED BY <1>2, <1>3, <1>4 DEF Inv, CopiesAgree

\* If a step makes no copy of anything but old copies and transactions with fresh,
\* distinct uuids, a uuid still names one transaction.
LEMMA CopiesAgreeStep ==
  ASSUME CopiesAgree, nextId \in Nat, nextId' \in Nat, nextId <= nextId',
         NEW fresh, Copies' \subseteq Copies \cup fresh,
         \A tx \in fresh : /\ tx.uuid \in Nat /\ nextId <= tx.uuid /\ tx.uuid < nextId'
                          /\ tx.parent < tx.uuid,
         \A tx, other \in fresh : tx.uuid = other.uuid => tx = other,
         \A tx \in Copies : tx.uuid \in Nat
  PROVE  CopiesAgree'
  <1>1. \A tx \in Copies : tx.uuid < nextId /\ tx.parent < tx.uuid
    BY DEF CopiesAgree
  <1>2. \A tx, other \in Copies : tx.uuid = other.uuid => tx = other
    BY DEF CopiesAgree
  <1>3. \A tx \in Copies' : tx.parent < tx.uuid /\ tx.uuid < nextId'
    BY <1>1
  <1>4. \A tx, other \in Copies \cup fresh : tx.uuid = other.uuid => tx = other
    BY <1>1, <1>2
  <1> QED BY <1>3, <1>4 DEF CopiesAgree

(* What every step has in common.  Device c gets the file r, the step s and  *)
(* the local variables j; the disk of any device is what it was, or a copy   *)
(* of its file; the server stores nothing but copies; at most the push that  *)
(* device c was waiting for becomes late.                                    *)
LEMMA StepInv ==
  ASSUME Inv, NEW c \in Clients, NEW r, NEW s \in Steps, NEW j \in Jobs, NEW fresh,
         DOMAIN repo' = Clients, DOMAIN disk' = Clients,
         \A d \in Clients : repo'[d] = IF d = c THEN r ELSE repo[d],
         \A d \in Clients : disk'[d] \in {disk[d], repo[d], repo'[d]},
         pc' = [pc EXCEPT ![c] = s],
         job' = [job EXCEPT ![c] = j],
         IsRepo(r), KeepsPlan(s, j, r),
         Stored(r) \cup Range(j.batch) \subseteq Copies \cup fresh,
         IsRepo(server'), Stored(server') \subseteq Copies,
         late' \subseteq late \cup {job[c].batch},
         nextId' \in Nat, nextId <= nextId',
         \A tx \in fresh : /\ tx.uuid \in Nat /\ nextId <= tx.uuid /\ tx.uuid < nextId'
                          /\ tx.parent < tx.uuid,
         \A tx, other \in fresh : tx.uuid = other.uuid => tx = other,
         recorded' \in [Clients -> Nat],
         crashes' \in 0..MaxCrashes,
         faults' \in 0..MaxFaults,
         rewound' \in BOOLEAN
  PROVE  Inv'
  <1> USE DEF Inv
  <1>1. \A d \in Clients : IsRepo(repo'[d]) /\ IsRepo(disk'[d])
    BY DEF TypeOK
  <1>2. pc' \in [Clients -> Steps] /\ job' \in [Clients -> Jobs]
    BY DEF TypeOK
  <1>3. \A batch \in late' : batch \in Seq(Transactions)
    BY DEF TypeOK, Jobs
  <1>4. nextId' \in Nat \ {NoId}
    BY DEF TypeOK, NoId
  <1>5. TypeOK'
    BY <1>1, <1>2, <1>3, <1>4 DEF TypeOK
  <1>6. PlansKept'
    <2>1. \A d \in Clients : d # c => pc'[d] = pc[d] /\ job'[d] = job[d] /\ repo'[d] = repo[d]
      BY DEF TypeOK
    <2>2. pc'[c] = s /\ job'[c] = j /\ repo'[c] = r
      BY DEF TypeOK
    <2> QED BY <2>1, <2>2 DEF PlansKept
  <1>7. Copies' \subseteq Copies \cup fresh
    <2> SUFFICES ASSUME NEW tx \in Copies' PROVE tx \in Copies \cup fresh
      OBVIOUS
    <2>1. ASSUME NEW d \in Clients, tx \in Stored(repo'[d])
          PROVE  tx \in Copies \cup fresh
      BY <2>1, CopyPlaces
    <2>2. ASSUME NEW d \in Clients, tx \in Stored(disk'[d])
          PROVE  tx \in Copies \cup fresh
      BY <2>1, <2>2, CopyPlaces
    <2>3. ASSUME NEW d \in Clients, tx \in Range(job'[d].batch)
          PROVE  tx \in Copies \cup fresh
      <3>1. job'[d] = IF d = c THEN j ELSE job[d]
        BY DEF TypeOK
      <3> QED BY <2>3, <3>1, CopyPlaces
    <2>4. ASSUME NEW batch \in late', tx \in Range(batch)
          PROVE  tx \in Copies \cup fresh
      BY <2>4, CopyPlaces
    <2> QED BY <2>1, <2>2, <2>3, <2>4, CopyPlaces DEF Copies
  <1>8. \A tx \in Copies : tx.uuid \in Nat
    BY CopiesTyped
  <1>9. CopiesAgree'
    BY <1>7, <1>8, CopiesAgreeStep DEF TypeOK
  <1> QED BY <1>5, <1>6, <1>9

\* What a write of device c leaves on every device and every disk.
LEMMA WriteEffect ==
  ASSUME TypeOK, NEW c \in Clients, NEW r, Write(c, r)
  PROVE  /\ DOMAIN repo' = Clients /\ DOMAIN disk' = Clients
         /\ \A d \in Clients : repo'[d] = IF d = c THEN r ELSE repo[d]
         /\ \A d \in Clients : disk'[d] \in {disk[d], repo[d], repo'[d]}
  <1>1. CASE WriteThrough
    BY <1>1 DEF TypeOK, Write
  <1>2. CASE ~WriteThrough
    BY <1>2 DEF TypeOK, Write
  <1> QED BY <1>1, <1>2

\* The same of a step that writes nothing.
LEMMA NoWriteEffect ==
  ASSUME TypeOK, NEW c \in Clients, UNCHANGED <<repo, disk>>
  PROVE  /\ DOMAIN repo' = Clients /\ DOMAIN disk' = Clients
         /\ \A d \in Clients : repo'[d] = IF d = c THEN repo[c] ELSE repo[d]
         /\ \A d \in Clients : disk'[d] \in {disk[d], repo[d], repo'[d]}
  BY DEF TypeOK

(* A step of device c alone.                                                 *)
LEMMA LocalStep ==
  ASSUME Inv, NEW c \in Clients, NEW r, NEW s \in Steps, NEW j \in Jobs, NEW fresh,
         Write(c, r) \/ (UNCHANGED <<repo, disk>> /\ r = repo[c]),
         pc' = [pc EXCEPT ![c] = s],
         job' = [job EXCEPT ![c] = j],
         IsRepo(r), KeepsPlan(s, j, r),
         Stored(r) \cup Range(j.batch) \subseteq Copies \cup fresh,
         nextId' \in Nat, nextId <= nextId',
         \A tx \in fresh : /\ tx.uuid \in Nat /\ nextId <= tx.uuid /\ tx.uuid < nextId'
                          /\ tx.parent < tx.uuid,
         \A tx, other \in fresh : tx.uuid = other.uuid => tx = other,
         recorded' \in [Clients -> Nat], Offline, NoCrash
  PROVE  Inv'
  <1>1. TypeOK
    BY DEF Inv
  <1>2. /\ DOMAIN repo' = Clients /\ DOMAIN disk' = Clients
        /\ \A d \in Clients : repo'[d] = IF d = c THEN r ELSE repo[d]
        /\ \A d \in Clients : disk'[d] \in {disk[d], repo[d], repo'[d]}
    <2>1. CASE Write(c, r)
      BY <1>1, <2>1, WriteEffect
    <2>2. CASE UNCHANGED <<repo, disk>> /\ r = repo[c]
      BY <1>1, <2>2, NoWriteEffect
    <2> QED BY <2>1, <2>2
  <1>3. IsRepo(server') /\ Stored(server') \subseteq Copies /\ late' \subseteq late
    BY <1>1, CopyPlaces DEF Offline, TypeOK
  <1>4. crashes' \in 0..MaxCrashes /\ faults' \in 0..MaxFaults
    BY <1>1 DEF TypeOK, Offline, NoCrash
  <1>5. rewound' \in BOOLEAN
    BY <1>1, Zenon DEF TypeOK, NoCrash
  <1>6. late' \subseteq late \cup {job[c].batch}
    BY <1>3
  <1> QED BY <1>2, <1>3, <1>4, <1>5, <1>6, StepInv

(* A step of device c alone that generates no id.                            *)
LEMMA QuietStep ==
  ASSUME Inv, NEW c \in Clients, NEW r, NEW s \in Steps, NEW j \in Jobs,
         Write(c, r) \/ (UNCHANGED <<repo, disk>> /\ r = repo[c]),
         pc' = [pc EXCEPT ![c] = s],
         job' = [job EXCEPT ![c] = j],
         IsRepo(r), KeepsPlan(s, j, r),
         Stored(r) \cup Range(j.batch) \subseteq Copies,
         nextId' = nextId, recorded' \in [Clients -> Nat], Offline, NoCrash
  PROVE  Inv'
  <1>1. nextId' \in Nat /\ nextId <= nextId'
    BY DEF Inv, TypeOK
  <1> DEFINE fresh == {}
  <1>2. /\ Stored(r) \cup Range(j.batch) \subseteq Copies \cup fresh
        /\ \A tx \in fresh : /\ tx.uuid \in Nat /\ nextId <= tx.uuid /\ tx.uuid < nextId'
                            /\ tx.parent < tx.uuid
        /\ \A tx, other \in fresh : tx.uuid = other.uuid => tx = other
    OBVIOUS
  <1> HIDE DEF fresh
  <1> QED BY <1>1, <1>2, LocalStep

-------------------------------------------------------------------------------
(* One lemma per action.                                                     *)

\* What the invariant says of one device.
LEMMA ClientTypes ==
  ASSUME Inv, NEW c \in Clients
  PROVE  /\ IsRepo(repo[c]) /\ IsRepo(disk[c]) /\ job[c] \in Jobs
         /\ Stored(repo[c]) \subseteq Copies /\ Stored(disk[c]) \subseteq Copies
         /\ Range(job[c].batch) \subseteq Copies
         /\ KeepsPlan(pc[c], job[c], repo[c])
  BY CopyPlaces DEF Inv, TypeOK, PlansKept

\* A device at rest holds no copies and plans nothing.
LEMMA NoJobType == NoJob \in Jobs /\ Range(NoJob.batch) = {} /\ NoJob.garbage = << >>
  BY EmptySeq DEF NoJob, Jobs, NoId, Range

\* set_latest_transaction after add_transaction keeps the invariant.
LEMMA SetLatestInv ==
  ASSUME Inv, NEW c \in Clients, SetLatest(c)
  PROVE  Inv'
  <1> USE DEF SetLatest
  <1>0. /\ IsRepo(repo[c]) /\ Stored(repo[c]) \subseteq Copies
        /\ job[c].latest \in DOMAIN repo[c].txs
    BY ClientTypes DEF Goto, KeepsPlan
  <1> DEFINE r == SetLatestTransaction(repo[c], job[c].latest)
  <1>1. IsRepo(r) /\ Stored(r) \subseteq Copies
    BY <1>0, SetLatestType DEF Stored
  <1>2. recorded' \in [Clients -> Nat]
    BY DEF Inv, TypeOK
  <1>3. pc' = [pc EXCEPT ![c] = "idle"] /\ job' = [job EXCEPT ![c] = NoJob]
    BY DEF Goto, SetJob
  <1>4. "idle" \in Steps /\ KeepsPlan("idle", NoJob, r)
    BY DEF Steps, KeepsPlan
  <1>5. Write(c, r) /\ Offline /\ NoCrash /\ nextId' = nextId
    OBVIOUS
  <1> HIDE DEF r, SetLatest
  <1> QED BY <1>1, <1>2, <1>3, <1>4, <1>5, NoJobType, QuietStep

\* get_latest_transaction keeps the invariant.
LEMMA GetLatestInv ==
  ASSUME Inv, NEW c \in Clients, GetLatestTransaction(c)
  PROVE  Inv'
  <1> DEFINE s == IF UpToDate(repo[c], server) THEN "collecting" ELSE "fetching"
  <1>1. s \in Steps /\ KeepsPlan(s, job[c], repo[c])
    BY DEF Steps, KeepsPlan
  <1>2. pc' = [pc EXCEPT ![c] = s] /\ Offline /\ NoCrash /\ UNCHANGED <<repo, disk>>
    BY DEF GetLatestTransaction, Goto
  <1>3. job' = [job EXCEPT ![c] = job[c]] /\ nextId' = nextId /\ recorded' \in [Clients -> Nat]
    BY DEF GetLatestTransaction, Inv, TypeOK
  <1> HIDE DEF s
  <1> QED BY <1>1, <1>2, <1>3, ClientTypes, QuietStep

\* A refused rebase keeps the invariant.
LEMMA RefuseRebaseInv ==
  ASSUME Inv, NEW c \in Clients, RefuseRebase(c)
  PROVE  Inv'
  <1>1. "idle" \in Steps /\ KeepsPlan("idle", job[c], repo[c])
    BY DEF Steps, KeepsPlan
  <1>2. pc' = [pc EXCEPT ![c] = "idle"] /\ Offline /\ NoCrash /\ UNCHANGED <<repo, disk>>
    BY DEF RefuseRebase, Goto
  <1>3. job' = [job EXCEPT ![c] = job[c]] /\ nextId' = nextId /\ recorded' \in [Clients -> Nat]
    BY DEF RefuseRebase, Inv, TypeOK
  <1> QED BY <1>1, <1>2, <1>3, ClientTypes, QuietStep

\* Each add_transaction of a rebase keeps the invariant: what is stored leaves
\* the batch, so what the account will point to stays stored or to be stored.
LEMMA StoreTransactionInv ==
  ASSUME Inv, NEW c \in Clients, StoreTransaction(c)
  PROVE  Inv'
  <1> DEFINE batch == job[c].batch
             r == AddTransaction(repo[c], Head(batch))
             j == [job[c] EXCEPT !.batch = Tail(batch)]
  <1>1. /\ batch \in Seq(Transactions) /\ batch # << >>
        /\ pc[c] = "storing" /\ job[c] \in Jobs /\ IsRepo(repo[c])
        /\ Stored(repo[c]) \subseteq Copies /\ Range(batch) \subseteq Copies
        /\ KeepsPlan("storing", job[c], repo[c])
    BY ClientTypes DEF StoreTransaction, Goto, Jobs
  <1>2. /\ Head(batch) \in Transactions /\ Tail(batch) \in Seq(Transactions)
        /\ Range(batch) = {Head(batch)} \cup Range(Tail(batch))
        /\ Uuids(batch) = {Head(batch).uuid} \cup Uuids(Tail(batch))
    <2> HIDE DEF batch
    <2> QED BY <1>1, HeadTailRange
  <1>3. j \in Jobs /\ j.batch = Tail(batch) /\ j.latest = job[c].latest
          /\ j.synced = job[c].synced /\ j.garbage = job[c].garbage
    BY <1>1, <1>2 DEF Jobs
  <1>4. IsRepo(r) /\ DOMAIN r.txs = DOMAIN repo[c].txs \cup {Head(batch).uuid}
          /\ Stored(r) \subseteq Stored(repo[c]) \cup {Head(batch)}
    BY <1>1, <1>2, AddTransactionType
  <1>5. Write(c, r) /\ Offline /\ NoCrash /\ nextId' = nextId
    BY DEF StoreTransaction
  <1>6. /\ pc' = [pc EXCEPT ![c] = "storing"] /\ job' = [job EXCEPT ![c] = j]
        /\ recorded' \in [Clients -> Nat]
    BY DEF StoreTransaction, Goto, SetJob, Inv, TypeOK
  <1> HIDE DEF r, j, batch
  <1>7. "storing" \in Steps /\ KeepsPlan("storing", j, r)
    BY <1>1, <1>2, <1>3, <1>4 DEF Steps, KeepsPlan, batch
  <1>8. Stored(r) \cup Range(j.batch) \subseteq Copies
    BY <1>1, <1>2, <1>3, <1>4
  <1> QED BY <1>3, <1>4, <1>5, <1>6, <1>7, <1>8, QuietStep

\* The add_account of a rebase keeps the invariant: by now everything it points
\* to is stored.
LEMMA SaveAccountInv ==
  ASSUME Inv, NEW c \in Clients, SaveAccount(c)
  PROVE  Inv'
  <1> DEFINE q == SetLatestTransaction(repo[c], job[c].latest)
             r == SetLatestSynchronizedTransaction(q, job[c].synced)
  <1>1. /\ pc[c] = "storing" /\ job[c] \in Jobs /\ IsRepo(repo[c])
        /\ Stored(repo[c]) \subseteq Copies /\ Range(job[c].batch) \subseteq Copies
        /\ KeepsPlan("storing", job[c], repo[c])
        /\ job[c].batch = << >>
    BY ClientTypes DEF SaveAccount, Goto
  <1>2. {job[c].latest, job[c].synced} \subseteq DOMAIN repo[c].txs
    BY <1>1 DEF KeepsPlan, Uuids
  <1>3. IsRepo(q) /\ q.txs = repo[c].txs /\ q.latest = job[c].latest
    BY <1>1, <1>2, SetLatestType
  <1>4. IsRepo(r) /\ r.txs = repo[c].txs /\ r.latest = job[c].latest /\ r.synced = job[c].synced
    <2> HIDE DEF q
    <2> QED BY <1>2, <1>3, SetSynchronizedType
  <1>5. Write(c, r) /\ Offline /\ NoCrash /\ nextId' = nextId
    BY DEF SaveAccount
  <1>6. /\ pc' = [pc EXCEPT ![c] = "deleting"] /\ job' = [job EXCEPT ![c] = job[c]]
        /\ recorded' \in [Clients -> Nat]
    BY DEF SaveAccount, Goto, Inv, TypeOK
  <1> HIDE DEF r
  <1>7. "deleting" \in Steps /\ KeepsPlan("deleting", job[c], r)
    BY <1>1, <1>4 DEF Steps, KeepsPlan
  <1>8. Stored(r) \cup Range(job[c].batch) \subseteq Copies
    BY <1>1, <1>4 DEF Stored
  <1> QED BY <1>1, <1>4, <1>5, <1>6, <1>7, <1>8, QuietStep

\* Each delete_transaction of a rebase keeps the invariant: it is not what the
\* account points to.
LEMMA CollectGarbageInv ==
  ASSUME Inv, NEW c \in Clients, CollectGarbage(c)
  PROVE  Inv'
  <1> DEFINE g == job[c].garbage
             r == DeleteTransaction(repo[c], Head(g))
             j == [job[c] EXCEPT !.garbage = Tail(g)]
  <1>1. /\ pc[c] = "deleting" /\ job[c] \in Jobs /\ IsRepo(repo[c])
        /\ Stored(repo[c]) \subseteq Copies /\ Range(job[c].batch) \subseteq Copies
        /\ KeepsPlan("deleting", job[c], repo[c])
        /\ g \in Seq(Nat) /\ g # << >>
    BY ClientTypes DEF CollectGarbage, Goto, Jobs
  <1>2. /\ Head(g) = g[1] /\ 1 \in DOMAIN g
        /\ Tail(g) \in Seq(Nat)
        /\ \A i \in DOMAIN Tail(g) : i + 1 \in DOMAIN g /\ Tail(g)[i] = g[i + 1]
    <2> HIDE DEF g
    <2> QED BY <1>1, HeadTailProperties, LenProperties, EmptySeq
  <1>3. Head(g) \notin {repo[c].latest, repo[c].synced}
    BY <1>1, <1>2 DEF KeepsPlan
  <1>4. IsRepo(r) /\ r.latest = repo[c].latest /\ r.synced = repo[c].synced
          /\ Stored(r) \subseteq Stored(repo[c])
    BY <1>1, <1>3, DeleteTransactionType
  <1>5. j \in Jobs /\ j.batch = job[c].batch /\ j.latest = job[c].latest
          /\ j.synced = job[c].synced /\ j.garbage = Tail(g)
    BY <1>1, <1>2 DEF Jobs
  <1>6. Write(c, r) /\ Offline /\ NoCrash /\ nextId' = nextId
    BY DEF CollectGarbage
  <1>7. /\ pc' = [pc EXCEPT ![c] = "deleting"] /\ job' = [job EXCEPT ![c] = j]
        /\ recorded' \in [Clients -> Nat]
    BY DEF CollectGarbage, Goto, SetJob, Inv, TypeOK
  <1>8. \A i \in DOMAIN Tail(g) : Tail(g)[i] \notin {job[c].latest, job[c].synced}
    BY <1>1, <1>2 DEF KeepsPlan
  <1> HIDE DEF r, j, g
  <1>9. "deleting" \in Steps /\ KeepsPlan("deleting", j, r)
    BY <1>1, <1>4, <1>5, <1>8 DEF Steps, KeepsPlan
  <1>10. Stored(r) \cup Range(j.batch) \subseteq Copies
    BY <1>1, <1>4, <1>5
  <1> QED BY <1>4, <1>5, <1>6, <1>7, <1>9, <1>10, QuietStep

\* The end of a rebase keeps the invariant.
LEMMA EndRebaseInv ==
  ASSUME Inv, NEW c \in Clients, EndRebase(c)
  PROVE  Inv'
  <1>1. "collecting" \in Steps /\ KeepsPlan("collecting", NoJob, repo[c])
    BY DEF Steps, KeepsPlan
  <1>2. /\ pc' = [pc EXCEPT ![c] = "collecting"] /\ job' = [job EXCEPT ![c] = NoJob]
        /\ Offline /\ NoCrash /\ UNCHANGED <<repo, disk>> /\ nextId' = nextId
    BY DEF EndRebase, Goto, SetJob
  <1>3. recorded' \in [Clients -> Nat]
    BY DEF EndRebase, Inv, TypeOK
  <1> QED BY <1>1, <1>2, <1>3, ClientTypes, NoJobType, QuietStep

\* A sync that has nothing to push keeps the invariant.
LEMMA PushNothingInv ==
  ASSUME Inv, NEW c \in Clients, PushNothing(c)
  PROVE  Inv'
  <1>1. "idle" \in Steps /\ KeepsPlan("idle", job[c], repo[c])
    BY DEF Steps, KeepsPlan
  <1>2. pc' = [pc EXCEPT ![c] = "idle"] /\ Offline /\ NoCrash /\ UNCHANGED <<repo, disk>>
    BY DEF PushNothing, Goto
  <1>3. job' = [job EXCEPT ![c] = job[c]] /\ nextId' = nextId /\ recorded' \in [Clients -> Nat]
    BY DEF PushNothing, Inv, TypeOK
  <1> QED BY <1>1, <1>2, <1>3, ClientTypes, QuietStep

\* Marking a push as accepted keeps the invariant.
LEMMA SetLatestSynchronizedInv ==
  ASSUME Inv, NEW c \in Clients, SetLatestSynchronized(c)
  PROVE  Inv'
  <1> DEFINE r == SetLatestSynchronizedTransaction(repo[c], repo[c].latest)
  <1>1. IsRepo(repo[c]) /\ Stored(repo[c]) \subseteq Copies
    BY ClientTypes
  <1>2. repo[c].latest \in {NoId} \cup DOMAIN repo[c].txs
    BY <1>1 DEF IsRepo
  <1>3. IsRepo(r) /\ Stored(r) \subseteq Copies
    BY <1>1, <1>2, SetSynchronizedType DEF Stored
  <1>4. /\ pc' = [pc EXCEPT ![c] = "idle"] /\ job' = [job EXCEPT ![c] = NoJob]
        /\ Write(c, r) /\ Offline /\ NoCrash /\ nextId' = nextId
    BY DEF SetLatestSynchronized, Goto, SetJob
  <1>5. recorded' \in [Clients -> Nat]
    BY DEF SetLatestSynchronized, Inv, TypeOK
  <1>6. "idle" \in Steps /\ KeepsPlan("idle", NoJob, r)
    BY DEF Steps, KeepsPlan
  <1> HIDE DEF r
  <1> QED BY <1>3, <1>4, <1>5, <1>6, NoJobType, QuietStep

\* A chain that get_transaction_chain can read consists of stored transactions.
LEMMA ChainTyped ==
  ASSUME NEW r, IsRepo(r), NEW base, NEW txs, IsChainSince(r, base, txs)
  PROVE  /\ txs \in Seq(Transactions) /\ Range(txs) \subseteq Stored(r)
         /\ \A i \in DOMAIN txs : txs[i].uuid \in DOMAIN r.txs
  <1>1. txs \in Seq(Stored(r))
    BY DEF IsChainSince
  <1>2. Stored(r) \subseteq Transactions
    BY StoredElement DEF IsRepo
  <1>3. \A i \in DOMAIN txs : txs[i] \in Stored(r)
    BY <1>1, LenProperties
  <1>4. \A tx \in Stored(r) : tx.uuid \in DOMAIN r.txs
    BY StoredElement DEF IsRepo
  <1>5. txs \in Seq(Transactions)
    BY <1>1, <1>2, SeqMonotonic
  <1> QED BY <1>3, <1>4, <1>5 DEF Range

\* What recording does: t is a fresh transaction that sits on the latest one.
IsRecorded(c, t) ==
  /\ t \in Transactions /\ t.uuid = nextId /\ t.parent = repo[c].latest
  /\ t.parent < nextId /\ t.body = [by |-> c, nth |-> recorded[c] + 1]
  /\ pc[c] = "idle" /\ pc' = [pc EXCEPT ![c] = "recording"]
  /\ job' = [job EXCEPT ![c] = [NoJob EXCEPT !.latest = nextId]]
  /\ Write(c, AddTransaction(repo[c], t)) /\ Offline /\ NoCrash
  /\ nextId' = nextId + 1 /\ recorded' = recorded

LEMMA RecordedTransaction ==
  ASSUME Inv, NEW c \in Clients, RecordTransaction(c)
  PROVE  \E t : IsRecorded(c, t)
  <1>1. PICK content \in Contents(c) :
          LET tx == NewTransaction(c, content)
          IN  /\ Write(c, AddTransaction(repo[c], tx))
              /\ SetJob(c, [NoJob EXCEPT !.latest = tx.uuid])
    BY DEF RecordTransaction
  <1> DEFINE t == NewTransaction(c, content)
  <1>2. IsRepo(repo[c]) /\ Stored(repo[c]) \subseteq Copies /\ nextId \in Nat \ {NoId}
    BY ClientTypes DEF Inv, TypeOK
  <1>3. content[1] \in Nat /\ content[2] \in BOOLEAN
    <2>1. IsReadable(repo[c]) => Uuids(Chain(repo[c])) \subseteq Nat
      <3> SUFFICES ASSUME IsReadable(repo[c]) PROVE Uuids(Chain(repo[c])) \subseteq Nat
        OBVIOUS
      <3>1. Chain(repo[c]) \in Seq(Transactions)
        BY <1>2, ChainTyped DEF IsReadable
      <3>2. \A i \in DOMAIN Chain(repo[c]) : Chain(repo[c])[i] \in Transactions
        BY <3>1, LenProperties
      <3>3. \A u \in Transactions : u.uuid \in Nat
        BY DEF Transactions
      <3> QED BY <3>2, <3>3 DEF Uuids
    <2> DEFINE history == IF IsReadable(repo[c]) THEN Uuids(Chain(repo[c])) ELSE {}
    <2>2. history \subseteq Nat
      BY <2>1
    <2>3. \/ content = <<NoId, FALSE>>
          \/ content \in history \X {FALSE}
          \/ content \in history \X {TRUE}
      BY DEF Contents
    <2> HIDE DEF history
    <2>4. CASE content = <<NoId, FALSE>>
      <3>1. content[1] \in Nat
        BY <2>4 DEF NoId
      <3>2. content[2] = FALSE
        BY <2>4
      <3> QED BY <3>1, <3>2, Zenon
    <2>5. CASE content \in history \X {FALSE}
      <3>1. content[1] \in Nat
        BY <2>2, <2>5
      <3>2. content[2] = FALSE
        BY <2>5
      <3> QED BY <3>1, <3>2, Zenon
    <2>6. CASE content \in history \X {TRUE}
      <3>1. content[1] \in Nat
        BY <2>2, <2>6
      <3>2. content[2] = TRUE
        BY <2>6
      <3> QED BY <3>1, <3>2, Zenon
    <2> QED BY <2>3, <2>4, <2>5, <2>6
  <1>4. repo[c].latest \in Nat /\ repo[c].latest < nextId
    <2>1. CASE repo[c].latest = NoId
      BY <2>1, <1>2 DEF NoId
    <2>2. CASE repo[c].latest \in DOMAIN repo[c].txs
      <3> DEFINE last == repo[c].txs[repo[c].latest]
      <3>1. last \in Copies /\ last.uuid = repo[c].latest
        BY <2>2, <1>2, StoredElement DEF IsRepo
      <3> QED BY <3>1, CopiesTyped DEF Inv, CopiesAgree
    <2> QED BY <1>2, <2>1, <2>2 DEF IsRepo
  <1>5. [by |-> c, nth |-> recorded[c] + 1] \in Expenses
    BY ConstantsAssumption DEF RecordTransaction, Inv, TypeOK, Expenses
  <1>6. /\ t \in Transactions /\ t.uuid = nextId /\ t.parent = repo[c].latest
        /\ t.body = [by |-> c, nth |-> recorded[c] + 1]
    <2>1. t \in Transactions
      BY <1>2, <1>3, <1>4, <1>5, Zenon DEF Transactions, NewTransaction
    <2> QED BY <2>1 DEF NewTransaction
  <1> HIDE DEF t
  <1>7. /\ Write(c, AddTransaction(repo[c], t))
        /\ SetJob(c, [NoJob EXCEPT !.latest = nextId])
    BY <1>1, <1>6 DEF t
  <1>8. IsRecorded(c, t)
    BY <1>4, <1>6, <1>7 DEF IsRecorded, RecordTransaction, Goto, SetJob
  <1> QED BY <1>8

\* Recording keeps the invariant: the id is fresh and the parent is older.
LEMMA RecordTransactionInv ==
  ASSUME Inv, NEW c \in Clients, RecordTransaction(c)
  PROVE  Inv'
  <1>1. PICK t : IsRecorded(c, t)
    BY RecordedTransaction
  <1> DEFINE r == AddTransaction(repo[c], t)
             j == [NoJob EXCEPT !.latest = nextId]
  <1>2. IsRepo(repo[c]) /\ Stored(repo[c]) \subseteq Copies /\ nextId \in Nat \ {NoId}
    BY ClientTypes DEF Inv, TypeOK
  <1>6. /\ t \in Transactions /\ t.uuid = nextId /\ t.parent = repo[c].latest
        /\ t.parent < nextId
    BY <1>1 DEF IsRecorded
  <1>7. j \in Jobs /\ j.latest = nextId /\ Range(j.batch) = {}
    <2>1. j = [batch |-> << >>, latest |-> nextId, synced |-> NoId, garbage |-> << >>]
      BY DEF NoJob
    <2>2. << >> \in Seq(Transactions) /\ << >> \in Seq(Nat)
      BY EmptySeq
    <2> HIDE DEF j
    <2>3. j \in Jobs /\ j.latest = nextId /\ j.batch = << >>
      BY <1>2, <2>1, <2>2 DEF Jobs, NoId
    <2> QED BY <2>3 DEF Range
  <1>8. IsRepo(r) /\ DOMAIN r.txs = DOMAIN repo[c].txs \cup {nextId}
          /\ Stored(r) \subseteq Stored(repo[c]) \cup {t}
    BY <1>2, <1>6, AddTransactionType
  <1>9. /\ pc' = [pc EXCEPT ![c] = "recording"] /\ job' = [job EXCEPT ![c] = j]
        /\ Write(c, r) /\ Offline /\ NoCrash /\ nextId' = nextId + 1
    BY <1>1 DEF IsRecorded
  <1>10. recorded' \in [Clients -> Nat]
    BY DEF RecordTransaction, Inv, TypeOK
  <1> HIDE DEF r, j
  <1>11. "recording" \in Steps /\ KeepsPlan("recording", j, r)
    BY <1>7, <1>8 DEF Steps, KeepsPlan
  <1> DEFINE fresh == {t}
  <1>12. /\ Stored(r) \cup Range(j.batch) \subseteq Copies \cup fresh
         /\ nextId' \in Nat /\ nextId <= nextId'
         /\ \A u \in fresh : /\ u.uuid \in Nat /\ nextId <= u.uuid /\ u.uuid < nextId'
                             /\ u.parent < u.uuid
         /\ \A u, other \in fresh : u.uuid = other.uuid => u = other
    BY <1>2, <1>6, <1>7, <1>8, <1>9
  <1> HIDE DEF fresh
  <1> QED BY <1>7, <1>8, <1>9, <1>10, <1>11, <1>12, LocalStep

\* Collecting what is to be pushed keeps the invariant.
LEMMA PushTransactionsInv ==
  ASSUME Inv, NEW c \in Clients, PushTransactions(c)
  PROVE  Inv'
  <1> DEFINE j == [NoJob EXCEPT !.batch = Unsynchronized(repo[c])]
  <1>1. IsRepo(repo[c]) /\ Stored(repo[c]) \subseteq Copies
    BY ClientTypes
  <1>2. Unsynchronized(repo[c]) \in Seq(Transactions) /\ Range(Unsynchronized(repo[c])) \subseteq Copies
    BY <1>1, ChainTyped DEF PushTransactions
  <1>3. j \in Jobs /\ j.batch = Unsynchronized(repo[c])
    BY <1>2, EmptySeq DEF NoJob, Jobs, NoId
  <1>4. "pushing" \in Steps /\ KeepsPlan("pushing", j, repo[c])
    BY DEF Steps, KeepsPlan
  <1>5. /\ pc' = [pc EXCEPT ![c] = "pushing"] /\ job' = [job EXCEPT ![c] = j]
        /\ Offline /\ NoCrash /\ UNCHANGED <<repo, disk>> /\ nextId' = nextId
    BY DEF PushTransactions, Goto, SetJob
  <1>6. recorded' \in [Clients -> Nat]
    BY DEF PushTransactions, Inv, TypeOK
  <1> HIDE DEF j
  <1> QED BY <1>1, <1>2, <1>3, <1>4, <1>5, <1>6, QuietStep

\* Planning a rebase keeps the invariant: the rebased transactions have fresh ids,
\* the news are stored under none of the device's ids, so neither the end of the
\* news nor of the rebased chain is among the garbage.
LEMMA RebaseLocalTransactionsInv ==
  ASSUME Inv, NEW c \in Clients, GetChildTransactions(c)
  PROVE  Inv'
  <1> DEFINE news    == News(repo[c], server)
             old     == Unsynchronized(repo[c])
             newest  == news[Len(news)].uuid
             rebased == RebaseTransactions(old, newest, nextId)
             garbage == [i \in DOMAIN old |-> old[i].uuid]
             latest  == IF old = << >> THEN newest ELSE rebased[Len(rebased)].uuid
             j       == [batch |-> news \o rebased, latest |-> latest,
                         synced |-> newest, garbage |-> garbage]
             fresh   == Range(rebased)
  <1>1. /\ IsRepo(repo[c]) /\ Stored(repo[c]) \subseteq Copies
        /\ IsRepo(server) /\ Stored(server) \subseteq Copies
        /\ nextId \in Nat \ {NoId}
    BY ClientTypes, CopyPlaces DEF Inv, TypeOK
  <1>2. /\ IsChainSince(server, repo[c].synced, news) /\ news # << >>
        /\ IsChainSince(repo[c], repo[c].synced, old)
        /\ \A i \in DOMAIN news : news[i].uuid \notin DOMAIN repo[c].txs
    BY Zenon DEF GetChildTransactions, CanRebase, KnowsChildren, News,
           CheckTransactionIdUniqueness, HasTransaction
  <1>3. /\ pc' = [pc EXCEPT ![c] = "storing"] /\ job' = [job EXCEPT ![c] = j]
        /\ nextId' = nextId + Len(old)
        /\ Offline /\ NoCrash /\ UNCHANGED <<repo, disk>>
        /\ recorded' \in [Clients -> Nat]
    BY DEF GetChildTransactions, Goto, SetJob, Inv, TypeOK
  <1> HIDE DEF news, old
  <1>4. /\ news \in Seq(Transactions) /\ Range(news) \subseteq Copies
        /\ old \in Seq(Transactions) /\ Range(old) \subseteq Copies
        /\ \A i \in DOMAIN old : old[i].uuid \in DOMAIN repo[c].txs
    BY <1>1, <1>2, ChainTyped
  <1>5. /\ Len(news) \in DOMAIN news /\ Len(old) \in Nat /\ DOMAIN old = 1..Len(old)
        /\ old # << >> => Len(old) \in DOMAIN old
    BY <1>2, <1>4, LenProperties, EmptySeq
  <1>6. \A tx \in Copies : tx.uuid \in Nat /\ tx.uuid < nextId
    BY CopiesTyped DEF Inv, CopiesAgree
  <1>7. /\ newest \in Nat /\ newest < nextId
        /\ newest \in Uuids(news) /\ newest \notin DOMAIN repo[c].txs
    BY <1>2, <1>4, <1>5, <1>6 DEF Range, Uuids
  <1>8. \A i \in DOMAIN old : old[i].uuid \in Nat /\ old[i].uuid < nextId
    BY <1>4, <1>6 DEF Range
  <1> HIDE DEF newest
  <1>9. /\ rebased \in Seq(Transactions) /\ Len(rebased) = Len(old)
        /\ \A i \in DOMAIN old :
             /\ rebased[i].uuid = nextId + i - 1
             /\ rebased[i].parent = IF i = 1 THEN newest ELSE nextId + i - 2
    BY <1>1, <1>4, <1>7, RebaseTransactionsType
  <1> HIDE DEF rebased
  <1>10. DOMAIN rebased = DOMAIN old
    BY <1>5, <1>9, LenProperties
  <1>11. /\ news \o rebased \in Seq(Transactions)
         /\ Range(news \o rebased) = Range(news) \cup Range(rebased)
         /\ Uuids(news \o rebased) = Uuids(news) \cup Uuids(rebased)
    BY <1>4, <1>9, ConcatRange
  <1>12. garbage \in Seq(Nat) /\ DOMAIN garbage = DOMAIN old
    BY <1>5, <1>8, SeqDef
  <1>13. /\ latest \in Nat /\ latest \in Uuids(news) \cup Uuids(rebased)
         /\ \A i \in DOMAIN old : old[i].uuid # latest
    <2>1. CASE old = << >>
      BY <1>7, <2>1
    <2>2. CASE old # << >>
      <3>1. latest = nextId + Len(old) - 1 /\ latest = rebased[Len(old)].uuid
        BY <1>5, <1>9, <2>2
      <3>2. latest \in Uuids(rebased)
        BY <1>5, <1>10, <2>2, <3>1 DEF Uuids
      <3>3. latest \in Nat /\ nextId <= latest
        BY <1>1, <1>5, <2>2, <3>1
      <3> HIDE DEF latest
      <3> QED BY <1>8, <3>2, <3>3, <1>1
    <2> QED BY <2>1, <2>2
  <1> HIDE DEF latest
  <1>14. \A i \in DOMAIN garbage : garbage[i] \notin {latest, newest}
    BY <1>4, <1>7, <1>12, <1>13
  <1> HIDE DEF garbage
  <1>15. j \in Jobs
    BY <1>7, <1>11, <1>12, <1>13 DEF Jobs
  <1>16. "storing" \in Steps /\ KeepsPlan("storing", j, repo[c])
    BY <1>7, <1>11, <1>13, <1>14 DEF Steps, KeepsPlan
  <1>17. Stored(repo[c]) \cup Range(j.batch) \subseteq Copies \cup fresh
    BY <1>1, <1>4, <1>11
  <1>18. /\ nextId' \in Nat /\ nextId <= nextId'
         /\ \A tx \in fresh : /\ tx.uuid \in Nat /\ nextId <= tx.uuid /\ tx.uuid < nextId'
                             /\ tx.parent < tx.uuid
    <2>1. nextId' \in Nat /\ nextId <= nextId'
      BY <1>1, <1>3, <1>5
    <2>2. ASSUME NEW i \in DOMAIN old
          PROVE  /\ rebased[i].uuid \in Nat /\ nextId <= rebased[i].uuid
                 /\ rebased[i].uuid < nextId' /\ rebased[i].parent < rebased[i].uuid
      <3>1. i \in 1..Len(old) /\ rebased[i].uuid = nextId + i - 1
        BY <1>5, <1>9
      <3>2. rebased[i].parent < rebased[i].uuid
        BY <1>1, <1>5, <1>7, <1>9, <3>1
      <3> QED BY <1>1, <1>3, <1>5, <3>1, <3>2
    <2> QED BY <1>10, <2>1, <2>2 DEF Range
  <1>19. \A tx, other \in fresh : tx.uuid = other.uuid => tx = other
    <2>1. \A i, k \in DOMAIN old : rebased[i].uuid = rebased[k].uuid => i = k
      BY <1>1, <1>5, <1>9
    <2> QED BY <1>10, <2>1 DEF Range
  <1> HIDE DEF j, fresh
  <1>20. UNCHANGED <<repo, disk>> /\ repo[c] = repo[c]
    BY <1>3
  <1> QED BY <1>1, <1>3, <1>15, <1>16, <1>17, <1>18, <1>19, <1>20, LocalStep

-------------------------------------------------------------------------------
(* The steps of a push: device c forgets what it has sent.                   *)

\* What the steps of a push have in common keeps the invariant.
LEMMA PushStep ==
  ASSUME Inv, NEW c \in Clients, NEW s \in {"idle", "marking"},
         pc' = [pc EXCEPT ![c] = s], SetJob(c, NoJob),
         UNCHANGED <<repo, disk, nextId, recorded>>, NoCrash,
         IsRepo(server'), Stored(server') \subseteq Copies,
         late' \subseteq late \cup {job[c].batch},
         faults' \in 0..MaxFaults
  PROVE  Inv'
  <1>1. /\ DOMAIN repo' = Clients /\ DOMAIN disk' = Clients
        /\ \A d \in Clients : repo'[d] = IF d = c THEN repo[c] ELSE repo[d]
        /\ \A d \in Clients : disk'[d] \in {disk[d], repo[d], repo'[d]}
    BY NoWriteEffect DEF Inv
  <1>2. /\ nextId' \in Nat /\ nextId <= nextId' /\ recorded' \in [Clients -> Nat]
        /\ crashes' \in 0..MaxCrashes
    BY DEF Inv, TypeOK, NoCrash
  <1>3. rewound' \in BOOLEAN
    BY Zenon DEF Inv, TypeOK, NoCrash
  <1>4. s \in Steps /\ KeepsPlan(s, NoJob, repo[c])
    BY DEF Steps, KeepsPlan
  <1>5. job' = [job EXCEPT ![c] = NoJob]
    BY DEF SetJob
  <1> DEFINE fresh == {}
  <1>6. /\ Stored(repo[c]) \cup Range(NoJob.batch) \subseteq Copies \cup fresh
        /\ \A tx \in fresh : /\ tx.uuid \in Nat /\ nextId <= tx.uuid /\ tx.uuid < nextId'
                            /\ tx.parent < tx.uuid
        /\ \A tx, other \in fresh : tx.uuid = other.uuid => tx = other
    BY ClientTypes, NoJobType
  <1> HIDE DEF fresh
  <1> QED BY <1>1, <1>2, <1>3, <1>4, <1>5, <1>6, ClientTypes, NoJobType, StepInv

\* What the invariant says of the server and of what is sent to it.
LEMMA ServerTypes ==
  ASSUME Inv
  PROVE  /\ IsRepo(server) /\ Stored(server) \subseteq Copies /\ faults \in 0..MaxFaults
         /\ \A batch \in late : batch \in Seq(Transactions) /\ Range(batch) \subseteq Copies
         /\ \A c \in Clients : job[c].batch \in Seq(Transactions)
                               /\ Range(job[c].batch) \subseteq Copies
  BY CopyPlaces DEF Inv, TypeOK, Jobs

\* An answered push keeps the invariant.
LEMMA AnswerPushInv ==
  ASSUME Inv, NEW c \in Clients, AnswerPush(c)
  PROVE  Inv'
  <1> DEFINE s == IF Accepts(server, job[c].batch) THEN "marking" ELSE "idle"
  <1>1. /\ pc' = [pc EXCEPT ![c] = s] /\ SetJob(c, NoJob) /\ NoCrash
        /\ UNCHANGED <<repo, disk, nextId, recorded>> /\ late' = late /\ faults' = faults
        /\ server' = ReceiveTransactions(server, job[c].batch)
    BY DEF AnswerPush, Goto
  <1>2. s \in {"idle", "marking"}
    OBVIOUS
  <1>3. IsRepo(server') /\ Stored(server') \subseteq Copies
    BY <1>1, ServerTypes, ReceiveTransactionsType
  <1> HIDE DEF s
  <1> QED BY <1>1, <1>2, <1>3, ServerTypes, PushStep

\* What a failed push leaves on its device.
LEMMA FailPushEffect ==
  ASSUME Inv, NEW c \in Clients, NEW fault, FailPush(c, fault)
  PROVE  /\ "idle" \in {"idle", "marking"}
         /\ pc' = [pc EXCEPT ![c] = "idle"] /\ SetJob(c, NoJob) /\ NoCrash
         /\ UNCHANGED <<repo, disk, nextId, recorded>> /\ faults' \in 0..MaxFaults
  BY ConstantsAssumption DEF FailPush, Goto, Inv, TypeOK

\* A lost request keeps the invariant.
LEMMA LoseRequestInv ==
  ASSUME Inv, NEW c \in Clients, LoseRequest(c)
  PROVE  Inv'
  <1>1. FailPush(c, "request_lost") /\ server' = server /\ late' = late
    BY DEF LoseRequest
  <1> QED BY <1>1, FailPushEffect, ServerTypes, PushStep

\* A delayed request keeps the invariant.
LEMMA DelayRequestInv ==
  ASSUME Inv, NEW c \in Clients, DelayRequest(c)
  PROVE  Inv'
  <1>1. FailPush(c, "request_late") /\ server' = server /\ late' = late \cup {job[c].batch}
    BY DEF DelayRequest
  <1> QED BY <1>1, FailPushEffect, ServerTypes, PushStep

\* A lost reply keeps the invariant.
LEMMA LoseReplyInv ==
  ASSUME Inv, NEW c \in Clients, LoseReply(c)
  PROVE  Inv'
  <1>1. /\ FailPush(c, "reply_lost") /\ late' = late
        /\ server' = ReceiveTransactions(server, job[c].batch)
    BY DEF LoseReply
  <1>2. IsRepo(server') /\ Stored(server') \subseteq Copies
    BY <1>1, ServerTypes, ReceiveTransactionsType
  <1> QED BY <1>1, <1>2, FailPushEffect, PushStep

\* The beginning of a list holds nothing but elements of the list.
LEMMA PrefixRange ==
  ASSUME NEW S, NEW txs \in Seq(S), NEW k \in 1..Len(txs)
  PROVE  SubSeq(txs, 1, k) \in Seq(S) /\ Range(SubSeq(txs, 1, k)) \subseteq Range(txs)
  <1>1. /\ SubSeq(txs, 1, k) \in Seq(S) /\ Len(SubSeq(txs, 1, k)) = k
        /\ \A i \in 1..k : SubSeq(txs, 1, k)[i] = txs[i]
    BY SubSeqProperties, LenProperties
  <1>2. DOMAIN SubSeq(txs, 1, k) = 1..k /\ 1..k \subseteq DOMAIN txs
    BY <1>1, LenProperties
  <1> QED BY <1>1, <1>2 DEF Range

\* A server that crashes halfway through receive_transactions keeps the invariant.
LEMMA CrashServerInv ==
  ASSUME Inv, NEW c \in Clients, CrashServer(c)
  PROVE  Inv'
  <1>1. FailPush(c, "server_crash") /\ late' = late
    BY DEF CrashServer
  <1>2. PICK k \in 1..Len(job[c].batch) :
          server' = AddTransactions(server, SubSeq(job[c].batch, 1, k))
    BY DEF CrashServer
  <1> DEFINE txs == SubSeq(job[c].batch, 1, k)
  <1>3. txs \in Seq(Transactions) /\ Range(txs) \subseteq Range(job[c].batch)
    BY ServerTypes, PrefixRange
  <1>4. server' = AddTransactions(server, txs)
    BY <1>2
  <1> HIDE DEF txs
  <1>5. IsRepo(server') /\ Stored(server') \subseteq Copies
    BY <1>3, <1>4, ServerTypes, AddTransactionsType
  <1> QED BY <1>1, <1>5, FailPushEffect, PushStep

\* A push that arrives after its device gave up keeps the invariant.
LEMMA AnswerLatePushInv ==
  ASSUME Inv, AnswerLatePush
  PROVE  Inv'
  <1>1. PICK batch \in late :
          /\ server' = ReceiveTransactions(server, batch)
          /\ late' = late \ {batch}
          /\ UNCHANGED <<repo, disk, pc, job, nextId, recorded, faults>> /\ NoCrash
    BY DEF AnswerLatePush
  <1>2. IsRepo(server') /\ Stored(server') \subseteq Copies
    BY <1>1, ServerTypes, ReceiveTransactionsType
  <1>3. PICK c \in Clients : TRUE
    BY ConstantsAssumption
  <1> DEFINE file == repo[c]
             step == pc[c]
             own == job[c]
  <1>4. /\ DOMAIN repo' = Clients /\ DOMAIN disk' = Clients
        /\ \A d \in Clients : repo'[d] = IF d = c THEN file ELSE repo[d]
        /\ \A d \in Clients : disk'[d] \in {disk[d], repo[d], repo'[d]}
    BY <1>1, NoWriteEffect DEF Inv
  <1>5. /\ pc' = [pc EXCEPT ![c] = step] /\ step \in Steps
        /\ job' = [job EXCEPT ![c] = own] /\ own \in Jobs
        /\ IsRepo(file) /\ KeepsPlan(step, own, file)
    BY <1>1, ClientTypes DEF Inv, TypeOK
  <1>6. /\ nextId' \in Nat /\ nextId <= nextId' /\ recorded' \in [Clients -> Nat]
        /\ crashes' \in 0..MaxCrashes /\ faults' \in 0..MaxFaults
    BY <1>1 DEF Inv, TypeOK, NoCrash
  <1>7. rewound' \in BOOLEAN
    BY <1>1, Zenon DEF Inv, TypeOK, NoCrash
  <1> DEFINE fresh == {}
  <1>8. /\ Stored(file) \cup Range(own.batch) \subseteq Copies \cup fresh
        /\ \A tx \in fresh : /\ tx.uuid \in Nat /\ nextId <= tx.uuid /\ tx.uuid < nextId'
                            /\ tx.parent < tx.uuid
        /\ \A tx, other \in fresh : tx.uuid = other.uuid => tx = other
    BY ClientTypes
  <1>9. late' \subseteq late \cup {job[c].batch}
    BY <1>1
  <1> HIDE DEF fresh, step, own, file
  <1> QED BY <1>2, <1>4, <1>5, <1>6, <1>7, <1>8, <1>9, StepInv

\* Flushing a file keeps the invariant.
LEMMA FlushInv ==
  ASSUME Inv, NEW c \in Clients, Flush(c)
  PROVE  Inv'
  <1>1. /\ disk' = [disk EXCEPT ![c] = repo[c]] /\ repo' = repo
        /\ UNCHANGED <<pc, job, nextId, recorded, server, late, faults>> /\ NoCrash
    BY DEF Flush, Offline
  <1> DEFINE file == repo[c]
             step == pc[c]
             own == job[c]
  <1>2. /\ DOMAIN repo' = Clients /\ DOMAIN disk' = Clients
        /\ \A d \in Clients : repo'[d] = IF d = c THEN file ELSE repo[d]
        /\ \A d \in Clients : disk'[d] \in {disk[d], repo[d], repo'[d]}
    BY <1>1 DEF Inv, TypeOK
  <1>3. /\ pc' = [pc EXCEPT ![c] = step] /\ step \in Steps
        /\ job' = [job EXCEPT ![c] = own] /\ own \in Jobs
        /\ IsRepo(file) /\ KeepsPlan(step, own, file)
    BY <1>1, ClientTypes DEF Inv, TypeOK
  <1>4. /\ nextId' \in Nat /\ nextId <= nextId' /\ recorded' \in [Clients -> Nat]
        /\ crashes' \in 0..MaxCrashes /\ faults' \in 0..MaxFaults
    BY <1>1 DEF Inv, TypeOK, NoCrash
  <1>5. rewound' \in BOOLEAN
    BY <1>1, Zenon DEF Inv, TypeOK, NoCrash
  <1>6. IsRepo(server') /\ Stored(server') \subseteq Copies
    BY <1>1, ServerTypes
  <1> DEFINE fresh == {}
  <1>7. /\ Stored(file) \cup Range(own.batch) \subseteq Copies \cup fresh
        /\ \A tx \in fresh : /\ tx.uuid \in Nat /\ nextId <= tx.uuid /\ tx.uuid < nextId'
                            /\ tx.parent < tx.uuid
        /\ \A tx, other \in fresh : tx.uuid = other.uuid => tx = other
    BY ClientTypes
  <1>8. late' \subseteq late \cup {job[c].batch}
    BY <1>1
  <1> HIDE DEF fresh, step, own, file
  <1> QED BY <1>2, <1>3, <1>4, <1>5, <1>6, <1>7, <1>8, StepInv

\* A crash of a device keeps the invariant, whatever writes it loses.
LEMMA CrashInv ==
  ASSUME Inv, NEW c \in Clients, Crash(c)
  PROVE  Inv'
  <1>1. /\ repo' = [repo EXCEPT ![c] = disk[c]] /\ disk' = disk
        /\ UNCHANGED <<nextId, recorded, server, faults>>
        /\ pc' = [pc EXCEPT ![c] = "idle"] /\ job' = [job EXCEPT ![c] = NoJob]
        /\ late' \subseteq late \cup {job[c].batch}
    BY DEF Crash, SetJob
  <1>2. /\ DOMAIN repo' = Clients /\ DOMAIN disk' = Clients
        /\ \A d \in Clients : repo'[d] = IF d = c THEN disk[c] ELSE repo[d]
        /\ \A d \in Clients : disk'[d] \in {disk[d], repo[d], repo'[d]}
    BY <1>1 DEF Inv, TypeOK
  <1>3. "idle" \in Steps /\ KeepsPlan("idle", NoJob, disk[c])
    BY DEF Steps, KeepsPlan
  <1>4. /\ nextId' \in Nat /\ nextId <= nextId' /\ recorded' \in [Clients -> Nat]
        /\ faults' \in 0..MaxFaults
    BY <1>1 DEF Inv, TypeOK
  <1>5. crashes' \in 0..MaxCrashes
    BY ConstantsAssumption DEF Crash, Inv, TypeOK
  <1>6. rewound' \in BOOLEAN
    BY Zenon DEF Crash, Inv, TypeOK
  <1>7. IsRepo(server') /\ Stored(server') \subseteq Copies
    BY <1>1, ServerTypes
  <1> DEFINE fresh == {}
  <1>8. /\ Stored(disk[c]) \cup Range(NoJob.batch) \subseteq Copies \cup fresh
        /\ \A tx \in fresh : /\ tx.uuid \in Nat /\ nextId <= tx.uuid /\ tx.uuid < nextId'
                            /\ tx.parent < tx.uuid
        /\ \A tx, other \in fresh : tx.uuid = other.uuid => tx = other
    BY ClientTypes, NoJobType
  <1> HIDE DEF fresh
  <1> QED BY <1>1, <1>2, <1>3, <1>4, <1>5, <1>6, <1>7, <1>8, ClientTypes, NoJobType, StepInv

-------------------------------------------------------------------------------
(* The theorems.                                                             *)

\* Every step keeps the invariant.
LEMMA NextInv == Inv /\ [Next]_vars => Inv'
  <1> SUFFICES ASSUME Inv, [Next]_vars PROVE Inv'
    OBVIOUS
  <1>1. ASSUME NEW c \in Clients, Sync(c) PROVE Inv'
    BY <1>1, SetLatestInv, GetLatestInv, RebaseLocalTransactionsInv, RefuseRebaseInv,
       StoreTransactionInv, SaveAccountInv, CollectGarbageInv, EndRebaseInv,
       PushTransactionsInv, PushNothingInv, AnswerPushInv, SetLatestSynchronizedInv
       DEF Sync
  <1>2. ASSUME NEW c \in Clients, RecordTransaction(c) \/ Flush(c) \/ Crash(c) PROVE Inv'
    BY <1>2, RecordTransactionInv, FlushInv, CrashInv
  <1>3. ASSUME NEW c \in Clients,
               LoseRequest(c) \/ DelayRequest(c) \/ LoseReply(c) \/ CrashServer(c)
        PROVE  Inv'
    BY <1>3, LoseRequestInv, DelayRequestInv, LoseReplyInv, CrashServerInv
  <1>4. CASE AnswerLatePush
    BY <1>4, AnswerLatePushInv
  <1>5. CASE UNCHANGED vars
    BY <1>5 DEF vars, Inv, TypeOK, PlansKept, CopiesAgree, Copies
  <1> QED BY <1>1, <1>2, <1>3, <1>4, <1>5 DEF Next

\* A step that changes the server deletes nothing from it and adds nothing but
\* copies of transactions that exist.
LEMMA ServerStep ==
  ASSUME Inv, Next
  PROVE  \/ server' = server
         \/ /\ IsRepo(server') /\ Stored(server') \subseteq Copies
            /\ DOMAIN server.txs \subseteq DOMAIN server'.txs
  <1> DEFINE Grows == /\ IsRepo(server') /\ Stored(server') \subseteq Copies
                      /\ DOMAIN server.txs \subseteq DOMAIN server'.txs
  <1>1. ASSUME NEW txs \in Seq(Transactions), Range(txs) \subseteq Copies,
               server' = ReceiveTransactions(server, txs)
        PROVE  Grows
    BY <1>1, ServerTypes, ReceiveTransactionsType
  <1>2. ASSUME NEW c \in Clients, AnswerPush(c) \/ LoseReply(c) PROVE Grows
    <2>1. server' = ReceiveTransactions(server, job[c].batch)
      BY <1>2 DEF AnswerPush, LoseReply
    <2> QED BY <1>1, <2>1, ServerTypes
  <1>3. ASSUME AnswerLatePush PROVE Grows
    <2>1. PICK batch \in late : server' = ReceiveTransactions(server, batch)
      BY <1>3 DEF AnswerLatePush
    <2> QED BY <1>1, <2>1, ServerTypes
  <1>4. ASSUME NEW c \in Clients, CrashServer(c) PROVE Grows
    <2>1. PICK k \in 1..Len(job[c].batch) :
            server' = AddTransactions(server, SubSeq(job[c].batch, 1, k))
      BY <1>4 DEF CrashServer
    <2> DEFINE txs == SubSeq(job[c].batch, 1, k)
    <2>2. txs \in Seq(Transactions) /\ Range(txs) \subseteq Range(job[c].batch)
      BY ServerTypes, PrefixRange
    <2>3. server' = AddTransactions(server, txs)
      BY <2>1
    <2> HIDE DEF txs
    <2> QED BY <2>2, <2>3, ServerTypes, AddTransactionsType
  <1>5. ASSUME NEW c \in Clients,
               \/ RecordTransaction(c) \/ SetLatest(c) \/ GetLatestTransaction(c)
               \/ GetChildTransactions(c) \/ RefuseRebase(c) \/ StoreTransaction(c)
               \/ SaveAccount(c) \/ CollectGarbage(c) \/ EndRebase(c)
               \/ PushTransactions(c) \/ PushNothing(c) \/ SetLatestSynchronized(c)
               \/ LoseRequest(c) \/ DelayRequest(c) \/ Flush(c) \/ Crash(c)
        PROVE  server' = server
    BY <1>5 DEF RecordTransaction, SetLatest, GetLatestTransaction, GetChildTransactions,
           RefuseRebase, StoreTransaction, SaveAccount, CollectGarbage, EndRebase,
           PushTransactions, PushNothing, SetLatestSynchronized, LoseRequest, DelayRequest,
           Flush, Crash, Offline
  <1> HIDE DEF Grows
  <1>6. server' = server \/ Grows
    BY <1>2, <1>3, <1>4, <1>5 DEF Next, Sync
  <1> QED BY <1>6 DEF Grows

\* The invariant holds in every state of every behaviour.
LEMMA InvAlways == Spec => []Inv
  BY InitInv, NextInv, PTL DEF Spec

\* Whatever the devices, the network and the crashes do, and however large the
\* bounds: every transaction is filed under its own uuid, and an account never
\* points to a transaction that its file has not stored yet, on any device, on
\* any disk after a crash, and on the server.
\* (Order of the writes of sync.rs:64-97; garbage never holds what is pointed to.)
THEOREM TypeCorrect == Spec => []TypeOK
  <1>1. Inv => TypeOK
    BY DEF Inv
  <1> QED BY <1>1, InvAlways, PTL

\* A uuid names one transaction for good, wherever copies of it are: rebased
\* transactions get fresh ids (rebase_transactions, generate_transaction_id), so
\* no rebase, retry or repeated push makes two versions of one uuid.
THEOREM UuidsNameOneTransaction == Spec => []CopiesAgree
  <1>1. Inv => CopiesAgree
    BY DEF Inv
  <1> QED BY <1>1, InvAlways, PTL

\* The server never alters or drops a transaction it stores: add_transaction
\* overwrites what has the same uuid, but that can only be the same transaction.
THEOREM ServerKeeps == Spec => ServerKeepsTransactions
  <1> DEFINE Kept == \A id \in DOMAIN server.txs :
                       HasTransaction(server', id) /\ server'.txs[id] = server.txs[id]
  <1>1. ASSUME Inv, [Next]_vars PROVE [Kept]_server
    <2>1. CASE server' = server
      BY <2>1
    <2>2. CASE server' # server
      <3>1. /\ IsRepo(server) /\ Stored(server) \subseteq Copies
            /\ IsRepo(server') /\ Stored(server') \subseteq Copies
            /\ DOMAIN server.txs \subseteq DOMAIN server'.txs
        <4>1. Next
          BY <1>1, <2>2 DEF vars
        <4> QED BY <1>1, <2>2, <4>1, ServerStep, ServerTypes
      <3>2. ASSUME NEW id \in DOMAIN server.txs
            PROVE  HasTransaction(server', id) /\ server'.txs[id] = server.txs[id]
        <4>1. /\ server.txs[id] \in Copies /\ server.txs[id].uuid = id
              /\ server'.txs[id] \in Copies /\ server'.txs[id].uuid = id
          BY <3>1, StoredElement DEF IsRepo
        <4> QED BY <1>1, <3>1, <4>1 DEF Inv, CopiesAgree, HasTransaction
      <3> QED BY <3>2
    <2> QED BY <2>1, <2>2
  <1>2. Inv /\ [Next]_vars => [Kept]_server
    BY <1>1
  <1>3. Spec => [][Kept]_server
    BY <1>2, InvAlways, PTL DEF Spec
  <1> QED BY <1>3 DEF ServerKeepsTransactions

-------------------------------------------------------------------------------
(* Histories: what the chains of the devices and the log of the server hold. *)

\* What a well-formed file is if its transactions are among ordered ones.
LEMMA FileInOrder ==
  ASSUME NEW r, IsRepo(r), NEW T, IsOrdered(T), Stored(r) \subseteq T
  PROVE  IsFiled(r) /\ r.latest \in Nat /\ r.synced \in Nat
  <1>1. IsFiled(r)
    BY DEF IsRepo, IsFiled, IsOrdered
  <1>2. \A id \in DOMAIN r.txs : id \in Nat
    BY <1>1, StoredTransaction
  <1> QED BY <1>1, <1>2 DEF IsRepo, NoId

\* Storing transactions of which every uuid names one adds them and overwrites
\* nothing that is different, so it leaves the chain as it is.
LEMMA AddTransactionsChain ==
  ASSUME NEW r, IsRepo(r), NEW txs \in Seq(Transactions),
         NEW T, IsOrdered(T), Agree(T), Stored(r) \subseteq T, Range(txs) \subseteq T,
         NEW s, s = AddTransactions(r, txs)
  PROVE  /\ IsRepo(s) /\ s.latest = r.latest /\ s.synced = r.synced
         /\ Stored(s) = Stored(r) \cup Range(txs)
         /\ IsReadable(r) => IsReadable(s) /\ Chain(s) = Chain(r)
  <1>1. /\ IsRepo(s) /\ s.latest = r.latest /\ s.synced = r.synced
        /\ DOMAIN s.txs = DOMAIN r.txs \cup Uuids(txs)
        /\ Stored(s) \subseteq Stored(r) \cup Range(txs)
    BY AddTransactionsType
  <1>2. Stored(s) \subseteq T
    BY <1>1
  <1>3. ASSUME NEW tx \in Stored(r) \cup Range(txs) PROVE tx \in Stored(s)
    <2>1. tx.uuid \in DOMAIN s.txs
      <3>1. CASE tx \in Stored(r)
        BY <1>1, <3>1, StoredElement DEF IsRepo
      <3>2. CASE tx \in Range(txs)
        BY <1>1, <3>2 DEF Range, Uuids
      <3> QED BY <3>1, <3>2
    <2>2. s.txs[tx.uuid] \in Stored(s) /\ s.txs[tx.uuid].uuid = tx.uuid
      BY <1>1, <2>1, StoredElement DEF IsRepo
    <2>3. s.txs[tx.uuid] = tx
      BY <1>2, <2>2 DEF Agree
    <2> QED BY <2>2, <2>3
  <1>4. Stored(s) = Stored(r) \cup Range(txs)
    BY <1>1, <1>3
  <1>5. ASSUME IsReadable(r) PROVE IsReadable(s) /\ Chain(s) = Chain(r)
    <2>1. IsFiled(s) /\ s.latest \in Nat
      BY <1>1, <1>2, FileInOrder
    <2>2. Range(Chain(r)) \subseteq Stored(s)
      BY <1>4, <1>5, ReadableChain, RangeOfSeq
    <2> QED BY <1>1, <1>5, <2>1, <2>2, ChainKept
  <1> QED BY <1>1, <1>4, <1>5

\* The same of one transaction.
LEMMA AddTransactionChain ==
  ASSUME NEW r, IsRepo(r), NEW tx \in Transactions,
         NEW T, IsOrdered(T), Agree(T), Stored(r) \subseteq T, tx \in T,
         NEW s, s = AddTransaction(r, tx)
  PROVE  /\ IsRepo(s) /\ s.latest = r.latest /\ s.synced = r.synced
         /\ Stored(s) = Stored(r) \cup {tx}
         /\ IsReadable(r) => IsReadable(s) /\ Chain(s) = Chain(r)
  <1>1. /\ IsRepo(s) /\ s.latest = r.latest /\ s.synced = r.synced
        /\ DOMAIN s.txs = DOMAIN r.txs \cup {tx.uuid}
        /\ Stored(s) \subseteq Stored(r) \cup {tx}
    BY AddTransactionType
  <1>2. Stored(s) \subseteq T
    BY <1>1
  <1>3. ASSUME NEW old \in Stored(r) \cup {tx} PROVE old \in Stored(s)
    <2>1. old.uuid \in DOMAIN s.txs
      <3>1. CASE old \in Stored(r)
        BY <1>1, <3>1, StoredElement DEF IsRepo
      <3>2. CASE old = tx
        BY <1>1, <3>2
      <3> QED BY <3>1, <3>2
    <2>2. s.txs[old.uuid] \in Stored(s) /\ s.txs[old.uuid].uuid = old.uuid
      BY <1>1, <2>1, StoredElement DEF IsRepo
    <2>3. s.txs[old.uuid] = old
      BY <1>2, <2>2 DEF Agree
    <2> QED BY <2>2, <2>3
  <1>4. Stored(s) = Stored(r) \cup {tx}
    BY <1>1, <1>3
  <1>5. ASSUME IsReadable(r) PROVE IsReadable(s) /\ Chain(s) = Chain(r)
    <2>1. IsFiled(s) /\ s.latest \in Nat
      BY <1>1, <1>2, FileInOrder
    <2>2. Range(Chain(r)) \subseteq Stored(s)
      BY <1>4, <1>5, ReadableChain, RangeOfSeq
    <2> QED BY <1>1, <1>5, <2>1, <2>2, ChainKept
  <1> QED BY <1>1, <1>4, <1>5

\* A list that receive_transactions takes sits on the end of a log.
Extends(s, r, txs) ==
  /\ txs # << >> /\ Chain(s) = Chain(r) \o txs
  /\ s.latest = txs[Len(txs)].uuid /\ Path(txs, r.latest, s.latest)

\* receive_transactions refuses, or appends all it got to the end of the log.
LEMMA ReceiveTransactionsChain ==
  ASSUME NEW r, IsRepo(r), IsReadable(r), NEW txs \in Seq(Transactions),
         NEW T, IsOrdered(T), Agree(T), Stored(r) \subseteq T, Range(txs) \subseteq T,
         NEW s, s = ReceiveTransactions(r, txs)
  PROVE  /\ IsRepo(s) /\ IsReadable(s) /\ Stored(s) \subseteq T
         /\ Stored(r) \subseteq Stored(s) /\ s.synced = r.synced
         /\ (s = r /\ (txs = << >> \/ ~Accepts(r, txs))) \/ (Accepts(r, txs) /\ Extends(s, r, txs))
  <1>1. CASE txs = << >> \/ ~Accepts(r, txs)
    BY <1>1 DEF ReceiveTransactions
  <1>2. CASE ~(txs = << >> \/ ~Accepts(r, txs))
    <2> DEFINE a == AddTransactions(r, txs)
    <2>1. /\ IsRepo(a) /\ a.synced = r.synced /\ DOMAIN a.txs = DOMAIN r.txs \cup Uuids(txs)
          /\ Stored(a) = Stored(r) \cup Range(txs)
      BY AddTransactionsChain, AddTransactionsType
    <2>2. Len(txs) \in DOMAIN txs /\ txs[Len(txs)].uuid \in Uuids(txs)
      BY <1>2, LenProperties, EmptySeq DEF Uuids
    <2>3. s = SetLatestTransaction(a, txs[Len(txs)].uuid)
      BY <1>2 DEF ReceiveTransactions
    <2> HIDE DEF a
    <2>4. /\ IsRepo(s) /\ s.txs = a.txs /\ s.latest = txs[Len(txs)].uuid /\ s.synced = r.synced
      BY <2>1, <2>2, <2>3, SetLatestType
    <2>5. Stored(s) = Stored(r) \cup Range(txs)
      BY <2>1, <2>4 DEF Stored
    <2>6. IsFiled(s) /\ s.latest \in Nat
      BY <2>4, <2>5, FileInOrder
    <2>7. Path(txs, r.latest, s.latest)
      BY <1>2, <2>4 DEF Path, Accepts
    <2>8. Chain(r) \in Seq(Stored(s)) /\ txs \in Seq(Stored(s)) /\ Path(Chain(r), NoId, r.latest)
      <3>1. Chain(r) \in Seq(Stored(r)) /\ Path(Chain(r), NoId, r.latest)
        BY ReadableChain
      <3>2. Chain(r) \in Seq(Stored(s))
        BY <2>5, <3>1, SeqMonotonic
      <3>3. txs \in Seq(Stored(s))
        BY <2>5, SeqOfRange, SeqMonotonic
      <3> QED BY <3>1, <3>2, <3>3
    <2>9. Chain(r) \o txs \in Seq(Stored(s)) /\ Path(Chain(r) \o txs, NoId, s.latest)
      BY <2>7, <2>8, PathConcat
    <2>10. Chain(s) = Chain(r) \o txs /\ IsReadable(s)
      BY <2>6, <2>9, ChainIs
    <2> QED BY <1>2, <2>4, <2>5, <2>7, <2>10 DEF Extends
  <1> QED BY <1>1, <1>2

-------------------------------------------------------------------------------
(* The server's log.                                                         *)

\* The pushes that may still reach the server.
InFlight == late \cup {job[c].batch : c \in {d \in Clients : pc[d] = "pushing"}}

\* What is stored and what will be are among the transactions T, and what the
\* account will point to is among them.
CanFinish(r, j, T) ==
  /\ Stored(r) \subseteq T /\ Range(j.batch) \subseteq T
  /\ {j.latest, j.synced} \subseteq DOMAIN r.txs \cup Uuids(j.batch)

\* What the transactions of the files have in common.
FilesInOrder ==
  /\ IsOrdered(Copies) /\ Agree(Copies) /\ Copies \subseteq Transactions
  /\ \A tx \in Copies : tx.uuid < nextId
  /\ \A c \in Clients :
       /\ IsRepo(repo[c]) /\ Stored(repo[c]) \subseteq Copies /\ IsFiled(repo[c])
       /\ repo[c].latest \in Nat /\ repo[c].synced \in Nat
       /\ IsRepo(disk[c]) /\ Stored(disk[c]) \subseteq Copies /\ IsFiled(disk[c])
       /\ disk[c].latest \in Nat /\ disk[c].synced \in Nat
       /\ job[c] \in Jobs /\ Range(job[c].batch) \subseteq Copies
       /\ pc[c] = "storing" => CanFinish(repo[c], job[c], Copies)
  /\ IsRepo(server) /\ Stored(server) \subseteq Copies /\ IsFiled(server)
  /\ server.latest \in Nat
  /\ \A b \in InFlight : b \in Seq(Transactions) /\ Range(b) \subseteq Copies

LEMMA FilesAreInOrder == Inv => FilesInOrder
  <1> SUFFICES ASSUME Inv PROVE FilesInOrder
    OBVIOUS
  <1>1. Copies \subseteq Transactions
    BY CopiesTyped DEF Inv
  <1>2. IsOrdered(Copies) /\ Agree(Copies) /\ \A tx \in Copies : tx.uuid < nextId
    <2>1. \A tx \in Transactions : tx.uuid \in Nat /\ tx.parent \in Nat
      BY DEF Transactions
    <2> QED BY <1>1, <2>1 DEF Inv, CopiesAgree, IsOrdered, Agree
  <1>3. ASSUME NEW c \in Clients
        PROVE  /\ IsRepo(repo[c]) /\ Stored(repo[c]) \subseteq Copies /\ IsFiled(repo[c])
               /\ repo[c].latest \in Nat /\ repo[c].synced \in Nat
               /\ IsRepo(disk[c]) /\ Stored(disk[c]) \subseteq Copies /\ IsFiled(disk[c])
               /\ disk[c].latest \in Nat /\ disk[c].synced \in Nat
               /\ job[c] \in Jobs /\ Range(job[c].batch) \subseteq Copies
    BY <1>2, ClientTypes, FileInOrder
  <1>6. ASSUME NEW c \in Clients, pc[c] = "storing" PROVE CanFinish(repo[c], job[c], Copies)
    BY <1>6, ClientTypes DEF KeepsPlan, CanFinish
  <1>4. /\ IsRepo(server) /\ Stored(server) \subseteq Copies /\ IsFiled(server)
        /\ server.latest \in Nat
    BY <1>2, ServerTypes, FileInOrder
  <1>5. ASSUME NEW b \in InFlight PROVE b \in Seq(Transactions) /\ Range(b) \subseteq Copies
    BY <1>5, ServerTypes DEF InFlight
  <1> QED BY <1>1, <1>2, <1>3, <1>4, <1>5, <1>6 DEF FilesInOrder

LEMMA FilesStayInOrder == Inv' => FilesInOrder'
  BY FilesAreInOrder, PTL

\* A step writes to the server what a push brings, all of it or, when the server
\* crashes, a beginning of it, without the account.
LEMMA ServerWrites ==
  ASSUME Inv, [Next]_vars
  PROVE  \/ server' = server
         \/ \E b \in InFlight : server' = ReceiveTransactions(server, b)
         \/ \E b \in InFlight, k \in Nat :
              /\ k \in 1..Len(b) /\ Accepts(server, b)
              /\ server' = AddTransactions(server, SubSeq(b, 1, k))
  <1> DEFINE Kinds1 == server' = server
             Kinds2 == \E b \in InFlight : server' = ReceiveTransactions(server, b)
             Kinds3 == \E b \in InFlight, k \in Nat :
                         /\ k \in 1..Len(b) /\ Accepts(server, b)
                         /\ server' = AddTransactions(server, SubSeq(b, 1, k))
  <1>1. ASSUME NEW c \in Clients, AnswerPush(c) \/ LoseReply(c) PROVE Kinds2
    BY <1>1 DEF AnswerPush, LoseReply, FailPush, Goto, InFlight
  <1>2. ASSUME AnswerLatePush PROVE Kinds2
    BY <1>2 DEF AnswerLatePush, InFlight
  <1>3. ASSUME NEW c \in Clients, CrashServer(c) PROVE Kinds3
    <2>1. job[c].batch \in InFlight /\ Accepts(server, job[c].batch)
      BY <1>3 DEF CrashServer, FailPush, Goto, InFlight
    <2>2. PICK k \in 1..Len(job[c].batch) :
            server' = AddTransactions(server, SubSeq(job[c].batch, 1, k))
      BY <1>3 DEF CrashServer
    <2>3. k \in Nat
      BY <2>2, ServerTypes, LenProperties
    <2> QED BY <2>1, <2>2, <2>3
  <1>4. ASSUME NEW c \in Clients,
               \/ RecordTransaction(c) \/ SetLatest(c) \/ GetLatestTransaction(c)
               \/ GetChildTransactions(c) \/ RefuseRebase(c) \/ StoreTransaction(c)
               \/ SaveAccount(c) \/ CollectGarbage(c) \/ EndRebase(c)
               \/ PushTransactions(c) \/ PushNothing(c) \/ SetLatestSynchronized(c)
               \/ LoseRequest(c) \/ DelayRequest(c) \/ Flush(c) \/ Crash(c)
        PROVE  Kinds1
    BY <1>4 DEF RecordTransaction, SetLatest, GetLatestTransaction, GetChildTransactions,
           RefuseRebase, StoreTransaction, SaveAccount, CollectGarbage, EndRebase,
           PushTransactions, PushNothing, SetLatestSynchronized, LoseRequest, DelayRequest,
           Flush, Crash, Offline
  <1>5. ASSUME UNCHANGED vars PROVE Kinds1
    BY <1>5 DEF vars
  <1> HIDE DEF Kinds1, Kinds2, Kinds3
  <1> DEFINE Written == Kinds1 \/ Kinds2 \/ Kinds3
  <1>6. ASSUME NEW c \in Clients, AnswerPush(c) \/ LoseReply(c) \/ CrashServer(c) PROVE Written
    BY <1>1, <1>3, <1>6
  <1>7. ASSUME NEW c \in Clients, Sync(c) PROVE Written
    BY <1>4, <1>6, <1>7 DEF Sync
  <1>8. ASSUME AnswerLatePush PROVE Written
    BY <1>2, <1>8
  <1>11. ASSUME UNCHANGED vars PROVE Written
    BY <1>5, <1>11
  <1>9. ASSUME NEW c \in Clients,
               \/ RecordTransaction(c) \/ LoseRequest(c) \/ DelayRequest(c) \/ Flush(c) \/ Crash(c)
        PROVE  Written
    BY <1>4, <1>9
  <1> HIDE DEF Written
  <1>10. Written
    BY <1>6, <1>7, <1>8, <1>9, <1>11 DEF Next
  <1> QED BY <1>10 DEF Written, Kinds1, Kinds2, Kinds3

\* No step breaks the server's log or does anything to it but append an accepted
\* push, and none takes a transaction from the server.
LEMMA LogStep ==
  ASSUME Inv, IsReadable(server), [Next]_vars
  PROVE  /\ IsReadable(server') /\ Stored(server) \subseteq Stored(server')
         /\ Stored(server') \subseteq Copies /\ IsFiled(server')
         /\ \/ Chain(server') = Chain(server) /\ server'.latest = server.latest
            \/ \E b \in InFlight : Accepts(server, b) /\ Extends(server', server, b)
  <1>1. FilesInOrder
    BY FilesAreInOrder
  <1>2. CASE server' = server
    BY <1>1, <1>2 DEF FilesInOrder
  <1>3. ASSUME NEW b \in InFlight, server' = ReceiveTransactions(server, b)
        PROVE  /\ IsReadable(server') /\ Stored(server) \subseteq Stored(server')
               /\ Stored(server') \subseteq Copies /\ IsFiled(server')
               /\ server' = server \/ (Accepts(server, b) /\ Extends(server', server, b))
    <2>1. b \in Seq(Transactions) /\ Range(b) \subseteq Copies
      BY <1>1 DEF FilesInOrder
    <2>2. /\ IsRepo(server') /\ IsReadable(server') /\ Stored(server') \subseteq Copies
          /\ Stored(server) \subseteq Stored(server')
          /\ server' = server \/ (Accepts(server, b) /\ Extends(server', server, b))
      BY <1>1, <1>3, <2>1, ReceiveTransactionsChain DEF FilesInOrder
    <2> QED BY <1>1, <2>2, FileInOrder DEF FilesInOrder
  <1>4. ASSUME NEW b \in InFlight, NEW k \in 1..Len(b),
               server' = AddTransactions(server, SubSeq(b, 1, k))
        PROVE  /\ IsReadable(server') /\ Stored(server) \subseteq Stored(server')
               /\ Stored(server') \subseteq Copies /\ IsFiled(server')
               /\ Chain(server') = Chain(server) /\ server'.latest = server.latest
    <2> DEFINE txs == SubSeq(b, 1, k)
    <2>1. txs \in Seq(Transactions) /\ Range(txs) \subseteq Copies
      BY <1>1, PrefixRange DEF FilesInOrder
    <2>2. server' = AddTransactions(server, txs)
      BY <1>4
    <2> HIDE DEF txs
    <2>3. /\ IsRepo(server') /\ server'.latest = server.latest
          /\ Stored(server') = Stored(server) \cup Range(txs)
          /\ IsReadable(server') /\ Chain(server') = Chain(server)
      BY <1>1, <2>1, <2>2, AddTransactionsChain DEF FilesInOrder
    <2>4. IsFiled(server')
      BY <1>1, <2>1, <2>3, FileInOrder DEF FilesInOrder
    <2> QED BY <1>1, <2>1, <2>3, <2>4 DEF FilesInOrder
  <1> QED BY <1>2, <1>3, <1>4, ServerWrites

\* The server's log can always be read.
LEMMA LogReadable == Spec => []IsReadable(server)
  <1>1. Init => IsReadable(server)
    <2> SUFFICES ASSUME Init PROVE IsReadable(server)
      OBVIOUS
    <2>1. IsFiled(server) /\ server.latest = NoId /\ NoId \in Nat
      BY DEF Init, EmptyRepo, IsFiled, IsOrdered, Stored, Range, NoId
    <2>2. << >> \in Seq(Stored(server)) /\ Path(<< >>, NoId, NoId)
      BY EmptySeq DEF Path, CheckChainConsistency
    <2> QED BY <2>1, <2>2, ChainIs
  <1>2. Inv /\ IsReadable(server) /\ [Next]_vars => IsReadable(server)'
    <2>1. Inv /\ IsReadable(server) /\ [Next]_vars => IsReadable(server')
      BY LogStep
    <2> QED BY <2>1
  <1> QED BY <1>1, <1>2, InvAlways, PTL DEF Spec

\* The server's log only grows at its end.
LEMMA LogGrows ==
  ASSUME Inv, IsReadable(server), [Next]_vars
  PROVE  /\ IsPrefix(Chain(server), Chain(server'))
         /\ Chain(server) \in Seq(Copies) /\ Chain(server') \in Seq(Copies)
         /\ Range(Chain(server)) \subseteq Range(Chain(server'))
         /\ Uuids(Chain(server)) \subseteq Uuids(Chain(server'))
  <1>1. FilesInOrder
    BY FilesAreInOrder
  <1>2. Chain(server) \in Seq(Copies) /\ Chain(server') \in Seq(Copies)
    <2>1. Chain(server) \in Seq(Stored(server)) /\ Chain(server') \in Seq(Stored(server'))
      BY LogStep, ReadableChain
    <2> QED BY <1>1, <2>1, LogStep, SeqMonotonic DEF FilesInOrder
  <1>3. CASE Chain(server') = Chain(server)
    <2>1. Chain(server) \o << >> = Chain(server)
      BY <1>2, ConcatEmptySeq
    <2>2. IsPrefix(Chain(server), Chain(server))
      BY <1>2, <2>1, PrefixOfConcat, EmptySeq
    <2> QED BY <1>2, <1>3, <2>2
  <1>4. ASSUME NEW b \in InFlight, Extends(server', server, b)
        PROVE  /\ IsPrefix(Chain(server), Chain(server'))
               /\ Range(Chain(server)) \subseteq Range(Chain(server'))
               /\ Uuids(Chain(server)) \subseteq Uuids(Chain(server'))
    <2>1. b \in Seq(Copies)
      BY <1>1, SeqOfRange, SeqMonotonic DEF FilesInOrder
    <2>2. Chain(server') = Chain(server) \o b
      BY <1>4 DEF Extends
    <2>3. IsPrefix(Chain(server), Chain(server'))
      BY <1>2, <2>1, <2>2, PrefixOfConcat
    <2>4. /\ Range(Chain(server')) = Range(Chain(server)) \cup Range(b)
          /\ Uuids(Chain(server')) = Uuids(Chain(server)) \cup Uuids(b)
      BY <1>2, <2>1, <2>2, ConcatRange
    <2> QED BY <2>3, <2>4
  <1> QED BY <1>2, <1>3, <1>4, LogStep

\* The server's log only grows at its end, whatever is pushed, however late and
\* however often: nothing that was acknowledged is replaced or dropped.
\* (receive_transactions takes what sits on the latest transaction only.)
THEOREM LogOnlyGrows == Spec => ServerLogGrows
  <1> DEFINE Grown == IsPrefix(Chain(server), Chain(server'))
  <1>1. Inv /\ IsReadable(server) /\ [Next]_vars => [Grown]_server
    BY LogGrows
  <1>2. Spec => [][Grown]_server
    BY <1>1, InvAlways, LogReadable, PTL DEF Spec
  <1> QED BY <1>2 DEF ServerLogGrows

-------------------------------------------------------------------------------
(* The files of the devices.                                                 *)

\* A file whose account is in order: its chain can be read, and the last
\* synchronized transaction is on it and in the server's log (with uuids `log`).
IsHistory(r, log) ==
  /\ IsReadable(r)
  /\ r.synced \in {NoId} \cup Uuids(Chain(r))
  /\ r.synced \in {NoId} \cup log

\* What a file r will hold when a rebase with local variables j has stored what
\* it has to store and saved the account.
NextFile(r, j) ==
  SetLatestSynchronizedTransaction(
    SetLatestTransaction(AddTransactions(r, j.batch), j.latest), j.synced)

IsNextFile(q, r, j) ==
  /\ IsRepo(q) /\ q.latest = j.latest /\ q.synced = j.synced
  /\ Stored(q) = Stored(r) \cup Range(j.batch)
  /\ IsFiled(q) /\ q.latest \in Nat /\ q.synced \in Nat

LEMMA NextFileType ==
  ASSUME NEW r, IsRepo(r), NEW j \in Jobs,
         NEW T, IsOrdered(T), Agree(T), CanFinish(r, j, T)
  PROVE  IsNextFile(NextFile(r, j), r, j)
  <1> DEFINE a == AddTransactions(r, j.batch)
             b == SetLatestTransaction(a, j.latest)
             q == NextFile(r, j)
  <1>0. /\ Stored(r) \subseteq T /\ Range(j.batch) \subseteq T
        /\ {j.latest, j.synced} \subseteq DOMAIN r.txs \cup Uuids(j.batch)
    BY DEF CanFinish
  <1>1. j.batch \in Seq(Transactions)
    BY DEF Jobs
  <1>2. IsRepo(a) /\ DOMAIN a.txs = DOMAIN r.txs \cup Uuids(j.batch)
          /\ Stored(a) = Stored(r) \cup Range(j.batch)
    BY <1>0, <1>1, AddTransactionsType, AddTransactionsChain
  <1> HIDE DEF a
  <1>3. IsRepo(b) /\ b.txs = a.txs /\ b.latest = j.latest
    BY <1>0, <1>2, SetLatestType
  <1>4. q = SetLatestSynchronizedTransaction(b, j.synced)
    BY DEF NextFile, a
  <1> HIDE DEF b, q
  <1>5. IsRepo(q) /\ q.txs = a.txs /\ q.latest = j.latest /\ q.synced = j.synced
    BY <1>0, <1>2, <1>3, <1>4, SetSynchronizedType
  <1>6. Stored(q) = Stored(r) \cup Range(j.batch)
    BY <1>2, <1>5 DEF Stored
  <1>7. IsFiled(q) /\ q.latest \in Nat /\ q.synced \in Nat
    BY <1>0, <1>5, <1>6, FileInOrder
  <1> QED BY <1>5, <1>6, <1>7 DEF IsNextFile, q

\* Storing some of what has to be stored changes nothing about the next file.
LEMMA NextFileKept ==
  ASSUME NEW q, IsReadable(q), NEW p, IsFiled(p), p.latest \in Nat,
         p.latest = q.latest, p.synced = q.synced, Stored(q) \subseteq Stored(p)
  PROVE  Chain(p) = Chain(q) /\ IsReadable(p)
         /\ \A log : IsHistory(q, log) => IsHistory(p, log)
  <1>1. Range(Chain(q)) \subseteq Stored(p)
    BY ReadableChain, RangeOfSeq
  <1>2. Chain(p) = Chain(q) /\ IsReadable(p)
    BY <1>1, ChainKept
  <1> QED BY <1>2 DEF IsHistory

\* What a rebase plans: on top of what the server is known to have come the news,
\* and on top of them what the device had of its own, in the same order.
IsRebased(r, log, news, old, rebased, j, q) ==
  /\ IsHistory(q, log) /\ IsRepo(q)
  /\ Stored(q) = Stored(r) \cup Range(j.batch)
  /\ Range(j.garbage) \cap Uuids(Chain(q)) = {}
  /\ Chain(r) = Synchronized(r) \o old
  /\ Chain(q) = Synchronized(r) \o (news \o rebased) /\ ChainSince(q, q.synced) = rebased
  /\ Uuids(Chain(r)) = Uuids(Synchronized(r)) \cup Uuids(old)
  /\ Uuids(Chain(q)) = Uuids(Synchronized(r)) \cup Uuids(j.batch)

\* The rebased transactions have fresh ids and lead from the news to the new end.
IsRebasing(rebased, n, newest, latest, freshId) ==
  /\ rebased \in Seq(Transactions) /\ Path(rebased, newest, latest)
  /\ Len(rebased) = n
  /\ \A i \in 1..n : /\ rebased[i].uuid = freshId + i - 1
                     /\ rebased[i].parent < rebased[i].uuid

LEMMA RebasedPath ==
  ASSUME NEW old \in Seq(Transactions), NEW newest \in Nat, NEW freshId \in Nat \ {NoId},
         newest < freshId,
         NEW rebased, rebased = RebaseTransactions(old, newest, freshId),
         NEW latest, old = << >> => latest = newest,
         old # << >> => latest = rebased[Len(rebased)].uuid
  PROVE  IsRebasing(rebased, Len(old), newest, latest, freshId)
  <1>1. /\ rebased \in Seq(Transactions) /\ Len(rebased) = Len(old)
        /\ \A i \in DOMAIN old :
             /\ rebased[i].uuid = freshId + i - 1
             /\ rebased[i].parent = IF i = 1 THEN newest ELSE freshId + i - 2
    BY RebaseTransactionsType
  <1>2. /\ Len(old) \in Nat /\ DOMAIN old = 1..Len(old)
        /\ (old = << >> <=> Len(old) = 0) /\ (rebased = << >> <=> Len(old) = 0)
    BY <1>1, LenProperties, EmptySeq
  <1>3. ASSUME NEW i \in 2..Len(rebased) PROVE rebased[i].parent = rebased[i - 1].uuid
    <2>1. i \in DOMAIN old /\ i - 1 \in DOMAIN old
      BY <1>1, <1>2
    <2>2. rebased[i].parent = freshId + i - 2 /\ rebased[i - 1].uuid = freshId + (i - 1) - 1
      BY <1>1, <1>2, <2>1
    <2> QED BY <1>1, <1>2, <2>2
  <1>4. CheckChainConsistency(rebased)
    BY <1>3 DEF CheckChainConsistency
  <1>5. rebased # << >> => rebased[1].parent = newest
    <2>1. rebased # << >> => 1 \in DOMAIN old
      BY <1>2
    <2> QED BY <1>1, <2>1
  <1>6. Path(rebased, newest, latest)
    BY <1>2, <1>4, <1>5 DEF Path
  <1>7. ASSUME NEW i \in 1..Len(old)
        PROVE  rebased[i].uuid = freshId + i - 1 /\ rebased[i].parent < rebased[i].uuid
    <2>1. i \in DOMAIN old /\ i \in Nat /\ freshId \in Nat
      BY <1>2
    <2>2. rebased[i].uuid = freshId + i - 1
      BY <1>1, <2>1
    <2>3. CASE i = 1
      <3>1. rebased[i].parent = newest
        BY <1>1, <2>1, <2>3
      <3> QED BY <2>1, <2>2, <2>3, <3>1
    <2>4. CASE i # 1
      <3>1. rebased[i].parent = freshId + i - 2
        BY <1>1, <2>1, <2>4
      <3> QED BY <2>1, <2>2, <3>1
    <2> QED BY <2>3, <2>4
  <1> QED BY <1>1, <1>6, <1>7 DEF IsRebasing

\* They have no uuid that was generated before,
LEMMA FreshUuids ==
  ASSUME NEW rebased, NEW n \in Nat, NEW newest, NEW latest, NEW freshId \in Nat,
         IsRebasing(rebased, n, newest, latest, freshId)
  PROVE  \A id \in Uuids(rebased) : id \in Nat /\ freshId <= id
  <1>1. /\ DOMAIN rebased = 1..n
        /\ \A i \in 1..n : rebased[i].uuid = freshId + i - 1
    BY LenProperties DEF IsRebasing
  <1>2. \A i \in 1..n : rebased[i].uuid \in Nat /\ freshId <= rebased[i].uuid
    BY <1>1
  <1> QED BY <1>1, <1>2 DEF Uuids

\* and may be stored next to all there was.
LEMMA RebasedAgree ==
  ASSUME NEW T, IsOrdered(T), Agree(T), NEW n \in Nat, NEW newest, NEW latest,
         NEW freshId \in Nat \ {NoId}, \A tx \in T : tx.uuid < freshId,
         NEW rebased, IsRebasing(rebased, n, newest, latest, freshId)
  PROVE  IsOrdered(T \cup Range(rebased)) /\ Agree(T \cup Range(rebased))
  <1>1. /\ rebased \in Seq(Transactions) /\ DOMAIN rebased = 1..n
        /\ \A i \in 1..n : /\ rebased[i].uuid = freshId + i - 1
                           /\ rebased[i].parent < rebased[i].uuid
    BY LenProperties DEF IsRebasing
  <1>2. \A i \in 1..n : rebased[i].uuid \in Nat /\ rebased[i].parent \in Nat
    <2>1. \A i \in 1..n : rebased[i] \in Transactions
      BY <1>1, ElementOfSeq DEF IsRebasing
    <2> QED BY <2>1 DEF Transactions
  <1>3. \A tx \in Range(rebased) : \E i \in 1..n : tx = rebased[i]
    BY <1>1 DEF Range
  <1>4. IsOrdered(T \cup Range(rebased))
    BY <1>1, <1>2, <1>3 DEF IsOrdered
  <1>5. ASSUME NEW tx \in T, NEW i \in 1..n PROVE tx.uuid # rebased[i].uuid
    <2>1. tx.uuid \in Nat /\ tx.uuid < freshId /\ rebased[i].uuid = freshId + i - 1
      BY <1>1 DEF IsOrdered
    <2> QED BY <2>1
  <1>6. ASSUME NEW i \in 1..n, NEW k \in 1..n, rebased[i].uuid = rebased[k].uuid PROVE i = k
    <2>1. freshId + i - 1 = freshId + k - 1
      BY <1>1, <1>6
    <2> QED BY <2>1
  <1>7. Agree(T \cup Range(rebased))
    BY <1>3, <1>5, <1>6, SMTT(30) DEF Agree
  <1> QED BY <1>4, <1>7

LEMMA RebaseChain ==
  ASSUME NEW r, IsRepo(r), NEW srv, IsRepo(srv), IsReadable(srv),
         NEW T, IsOrdered(T), Agree(T), T \subseteq Transactions,
         Stored(r) \subseteq T, Stored(srv) \subseteq T,
         IsHistory(r, Uuids(Chain(srv))),
         NEW freshId \in Nat \ {NoId}, \A tx \in T : tx.uuid < freshId,
         NEW news, news = ChainSince(srv, r.synced), news # << >>,
         \A i \in DOMAIN news : news[i].uuid \notin DOMAIN r.txs,
         NEW old, old = ChainSince(r, r.synced),
         NEW rebased, rebased = RebaseTransactions(old, news[Len(news)].uuid, freshId),
         NEW j \in Jobs, j.batch = news \o rebased, j.synced = news[Len(news)].uuid,
         old = << >> => j.latest = j.synced,
         old # << >> => j.latest = rebased[Len(rebased)].uuid,
         j.garbage = [i \in DOMAIN old |-> old[i].uuid],
         {j.latest, j.synced} \subseteq DOMAIN r.txs \cup Uuids(j.batch)
  PROVE  IsRebased(r, Uuids(Chain(srv)), news, old, rebased, j, NextFile(r, j))
  <1> DEFINE q == NextFile(r, j)
             p == Synchronized(r)
             newest == j.synced
             log == Uuids(Chain(srv))
             U == T \cup Range(rebased)
  <1>0. IsFiled(r) /\ r.latest \in Nat /\ r.synced \in Nat /\ IsFiled(srv) /\ srv.latest \in Nat
    BY FileInOrder
  <1>1. Cuts(r, r.synced, p, old)
    <2>1. r.synced \in {NoId} \cup Uuids(Chain(r)) /\ IsReadable(r)
      BY DEF IsHistory
    <2> QED BY <1>0, <2>1, ChainSinceCuts DEF Synchronized
  <1>2. PICK known : Cuts(srv, r.synced, known, news)
    BY <1>0, ChainSinceCuts DEF IsHistory
  <1>3. /\ p \in Seq(Stored(r)) /\ old \in Seq(Stored(r)) /\ news \in Seq(Stored(srv))
        /\ known \in Seq(Stored(srv))
        /\ Path(p, NoId, r.synced) /\ Path(old, r.synced, r.latest)
        /\ Path(news, r.synced, srv.latest)
        /\ Chain(r) = p \o old /\ Chain(srv) = known \o news
    BY <1>1, <1>2 DEF Cuts
  <1> HIDE DEF p, q
  <1>4. p \in Seq(T) /\ old \in Seq(T) /\ news \in Seq(T) /\ old \in Seq(Transactions)
    BY <1>3, SeqMonotonic, SMTT(30)
  <1>5. newest = srv.latest /\ newest \in Uuids(news) /\ newest \in Nat /\ newest < freshId
    <2>1. Len(news) \in DOMAIN news /\ news[Len(news)] \in T
      BY <1>4, LenProperties, EmptySeq, ElementOfSeq
    <2> QED BY <1>3, <2>1 DEF Path, Uuids, IsOrdered
  <1>6. newest \in log
    <2>1. Uuids(Chain(srv)) = Uuids(known) \cup Uuids(news)
      BY <1>3, ConcatRange
    <2> QED BY <1>5, <2>1
  <1> HIDE DEF log
  <1>7. IsRebasing(rebased, Len(old), newest, j.latest, freshId)
    <2>1. rebased = RebaseTransactions(old, newest, freshId)
      BY Zenon
    <2> QED BY <1>4, <1>5, <2>1, RebasedPath
  <1>8. rebased \in Seq(Transactions) /\ Path(rebased, newest, j.latest)
    BY <1>7, SMTT(30) DEF IsRebasing
  <1>9. IsOrdered(U) /\ Agree(U)
    <2>1. Len(old) \in Nat
      BY <1>4, LenProperties
    <2> QED BY <1>5, <1>7, <2>1, RebasedAgree
  <1>10. rebased \in Seq(U) /\ news \in Seq(U) /\ p \in Seq(U) /\ old \in Seq(U)
    <2>1. rebased \in Seq(Range(rebased))
      BY <1>8, SeqOfRange
    <2> QED BY <1>4, <2>1, SeqMonotonic
  <1>11. /\ j.batch \in Seq(U) /\ Range(j.batch) = Range(news) \cup Range(rebased)
         /\ Uuids(j.batch) = Uuids(news) \cup Uuids(rebased)
         /\ Path(j.batch, r.synced, j.latest)
    <2>1. Path(news, r.synced, newest)
      BY <1>3, <1>5
    <2> HIDE DEF U
    <2>2. news \o rebased \in Seq(U) /\ Path(news \o rebased, r.synced, j.latest)
      BY <1>8, <1>10, <2>1, PathConcat
    <2>3. /\ Range(news \o rebased) = Range(news) \cup Range(rebased)
          /\ Uuids(news \o rebased) = Uuids(news) \cup Uuids(rebased)
      BY <1>10, ConcatRange
    <2> QED BY <2>2, <2>3
  <1>12. /\ IsRepo(q) /\ q.latest = j.latest /\ q.synced = newest
         /\ Stored(q) = Stored(r) \cup Range(j.batch)
         /\ IsFiled(q) /\ q.latest \in Nat
    <2>1. Stored(r) \subseteq U /\ Range(j.batch) \subseteq U
      BY <1>11, RangeOfSeq
    <2>2. CanFinish(r, j, U)
      BY <2>1 DEF CanFinish
    <2> HIDE DEF U
    <2>3. IsNextFile(NextFile(r, j), r, j)
      BY <1>9, <2>2, NextFileType, Zenon
    <2> QED BY <2>3 DEF IsNextFile, q
  <1>13. Chain(q) = p \o j.batch /\ IsReadable(q) /\ Uuids(Chain(q)) = Uuids(p) \cup Uuids(j.batch)
    <2>1. p \in Seq(Stored(q)) /\ j.batch \in Seq(Stored(q))
      <3>1. Stored(r) \subseteq Stored(q) /\ Range(j.batch) \subseteq Stored(q)
        BY <1>12
      <3>2. j.batch \in Seq(Range(j.batch))
        BY <1>11, SeqOfRange
      <3> QED BY <1>3, <3>1, <3>2, SeqMonotonic
    <2>2. /\ Path(p, NoId, r.synced) /\ Path(j.batch, r.synced, q.latest)
          /\ IsFiled(q) /\ q.latest \in Nat
      BY <1>3, <1>11, <1>12
    <2>3. IsMadeOf(q, p, j.batch)
      BY <2>1, <2>2, ChainOfPaths, Zenon
    <2> QED BY <2>3 DEF IsMadeOf
  <1>14. IsHistory(q, log)
    <2>1. q.synced \in Uuids(Chain(q))
      BY <1>5, <1>11, <1>12, <1>13, SMTT(30)
    <2> QED BY <1>6, <1>12, <1>13, <2>1 DEF IsHistory
  <1>15. ASSUME NEW i \in DOMAIN old PROVE old[i].uuid \notin Uuids(Chain(q))
    <2>1. old[i] \in Stored(r) /\ i \in 1..Len(old)
      BY <1>3, LenProperties, ElementOfSeq
    <2>2. old[i].uuid \in DOMAIN r.txs
      BY <1>0, <2>1, StoredTransaction
    <2>3. old[i].uuid \in Nat /\ old[i].uuid < freshId
      BY <2>1, SMTT(30) DEF IsOrdered
    <2>4. old[i].uuid \notin Uuids(news)
      BY <2>2 DEF Uuids
    <2>5. old[i].uuid \notin Uuids(rebased)
      BY <1>7, <2>3, FreshUuids, SMTT(30)
    <2>6. old[i].uuid \notin Uuids(p)
      <3>1. r.synced < old[i].uuid
        BY <1>0, <1>3, <1>4, <2>1, PathBounds
      <3>2. \A k \in 1..Len(p) : p[k].uuid <= r.synced /\ p[k].uuid \in Nat
        <4>1. NoId \in Nat
          BY DEF NoId
        <4>2. \A k \in 1..Len(p) : p[k].uuid \in Nat
          BY <1>4, ElementOfSeq DEF IsOrdered
        <4> QED BY <1>3, <1>4, <4>1, <4>2, PathBounds
      <3>3. DOMAIN p = 1..Len(p)
        BY <1>4, LenProperties
      <3>4. \A k \in DOMAIN p : p[k].uuid # old[i].uuid
        BY <1>0, <2>3, <3>1, <3>2, <3>3
      <3> QED BY <3>4 DEF Uuids
    <2> QED BY <1>11, <1>13, <2>4, <2>5, <2>6, Zenon
  <1>16. Range(j.garbage) \cap Uuids(Chain(q)) = {}
    <2>1. \A id \in Range(j.garbage) : \E i \in DOMAIN old : id = old[i].uuid
      BY DEF Range
    <2> QED BY <1>15, <2>1
  <1>17. ChainSince(q, newest) = rebased
    <2>1. rebased \in Seq(Range(rebased)) /\ Range(rebased) \subseteq Stored(q)
      BY <1>8, <1>11, <1>12, SeqOfRange
    <2>2. rebased \in Seq(Stored(q))
      BY <2>1, SeqMonotonic
    <2>3. Path(rebased, newest, q.latest)
      BY <1>8, <1>12
    <2> QED BY <1>5, <1>12, <2>2, <2>3, SinceOfPaths
  <1>18. Uuids(Chain(r)) = Uuids(p) \cup Uuids(old)
    BY <1>3, ConcatRange
  <1> QED BY <1>3, <1>12, <1>13, <1>14, <1>16, <1>17, <1>18, Zenon DEF IsRebased, p, q, log

-------------------------------------------------------------------------------
(* What every file holds, and what the operation under way will make of it.  *)

\* The uuids of the server's log.
Log == Uuids(Chain(server))

\* What an operation at a step, with local variables j, has still to promise of a
\* file r: a transaction being recorded sits on the end of the chain; the account
\* that a rebase will save is in order, and its garbage is not on the chain that
\* this account has; a push is what the server is not known to have.
Plan(step, j, r, log) ==
  /\ step = "recording" => r.txs[j.latest].parent = r.latest
  /\ step = "storing" => /\ IsHistory(NextFile(r, j), log)
                         /\ Range(j.garbage) \cap Uuids(Chain(NextFile(r, j))) = {}
  /\ step = "deleting" => Range(j.garbage) \cap Uuids(Chain(r)) = {}
  /\ step = "pushing" => j.batch = ChainSince(r, r.synced) /\ j.batch # << >>
  /\ step = "marking" => r.latest \in {NoId} \cup log

HistInv ==
  \A c \in Clients : /\ IsHistory(repo[c], Log) /\ IsHistory(disk[c], Log)
                     /\ Plan(pc[c], job[c], repo[c], Log)

\* A log that grows spoils nothing.
LEMMA HistoryGrows ==
  ASSUME NEW log, NEW more, log \subseteq more, NEW r
  PROVE  /\ IsHistory(r, log) => IsHistory(r, more)
         /\ \A step, j : Plan(step, j, r, log) => Plan(step, j, r, more)
  <1>1. \A q : IsHistory(q, log) => IsHistory(q, more)
    BY DEF IsHistory
  <1>2. ASSUME NEW step, NEW j, Plan(step, j, r, log)
        PROVE  Plan(step, j, r, more)
    BY <1>1, <1>2 DEF Plan
  <1> QED BY <1>1, <1>2

\* What the steps of device c have in common.
LEMMA HistoryStep ==
  ASSUME Inv, HistInv, NEW log, log = Log', Log \subseteq log,
         NEW c \in Clients, NEW r, NEW s, NEW j,
         \A d \in Clients : repo'[d] = IF d = c THEN r ELSE repo[d],
         \A d \in Clients : disk'[d] \in {disk[d], repo[d], repo'[d]},
         pc' = [pc EXCEPT ![c] = s],
         job' = [job EXCEPT ![c] = j],
         IsHistory(r, log), Plan(s, j, r, log)
  PROVE  HistInv'
  <1>1. ASSUME NEW d \in Clients
        PROVE  /\ IsHistory(repo[d], log) /\ IsHistory(disk[d], log)
               /\ Plan(pc[d], job[d], repo[d], log)
    BY HistoryGrows DEF HistInv
  <1>2. ASSUME NEW d \in Clients PROVE IsHistory(repo'[d], log) /\ IsHistory(disk'[d], log)
    <2>1. IsHistory(repo'[d], log)
      BY <1>1
    <2> QED BY <1>1, <2>1
  <1>3. ASSUME NEW d \in Clients PROVE Plan(pc'[d], job'[d], repo'[d], log)
    <2>1. CASE d = c
      <3>1. pc'[d] = s /\ job'[d] = j /\ repo'[d] = r
        BY <2>1 DEF Inv, TypeOK
      <3> QED BY <3>1
    <2>2. CASE d # c
      <3>1. pc'[d] = pc[d] /\ job'[d] = job[d] /\ repo'[d] = repo[d]
        BY <2>2 DEF Inv, TypeOK
      <3> QED BY <1>1, <3>1
    <2> QED BY <2>1, <2>2
  <1> QED BY <1>2, <1>3 DEF HistInv

\* A step of device c alone.
LEMMA LocalHistory ==
  ASSUME Inv, HistInv, server' = server, NEW c \in Clients, NEW r, NEW s, NEW j,
         Write(c, r) \/ (UNCHANGED <<repo, disk>> /\ r = repo[c]),
         pc' = [pc EXCEPT ![c] = s],
         job' = [job EXCEPT ![c] = j],
         IsHistory(r, Log), Plan(s, j, r, Log)
  PROVE  HistInv'
  <1>1. Log' = Log
    BY DEF Log
  <1>2. TypeOK
    BY DEF Inv
  <1>3. /\ \A d \in Clients : repo'[d] = IF d = c THEN r ELSE repo[d]
        /\ \A d \in Clients : disk'[d] \in {disk[d], repo[d], repo'[d]}
    BY <1>2, WriteEffect, NoWriteEffect
  <1> QED BY <1>1, <1>3, HistoryStep

\* A file that still stores its chain is as much in order as before.
LEMMA HistoryKept ==
  ASSUME NEW log, NEW r, IsHistory(r, log), NEW q, IsFiled(q), q.latest \in Nat,
         q.latest = r.latest, q.synced = r.synced, Range(Chain(r)) \subseteq Stored(q)
  PROVE  IsHistory(q, log) /\ Chain(q) = Chain(r)
  <1>1. IsReadable(q) /\ Chain(q) = Chain(r)
    BY ChainKept DEF IsHistory
  <1> QED BY <1>1 DEF IsHistory

\* A step after which device c plans nothing.
LEMMA PlansNothing ==
  ASSUME NEW s \in {"idle", "fetching", "collecting"}
  PROVE  \A j, r, log : Plan(s, j, r, log)
  BY DEF Plan

LEMMA QuietHistory ==
  ASSUME Inv, HistInv, server' = server, NEW c \in Clients, UNCHANGED <<repo, disk>>,
         NEW s \in {"idle", "fetching", "collecting"}, NEW j,
         pc' = [pc EXCEPT ![c] = s],
         job' = [job EXCEPT ![c] = j]
  PROVE  HistInv'
  <1>1. IsHistory(repo[c], Log) /\ Plan(s, j, repo[c], Log)
    BY PlansNothing DEF HistInv
  <1> QED BY <1>1, LocalHistory

\* A file q that holds the same chain as r.
IsKept(q, r) ==
  /\ IsRepo(q) /\ IsFiled(q) /\ IsReadable(q) /\ Chain(q) = Chain(r)
  /\ q.latest = r.latest /\ q.synced = r.synced

LEMMA KeptHistory ==
  ASSUME NEW r, NEW q, IsKept(q, r), NEW log, IsHistory(r, log)
  PROVE  IsHistory(q, log)
  BY DEF IsKept, IsHistory

\* Storing a recorded transaction leaves the chain as it is.
LEMMA RecordedChain ==
  ASSUME Inv, HistInv, NEW c \in Clients, NEW t, IsRecorded(c, t)
  PROVE  LET q == AddTransaction(repo[c], t)
         IN  IsKept(q, repo[c]) /\ Stored(q) = Stored(repo[c]) \cup {t} /\ q.txs[nextId] = t
  <1> DEFINE r == repo[c]
             q == AddTransaction(r, t)
             T == Copies \cup {t}
  <1>2. /\ t \in Transactions /\ t.uuid = nextId /\ t.parent < nextId
    BY DEF IsRecorded
  <1>3. FilesInOrder /\ IsHistory(r, Log)
    BY FilesAreInOrder DEF HistInv
  <1>4. IsRepo(r) /\ Stored(r) \subseteq T
    BY <1>3 DEF FilesInOrder
  <1>5. IsOrdered(T) /\ Agree(T)
    <2>1. \A tx \in T : tx.uuid \in Nat /\ tx.parent \in Nat
      BY <1>2, <1>3 DEF FilesInOrder, Transactions
    <2>2. \A tx \in Copies : tx.uuid < nextId /\ tx.parent < tx.uuid
      BY <1>3 DEF FilesInOrder, IsOrdered
    <2>3. IsOrdered(T)
      BY <1>2, <2>1, <2>2 DEF IsOrdered
    <2>4. \A tx \in Copies : tx.uuid # t.uuid
      BY <1>2, <2>1, <2>2
    <2> QED BY <1>3, <2>3, <2>4 DEF FilesInOrder, Agree
  <1> HIDE DEF q, T, r
  <1>6. /\ IsRepo(q) /\ q.latest = r.latest /\ q.synced = r.synced
        /\ Stored(q) = Stored(r) \cup {t} /\ IsReadable(q) /\ Chain(q) = Chain(r)
    <2>1. t \in T /\ q = AddTransaction(r, t) /\ IsReadable(r)
      BY <1>3 DEF q, T, IsHistory
    <2> QED BY <1>2, <1>4, <1>5, <2>1, AddTransactionChain
  <1>7. IsFiled(q)
    <2>1. Stored(q) \subseteq T
      BY <1>4, <1>6 DEF T
    <2> QED BY <1>5, <1>6, <2>1, FileInOrder
  <1>8. q.txs[nextId] = t
    BY <1>2, <1>6, <1>7, StoredTransaction
  <1> QED BY <1>6, <1>7, <1>8 DEF IsKept, q, r

\* The transaction sits on the end of the chain.
LEMMA RecordTransactionHistory ==
  ASSUME Inv, HistInv, NEW c \in Clients, RecordTransaction(c)
  PROVE  HistInv'
  <1>1. PICK t : IsRecorded(c, t)
    BY RecordedTransaction
  <1> DEFINE r == repo[c]
             q == AddTransaction(r, t)
             j == [NoJob EXCEPT !.latest = nextId]
  <1>2. /\ t.parent = r.latest
        /\ pc' = [pc EXCEPT ![c] = "recording"] /\ job' = [job EXCEPT ![c] = j]
        /\ Write(c, q) /\ server' = server
    BY <1>1 DEF IsRecorded, Offline
  <1>3. IsKept(q, r) /\ q.txs[nextId] = t
    BY <1>1, RecordedChain
  <1>4. IsHistory(r, Log)
    BY DEF HistInv
  <1>5. j.latest = nextId
    BY DEF NoJob
  <1> HIDE DEF q, r, j
  <1>6. IsHistory(q, Log)
    BY <1>3, <1>4, KeptHistory
  <1>7. Plan("recording", j, q, Log)
    BY <1>2, <1>3, <1>5 DEF Plan, IsKept
  <1> QED BY <1>2, <1>6, <1>7, LocalHistory DEF r

\* The account is moved to the recorded transaction, which becomes the end of the
\* chain.
LEMMA LatestSetChain ==
  ASSUME Inv, HistInv, NEW c \in Clients, SetLatest(c)
  PROVE  LET t == repo[c].txs[job[c].latest]
         IN  /\ repo'[c].txs = repo[c].txs /\ repo'[c].latest = t.uuid
             /\ repo'[c].synced = repo[c].synced /\ IsHistory(repo'[c], Log)
             /\ t \in Stored(repo[c]) /\ t.parent = repo[c].latest
             /\ Chain(repo'[c]) = Chain(repo[c]) \o <<t>>
  <1> DEFINE r == repo[c]
             id == job[c].latest
             q == SetLatestTransaction(r, id)
  <1>1. /\ pc[c] = "recording" /\ pc' = [pc EXCEPT ![c] = "idle"]
        /\ job' = [job EXCEPT ![c] = NoJob] /\ Write(c, q) /\ server' = server
    BY DEF SetLatest, Goto, SetJob, Offline
  <1>2. /\ IsRepo(r) /\ IsFiled(r) /\ IsReadable(r) /\ IsHistory(r, Log)
        /\ r.txs[id].parent = r.latest
    BY <1>1, FilesAreInOrder DEF FilesInOrder, HistInv, Plan, IsHistory
  <1>3. id \in DOMAIN r.txs
    BY <1>1, ClientTypes DEF KeepsPlan
  <1> HIDE DEF r, id
  <1>4. q.txs = r.txs /\ q.latest = id /\ q.synced = r.synced
    BY <1>2, <1>3, SetLatestType
  <1> HIDE DEF q
  <1>5. IsReadable(q) /\ Uuids(Chain(q)) = Uuids(Chain(r)) \cup {id}
    BY <1>2, <1>3, <1>4, SetLatestChain
  <1>6. IsHistory(q, Log)
    BY <1>2, <1>4, <1>5 DEF IsHistory
  <1>7. repo'[c] = q
    BY <1>1 DEF Write, Inv, TypeOK
  <1>8. r.txs[id] \in Stored(r) /\ r.txs[id].uuid = id
    BY <1>2, <1>3, StoredTransaction
  <1>9. Chain(q) = Chain(r) \o <<r.txs[id]>>
    BY <1>2, <1>3, <1>4, SetLatestChain
  <1> QED BY <1>2, <1>4, <1>6, <1>7, <1>8, <1>9 DEF r, id

LEMMA SetLatestHistory ==
  ASSUME Inv, HistInv, NEW c \in Clients, SetLatest(c)
  PROVE  HistInv'
  <1> DEFINE q == SetLatestTransaction(repo[c], job[c].latest)
  <1>1. /\ pc' = [pc EXCEPT ![c] = "idle"]
        /\ job' = [job EXCEPT ![c] = NoJob] /\ Write(c, q) /\ server' = server
    BY DEF SetLatest, Goto, SetJob, Offline
  <1> HIDE DEF q
  <1>2. repo'[c] = q
    BY <1>1 DEF Write, Inv, TypeOK
  <1>3. IsHistory(q, Log)
    BY <1>2, LatestSetChain
  <1> QED BY <1>1, <1>3, LocalHistory, PlansNothing

\* Storing news and rebased transactions leaves the chain as it is, and what the
\* file will hold in the end.
LEMMA StoredChain ==
  ASSUME Inv, HistInv, NEW c \in Clients, StoreTransaction(c), FilesInOrder'
  PROVE  LET n == NextFile(repo[c], job[c])
         IN  /\ IsKept(repo'[c], repo[c]) /\ Stored(repo[c]) \subseteq Stored(repo'[c])
             /\ IsFiled(n) /\ n.latest \in Nat /\ n.synced \in Nat /\ IsHistory(n, Log)
             /\ IsKept(NextFile(repo'[c], job'[c]), n)
             /\ job'[c].garbage = job[c].garbage
             /\ Range(job[c].garbage) \cap Uuids(Chain(n)) = {}
  <1> DEFINE r == repo[c]
             batch == job[c].batch
             q == AddTransaction(r, Head(batch))
             j == [job[c] EXCEPT !.batch = Tail(batch)]
             n == NextFile(r, job[c])
             m == NextFile(q, j)
  <1>1. /\ batch # << >> /\ pc[c] = "storing" /\ pc' = [pc EXCEPT ![c] = "storing"]
        /\ job' = [job EXCEPT ![c] = j] /\ Write(c, q) /\ server' = server
    BY DEF StoreTransaction, Goto, SetJob, Offline
  <1>2. /\ IsRepo(r) /\ Stored(r) \subseteq Copies /\ Range(batch) \subseteq Copies
        /\ IsOrdered(Copies) /\ Agree(Copies) /\ job[c] \in Jobs
        /\ CanFinish(r, job[c], Copies)
    BY <1>1, FilesAreInOrder DEF FilesInOrder
  <1>3. /\ IsHistory(r, Log) /\ IsHistory(n, Log)
        /\ Range(job[c].garbage) \cap Uuids(Chain(n)) = {}
    BY <1>1 DEF HistInv, Plan
  <1>4. repo'[c] = q /\ job'[c] = j /\ pc'[c] = "storing"
    BY <1>1 DEF Write, Inv, TypeOK
  <1>5. /\ IsRepo(q) /\ IsOrdered(Copies') /\ Agree(Copies') /\ j \in Jobs
        /\ CanFinish(q, j, Copies')
    BY <1>4 DEF FilesInOrder
  <1>6. batch \in Seq(Transactions)
    BY <1>2 DEF Jobs
  <1>7. Head(batch) \in Transactions /\ Range(batch) = {Head(batch)} \cup Range(Tail(batch))
    BY <1>1, <1>6, HeadTailRange
  <1>8. /\ j.batch = Tail(batch) /\ j.latest = job[c].latest /\ j.synced = job[c].synced
        /\ j.garbage = job[c].garbage
    BY <1>2 DEF Jobs
  <1> HIDE DEF r, batch, j, q
  <1>9. /\ q.latest = r.latest /\ q.synced = r.synced
        /\ Stored(q) = Stored(r) \cup {Head(batch)} /\ IsReadable(q) /\ Chain(q) = Chain(r)
    <2>1. Head(batch) \in Copies /\ q = AddTransaction(r, Head(batch)) /\ IsReadable(r)
      BY <1>2, <1>3, <1>7 DEF q, IsHistory
    <2> QED BY <1>2, <1>7, <2>1, AddTransactionChain
  <1>10. IsKept(q, r)
    <2>1. IsFiled(q)
      BY <1>4 DEF FilesInOrder
    <2> QED BY <1>5, <1>9, <2>1 DEF IsKept
  <1>11. IsNextFile(n, r, job[c])
    BY <1>2, NextFileType
  <1>12. IsNextFile(m, q, j)
    BY <1>5, NextFileType
  <1> HIDE DEF n, m
  <1>13. /\ IsRepo(m) /\ IsFiled(m) /\ m.latest \in Nat
         /\ m.latest = n.latest /\ m.synced = n.synced /\ Stored(m) = Stored(n)
         /\ IsFiled(n) /\ n.latest \in Nat /\ n.synced \in Nat
    BY <1>7, <1>8, <1>9, <1>11, <1>12 DEF IsNextFile, batch
  <1>14. IsKept(m, n)
    <2>1. Range(Chain(n)) \subseteq Stored(m)
      BY <1>3, <1>13, ReadableChain, RangeOfSeq DEF IsHistory
    <2>2. IsHistory(m, Log) /\ Chain(m) = Chain(n)
      BY <1>3, <1>13, <2>1, HistoryKept
    <2> QED BY <1>13, <2>2 DEF IsKept, IsHistory
  <1>15. Stored(r) \subseteq Stored(q)
    BY <1>9
  <1> QED BY <1>3, <1>4, <1>8, <1>10, <1>13, <1>14, <1>15 DEF m, n, r

LEMMA StoreTransactionHistory ==
  ASSUME Inv, HistInv, NEW c \in Clients, StoreTransaction(c), FilesInOrder'
  PROVE  HistInv'
  <1> DEFINE q == repo'[c]
             j == job'[c]
             n == NextFile(repo[c], job[c])
             m == NextFile(q, j)
  <1>1. /\ pc' = [pc EXCEPT ![c] = "storing"] /\ job' = [job EXCEPT ![c] = j]
        /\ Write(c, q) /\ server' = server
    BY DEF StoreTransaction, Goto, SetJob, Offline, Write, Inv, TypeOK
  <1>2. /\ IsKept(q, repo[c]) /\ IsKept(m, n) /\ IsHistory(n, Log)
        /\ j.garbage = job[c].garbage /\ Range(job[c].garbage) \cap Uuids(Chain(n)) = {}
    BY StoredChain
  <1> HIDE DEF q, j, n
  <1>3. IsHistory(q, Log) /\ IsHistory(m, Log)
    BY <1>2, KeptHistory DEF HistInv
  <1>4. Plan("storing", j, q, Log)
    BY <1>2, <1>3 DEF Plan, IsKept
  <1> QED BY <1>1, <1>3, <1>4, LocalHistory

\* Saving the account makes the file what it was to be.
LEMMA SavedChain ==
  ASSUME Inv, HistInv, NEW c \in Clients, SaveAccount(c), FilesInOrder'
  PROVE  LET n == NextFile(repo[c], job[c])
         IN  /\ IsKept(repo'[c], n) /\ Stored(repo'[c]) = Stored(repo[c])
             /\ IsFiled(n) /\ n.latest \in Nat /\ n.synced \in Nat /\ IsHistory(n, Log)
             /\ Range(job[c].garbage) \cap Uuids(Chain(n)) = {}
  <1> DEFINE r == repo[c]
             j == job[c]
             p == SetLatestTransaction(r, j.latest)
             q == SetLatestSynchronizedTransaction(p, j.synced)
             n == NextFile(r, j)
  <1>1. /\ j.batch = << >> /\ pc[c] = "storing" /\ pc' = [pc EXCEPT ![c] = "deleting"]
        /\ job' = [job EXCEPT ![c] = j] /\ Write(c, q) /\ server' = server
    BY DEF SaveAccount, Goto, Offline, Inv, TypeOK
  <1>2. /\ IsRepo(r) /\ IsOrdered(Copies) /\ Agree(Copies) /\ j \in Jobs
        /\ CanFinish(r, j, Copies)
    BY <1>1, FilesAreInOrder DEF FilesInOrder
  <1>3. IsHistory(n, Log) /\ Range(j.garbage) \cap Uuids(Chain(n)) = {}
    BY <1>1 DEF HistInv, Plan
  <1>4. repo'[c] = q
    BY <1>1 DEF Write, Inv, TypeOK
  <1>5. IsFiled(q) /\ q.latest \in Nat
    BY <1>4 DEF FilesInOrder
  <1>6. Uuids(j.batch) = {} /\ Range(j.batch) = {}
    BY <1>1 DEF Uuids, Range
  <1>7. {j.latest, j.synced} \subseteq DOMAIN r.txs
    BY <1>2, <1>6 DEF CanFinish
  <1> HIDE DEF r, j
  <1>8. IsRepo(p) /\ p.txs = r.txs /\ p.latest = j.latest
    BY <1>2, <1>7, SetLatestType
  <1> HIDE DEF p
  <1>9. q.txs = r.txs /\ q.latest = j.latest /\ q.synced = j.synced
    BY <1>7, <1>8, SetSynchronizedType
  <1>10. IsNextFile(n, r, j)
    BY <1>2, NextFileType
  <1> HIDE DEF q, n
  <1>11. /\ q.latest = n.latest /\ q.synced = n.synced /\ Stored(q) = Stored(n)
         /\ Stored(q) = Stored(r) /\ IsFiled(n) /\ n.latest \in Nat /\ n.synced \in Nat
    BY <1>6, <1>9, <1>10 DEF IsNextFile, Stored
  <1>12. IsKept(q, n)
    <2>1. Range(Chain(n)) \subseteq Stored(q)
      BY <1>3, <1>11, ReadableChain, RangeOfSeq DEF IsHistory
    <2>2. IsHistory(q, Log) /\ Chain(q) = Chain(n)
      BY <1>3, <1>5, <1>11, <2>1, HistoryKept
    <2>3. IsRepo(q)
      BY <1>4 DEF FilesInOrder
    <2> QED BY <1>5, <1>11, <2>2, <2>3 DEF IsKept, IsHistory
  <1> QED BY <1>3, <1>4, <1>11, <1>12 DEF n, r, j

LEMMA SaveAccountHistory ==
  ASSUME Inv, HistInv, NEW c \in Clients, SaveAccount(c), FilesInOrder'
  PROVE  HistInv'
  <1> DEFINE q == repo'[c]
             j == job[c]
             n == NextFile(repo[c], j)
  <1>1. /\ pc' = [pc EXCEPT ![c] = "deleting"] /\ job' = [job EXCEPT ![c] = j]
        /\ Write(c, q) /\ server' = server
    BY DEF SaveAccount, Goto, Offline, Write, Inv, TypeOK
  <1>2. IsKept(q, n) /\ IsHistory(n, Log) /\ Range(j.garbage) \cap Uuids(Chain(n)) = {}
    BY SavedChain
  <1> HIDE DEF q, j, n
  <1>3. IsHistory(q, Log) /\ Plan("deleting", j, q, Log)
    BY <1>2, KeptHistory DEF Plan, IsKept
  <1> QED BY <1>1, <1>3, LocalHistory

\* Deleting a transaction deletes no other.
LEMMA DeleteKeeps ==
  ASSUME NEW r, IsRepo(r), NEW id, NEW tx \in Stored(r), tx.uuid # id
  PROVE  /\ tx \in Stored(DeleteTransaction(r, id))
         /\ tx.uuid \in DOMAIN DeleteTransaction(r, id).txs
  <1> DEFINE f == [other \in DOMAIN r.txs \ {id} |-> r.txs[other]]
             s == DeleteTransaction(r, id)
  <1>1. s.txs = f
    BY DEF DeleteTransaction, IsRepo
  <1>2. PICK k \in DOMAIN r.txs : tx = r.txs[k]
    BY StoredElement
  <1>3. tx.uuid = k
    BY <1>2 DEF IsRepo
  <1>4. k \in DOMAIN f /\ f[k] = tx
    BY <1>2, <1>3
  <1> HIDE DEF f, s
  <1>5. k \in DOMAIN s.txs /\ s.txs[k] = tx
    BY <1>1, <1>4
  <1>6. tx \in Stored(s)
    BY <1>5, StoredElement
  <1> QED BY <1>3, <1>5, <1>6 DEF s

\* Collecting garbage leaves the chain as it is: no garbage is on it.
LEMMA CollectedChain ==
  ASSUME Inv, HistInv, NEW c \in Clients, CollectGarbage(c), FilesInOrder'
  PROVE  LET g == job[c].garbage
         IN  /\ IsKept(repo'[c], repo[c]) /\ Range(job'[c].garbage) \subseteq Range(g)
             /\ Range(g) \cap Uuids(Chain(repo[c])) = {}
             /\ \A tx \in Stored(repo[c]) : tx.uuid \notin Range(g) => tx \in Stored(repo'[c])
  <1> DEFINE r == repo[c]
             g == job[c].garbage
             id == Head(g)
             q == DeleteTransaction(r, id)
             j == [job[c] EXCEPT !.garbage = Tail(g)]
  <1>1. /\ g # << >> /\ pc[c] = "deleting" /\ pc' = [pc EXCEPT ![c] = "deleting"]
        /\ job' = [job EXCEPT ![c] = j] /\ Write(c, q) /\ server' = server
    BY DEF CollectGarbage, Goto, SetJob, Offline
  <1>2. /\ IsRepo(r) /\ IsFiled(r) /\ job[c] \in Jobs
        /\ IsHistory(r, Log) /\ Range(g) \cap Uuids(Chain(r)) = {}
    BY <1>1, FilesAreInOrder DEF FilesInOrder, HistInv, Plan
  <1>3. repo'[c] = q
    BY <1>1 DEF Write, Inv, TypeOK
  <1>4. IsFiled(q) /\ q.latest \in Nat
    BY <1>3 DEF FilesInOrder
  <1>5. g \in Seq(Nat) /\ j.garbage = Tail(g)
    BY <1>2 DEF Jobs
  <1>6. id \in Range(g) /\ Range(Tail(g)) \subseteq Range(g)
    <2>1. /\ Len(g) \in Nat /\ Len(g) >= 1 /\ DOMAIN g = 1..Len(g) /\ id = g[1]
          /\ DOMAIN Tail(g) = 1..(Len(g) - 1)
          /\ \A i \in 1..(Len(g) - 1) : Tail(g)[i] = g[i + 1]
      BY <1>1, <1>5, HeadTailProperties, LenProperties, EmptySeq
    <2>2. 1 \in DOMAIN g /\ \A i \in 1..(Len(g) - 1) : i + 1 \in DOMAIN g
      BY <2>1
    <2> QED BY <2>1, <2>2 DEF Range
  <1>7. q.latest = r.latest /\ q.synced = r.synced
    BY <1>2 DEF DeleteTransaction, IsRepo
  <1> HIDE DEF r, g, id, q, j
  <1>8. ASSUME NEW tx \in Range(Chain(r)) PROVE tx \in Stored(q)
    <2>1. tx \in Stored(r) /\ Chain(r) \in Seq(Stored(r))
      BY <1>2, ReadableChain, RangeOfSeq DEF IsHistory
    <2>2. tx.uuid \in Uuids(Chain(r))
      BY <2>1, LenProperties DEF Range, Uuids
    <2>3. tx.uuid # id
      BY <1>2, <1>6, <2>2
    <2> QED BY <1>2, <2>1, <2>3, DeleteKeeps DEF q
  <1>9. IsKept(q, r)
    <2>1. IsHistory(q, Log) /\ Chain(q) = Chain(r)
      BY <1>2, <1>4, <1>7, <1>8, HistoryKept
    <2>2. IsRepo(q)
      BY <1>3 DEF FilesInOrder
    <2> QED BY <1>4, <1>7, <2>1, <2>2 DEF IsKept, IsHistory
  <1>10. \A tx \in Stored(r) : tx.uuid \notin Range(g) => tx \in Stored(q)
    BY <1>2, <1>6, DeleteKeeps DEF q
  <1>11. job'[c] = j
    BY <1>1 DEF Inv, TypeOK
  <1> QED BY <1>2, <1>3, <1>5, <1>6, <1>9, <1>10, <1>11 DEF g, r

LEMMA CollectGarbageHistory ==
  ASSUME Inv, HistInv, NEW c \in Clients, CollectGarbage(c), FilesInOrder'
  PROVE  HistInv'
  <1> DEFINE q == repo'[c]
             j == job'[c]
  <1>1. /\ pc' = [pc EXCEPT ![c] = "deleting"] /\ job' = [job EXCEPT ![c] = j]
        /\ Write(c, q) /\ server' = server
    BY DEF CollectGarbage, Goto, SetJob, Offline, Write, Inv, TypeOK
  <1>2. /\ IsKept(q, repo[c]) /\ Range(j.garbage) \subseteq Range(job[c].garbage)
        /\ Range(job[c].garbage) \cap Uuids(Chain(repo[c])) = {}
    BY CollectedChain
  <1> HIDE DEF q, j
  <1>3. IsHistory(q, Log) /\ Plan("deleting", j, q, Log)
    BY <1>2, KeptHistory DEF HistInv, Plan, IsKept
  <1> QED BY <1>1, <1>3, LocalHistory

\* Planning a rebase: the file it will leave is in order.
LEMMA RebaseHistory ==
  ASSUME Inv, HistInv, IsReadable(server),
         NEW c \in Clients, GetChildTransactions(c), FilesInOrder'
  PROVE  /\ HistInv'
         /\ LET rebased == RebaseTransactions(Unsynchronized(repo[c]), job'[c].synced, nextId)
            IN  /\ IsRebased(repo[c], Log, News(repo[c], server), Unsynchronized(repo[c]), rebased, job'[c],
                             NextFile(repo[c], job'[c]))
                /\ job'[c].batch = News(repo[c], server) \o rebased
  <1> DEFINE r == repo[c]
             news == News(repo[c], server)
             old == Unsynchronized(repo[c])
             newest == news[Len(news)].uuid
             rebased == RebaseTransactions(old, newest, nextId)
             j == job'[c]
  <1>1. /\ pc[c] = "fetching" /\ pc' = [pc EXCEPT ![c] = "storing"]
        /\ UNCHANGED <<repo, disk>> /\ server' = server /\ news # << >>
        /\ \A i \in DOMAIN news : news[i].uuid \notin DOMAIN r.txs
    BY DEF GetChildTransactions, Goto, Offline, CanRebase, CheckTransactionIdUniqueness,
           HasTransaction
  <1>2. /\ job' = [job EXCEPT ![c] = j] /\ j.batch = news \o rebased /\ j.synced = newest
        /\ j.latest = IF old = << >> THEN newest ELSE rebased[Len(rebased)].uuid
        /\ j.garbage = [i \in DOMAIN old |-> old[i].uuid]
    BY DEF GetChildTransactions, SetJob, Inv, TypeOK
  <1>3. news = ChainSince(server, r.synced) /\ old = ChainSince(r, r.synced)
    BY DEF News, ChildTransactions, Unsynchronized
  <1>4. pc'[c] = "storing" /\ repo'[c] = r
    BY <1>1 DEF Inv, TypeOK
  <1>5. /\ j \in Jobs /\ {j.latest, j.synced} \subseteq DOMAIN r.txs \cup Uuids(j.batch)
    BY <1>4 DEF FilesInOrder, CanFinish
  <1>6. /\ IsRepo(r) /\ IsRepo(server) /\ IsOrdered(Copies) /\ Agree(Copies)
        /\ Copies \subseteq Transactions /\ Stored(r) \subseteq Copies
        /\ Stored(server) \subseteq Copies /\ \A tx \in Copies : tx.uuid < nextId
    BY FilesAreInOrder DEF FilesInOrder
  <1>7. nextId \in Nat \ {NoId}
    BY DEF Inv, TypeOK
  <1>8. IsHistory(r, Log)
    BY DEF HistInv
  <1>9. /\ old = << >> => j.latest = j.synced
        /\ old # << >> => j.latest = rebased[Len(rebased)].uuid
    BY <1>2, SMTT(30)
  <1> HIDE DEF r, news, old, j, rebased
  <1>10. IsRebased(r, Uuids(Chain(server)), news, old, rebased, j, NextFile(r, j))
    BY <1>1, <1>2, <1>3, <1>5, <1>6, <1>7, <1>8, <1>9, RebaseChain, Zenon DEF Log, rebased
  <1>11. Plan("storing", j, r, Log)
    BY <1>10 DEF Plan, IsRebased, Log
  <1>12. HistInv'
    BY <1>1, <1>2, <1>8, <1>11, LocalHistory DEF r
  <1>13. rebased = RebaseTransactions(old, j.synced, nextId)
    BY <1>2 DEF rebased
  <1> QED BY <1>2, <1>10, <1>12, <1>13 DEF r, news, old, j, Log

\* Marking a push as accepted: the end of the chain is in the server's log.
LEMMA MarkedChain ==
  ASSUME Inv, HistInv, NEW c \in Clients, SetLatestSynchronized(c), FilesInOrder'
  PROVE  LET r == repo[c]
             q == repo'[c]
         IN  /\ q.txs = r.txs /\ q.latest = r.latest /\ q.synced = r.latest
             /\ Chain(q) = Chain(r) /\ IsHistory(q, Log) /\ r.latest \in {NoId} \cup Log
  <1> DEFINE r == repo[c]
             q == SetLatestSynchronizedTransaction(r, r.latest)
  <1>1. /\ pc[c] = "marking" /\ pc' = [pc EXCEPT ![c] = "idle"]
        /\ job' = [job EXCEPT ![c] = NoJob] /\ Write(c, q) /\ server' = server
    BY DEF SetLatestSynchronized, Goto, SetJob, Offline
  <1>2. IsRepo(r) /\ IsHistory(r, Log) /\ r.latest \in {NoId} \cup Log
    BY <1>1, FilesAreInOrder DEF FilesInOrder, HistInv, Plan
  <1>3. repo'[c] = q
    BY <1>1 DEF Write, Inv, TypeOK
  <1>4. IsFiled(q) /\ q.latest \in Nat
    BY <1>3 DEF FilesInOrder
  <1>5. q.txs = r.txs /\ q.latest = r.latest /\ q.synced = r.latest
    BY <1>2 DEF SetLatestSynchronizedTransaction, IsRepo
  <1> HIDE DEF r, q
  <1>6. Range(Chain(r)) \subseteq Stored(q)
    BY <1>2, <1>5, ReadableChain, RangeOfSeq DEF IsHistory, Stored
  <1>7. IsReadable(q) /\ Chain(q) = Chain(r)
    BY <1>2, <1>4, <1>5, <1>6, ChainKept DEF IsHistory
  <1>8. r.latest \in {NoId} \cup Uuids(Chain(r))
    BY <1>2, LatestOnChain DEF IsHistory
  <1>9. IsHistory(q, Log)
    BY <1>2, <1>5, <1>7, <1>8 DEF IsHistory
  <1> QED BY <1>2, <1>3, <1>5, <1>7, <1>9 DEF r

LEMMA SetLatestSynchronizedHistory ==
  ASSUME Inv, HistInv, NEW c \in Clients, SetLatestSynchronized(c), FilesInOrder'
  PROVE  HistInv'
  <1> DEFINE q == repo'[c]
  <1>1. /\ pc' = [pc EXCEPT ![c] = "idle"]
        /\ job' = [job EXCEPT ![c] = NoJob] /\ Write(c, q) /\ server' = server
    BY DEF SetLatestSynchronized, Goto, SetJob, Offline, Write, Inv, TypeOK
  <1>2. IsHistory(q, Log)
    BY MarkedChain
  <1> HIDE DEF q
  <1> QED BY <1>1, <1>2, LocalHistory, PlansNothing

\* Collecting what is to be pushed, and the steps that plan nothing.
LEMMA CallsHistory ==
  ASSUME Inv, HistInv, NEW c \in Clients,
         \/ PushTransactions(c) \/ PushNothing(c) \/ GetLatestTransaction(c)
         \/ RefuseRebase(c) \/ EndRebase(c)
  PROVE  HistInv'
  <1>1. CASE PushTransactions(c)
    <2> DEFINE j == [NoJob EXCEPT !.batch = Unsynchronized(repo[c])]
    <2>1. /\ pc' = [pc EXCEPT ![c] = "pushing"] /\ job' = [job EXCEPT ![c] = j]
          /\ UNCHANGED <<repo, disk>> /\ server' = server /\ Unsynchronized(repo[c]) # << >>
      BY <1>1 DEF PushTransactions, Goto, SetJob, Offline
    <2>2. j.batch = Unsynchronized(repo[c])
      BY DEF NoJob
    <2> HIDE DEF j
    <2>3. Plan("pushing", j, repo[c], Log) /\ IsHistory(repo[c], Log)
      BY <2>1, <2>2 DEF Plan, Unsynchronized, HistInv
    <2> QED BY <2>1, <2>3, LocalHistory
  <1>2. CASE PushNothing(c) \/ RefuseRebase(c) \/ EndRebase(c) \/ GetLatestTransaction(c)
    <2>1. /\ UNCHANGED <<repo, disk>> /\ server' = server
          /\ \E j : job' = [job EXCEPT ![c] = j]
          /\ \E s \in {"idle", "fetching", "collecting"} : pc' = [pc EXCEPT ![c] = s]
      <3>1. job' = job => job' = [job EXCEPT ![c] = job[c]]
        BY DEF Inv, TypeOK
      <3> QED BY <1>2, <3>1 DEF PushNothing, RefuseRebase, EndRebase, GetLatestTransaction, Goto,
                 SetJob, Offline
    <2> QED BY <2>1, QuietHistory
  <1> QED BY <1>1, <1>2

\* An accepted push: the end of the chain is in the log then.
LEMMA AnswerPushHistory ==
  ASSUME Inv, HistInv, IsReadable(server), NEW c \in Clients, AnswerPush(c), Log \subseteq Log'
  PROVE  HistInv'
  <1> DEFINE r == repo[c]
             b == job[c].batch
             s == IF Accepts(server, b) THEN "marking" ELSE "idle"
             log == Uuids(Chain(server'))
  <1>1. /\ pc[c] = "pushing" /\ pc' = [pc EXCEPT ![c] = s]
        /\ job' = [job EXCEPT ![c] = NoJob] /\ UNCHANGED <<repo, disk>>
        /\ server' = ReceiveTransactions(server, b)
    BY DEF AnswerPush, Goto, SetJob
  <1>2. /\ IsRepo(r) /\ IsFiled(r) /\ r.latest \in Nat /\ IsHistory(r, Log)
        /\ b = ChainSince(r, r.synced) /\ b # << >>
    BY <1>1, FilesAreInOrder DEF FilesInOrder, HistInv, Plan
  <1>3. /\ IsRepo(server) /\ IsOrdered(Copies) /\ Agree(Copies) /\ Stored(server) \subseteq Copies
        /\ b \in Seq(Transactions) /\ Range(b) \subseteq Copies
    BY FilesAreInOrder, ServerTypes DEF FilesInOrder
  <1> HIDE DEF r, b
  <1>4. ASSUME Accepts(server, b) PROVE r.latest \in {NoId} \cup log
    <2>1. IsReadable(server') /\ Extends(server', server, b)
      BY <1>1, <1>2, <1>3, <1>4, ReceiveTransactionsChain
    <2>2. PICK p : Cuts(r, r.synced, p, b)
      BY <1>2, ChainSinceCuts DEF IsHistory
    <2>3. b[Len(b)].uuid = r.latest
      BY <1>2, <2>2 DEF Cuts, Path
    <2>4. server'.latest = r.latest
      BY <2>1, <2>3 DEF Extends
    <2> QED BY <2>1, <2>4, LatestOnChain
  <1>5. Plan(s, NoJob, r, log)
    BY <1>4 DEF Plan
  <1>6. IsHistory(r, log) /\ log = Log'
    BY <1>2, HistoryGrows DEF Log
  <1> HIDE DEF s, log
  <1>7. /\ \A d \in Clients : repo'[d] = IF d = c THEN r ELSE repo[d]
        /\ \A d \in Clients : disk'[d] \in {disk[d], repo[d], repo'[d]}
    BY <1>1 DEF r
  <1> QED BY <1>1, <1>5, <1>6, <1>7, HistoryStep

\* The steps that change the server, or a device by what befalls it.
LEMMA FaultsHistory ==
  ASSUME Inv, HistInv, NEW c \in Clients, Log \subseteq Log',
         \/ LoseRequest(c) \/ DelayRequest(c) \/ LoseReply(c) \/ CrashServer(c)
         \/ Flush(c) \/ Crash(c)
  PROVE  HistInv'
  <1> DEFINE log == Uuids(Chain(server'))
  <1>1. log = Log' /\ IsHistory(repo[c], log) /\ IsHistory(disk[c], log)
        /\ Plan(pc[c], job[c], repo[c], log)
    BY HistoryGrows DEF Log, HistInv
  <1>2. Plan("idle", NoJob, repo[c], log) /\ Plan("idle", NoJob, disk[c], log)
    BY PlansNothing
  <1> HIDE DEF log
  <1>3. CASE LoseRequest(c) \/ DelayRequest(c) \/ LoseReply(c) \/ CrashServer(c)
    <2>1. /\ pc' = [pc EXCEPT ![c] = "idle"] /\ job' = [job EXCEPT ![c] = NoJob]
          /\ UNCHANGED <<repo, disk>>
      BY <1>3 DEF LoseRequest, DelayRequest, LoseReply, CrashServer, FailPush, Goto, SetJob
    <2>2. /\ \A d \in Clients : repo'[d] = IF d = c THEN repo[c] ELSE repo[d]
          /\ \A d \in Clients : disk'[d] \in {disk[d], repo[d], repo'[d]}
      BY <2>1
    <2> QED BY <1>1, <1>2, <2>1, <2>2, HistoryStep
  <1>4. CASE Flush(c)
    <2>1. /\ pc' = [pc EXCEPT ![c] = pc[c]] /\ job' = [job EXCEPT ![c] = job[c]]
          /\ \A d \in Clients : repo'[d] = IF d = c THEN repo[c] ELSE repo[d]
          /\ \A d \in Clients : disk'[d] \in {disk[d], repo[d], repo'[d]}
      BY <1>4 DEF Flush, Inv, TypeOK
    <2> QED BY <1>1, <2>1, HistoryStep
  <1>5. CASE Crash(c)
    <2>1. /\ pc' = [pc EXCEPT ![c] = "idle"] /\ job' = [job EXCEPT ![c] = NoJob]
          /\ \A d \in Clients : repo'[d] = IF d = c THEN disk[c] ELSE repo[d]
          /\ \A d \in Clients : disk'[d] \in {disk[d], repo[d], repo'[d]}
      BY <1>5 DEF Crash, SetJob, Inv, TypeOK
    <2> QED BY <1>1, <1>2, <2>1, HistoryStep
  <1> QED BY <1>3, <1>4, <1>5

\* The server alone, and steps that change nothing.
LEMMA ServerHistory ==
  ASSUME HistInv, Log \subseteq Log', UNCHANGED <<repo, disk, pc, job>>
  PROVE  HistInv'
  BY HistoryGrows DEF HistInv

LEMMA HistoryNext ==
  ASSUME Inv, Inv', HistInv, IsReadable(server), [Next]_vars
  PROVE  HistInv'
  <1>1. Log \subseteq Log' /\ FilesInOrder'
    BY LogGrows, FilesStayInOrder DEF Log
  <1>2. ASSUME NEW c \in Clients, Sync(c) PROVE HistInv'
    BY <1>1, <1>2, SetLatestHistory, StoreTransactionHistory, SaveAccountHistory,
       CollectGarbageHistory, RebaseHistory, SetLatestSynchronizedHistory, CallsHistory,
       AnswerPushHistory DEF Sync
  <1>3. ASSUME NEW c \in Clients,
               \/ LoseRequest(c) \/ DelayRequest(c) \/ LoseReply(c) \/ CrashServer(c)
               \/ Flush(c) \/ Crash(c)
        PROVE  HistInv'
    BY <1>1, <1>3, FaultsHistory
  <1>4. ASSUME NEW c \in Clients, RecordTransaction(c) PROVE HistInv'
    BY <1>4, RecordTransactionHistory
  <1>5. CASE AnswerLatePush \/ UNCHANGED vars
    BY <1>1, <1>5, ServerHistory DEF AnswerLatePush, vars
  <1> QED BY <1>2, <1>3, <1>4, <1>5 DEF Next

\* Nothing is stored in the beginning, so every file is in order.
LEMMA InitHistory == Init => HistInv
  <1> SUFFICES ASSUME Init PROVE HistInv
    OBVIOUS
  <1>1. \A log : IsHistory(EmptyRepo, log)
    <2>1. IsFiled(EmptyRepo) /\ EmptyRepo.latest = NoId /\ EmptyRepo.synced = NoId /\ NoId \in Nat
      BY DEF EmptyRepo, IsFiled, IsOrdered, Stored, Range, NoId
    <2>2. << >> \in Seq(Stored(EmptyRepo)) /\ Path(<< >>, NoId, NoId)
      BY EmptySeq DEF Path, CheckChainConsistency
    <2> QED BY <2>1, <2>2, ChainIs DEF IsHistory
  <1> QED BY <1>1, PlansNothing DEF Init, HistInv

LEMMA HistoryAlways == Spec => []HistInv
  <1>1. Inv /\ Inv' /\ HistInv /\ IsReadable(server) /\ [Next]_vars => HistInv'
    BY HistoryNext
  <1> QED BY <1>1, InitHistory, InvAlways, LogReadable, PTL DEF Spec

\* Every file can be read at any moment, between any two writes and after any crash,
\* however much of what was written the crash loses: the account of a device always
\* points to the end of an unbroken chain that goes through the last synchronized
\* transaction, and so does the server's.
\* (Order of the writes of sync.rs:64-97: transactions, account, garbage.)
THEOREM AlwaysReadable == Spec => []ChainsReadable
  <1>1. HistInv /\ IsReadable(server) => ChainsReadable
    BY DEF HistInv, IsHistory, ChainsReadable
  <1> QED BY <1>1, HistoryAlways, LogReadable, PTL

\* What a file calls synchronized and the beginning of a log are the same path from
\* the root to the last synchronized transaction.
LEMMA SynchronizedIsCommon ==
  ASSUME NEW r, IsFiled(r), r.latest \in Nat, r.synced \in Nat,
         NEW s, IsFiled(s), s.latest \in Nat, IsReadable(s), IsHistory(r, Uuids(Chain(s))),
         NEW T, IsOrdered(T), Agree(T), Stored(r) \subseteq T, Stored(s) \subseteq T
  PROVE  IsPrefix(Synchronized(r), Chain(s))
  <1> DEFINE p == Synchronized(r)
             old == ChainSince(r, r.synced)
             news == ChainSince(s, r.synced)
  <1>1. Cuts(r, r.synced, p, old)
    BY ChainSinceCuts DEF IsHistory, Synchronized
  <1>2. PICK known : Cuts(s, r.synced, known, news)
    BY ChainSinceCuts DEF IsHistory
  <1> HIDE DEF p, old, news
  <1>3. /\ p \in Seq(Stored(r)) /\ known \in Seq(Stored(s)) /\ news \in Seq(Stored(s))
        /\ Path(p, NoId, r.synced) /\ Path(known, NoId, r.synced)
        /\ Chain(s) = known \o news
    BY <1>1, <1>2 DEF Cuts
  <1>4. p \in Seq(T) /\ known \in Seq(T) /\ NoId \in Nat
    BY <1>3, SeqMonotonic DEF NoId
  <1>5. p = known
    BY <1>3, <1>4, PathUnique
  <1>6. IsPrefix(known, known \o news)
    BY <1>3, PrefixOfConcat
  <1> QED BY <1>3, <1>5, <1>6 DEF p

\* What a device calls synchronized is the beginning of the server's log, the same
\* transactions in the same order, on every device, on every disk after a crash:
\* neither a rebase nor a push that was interrupted at any point lets them differ.
\* (latest_synchronized_transaction is moved last, to what the server has.)
THEOREM SharedBeginning == Spec => []CommonHistory
  <1>1. Inv /\ HistInv /\ IsReadable(server) => CommonHistory
    <2> SUFFICES ASSUME Inv, HistInv, IsReadable(server) PROVE CommonHistory
      OBVIOUS
    <2>1. FilesInOrder
      BY FilesAreInOrder
    <2>2. ASSUME NEW c \in Clients, NEW r \in {repo[c], disk[c]}
          PROVE  IsPrefix(Synchronized(r), Chain(server))
      <3>1. /\ IsFiled(r) /\ r.latest \in Nat /\ r.synced \in Nat /\ Stored(r) \subseteq Copies
            /\ IsHistory(r, Uuids(Chain(server)))
        BY <2>1 DEF FilesInOrder, HistInv, Log
      <3>2. /\ IsFiled(server) /\ server.latest \in Nat /\ Stored(server) \subseteq Copies
            /\ IsOrdered(Copies) /\ Agree(Copies)
        BY <2>1 DEF FilesInOrder
      <3> QED BY <3>1, <3>2, SynchronizedIsCommon
    <2> QED BY <2>2 DEF CommonHistory
  <1> QED BY <1>1, InvAlways, HistoryAlways, LogReadable, PTL

\* All of a chain is stored.
LEMMA ChainIsStored ==
  ASSUME NEW r, IsFiled(r), IsReadable(r)
  PROVE  Range(Chain(r)) \subseteq Stored(r) /\ Uuids(Chain(r)) \subseteq DOMAIN r.txs
  <1>1. Chain(r) \in Seq(Stored(r))
    BY ReadableChain
  <1>2. \A i \in DOMAIN Chain(r) : Chain(r)[i] \in Stored(r)
    BY <1>1, LenProperties, ElementOfSeq
  <1> QED BY <1>2, StoredTransaction DEF Range, Uuids

\* No step takes a transaction of its chain from a file, unless a crash takes back
\* what was written.
LEMMA ChainStaysStored ==
  ASSUME Inv, HistInv, [Next]_vars, ~rewound', NEW d \in Clients
  PROVE  Uuids(Chain(repo[d])) \subseteq DOMAIN repo'[d].txs
  <1> DEFINE r == repo[d]
             StaysStored == DOMAIN r.txs \subseteq DOMAIN repo'[d].txs
             Goal == Uuids(Chain(r)) \subseteq DOMAIN repo'[d].txs
  <1>1. /\ FilesInOrder /\ IsHistory(r, Log) /\ IsFiled(r) /\ IsReadable(r) /\ IsRepo(r)
        /\ DOMAIN repo = Clients
    BY FilesAreInOrder DEF HistInv, FilesInOrder, IsHistory, Inv, TypeOK
  <1>2. Uuids(Chain(r)) \subseteq DOMAIN r.txs
    BY <1>1, ChainIsStored
  <1>3. ASSUME NEW c \in Clients, NEW q, repo' = [repo EXCEPT ![c] = q],
               DOMAIN repo[c].txs \subseteq DOMAIN q.txs
        PROVE  StaysStored
    BY <1>1, <1>3
  <1>4. ASSUME repo'[d] = r PROVE StaysStored
    BY <1>4
  <1> HIDE DEF StaysStored
  <1> DEFINE Same == repo'[d] = r
  <1>5. ASSUME NEW c \in Clients,
               \/ GetLatestTransaction(c) \/ GetChildTransactions(c) \/ RefuseRebase(c)
               \/ EndRebase(c) \/ PushTransactions(c) \/ PushNothing(c) \/ AnswerPush(c)
               \/ LoseRequest(c) \/ DelayRequest(c) \/ LoseReply(c) \/ CrashServer(c) \/ Flush(c)
        PROVE  Same
    BY <1>5 DEF GetLatestTransaction, GetChildTransactions, RefuseRebase, EndRebase,
           PushTransactions, PushNothing, AnswerPush, LoseRequest, DelayRequest, LoseReply,
           CrashServer, FailPush, Flush
  <1>6. ASSUME NEW c \in Clients, Crash(c) PROVE Same
    <2>1. ~(repo[c] # disk[c]) /\ repo' = [repo EXCEPT ![c] = disk[c]]
      BY <1>6 DEF Crash
    <2> QED BY <1>1, <2>1
  <1>7. ASSUME AnswerLatePush \/ UNCHANGED vars PROVE Same
    BY <1>7 DEF AnswerLatePush, vars
  <1>8. ASSUME NEW c \in Clients, RecordTransaction(c) \/ StoreTransaction(c) PROVE StaysStored
    <2>1. \E tx : repo' = [repo EXCEPT ![c] = AddTransaction(repo[c], tx)]
      BY <1>8 DEF RecordTransaction, StoreTransaction, Write
    <2>2. IsRepo(repo[c])
      BY <1>1 DEF FilesInOrder
    <2>3. \A tx : DOMAIN repo[c].txs \subseteq DOMAIN AddTransaction(repo[c], tx).txs
      BY <2>2 DEF AddTransaction, IsRepo
    <2> QED BY <1>3, <2>1, <2>3
  <1>9. ASSUME NEW c \in Clients, SetLatest(c) \/ SaveAccount(c) \/ SetLatestSynchronized(c)
        PROVE  StaysStored
    <2>1. \E q : repo' = [repo EXCEPT ![c] = q] /\ q.txs = repo[c].txs
      <3>1. IsRepo(repo[c])
        BY <1>1 DEF FilesInOrder
      <3>2. \A id : SetLatestTransaction(repo[c], id).txs = repo[c].txs
        BY <3>1 DEF SetLatestTransaction, IsRepo
      <3>3. \A id, other : SetLatestSynchronizedTransaction(
                              SetLatestTransaction(repo[c], id), other).txs = repo[c].txs
        BY <3>1 DEF SetLatestTransaction, SetLatestSynchronizedTransaction, IsRepo
      <3>4. \A id : SetLatestSynchronizedTransaction(repo[c], id).txs = repo[c].txs
        BY <3>1 DEF SetLatestSynchronizedTransaction, IsRepo
      <3> QED BY <1>9, <3>2, <3>3, <3>4 DEF SetLatest, SaveAccount, SetLatestSynchronized, Write
    <2> QED BY <1>3, <2>1
  <1>10. ASSUME NEW c \in Clients, CollectGarbage(c), c = d PROVE Goal
    <2> DEFINE g == job[c].garbage
               id == Head(g)
               q == DeleteTransaction(r, id)
    <2>1. g # << >> /\ repo'[d] = q /\ Range(g) \cap Uuids(Chain(r)) = {} /\ g \in Seq(Nat)
      BY <1>1, <1>10 DEF CollectGarbage, Goto, Write, HistInv, Plan, FilesInOrder, Jobs
    <2>2. id \in Range(g)
      BY <2>1, HeadTailProperties, LenProperties, EmptySeq DEF Range
    <2> HIDE DEF id, g, r
    <2>3. DOMAIN q.txs = DOMAIN r.txs \ {id}
      BY <1>1 DEF DeleteTransaction, IsRepo
    <2> QED BY <1>2, <2>1, <2>2, <2>3
  <1>11. ASSUME NEW c \in Clients, CollectGarbage(c), c # d PROVE Same
    BY <1>1, <1>11 DEF CollectGarbage, Write
  <1> HIDE DEF Same
  <1>12. ASSUME Same \/ StaysStored PROVE Goal
    BY <1>2, <1>4, <1>12 DEF Same, StaysStored
  <1>13. ASSUME NEW c \in Clients, CollectGarbage(c) PROVE Goal
    BY <1>2, <1>10, <1>11, <1>12, <1>13
  <1> HIDE DEF Goal
  <1>14. ASSUME NEW c \in Clients, Sync(c) PROVE Goal
    BY <1>5, <1>8, <1>9, <1>12, <1>13, <1>14 DEF Sync
  <1>15. ASSUME NEW c \in Clients,
                \/ RecordTransaction(c) \/ LoseRequest(c) \/ DelayRequest(c)
                \/ LoseReply(c) \/ CrashServer(c) \/ Flush(c) \/ Crash(c)
         PROVE  Goal
    BY <1>5, <1>6, <1>8, <1>12, <1>15
  <1>16. Goal
    BY <1>7, <1>12, <1>14, <1>15 DEF Next
  <1> QED BY <1>16 DEF Goal

\* No step of a rebase or of its collection of garbage drops a transaction that the
\* server is known to have, so that what edits and deletions of other devices name
\* stays stored; only a crash that takes back writes may.
\* (rebase_local_transactions deletes what it rebased and nothing else.)
THEOREM SynchronizedKept == Spec => KeepsSynchronized
  <1> DEFINE Kept == ~rewound' => \A c \in Clients :
                                    \A id \in Uuids(Synchronized(repo[c])) :
                                      HasTransaction(repo'[c], id)
  <1>1. Inv /\ HistInv /\ [Next]_vars => [Kept]_repo
    <2> SUFFICES ASSUME Inv, HistInv, [Next]_vars, ~rewound',
                        NEW c \in Clients, NEW id \in Uuids(Synchronized(repo[c]))
                 PROVE  HasTransaction(repo'[c], id)
      OBVIOUS
    <2> DEFINE r == repo[c]
               p == Synchronized(r)
               old == ChainSince(r, r.synced)
    <2>1. IsFiled(r) /\ r.latest \in Nat /\ IsHistory(r, Log)
      BY FilesAreInOrder DEF FilesInOrder, HistInv
    <2>2. Cuts(r, r.synced, p, old)
      BY <2>1, ChainSinceCuts DEF IsHistory, Synchronized
    <2> HIDE DEF p, old
    <2>3. p \in Seq(Stored(r)) /\ old \in Seq(Stored(r)) /\ Chain(r) = p \o old
      BY <2>2 DEF Cuts
    <2>4. Uuids(Chain(r)) = Uuids(p) \cup Uuids(old)
      BY <2>3, ConcatRange
    <2>5. Uuids(Chain(r)) \subseteq DOMAIN repo'[c].txs
      BY ChainStaysStored
    <2> QED BY <2>4, <2>5 DEF p, HasTransaction
  <1>2. Spec => [][Kept]_repo
    BY <1>1, InvAlways, HistoryAlways, PTL DEF Spec
  <1> QED BY <1>2 DEF KeepsSynchronized

-------------------------------------------------------------------------------
(* Lists of transactions by several devices.                                 *)

AllBy(c, txs) == \A i \in DOMAIN txs : txs[i].body.by = c
NoneBy(c, txs) == \A i \in DOMAIN txs : txs[i].body.by # c

\* What HoldsFirst says, position by position.
LEMMA HoldsFirstIs ==
  ASSUME NEW c, NEW txs, NEW n
  PROVE  HoldsFirst(c, txs, n) <=>
           /\ \A i \in RecordedBy(c, txs) : txs[i].body.nth \in 1..n
           /\ \A k \in 1..n : \E i \in RecordedBy(c, txs) : txs[i].body.nth = k
           /\ \A i, j \in RecordedBy(c, txs) : i < j => txs[i].body.nth < txs[j].body.nth
  BY DEF HoldsFirst

\* Where the transactions of a concatenation come from.
RecordedInConcat(c, s, t, st) ==
  /\ \A i \in RecordedBy(c, s) : i \in RecordedBy(c, st) /\ st[i] = s[i]
  /\ \A i \in RecordedBy(c, t) : i + Len(s) \in RecordedBy(c, st) /\ st[i + Len(s)] = t[i]
  /\ \A i \in RecordedBy(c, st) :
       \/ i \in RecordedBy(c, s) /\ st[i] = s[i]
       \/ i - Len(s) \in RecordedBy(c, t) /\ st[i] = t[i - Len(s)] /\ i > Len(s)
  /\ RecordedBy(c, s) \subseteq 1..Len(s) /\ RecordedBy(c, t) \subseteq 1..Len(t)
  /\ RecordedBy(c, st) \subseteq 1..Len(st)
  /\ Len(s) \in Nat /\ Len(t) \in Nat /\ Len(st) \in Nat

LEMMA ConcatRecordedBy ==
  ASSUME NEW S, NEW s \in Seq(S), NEW t \in Seq(S), NEW c
  PROVE  RecordedInConcat(c, s, t, s \o t)
  <1> DEFINE st == s \o t
  <1>1. /\ Len(s) \in Nat /\ Len(t) \in Nat /\ DOMAIN s = 1..Len(s) /\ DOMAIN t = 1..Len(t)
        /\ st \in Seq(S) /\ Len(st) = Len(s) + Len(t) /\ DOMAIN st = 1..Len(st)
        /\ \A i \in 1..(Len(s) + Len(t)) : st[i] = IF i <= Len(s) THEN s[i] ELSE t[i - Len(s)]
    BY ConcatProperties, LenProperties
  <1> HIDE DEF st
  <1>2. /\ \A i \in DOMAIN s : i \in DOMAIN st /\ st[i] = s[i]
        /\ \A i \in DOMAIN t : i + Len(s) \in DOMAIN st /\ st[i + Len(s)] = t[i]
        /\ \A i \in DOMAIN st : \/ i \in DOMAIN s /\ st[i] = s[i]
                                \/ i - Len(s) \in DOMAIN t /\ st[i] = t[i - Len(s)] /\ i > Len(s)
    BY <1>1
  <1>3. /\ RecordedBy(c, s) \subseteq 1..Len(s) /\ RecordedBy(c, t) \subseteq 1..Len(t)
        /\ RecordedBy(c, st) \subseteq 1..Len(st)
    BY <1>1 DEF RecordedBy
  <1>4. /\ \A i \in RecordedBy(c, s) : i \in RecordedBy(c, st) /\ st[i] = s[i]
        /\ \A i \in RecordedBy(c, t) : i + Len(s) \in RecordedBy(c, st) /\ st[i + Len(s)] = t[i]
    BY <1>2 DEF RecordedBy
  <1>5. ASSUME NEW i \in RecordedBy(c, st)
        PROVE  \/ i \in RecordedBy(c, s) /\ st[i] = s[i]
               \/ i - Len(s) \in RecordedBy(c, t) /\ st[i] = t[i - Len(s)] /\ i > Len(s)
    BY <1>2 DEF RecordedBy
  <1>6. Len(st) \in Nat
    BY <1>1
  <1>7. RecordedInConcat(c, s, t, st)
    BY <1>1, <1>3, <1>4, <1>5, <1>6 DEF RecordedInConcat
  <1> QED BY <1>7 DEF st

\* Recording one more transaction.
LEMMA HoldsNext ==
  ASSUME NEW S, NEW s \in Seq(S), NEW tx \in S, NEW c, NEW n \in Nat, HoldsFirst(c, s, n),
         tx.body = [by |-> c, nth |-> n + 1]
  PROVE  HoldsFirst(c, s \o <<tx>>, n + 1)
  <1> DEFINE t == <<tx>>
             st == s \o t
  <1>1. t \in Seq(S) /\ DOMAIN t = {1} /\ t[1] = tx /\ Len(t) = 1
    OBVIOUS
  <1>2. tx.body.by = c /\ tx.body.nth = n + 1
    OBVIOUS
  <1>3. RecordedBy(c, t) = {1}
    BY <1>1, <1>2 DEF RecordedBy
  <1> HIDE DEF t
  <1>10. RecordedInConcat(c, s, t, st)
    BY <1>1, ConcatRecordedBy
  <1> HIDE DEF st
  <1>4. /\ \A i \in RecordedBy(c, s) : i \in RecordedBy(c, st) /\ st[i] = s[i]
        /\ \A i \in RecordedBy(c, t) : i + Len(s) \in RecordedBy(c, st) /\ st[i + Len(s)] = t[i]
        /\ \A i \in RecordedBy(c, st) :
             \/ i \in RecordedBy(c, s) /\ st[i] = s[i]
             \/ i - Len(s) \in RecordedBy(c, t) /\ st[i] = t[i - Len(s)] /\ i > Len(s)
        /\ RecordedBy(c, s) \subseteq 1..Len(s) /\ Len(s) \in Nat
        /\ \A i \in RecordedBy(c, st) : i \in Nat
    BY <1>10 DEF RecordedInConcat
  <1>5. /\ \A i \in RecordedBy(c, s) : s[i].body.nth \in 1..n
        /\ \A k \in 1..n : \E i \in RecordedBy(c, s) : s[i].body.nth = k
        /\ \A i, j \in RecordedBy(c, s) : i < j => s[i].body.nth < s[j].body.nth
    BY HoldsFirstIs
  <1>6. /\ 1 + Len(s) \in RecordedBy(c, st) /\ st[1 + Len(s)] = tx
        /\ \A i \in RecordedBy(c, st) : \/ i \in RecordedBy(c, s) /\ st[i] = s[i]
                                        \/ i = 1 + Len(s) /\ st[i] = tx
    <2>1. 1 + Len(s) \in RecordedBy(c, st) /\ st[1 + Len(s)] = tx
      BY <1>1, <1>3, <1>4
    <2>2. ASSUME NEW i \in RecordedBy(c, st), i - Len(s) \in RecordedBy(c, t)
          PROVE  i = 1 + Len(s)
      BY <1>3, <1>4, <2>2
    <2> QED BY <1>4, <2>1, <2>2
  <1>7. \A i \in RecordedBy(c, st) : st[i].body.nth \in 1..(n + 1)
    BY <1>2, <1>5, <1>6
  <1>8. ASSUME NEW k \in 1..(n + 1) PROVE \E i \in RecordedBy(c, st) : st[i].body.nth = k
    <2>1. CASE k = n + 1
      BY <1>2, <1>6, <2>1
    <2>2. CASE k # n + 1
      <3>1. k \in 1..n
        BY <2>2
      <3> QED BY <1>4, <1>5, <3>1
    <2> QED BY <2>1, <2>2
  <1>9. ASSUME NEW i \in RecordedBy(c, st), NEW j \in RecordedBy(c, st), i < j
        PROVE  st[i].body.nth < st[j].body.nth
    <2>1. i \in RecordedBy(c, s) /\ st[i] = s[i] /\ s[i].body.nth \in 1..n
      BY <1>4, <1>5, <1>6, <1>9
    <2>2. CASE j \in RecordedBy(c, s) /\ st[j] = s[j]
      BY <1>5, <1>9, <2>1, <2>2
    <2>3. CASE st[j] = tx
      BY <1>2, <2>1, <2>3
    <2> QED BY <1>6, <2>2, <2>3
  <1> QED BY <1>7, <1>8, <1>9, HoldsFirstIs DEF st, t

\* Transactions of others do not count.
LEMMA HoldsOthers ==
  ASSUME NEW S, NEW s \in Seq(S), NEW t \in Seq(S), NEW c, NoneBy(c, t), NEW n
  PROVE  HoldsFirst(c, s \o t, n) <=> HoldsFirst(c, s, n)
  <1> DEFINE st == s \o t
  <1>1. RecordedBy(c, t) = {}
    BY DEF NoneBy, RecordedBy
  <1>2. /\ \A i \in RecordedBy(c, s) : i \in RecordedBy(c, st) /\ st[i] = s[i]
        /\ \A i \in RecordedBy(c, st) : i \in RecordedBy(c, s) /\ st[i] = s[i]
    <2>1. RecordedInConcat(c, s, t, st)
      BY ConcatRecordedBy
    <2> QED BY <1>1, <2>1 DEF RecordedInConcat
  <1> HIDE DEF st
  <1>3. RecordedBy(c, st) = RecordedBy(c, s)
    BY <1>2
  <1> QED BY <1>2, <1>3 DEF HoldsFirst, st

\* A beginning of such a list holds the first ones as well.
LEMMA HoldsPrefix ==
  ASSUME NEW S, NEW s \in Seq(S), NEW t \in Seq(S), NEW c, NEW n \in Nat,
         HoldsFirst(c, s \o t, n)
  PROVE  \E m \in 0..n : HoldsFirst(c, s, m)
  <1> DEFINE st == s \o t
             N == {s[i].body.nth : i \in RecordedBy(c, s)}
  <1>1. /\ \A i \in RecordedBy(c, s) : i \in RecordedBy(c, st) /\ st[i] = s[i]
        /\ \A i \in RecordedBy(c, st) :
             \/ i \in RecordedBy(c, s) /\ st[i] = s[i]
             \/ i > Len(s) /\ i \in Nat
        /\ RecordedBy(c, s) \subseteq 1..Len(s) /\ Len(s) \in Nat
    <2>1. RecordedInConcat(c, s, t, st)
      BY ConcatRecordedBy
    <2> QED BY <2>1 DEF RecordedInConcat
  <1> HIDE DEF st
  <1>2. /\ \A i \in RecordedBy(c, st) : st[i].body.nth \in 1..n
        /\ \A k \in 1..n : \E i \in RecordedBy(c, st) : st[i].body.nth = k
        /\ \A i, j \in RecordedBy(c, st) : i < j => st[i].body.nth < st[j].body.nth
    BY HoldsFirstIs DEF st
  <1>3. \A i, j \in RecordedBy(c, s) : i < j => s[i].body.nth < s[j].body.nth
    BY <1>1, <1>2
  <1>4. N \in SUBSET (1..n)
    BY <1>1, <1>2
  <1>5. CASE N = {}
    <2>1. RecordedBy(c, s) = {}
      BY <1>5
    <2>2. N = 1..0
      <3>1. 1..0 = {}
        OBVIOUS
      <3> QED BY <1>5, <3>1
    <2>3. HoldsFirst(c, s, 0)
      BY <2>1, <2>2 DEF HoldsFirst
    <2> QED BY <2>3
  <1>6. CASE N # {}
    <2> HIDE DEF N
    <2>1. PICK m \in N : \A k \in N : k <= m
      BY <1>4, <1>6, GreatestElement
    <2>2. PICK last \in RecordedBy(c, s) : s[last].body.nth = m
      BY <2>1 DEF N
    <2>3. m \in 1..n
      BY <1>4, <2>1
    <2>4. ASSUME NEW k \in 1..m PROVE k \in N
      <3>1. k \in 1..n
        BY <2>3
      <3>2. PICK i \in RecordedBy(c, st) : st[i].body.nth = k
        BY <1>2, <3>1
      <3>3. CASE i \in RecordedBy(c, s) /\ st[i] = s[i]
        BY <3>2, <3>3 DEF N
      <3>4. CASE i > Len(s) /\ i \in Nat
        <4>1. last < i /\ last \in RecordedBy(c, st) /\ st[last] = s[last]
          BY <1>1, <2>2, <3>4
        <4>2. m < k
          BY <1>2, <2>2, <3>2, <4>1
        <4> QED BY <2>3, <4>2
      <3> QED BY <1>1, <3>3, <3>4
    <2>5. N = 1..m
      <3>1. \A k \in N : k \in 1..m
        BY <1>4, <2>1, <2>3
      <3> QED BY <2>4, <3>1
    <2>6. HoldsFirst(c, s, m)
      BY <1>3, <2>5 DEF HoldsFirst, N
    <2> QED BY <2>3, <2>6
  <1> QED BY <1>5, <1>6

\* A rebase puts news of others before what a device recorded, and copies what it
\* recorded in the same order.
LEMMA HoldsRebased ==
  ASSUME NEW S, NEW p \in Seq(S), NEW old \in Seq(S), NEW news \in Seq(S),
         NEW rebased \in Seq(S), NEW c, NEW n, HoldsFirst(c, p \o old, n), NoneBy(c, news),
         Len(rebased) = Len(old), \A i \in DOMAIN old : rebased[i].body = old[i].body
  PROVE  HoldsFirst(c, p \o (news \o rebased), n)
  <1> DEFINE s == p \o old
             m == news \o rebased
             t == p \o m
  <1>1. /\ \A i \in RecordedBy(c, p) : i \in RecordedBy(c, s) /\ s[i] = p[i]
        /\ \A i \in RecordedBy(c, old) : i + Len(p) \in RecordedBy(c, s) /\ s[i + Len(p)] = old[i]
        /\ \A i \in RecordedBy(c, s) :
             \/ i \in RecordedBy(c, p) /\ s[i] = p[i]
             \/ i - Len(p) \in RecordedBy(c, old) /\ s[i] = old[i - Len(p)] /\ i > Len(p)
        /\ RecordedBy(c, p) \subseteq 1..Len(p) /\ RecordedBy(c, old) \subseteq 1..Len(old)
        /\ Len(p) \in Nat /\ Len(old) \in Nat
    <2>1. RecordedInConcat(c, p, old, s)
      BY ConcatRecordedBy
    <2> QED BY <2>1 DEF RecordedInConcat
  <1>2. /\ RecordedBy(c, news) = {} /\ DOMAIN old = DOMAIN rebased
        /\ RecordedBy(c, rebased) = RecordedBy(c, old)
    BY LenProperties DEF NoneBy, RecordedBy
  <1>3. m \in Seq(S)
    BY ConcatProperties
  <1>4. /\ \A i \in RecordedBy(c, rebased) : /\ i + Len(news) \in RecordedBy(c, m)
                                             /\ m[i + Len(news)] = rebased[i]
        /\ \A i \in RecordedBy(c, m) : /\ i - Len(news) \in RecordedBy(c, rebased)
                                       /\ m[i] = rebased[i - Len(news)]
        /\ RecordedBy(c, m) \subseteq 1..Len(m) /\ Len(news) \in Nat /\ Len(m) \in Nat
    <2>1. RecordedInConcat(c, news, rebased, m)
      BY ConcatRecordedBy
    <2> QED BY <1>2, <2>1 DEF RecordedInConcat
  <1> HIDE DEF m
  <1>5. /\ \A i \in RecordedBy(c, p) : i \in RecordedBy(c, t) /\ t[i] = p[i]
        /\ \A i \in RecordedBy(c, m) : i + Len(p) \in RecordedBy(c, t) /\ t[i + Len(p)] = m[i]
        /\ \A i \in RecordedBy(c, t) :
             \/ i \in RecordedBy(c, p) /\ t[i] = p[i]
             \/ i - Len(p) \in RecordedBy(c, m) /\ t[i] = m[i - Len(p)] /\ i > Len(p)
    <2>1. RecordedInConcat(c, p, m, t)
      BY <1>3, ConcatRecordedBy
    <2> QED BY <2>1 DEF RecordedInConcat
  <1> HIDE DEF s, t
  <1> DEFINE k == Len(news)
  <1>6. \A i \in RecordedBy(c, old) : rebased[i].body = old[i].body /\ i \in Nat
    BY <1>1 DEF RecordedBy
  <1>7. ASSUME NEW i \in RecordedBy(c, old)
        PROVE  i + Len(p) + k \in RecordedBy(c, t) /\ t[i + Len(p) + k].body = s[i + Len(p)].body
    <2>1. i + k \in RecordedBy(c, m) /\ m[i + k] = rebased[i]
      BY <1>2, <1>4
    <2>2. (i + k) + Len(p) \in RecordedBy(c, t) /\ t[(i + k) + Len(p)] = rebased[i]
      BY <1>5, <2>1
    <2>3. (i + k) + Len(p) = i + Len(p) + k
      BY <1>1, <1>4, <1>6
    <2> QED BY <1>1, <1>6, <2>2, <2>3
  <1>8. ASSUME NEW i \in RecordedBy(c, t)
        PROVE  \/ i \in RecordedBy(c, s) /\ t[i].body = s[i].body /\ i <= Len(p) /\ i \in Nat
               \/ /\ i - k \in RecordedBy(c, s) /\ t[i].body = s[i - k].body
                  /\ i - k > Len(p) /\ i \in Nat /\ i - k \in Nat
    <2>1. CASE i \in RecordedBy(c, p) /\ t[i] = p[i]
      BY <1>1, <2>1
    <2>2. CASE i - Len(p) \in RecordedBy(c, m) /\ t[i] = m[i - Len(p)] /\ i > Len(p)
      <3>1. i - Len(p) \in Nat /\ i \in Nat
        <4>1. DOMAIN t = 1..Len(t)
          BY <1>3, ConcatProperties, LenProperties DEF t
        <4>2. i \in DOMAIN t
          BY DEF RecordedBy
        <4>3. i \in Nat
          BY <4>1, <4>2
        <4> QED BY <1>4, <2>2, <4>3
      <3>2. (i - Len(p)) - k \in RecordedBy(c, old) /\ t[i] = rebased[(i - Len(p)) - k]
        BY <1>2, <1>4, <2>2
      <3>3. /\ ((i - Len(p)) - k) + Len(p) \in RecordedBy(c, s)
            /\ s[((i - Len(p)) - k) + Len(p)].body = t[i].body
            /\ (i - Len(p)) - k \in Nat /\ (i - Len(p)) - k >= 1
        BY <1>1, <1>6, <3>2
      <3>4. ((i - Len(p)) - k) + Len(p) = i - k
        BY <1>1, <1>4, <3>1
      <3>5. i - k > Len(p) /\ i - k \in Nat
        BY <1>1, <1>4, <3>1, <3>3
      <3> QED BY <3>1, <3>3, <3>4, <3>5
    <2> QED BY <1>5, <2>1, <2>2
  <1>9. /\ \A i \in RecordedBy(c, s) : s[i].body.nth \in 1..n
        /\ \A x \in 1..n : \E i \in RecordedBy(c, s) : s[i].body.nth = x
        /\ \A i, j \in RecordedBy(c, s) : i < j => s[i].body.nth < s[j].body.nth
    BY HoldsFirstIs DEF s
  <1>10. \A i \in RecordedBy(c, t) : t[i].body.nth \in 1..n
    BY <1>8, <1>9
  <1>11. ASSUME NEW x \in 1..n PROVE \E i \in RecordedBy(c, t) : t[i].body.nth = x
    <2>1. PICK i \in RecordedBy(c, s) : s[i].body.nth = x
      BY <1>9
    <2>2. CASE i \in RecordedBy(c, p) /\ s[i] = p[i]
      BY <1>5, <2>1, <2>2
    <2>3. CASE i - Len(p) \in RecordedBy(c, old) /\ s[i] = old[i - Len(p)] /\ i > Len(p)
      <3>1. /\ (i - Len(p)) + Len(p) + k \in RecordedBy(c, t)
            /\ t[(i - Len(p)) + Len(p) + k].body = s[(i - Len(p)) + Len(p)].body
        BY <1>7, <2>3
      <3>2. i \in Nat
        <4>1. DOMAIN s = 1..Len(s)
          BY ConcatProperties, LenProperties DEF s
        <4> QED BY <4>1 DEF RecordedBy
      <3>3. (i - Len(p)) + Len(p) = i
        BY <1>1, <3>2
      <3> QED BY <2>1, <3>1, <3>3
    <2> QED BY <1>1, <2>2, <2>3
  <1>12. ASSUME NEW i \in RecordedBy(c, t), NEW j \in RecordedBy(c, t), i < j
         PROVE  t[i].body.nth < t[j].body.nth
    <2> DEFINE Low(x) == x \in RecordedBy(c, s) /\ t[x].body = s[x].body /\ x <= Len(p) /\ x \in Nat
               High(x) == /\ x - k \in RecordedBy(c, s) /\ t[x].body = s[x - k].body
                          /\ x - k > Len(p) /\ x \in Nat /\ x - k \in Nat
    <2>1. (Low(i) \/ High(i)) /\ (Low(j) \/ High(j))
      BY <1>8
    <2>2. CASE Low(i) /\ Low(j)
      BY <1>9, <1>12, <2>2
    <2>3. CASE Low(i) /\ High(j)
      <3>1. i < j - k
        BY <1>1, <1>4, <2>3
      <3> QED BY <1>9, <2>3, <3>1
    <2>4. CASE High(i) /\ High(j)
      <3>1. i - k < j - k
        BY <1>4, <1>12, <2>4
      <3> QED BY <1>9, <2>4, <3>1
    <2>5. CASE High(i) /\ Low(j)
      BY <1>1, <1>4, <1>12, <2>5
    <2> QED BY <2>1, <2>2, <2>3, <2>4, <2>5
  <1> QED BY <1>10, <1>11, <1>12, HoldsFirstIs DEF t, m

-------------------------------------------------------------------------------
(* What devices, their pushes and the log have in common while no crash has  *)
(* lost a write.                                                             *)

\* File r of device c has all that c recorded, and what it has that the server is
\* not known to have is by c.
IsOwn(c, r, n) == HoldsFirst(c, Chain(r), n) /\ AllBy(c, ChainSince(r, r.synced))

\* Device c stores all of its own that is in the log, and is not going to collect it.
KeepsOwn(c, r, step, j, log) ==
  \A tx \in Range(log) :
    tx.body.by = c => /\ tx \in Stored(r)
                      /\ step \in {"storing", "deleting"} => tx.uuid \notin Range(j.garbage)

\* Device c with file r, at a step of its operation with local variables j, after it
\* has recorded n transactions; log is the server's.
Device(c, r, step, j, n, log) ==
  /\ IsOwn(c, r, n) /\ \E k \in 0..n : HoldsFirst(c, log, k)
  /\ KeepsOwn(c, r, step, j, log)
  /\ step = "recording" => r.txs[j.latest].body = [by |-> c, nth |-> n + 1]
  /\ step = "storing" => IsOwn(c, NextFile(r, j), n)

Begins(b, u) == b \in Seq(Transactions) /\ \E v \in Seq(Transactions) : u = b \o v

\* A device at a step, with file r, would push what begins with b.
Pushable(step, r, latest, b) ==
  /\ step \notin {"storing", "deleting"} /\ r.synced = latest
  /\ Begins(b, ChainSince(r, r.synced))

\* A push under way that the server, with this end of its log, will still accept has
\* not been rebased meanwhile.
IsPush(b, latest) ==
  /\ b # << >> /\ b[1].parent <= latest
  /\ b[1].parent = latest => \E c \in Clients : Pushable(pc[c], repo[c], latest, b)

Faith(log, latest) ==
  /\ \A c \in Clients : Device(c, repo[c], pc[c], job[c], recorded[c], log)
  /\ \A b \in InFlight : IsPush(b, latest)

\* A step of device c that comes after what the server does.
KeepsPushes(c, r, step, latest) ==
  \A b : b # << >> /\ b[1].parent = latest /\ Pushable(pc[c], repo[c], latest, b)
           => Pushable(step, r, latest, b)

LEMMA FaithStep ==
  ASSUME Inv, NEW log, NEW latest, Faith(log, latest),
         log = Chain(server)', latest = server'.latest,
         NEW c \in Clients, NEW r, NEW s, NEW j, NEW n,
         \A d \in Clients : repo'[d] = IF d = c THEN r ELSE repo[d],
         pc' = [pc EXCEPT ![c] = s], job' = [job EXCEPT ![c] = j],
         recorded' = [recorded EXCEPT ![c] = n], late' \subseteq InFlight,
         Device(c, r, s, j, n, log), KeepsPushes(c, r, s, latest),
         s = "pushing" => \/ j.batch \in InFlight
                          \/ /\ j.batch # << >> /\ j.batch[1].parent <= latest
                             /\ j.batch[1].parent = latest => Pushable(s, r, latest, j.batch)
  PROVE  Faith(Chain(server), server.latest)'
  <1>1. /\ pc'[c] = s /\ job'[c] = j /\ repo'[c] = r /\ recorded'[c] = n
        /\ \A d \in Clients : d # c => /\ pc'[d] = pc[d] /\ job'[d] = job[d]
                                       /\ repo'[d] = repo[d] /\ recorded'[d] = recorded[d]
    BY DEF Inv, TypeOK
  <1>2. ASSUME NEW d \in Clients
        PROVE  Device(d, repo'[d], pc'[d], job'[d], recorded'[d], log)
    <2>1. CASE d = c
      BY <1>1, <2>1
    <2>2. CASE d # c
      BY <1>1, <2>2 DEF Faith
    <2> QED BY <2>1, <2>2
  <1>3. ASSUME NEW b, b # << >>, b[1].parent = latest,
               NEW d \in Clients, Pushable(pc[d], repo[d], latest, b)
        PROVE  Pushable(pc'[d], repo'[d], latest, b)
    <2>1. CASE d = c
      BY <1>1, <1>3, <2>1 DEF KeepsPushes
    <2>2. CASE d # c
      BY <1>1, <1>3, <2>2
    <2> QED BY <2>1, <2>2
  <1>4. ASSUME NEW b, b # << >>, b[1].parent <= latest, NEW d \in Clients,
               b[1].parent = latest => Pushable(pc'[d], repo'[d], latest, b)
        PROVE  IsPush(b, latest)'
    BY <1>4 DEF IsPush
  <1>5. ASSUME NEW b \in InFlight PROVE IsPush(b, latest)'
    <2>1. IsPush(b, latest)
      BY DEF Faith
    <2>2. b # << >> /\ b[1].parent <= latest
      BY <2>1 DEF IsPush
    <2>3. CASE b[1].parent = latest
      BY <1>3, <2>1, <2>2, <2>3 DEF IsPush
    <2>4. CASE b[1].parent # latest
      BY <2>2, <2>4 DEF IsPush
    <2> QED BY <2>3, <2>4
  <1>6. ASSUME NEW b \in InFlight', b \notin InFlight PROVE IsPush(b, latest)'
    <2>1. PICK d \in Clients : pc'[d] = "pushing" /\ b = job'[d].batch
      BY <1>6 DEF InFlight
    <2>2. d = c
      BY <1>1, <1>6, <2>1 DEF InFlight
    <2>3. s = "pushing" /\ b = j.batch
      BY <1>1, <2>1, <2>2
    <2>4. /\ b # << >> /\ b[1].parent <= latest
          /\ b[1].parent = latest => Pushable(pc'[c], repo'[c], latest, b)
      BY <1>1, <1>6, <2>3
    <2> QED BY <1>4, <2>4
  <1>7. \A b \in InFlight' : IsPush(b, latest)'
    BY <1>5, <1>6
  <1> QED BY <1>2, <1>7 DEF Faith

\* A device that leaves its operation, or goes on to a step that writes nothing.
LEMMA DeviceRests ==
  ASSUME NEW c, NEW r, NEW step, NEW j, NEW n, NEW log, Device(c, r, step, j, n, log),
         NEW s, s \notin {"recording", "storing", "deleting"}, NEW i
  PROVE  Device(c, r, s, i, n, log)
  BY DEF Device, KeepsOwn

\* A file with the same chain and the same end of what is synchronized has the same
\* unsynchronized transactions.
LEMMA SinceKept ==
  ASSUME NEW r, IsFiled(r), r.latest \in Nat, r.synced \in Nat, NEW log, IsHistory(r, log),
         NEW q, IsKept(q, r)
  PROVE  ChainSince(q, q.synced) = ChainSince(r, r.synced)
  <1> DEFINE u == ChainSince(r, r.synced)
  <1>1. PICK p : Cuts(r, r.synced, p, u)
    BY ChainSinceCuts DEF IsHistory
  <1> HIDE DEF u
  <1>2. /\ IsFiled(q) /\ IsReadable(q) /\ Chain(q) = p \o u /\ q.latest = r.latest
        /\ q.synced = r.synced /\ p \in Seq(Stored(r)) /\ u \in Seq(Stored(r))
        /\ Path(u, r.synced, r.latest)
    BY <1>1 DEF Cuts, IsKept
  <1>3. Range(p \o u) \subseteq Stored(q)
    BY <1>2, ReadableChain, RangeOfSeq
  <1>4. Range(p \o u) = Range(p) \cup Range(u)
    BY <1>2, ConcatRange
  <1>5. u \in Seq(Stored(q))
    <2>1. u \in Seq(Range(u))
      BY <1>2, SeqOfRange
    <2> QED BY <1>3, <1>4, <2>1, SeqMonotonic
  <1>6. ChainSince(q, r.synced) = u
    BY <1>2, <1>5, SinceOfPaths
  <1> QED BY <1>2, <1>6 DEF u

LEMMA OwnKept ==
  ASSUME NEW r, IsFiled(r), r.latest \in Nat, r.synced \in Nat, NEW log, IsHistory(r, log),
         NEW q, IsKept(q, r), NEW c, NEW n, IsOwn(c, r, n)
  PROVE  IsOwn(c, q, n)
  BY SinceKept DEF IsOwn, IsKept

LEMMA AllByConcat ==
  ASSUME NEW S, NEW s \in Seq(S), NEW t \in Seq(S), NEW c
  PROVE  AllBy(c, s \o t) <=> AllBy(c, s) /\ AllBy(c, t)
  <1> DEFINE st == s \o t
  <1>1. /\ Len(s) \in Nat /\ Len(t) \in Nat /\ DOMAIN s = 1..Len(s) /\ DOMAIN t = 1..Len(t)
        /\ Len(st) = Len(s) + Len(t) /\ DOMAIN st = 1..Len(st)
        /\ \A i \in 1..(Len(s) + Len(t)) : st[i] = IF i <= Len(s) THEN s[i] ELSE t[i - Len(s)]
    BY ConcatProperties, LenProperties
  <1> HIDE DEF st
  <1>2. /\ \A i \in DOMAIN s : i \in DOMAIN st /\ st[i] = s[i]
        /\ \A i \in DOMAIN t : i + Len(s) \in DOMAIN st /\ st[i + Len(s)] = t[i]
        /\ \A i \in DOMAIN st : \/ i \in DOMAIN s /\ st[i] = s[i]
                                \/ i - Len(s) \in DOMAIN t /\ st[i] = t[i - Len(s)]
    BY <1>1
  <1>3. AllBy(c, st) <=> AllBy(c, s) /\ AllBy(c, t)
    BY <1>2 DEF AllBy
  <1> QED BY <1>3 DEF st

LEMMA ConcatEmpty ==
  ASSUME NEW S, NEW b \in Seq(S), NEW v \in Seq(S), b # << >>
  PROVE  b \o v # << >>
  BY ConcatEqualIffEmpty

LEMMA BeginsMore ==
  ASSUME NEW b, NEW u, Begins(b, u), NEW t \in Seq(Transactions)
  PROVE  Begins(b, u \o t)
  <1>1. b \in Seq(Transactions)
    BY DEF Begins
  <1>2. PICK v \in Seq(Transactions) : u = b \o v
    BY DEF Begins
  <1>3. (b \o v) \o t = b \o (v \o t) /\ v \o t \in Seq(Transactions)
    BY <1>1, ConcatAssociative, ConcatProperties
  <1> QED BY <1>1, <1>2, <1>3 DEF Begins

-------------------------------------------------------------------------------
(* One lemma per action: what it leaves of its device.                       *)

\* add_transaction of a new transaction.
LEMMA RecordTransactionFaith ==
  ASSUME Inv, HistInv, NEW c \in Clients, NEW t, IsRecorded(c, t), NEW log,
         Device(c, repo[c], pc[c], job[c], recorded[c], log)
  PROVE  /\ Device(c, repo'[c], "recording", job'[c], recorded[c], log)
         /\ \A latest : KeepsPushes(c, repo'[c], "recording", latest)
  <1> DEFINE r == repo[c]
             q == AddTransaction(r, t)
             n == recorded[c]
  <1>1. IsKept(q, r) /\ Stored(q) = Stored(r) \cup {t} /\ q.txs[nextId] = t
    BY RecordedChain
  <1>2. /\ IsFiled(r) /\ r.latest \in Nat /\ r.synced \in Nat /\ IsHistory(r, Log)
    BY FilesAreInOrder DEF FilesInOrder, HistInv
  <1>3. /\ t.body = [by |-> c, nth |-> n + 1] /\ repo'[c] = q /\ job'[c].latest = nextId
    BY DEF IsRecorded, Write, NoJob, Inv, TypeOK
  <1>4. /\ IsOwn(c, r, n) /\ \E k \in 0..n : HoldsFirst(c, log, k)
        /\ KeepsOwn(c, r, pc[c], job[c], log)
    BY DEF Device
  <1> HIDE DEF q, r, n
  <1>5. IsOwn(c, q, n) /\ ChainSince(q, q.synced) = ChainSince(r, r.synced)
    BY <1>1, <1>2, <1>4, OwnKept, SinceKept
  <1>6. KeepsOwn(c, q, "recording", job'[c], log)
    BY <1>1, <1>4 DEF KeepsOwn
  <1>7. q.txs[job'[c].latest].body = [by |-> c, nth |-> n + 1]
    BY <1>1, <1>3
  <1>8. Device(c, q, "recording", job'[c], n, log)
    BY <1>4, <1>5, <1>6, <1>7 DEF Device
  <1>9. ASSUME NEW latest PROVE KeepsPushes(c, q, "recording", latest)
    BY <1>1, <1>5 DEF KeepsPushes, Pushable, IsKept, r
  <1> QED BY <1>3, <1>8, <1>9 DEF n

\* set_latest_transaction after it.
LEMMA SetLatestFaith ==
  ASSUME Inv, HistInv, NEW c \in Clients, SetLatest(c), FilesInOrder', NEW log,
         Device(c, repo[c], pc[c], job[c], recorded[c], log)
  PROVE  /\ Device(c, repo'[c], "idle", job'[c], recorded[c] + 1, log)
         /\ \A latest : KeepsPushes(c, repo'[c], "idle", latest)
  <1> DEFINE r == repo[c]
             q == repo'[c]
             n == recorded[c]
             t == r.txs[job[c].latest]
             u == ChainSince(r, r.synced)
  <1>1. /\ q.txs = r.txs /\ q.latest = t.uuid /\ q.synced = r.synced /\ IsHistory(q, Log)
        /\ t \in Stored(r) /\ t.parent = r.latest /\ Chain(q) = Chain(r) \o <<t>>
    BY LatestSetChain
  <1>2. /\ IsFiled(r) /\ r.latest \in Nat /\ r.synced \in Nat /\ IsHistory(r, Log)
        /\ Stored(r) \subseteq Transactions /\ n \in Nat
    BY FilesAreInOrder DEF FilesInOrder, HistInv, Inv, TypeOK
  <1>3. IsFiled(q) /\ q.latest \in Nat
    BY DEF FilesInOrder
  <1>4. /\ IsOwn(c, r, n) /\ (\E k \in 0..n : HoldsFirst(c, log, k))
        /\ KeepsOwn(c, r, pc[c], job[c], log) /\ t.body = [by |-> c, nth |-> n + 1]
    BY DEF Device, SetLatest, Goto
  <1> HIDE DEF q, r, n, t
  <1>5. PICK p : Cuts(r, r.synced, p, u)
    BY <1>2, ChainSinceCuts DEF IsHistory
  <1> HIDE DEF u
  <1>6. u \in Seq(Stored(r)) /\ Path(u, r.synced, r.latest) /\ Chain(r) \in Seq(Stored(r))
    BY <1>2, <1>5, ReadableChain DEF Cuts, IsHistory
  <1>7. <<t>> \in Seq(Stored(r)) /\ Len(<<t>>) = 1 /\ <<t>>[1] = t /\ <<t>> # << >>
    BY <1>1
  <1>8. Path(<<t>>, r.latest, t.uuid)
    BY <1>1, <1>7 DEF Path, CheckChainConsistency
  <1>9. ChainSince(q, q.synced) = u \o <<t>>
    <2>1. u \o <<t>> \in Seq(Stored(r)) /\ Path(u \o <<t>>, r.synced, t.uuid)
      BY <1>6, <1>7, <1>8, PathConcat
    <2>2. Stored(q) = Stored(r)
      BY <1>1 DEF Stored
    <2> QED BY <1>1, <1>2, <1>3, <2>1, <2>2, SinceOfPaths
  <1>10. HoldsFirst(c, Chain(q), n + 1)
    BY <1>1, <1>2, <1>4, <1>6, HoldsNext DEF IsOwn
  <1>11. AllBy(c, u \o <<t>>)
    <2>1. AllBy(c, u) /\ AllBy(c, <<t>>)
      BY <1>4, <1>7 DEF IsOwn, AllBy, u
    <2> QED BY <1>6, <1>7, <2>1, AllByConcat
  <1>12. \E k \in 0..(n + 1) : HoldsFirst(c, log, k)
    BY <1>2, <1>4
  <1>13. KeepsOwn(c, q, "idle", job'[c], log)
    BY <1>1, <1>4 DEF KeepsOwn, Stored
  <1>14. Device(c, q, "idle", job'[c], n + 1, log)
    BY <1>9, <1>10, <1>11, <1>12, <1>13 DEF Device, IsOwn
  <1>15. ASSUME NEW b, Begins(b, u) PROVE Begins(b, u \o <<t>>)
    <2>1. <<t>> \in Seq(Transactions)
      BY <1>1, <1>2
    <2> QED BY <1>15, <2>1, BeginsMore
  <1>16. ASSUME NEW latest PROVE KeepsPushes(c, q, "idle", latest)
    BY <1>1, <1>9, <1>15 DEF KeepsPushes, Pushable, r, u
  <1> QED BY <1>14, <1>16 DEF q, n

\* add_transaction of a transaction of a rebase.
LEMMA StoreTransactionFaith ==
  ASSUME Inv, HistInv, NEW c \in Clients, StoreTransaction(c), FilesInOrder', NEW log,
         Device(c, repo[c], pc[c], job[c], recorded[c], log)
  PROVE  /\ Device(c, repo'[c], "storing", job'[c], recorded[c], log)
         /\ \A latest : KeepsPushes(c, repo'[c], "storing", latest)
  <1> DEFINE r == repo[c]
             q == repo'[c]
             n == recorded[c]
             m == NextFile(r, job[c])
             k == NextFile(q, job'[c])
  <1>1. /\ IsKept(q, r) /\ Stored(r) \subseteq Stored(q)
        /\ IsFiled(m) /\ m.latest \in Nat /\ m.synced \in Nat /\ IsHistory(m, Log)
        /\ IsKept(k, m) /\ job'[c].garbage = job[c].garbage
    BY StoredChain
  <1>2. /\ IsFiled(r) /\ r.latest \in Nat /\ r.synced \in Nat /\ IsHistory(r, Log)
    BY FilesAreInOrder DEF FilesInOrder, HistInv
  <1>3. pc[c] = "storing"
    BY DEF StoreTransaction, Goto
  <1>4. /\ IsOwn(c, r, n) /\ (\E i \in 0..n : HoldsFirst(c, log, i))
        /\ KeepsOwn(c, r, "storing", job[c], log) /\ IsOwn(c, m, n)
    BY <1>3 DEF Device
  <1> HIDE DEF q, r, n, m, k
  <1>5. IsOwn(c, q, n) /\ IsOwn(c, k, n)
    BY <1>1, <1>2, <1>4, OwnKept
  <1>6. KeepsOwn(c, q, "storing", job'[c], log)
    BY <1>1, <1>4 DEF KeepsOwn
  <1>7. Device(c, q, "storing", job'[c], n, log)
    BY <1>4, <1>5, <1>6 DEF Device, k
  <1>8. \A latest : KeepsPushes(c, q, "storing", latest)
    BY <1>3 DEF KeepsPushes, Pushable
  <1> QED BY <1>7, <1>8 DEF q, n

\* add_account at the end of a rebase.
LEMMA SaveAccountFaith ==
  ASSUME Inv, HistInv, NEW c \in Clients, SaveAccount(c), FilesInOrder', NEW log,
         Device(c, repo[c], pc[c], job[c], recorded[c], log)
  PROVE  /\ Device(c, repo'[c], "deleting", job[c], recorded[c], log)
         /\ \A latest : KeepsPushes(c, repo'[c], "deleting", latest)
  <1> DEFINE r == repo[c]
             q == repo'[c]
             n == recorded[c]
             m == NextFile(r, job[c])
  <1>1. /\ IsKept(q, m) /\ Stored(q) = Stored(r)
        /\ IsFiled(m) /\ m.latest \in Nat /\ m.synced \in Nat /\ IsHistory(m, Log)
    BY SavedChain
  <1>2. pc[c] = "storing"
    BY DEF SaveAccount, Goto
  <1>3. /\ (\E i \in 0..n : HoldsFirst(c, log, i))
        /\ KeepsOwn(c, r, "storing", job[c], log) /\ IsOwn(c, m, n)
    BY <1>2 DEF Device
  <1> HIDE DEF q, r, n, m
  <1>4. IsOwn(c, q, n)
    BY <1>1, <1>3, OwnKept
  <1>5. KeepsOwn(c, q, "deleting", job[c], log)
    BY <1>1, <1>3 DEF KeepsOwn
  <1>6. Device(c, q, "deleting", job[c], n, log)
    BY <1>3, <1>4, <1>5 DEF Device
  <1>7. \A latest : KeepsPushes(c, q, "deleting", latest)
    BY <1>2 DEF KeepsPushes, Pushable
  <1> QED BY <1>6, <1>7 DEF q, n

\* delete_transaction of a transaction that a rebase replaced.
LEMMA CollectGarbageFaith ==
  ASSUME Inv, HistInv, NEW c \in Clients, CollectGarbage(c), FilesInOrder', NEW log,
         Device(c, repo[c], pc[c], job[c], recorded[c], log)
  PROVE  /\ Device(c, repo'[c], "deleting", job'[c], recorded[c], log)
         /\ \A latest : KeepsPushes(c, repo'[c], "deleting", latest)
  <1> DEFINE r == repo[c]
             q == repo'[c]
             n == recorded[c]
             g == job[c].garbage
  <1>1. /\ IsKept(q, r) /\ Range(job'[c].garbage) \subseteq Range(g)
        /\ \A tx \in Stored(r) : tx.uuid \notin Range(g) => tx \in Stored(q)
    BY CollectedChain
  <1>2. /\ IsFiled(r) /\ r.latest \in Nat /\ r.synced \in Nat /\ IsHistory(r, Log)
    BY FilesAreInOrder DEF FilesInOrder, HistInv
  <1>3. pc[c] = "deleting"
    BY DEF CollectGarbage, Goto
  <1>4. /\ IsOwn(c, r, n) /\ (\E i \in 0..n : HoldsFirst(c, log, i))
        /\ KeepsOwn(c, r, "deleting", job[c], log)
    BY <1>3 DEF Device
  <1> HIDE DEF q, r, n
  <1>5. IsOwn(c, q, n)
    BY <1>1, <1>2, <1>4, OwnKept
  <1>6. KeepsOwn(c, q, "deleting", job'[c], log)
    BY <1>1, <1>4 DEF KeepsOwn
  <1>7. Device(c, q, "deleting", job'[c], n, log)
    BY <1>4, <1>5, <1>6 DEF Device
  <1>8. \A latest : KeepsPushes(c, q, "deleting", latest)
    BY <1>3 DEF KeepsPushes, Pushable
  <1> QED BY <1>7, <1>8 DEF q, n

\* What the server knows a device to have ends no later than its log.
LEMMA LogEnds ==
  ASSUME Inv, IsReadable(server), NEW id \in {NoId} \cup Log
  PROVE  id <= server.latest /\ id \in Nat
  <1>1. /\ IsOrdered(Copies) /\ Stored(server) \subseteq Copies /\ server.latest \in Nat
    BY FilesAreInOrder DEF FilesInOrder
  <1> DEFINE s == Chain(server)
  <1>2. s \in Seq(Copies) /\ Path(s, NoId, server.latest) /\ DOMAIN s = 1..Len(s)
    BY <1>1, ReadableChain, SeqMonotonic, LenProperties
  <1> HIDE DEF s
  <1>3. CASE id = NoId
    BY <1>1, <1>3 DEF NoId
  <1>4. CASE id \in Log
    <2>1. PICK i \in 1..Len(s) : id = s[i].uuid
      BY <1>2, <1>4 DEF Log, Uuids, s
    <2>2. s[i] \in Copies /\ NoId \in Nat
      BY <1>2, ElementOfSeq DEF NoId
    <2>3. s[i].uuid <= server.latest
      BY <1>1, <1>2, <2>2, PathBounds
    <2> QED BY <1>1, <2>1, <2>2, <2>3 DEF IsOrdered
  <1> QED BY <1>3, <1>4

\* set_latest_synchronized_transaction: no push is under way any more that begins
\* what the device has just pushed.
LEMMA MarkFaith ==
  ASSUME Inv, HistInv, IsReadable(server), NEW c \in Clients, SetLatestSynchronized(c),
         FilesInOrder', NEW log, Device(c, repo[c], pc[c], job[c], recorded[c], log)
  PROVE  /\ Device(c, repo'[c], "idle", job'[c], recorded[c], log)
         /\ KeepsPushes(c, repo'[c], "idle", server.latest)
  <1> DEFINE r == repo[c]
             q == repo'[c]
             n == recorded[c]
             u == ChainSince(r, r.synced)
  <1>1. /\ q.txs = r.txs /\ q.latest = r.latest /\ q.synced = r.latest
        /\ Chain(q) = Chain(r) /\ r.latest \in {NoId} \cup Log
    BY MarkedChain
  <1>2. /\ IsFiled(r) /\ r.latest \in Nat /\ r.synced \in Nat /\ IsHistory(r, Log)
        /\ server.latest \in Nat
    BY FilesAreInOrder DEF FilesInOrder, HistInv
  <1>3. IsFiled(q) /\ q.latest \in Nat
    BY DEF FilesInOrder
  <1>4. /\ IsOwn(c, r, n) /\ (\E i \in 0..n : HoldsFirst(c, log, i))
        /\ KeepsOwn(c, r, pc[c], job[c], log)
    BY DEF Device
  <1> HIDE DEF q, r, n
  <1>5. ChainSince(q, q.synced) = << >>
    <2>1. << >> \in Seq(Stored(q)) /\ Path(<< >>, q.latest, q.latest)
      BY EmptySeq DEF Path, CheckChainConsistency
    <2> QED BY <1>1, <1>3, <2>1, SinceOfPaths
  <1>6. IsOwn(c, q, n)
    BY <1>1, <1>4, <1>5 DEF IsOwn, AllBy
  <1>7. KeepsOwn(c, q, "idle", job'[c], log)
    BY <1>1, <1>4 DEF KeepsOwn, Stored
  <1>8. Device(c, q, "idle", job'[c], n, log)
    BY <1>4, <1>6, <1>7 DEF Device
  <1>9. ASSUME NEW b, b # << >>, r.synced = server.latest, Begins(b, u)
        PROVE  FALSE
    <2>1. r.latest <= server.latest
      BY <1>1, LogEnds
    <2>2. PICK p : Cuts(r, r.synced, p, u)
      BY <1>2, ChainSinceCuts DEF IsHistory
    <2> HIDE DEF u
    <2>3. u \in Seq(Stored(r)) /\ Path(u, r.synced, r.latest) /\ IsOrdered(Stored(r))
      BY <1>2, <2>2 DEF Cuts, IsFiled
    <2>4. u # << >>
      BY <1>9, ConcatEmpty DEF Begins
    <2>5. 1 \in 1..Len(u)
      BY <2>3, <2>4, LenProperties, EmptySeq
    <2>6. r.synced < r.latest
      BY <1>2, <2>3, <2>5, PathBounds
    <2> QED BY <1>2, <1>9, <2>1, <2>6
  <1>10. KeepsPushes(c, q, "idle", server.latest)
    BY <1>9 DEF KeepsPushes, Pushable, r, u
  <1> QED BY <1>8, <1>10 DEF q, n

\* rebase_transactions copies what the transactions say.
LEMMA RebasedBodies ==
  ASSUME NEW old \in Seq(Transactions), NEW newest \in Nat, NEW freshId \in Nat \ {NoId},
         NEW s, s = RebaseTransactions(old, newest, freshId)
  PROVE  /\ s \in Seq(Transactions) /\ Len(s) = Len(old) /\ DOMAIN s = DOMAIN old
         /\ \A i \in DOMAIN old : s[i].body = old[i].body
  <1>1. s \in Seq(Transactions) /\ Len(s) = Len(old)
    BY RebaseTransactionsType
  <1>2. DOMAIN s = DOMAIN old
    BY <1>1, LenProperties
  <1>3. ASSUME NEW i \in DOMAIN old PROVE s[i].body = old[i].body
    <2>1. old[i] \in Transactions
      BY LenProperties, ElementOfSeq
    <2>2. s[i] = [old[i] EXCEPT !.uuid = freshId + i - 1,
                                !.parent = IF i = 1 THEN newest ELSE freshId + i - 2]
      BY DEF RebaseTransactions
    <2> QED BY <2>1, <2>2 DEF Transactions
  <1> QED BY <1>1, <1>2, <1>3

\* No news is by the device itself, and nothing of its own that the server has is
\* replaced: all of that is below the last synchronized transaction.
NewsOfOthers(c, news, garbage, log) ==
  /\ NoneBy(c, news)
  /\ \A tx \in Range(log) : tx.body.by = c => tx.uuid \notin Range(garbage)

\* Device c, with file r, stores all of its own that server srv has, and none of the
\* news; its garbage is what it has not synchronized.
BringsNews(c, r, srv, news, garbage) ==
  /\ \A tx \in Range(Chain(srv)) : tx.body.by = c => tx \in Stored(r)
  /\ news = ChainSince(srv, r.synced)
  /\ \A i \in DOMAIN news : news[i].uuid \notin DOMAIN r.txs
  /\ LET old == ChainSince(r, r.synced)
     IN  garbage = [i \in DOMAIN old |-> old[i].uuid]

LEMMA NewsAreOfOthers ==
  ASSUME NEW r, IsFiled(r), r.latest \in Nat, r.synced \in Nat,
         NEW srv, IsFiled(srv), srv.latest \in Nat, IsReadable(srv),
         IsHistory(r, Uuids(Chain(srv))),
         NEW c, NEW news, NEW garbage, BringsNews(c, r, srv, news, garbage)
  PROVE  NewsOfOthers(c, news, garbage, Chain(srv))
  <1> DEFINE old == ChainSince(r, r.synced)
  <1>0. /\ \A tx \in Range(Chain(srv)) : tx.body.by = c => tx \in Stored(r)
        /\ news = ChainSince(srv, r.synced)
        /\ \A i \in DOMAIN news : news[i].uuid \notin DOMAIN r.txs
        /\ garbage = [i \in DOMAIN old |-> old[i].uuid]
    BY DEF BringsNews
  <1>1. PICK p : Cuts(r, r.synced, p, old)
    BY ChainSinceCuts DEF IsHistory
  <1>2. PICK known : Cuts(srv, r.synced, known, news)
    BY <1>0, ChainSinceCuts DEF IsHistory
  <1> HIDE DEF old
  <1>3. /\ old \in Seq(Stored(r)) /\ Path(old, r.synced, r.latest)
        /\ known \in Seq(Stored(srv)) /\ news \in Seq(Stored(srv))
        /\ Path(known, NoId, r.synced) /\ Chain(srv) = known \o news
    BY <1>1, <1>2 DEF Cuts
  <1>4. Range(Chain(srv)) = Range(known) \cup Range(news)
    BY <1>3, ConcatRange
  <1>5. ASSUME NEW i \in DOMAIN news, news[i].body.by = c PROVE FALSE
    <2>1. news[i] \in Range(Chain(srv))
      BY <1>4 DEF Range
    <2>2. news[i] \in Stored(r)
      BY <1>0, <1>5, <2>1
    <2> QED BY <1>0, <2>2, StoredTransaction
  <1>6. ASSUME NEW tx \in Range(Chain(srv)), tx.body.by = c, tx.uuid \in Range(garbage)
        PROVE  FALSE
    <2>1. PICK i \in DOMAIN old : tx.uuid = old[i].uuid
      BY <1>0, <1>6 DEF Range
    <2>2. i \in 1..Len(old) /\ IsOrdered(Stored(r)) /\ old[i] \in Stored(r)
      BY <1>3, LenProperties, ElementOfSeq DEF IsFiled
    <2>3. r.synced < tx.uuid /\ tx.uuid \in Nat
      BY <1>3, <2>1, <2>2, PathBounds DEF IsOrdered
    <2>4. tx \notin Range(news)
      BY <1>5, <1>6 DEF Range
    <2>5. tx \in Range(known)
      BY <1>4, <2>4
    <2>6. PICK k \in DOMAIN known : tx = known[k]
      BY <2>5 DEF Range
    <2>7. k \in 1..Len(known) /\ IsOrdered(Stored(srv)) /\ NoId \in Nat
      BY <1>3, LenProperties DEF IsFiled, NoId
    <2>8. tx.uuid <= r.synced
      BY <1>3, <2>6, <2>7, PathBounds
    <2> QED BY <2>3, <2>8
  <1> QED BY <1>5, <1>6 DEF NewsOfOthers, NoneBy

\* A server whose log ends where a device is synchronized has no news for it.
LEMMA NoNews ==
  ASSUME NEW srv, IsFiled(srv), srv.latest \in Nat
  PROVE  ChainSince(srv, srv.latest) = << >>
  <1>1. << >> \in Seq(Stored(srv)) /\ Path(<< >>, srv.latest, srv.latest)
    BY EmptySeq DEF Path, CheckChainConsistency
  <1> QED BY <1>1, SinceOfPaths

\* The computation of a rebase.
LEMMA RebaseFaith ==
  ASSUME Inv, HistInv, IsReadable(server), NEW c \in Clients, GetChildTransactions(c),
         FilesInOrder', NEW log, log = Chain(server),
         Device(c, repo[c], pc[c], job[c], recorded[c], log)
  PROVE  /\ Device(c, repo[c], "storing", job'[c], recorded[c], log)
         /\ KeepsPushes(c, repo[c], "storing", server.latest)
  <1> DEFINE r == repo[c]
             n == recorded[c]
             j == job'[c]
             m == NextFile(r, j)
             news == News(repo[c], server)
             old == Unsynchronized(repo[c])
             p == Synchronized(r)
             rebased == RebaseTransactions(old, j.synced, nextId)
  <1>1. IsRebased(r, Log, news, old, rebased, j, m)
    BY RebaseHistory
  <1>2. /\ IsFiled(r) /\ r.latest \in Nat /\ r.synced \in Nat /\ IsHistory(r, Log)
        /\ IsFiled(server) /\ server.latest \in Nat /\ Stored(r) \subseteq Transactions
        /\ Stored(server) \subseteq Transactions /\ j \in Jobs /\ n \in Nat
    BY FilesAreInOrder, SMTT(30) DEF FilesInOrder, HistInv, Inv, TypeOK
  <1>3. nextId \in Nat \ {NoId}
    BY DEF Inv, TypeOK
  <1>4. /\ news # << >> /\ \A i \in DOMAIN news : news[i].uuid \notin DOMAIN r.txs
        /\ news = ChainSince(server, r.synced) /\ old = ChainSince(r, r.synced)
    BY Zenon DEF GetChildTransactions, CanRebase, CheckTransactionIdUniqueness, HasTransaction,
           News, ChildTransactions, Unsynchronized
  <1>5. j.garbage = [i \in DOMAIN old |-> old[i].uuid]
    BY DEF GetChildTransactions, SetJob, Inv, TypeOK
  <1>6. /\ IsOwn(c, r, n) /\ (\E i \in 0..n : HoldsFirst(c, log, i))
        /\ KeepsOwn(c, r, pc[c], job[c], log)
    BY DEF Device
  <1> HIDE DEF r, n, j, m, news, old, p
  <1>7. NewsOfOthers(c, news, j.garbage, log)
    <2>1. \A tx \in Range(Chain(server)) : tx.body.by = c => tx \in Stored(r)
      BY <1>6 DEF KeepsOwn
    <2>2. IsHistory(r, Uuids(Chain(server)))
      BY <1>2 DEF Log
    <2> HIDE DEF rebased
    <2>3. BringsNews(c, r, server, news, j.garbage)
      BY <1>4, <1>5, <2>1 DEF BringsNews
    <2>4. NewsOfOthers(c, news, j.garbage, Chain(server))
      BY <1>2, <2>2, <2>3, NewsAreOfOthers, Zenon
    <2> QED BY <2>4
  <1>8. PICK q : Cuts(r, r.synced, q, old)
    BY <1>2, <1>4, ChainSinceCuts DEF IsHistory
  <1>9. PICK known : Cuts(server, r.synced, known, news)
    BY <1>2, <1>4, ChainSinceCuts DEF IsHistory, Log
  <1>10. /\ old \in Seq(Transactions) /\ q \in Seq(Transactions) /\ news \in Seq(Transactions)
         /\ Chain(r) = q \o old
    BY <1>2, <1>8, <1>9, SeqMonotonic DEF Cuts
  <1>11. /\ rebased \in Seq(Transactions) /\ Len(rebased) = Len(old)
         /\ DOMAIN rebased = DOMAIN old /\ \A i \in DOMAIN old : rebased[i].body = old[i].body
    BY <1>2, <1>3, <1>10, RebasedBodies DEF Jobs
  <1> HIDE DEF rebased
  <1>12. /\ Chain(r) = p \o old /\ Chain(m) = p \o (news \o rebased)
         /\ ChainSince(m, m.synced) = rebased
    BY <1>1 DEF IsRebased, p
  <1>13. p \in Seq(Transactions)
    <2>1. Cuts(r, r.synced, p, old)
      BY <1>2, <1>4, ChainSinceCuts DEF IsHistory, Synchronized, p
    <2> QED BY <1>2, <2>1, SeqMonotonic DEF Cuts
  <1>14. HoldsFirst(c, p \o old, n) /\ NoneBy(c, news)
    BY <1>6, <1>7, <1>12 DEF IsOwn, NewsOfOthers
  <1>15. HoldsFirst(c, Chain(m), n)
    BY <1>10, <1>11, <1>12, <1>13, <1>14, HoldsRebased, SMTT(30)
  <1>16. AllBy(c, rebased)
    BY <1>4, <1>6, <1>11 DEF IsOwn, AllBy
  <1>17. IsOwn(c, m, n)
    BY <1>12, <1>15, <1>16 DEF IsOwn
  <1>18. KeepsOwn(c, r, "storing", j, log)
    BY <1>6, <1>7 DEF KeepsOwn, NewsOfOthers
  <1>19. Device(c, r, "storing", j, n, log)
    BY <1>6, <1>17, <1>18 DEF Device, m
  <1>20. KeepsPushes(c, r, "storing", server.latest)
    <2>1. r.synced # server.latest
      BY <1>2, <1>4, NoNews
    <2> QED BY <2>1 DEF KeepsPushes, Pushable, r
  <1> QED BY <1>19, <1>20 DEF r, n, j

-------------------------------------------------------------------------------
(* What the server does.                                                     *)

\* A push that the server accepts is a beginning of what device e has on top of the
\* log, so the log becomes a beginning of the history of e.
IsPushed(e, r, step, n, log, b) ==
  /\ step \notin {"storing", "deleting"}
  /\ \E k \in 0..n : HoldsFirst(e, log \o b, k)
  /\ AllBy(e, b) /\ Range(b) \subseteq Stored(r)

LEMMA Regroup ==
  ASSUME NEW s \in Seq(Transactions), NEW b \in Seq(Transactions), NEW v \in Seq(Transactions)
  PROVE  (s \o b) \o v = s \o (b \o v)
  BY ConcatAssociative

LEMMA PushedByOne ==
  ASSUME NEW r, IsFiled(r), r.latest \in Nat, r.synced \in Nat,
         NEW srv, IsFiled(srv), srv.latest \in Nat, IsReadable(srv),
         NEW log, IsHistory(r, log),
         NEW T, IsOrdered(T), Agree(T), T \subseteq Transactions,
         Stored(r) \subseteq T, Stored(srv) \subseteq T,
         NEW e, NEW n \in Nat, IsOwn(e, r, n),
         NEW b, NEW step, Pushable(step, r, srv.latest, b)
  PROVE  IsPushed(e, r, step, n, Chain(srv), b)
  <1> DEFINE u == ChainSince(r, r.synced)
             s == Chain(srv)
  <1>1. PICK p : Cuts(r, r.synced, p, u)
    BY ChainSinceCuts DEF IsHistory
  <1>2. r.synced = srv.latest /\ b \in Seq(Transactions) /\ Begins(b, u)
    BY DEF Pushable, Begins
  <1>3. s \in Seq(T) /\ Path(s, NoId, srv.latest) /\ s \in Seq(Transactions)
    BY ReadableChain, SeqMonotonic
  <1>4. HoldsFirst(e, Chain(r), n) /\ AllBy(e, u)
    BY DEF IsOwn
  <1> HIDE DEF u, s
  <1>5. /\ p \in Seq(T) /\ Path(p, NoId, srv.latest) /\ u \in Seq(Stored(r))
        /\ Chain(r) = p \o u
    BY <1>1, <1>2, SeqMonotonic DEF Cuts
  <1>6. p = s
    BY <1>3, <1>5, PathUnique DEF NoId
  <1>7. PICK v \in Seq(Transactions) : u = b \o v
    BY <1>2 DEF Begins
  <1>8. Chain(r) = (s \o b) \o v /\ s \o b \in Seq(Transactions)
    <2>1. s \in Seq(Transactions) /\ b \in Seq(Transactions) /\ v \in Seq(Transactions)
      BY <1>2, <1>3, <1>7
    <2>2. (s \o b) \o v = s \o (b \o v)
      BY <2>1, Regroup
    <2>3. s \o b \in Seq(Transactions)
      BY <2>1, ConcatRange, Zenon
    <2>4. Chain(r) = s \o (b \o v)
      BY <1>5, <1>6, <1>7
    <2> QED BY <2>2, <2>3, <2>4
  <1>9. \E k \in 0..n : HoldsFirst(e, s \o b, k)
    <2> DEFINE sb == s \o b
    <2>1. sb \in Seq(Transactions) /\ HoldsFirst(e, sb \o v, n)
      BY <1>4, <1>8
    <2> HIDE DEF sb
    <2>2. \E k \in 0..n : HoldsFirst(e, sb, k)
      BY <1>7, <2>1, HoldsPrefix
    <2> QED BY <2>2 DEF sb
  <1>10. AllBy(e, b)
    BY <1>2, <1>4, <1>7, AllByConcat
  <1>11. Range(b) \subseteq Stored(r)
    <2>1. Range(u) = Range(b) \cup Range(v)
      BY <1>2, <1>7, ConcatRange
    <2>2. Range(u) \subseteq Stored(r)
      BY <1>5, RangeOfSeq
    <2> QED BY <2>1, <2>2
  <1> QED BY <1>9, <1>10, <1>11 DEF IsPushed, Pushable, s

\* The devices find the log in order, whatever the server did to it.
LEMMA DevicesFaith ==
  ASSUME NEW log \in Seq(Transactions), NEW b \in Seq(Transactions),
         NEW e, NEW s, NEW at, NEW m, IsPushed(e, s, at, m, log, b),
         NEW c, NEW r, NEW step, NEW j, NEW n, Device(c, r, step, j, n, log),
         c = e => r = s /\ step = at /\ n = m
  PROVE  Device(c, r, step, j, n, log \o b)
  <1>1. Range(log \o b) = Range(log) \cup Range(b)
    BY ConcatRange
  <1>2. AllBy(e, b) /\ Range(b) \subseteq Stored(s)
    BY DEF IsPushed
  <1>3. \A tx \in Range(b) : tx.body.by = e
    BY <1>2 DEF AllBy, Range
  <1>4. KeepsOwn(c, r, step, j, log)
    BY DEF Device
  <1>5. CASE c = e
    <2>1. KeepsOwn(c, r, step, j, log \o b)
      BY <1>1, <1>2, <1>4, <1>5 DEF KeepsOwn, IsPushed
    <2>2. \E k \in 0..n : HoldsFirst(c, log \o b, k)
      BY <1>5 DEF IsPushed
    <2> QED BY <2>1, <2>2 DEF Device
  <1>6. CASE c # e
    <2>1. NoneBy(c, b)
      BY <1>2, <1>6 DEF AllBy, NoneBy
    <2>2. KeepsOwn(c, r, step, j, log \o b)
      BY <1>1, <1>3, <1>4, <1>6 DEF KeepsOwn
    <2>3. PICK k \in 0..n : HoldsFirst(c, log, k)
      BY DEF Device
    <2>4. HoldsFirst(c, log \o b, k)
      BY <2>1, <2>3, HoldsOthers
    <2> QED BY <2>2, <2>4 DEF Device
  <1> QED BY <1>5, <1>6

LEMMA LogFaith ==
  ASSUME Inv, HistInv, IsReadable(server), [Next]_vars, Faith(Chain(server), server.latest),
         NEW log, log = Chain(server'), NEW latest, latest = server'.latest
  PROVE  Faith(log, latest)
  <1>1. FilesInOrder
    BY FilesAreInOrder
  <1>2. CASE log = Chain(server) /\ latest = server.latest
    BY <1>2
  <1>3. ASSUME NEW b \in InFlight, Accepts(server, b), Extends(server', server, b)
        PROVE  Faith(log, latest)
    <2>1. /\ b \in Seq(Transactions) /\ b \in Seq(Copies) /\ IsPush(b, server.latest)
      BY <1>1, SeqOfRange, SeqMonotonic DEF FilesInOrder, Faith
    <2>2. /\ b # << >> /\ log = Chain(server) \o b /\ Path(b, server.latest, latest)
          /\ server.latest = b[1].parent
      BY <1>3 DEF Extends, Accepts
    <2>3. PICK e \in Clients : Pushable(pc[e], repo[e], server.latest, b)
      BY <2>1, <2>2 DEF IsPush
    <2>4. /\ IsFiled(repo[e]) /\ repo[e].latest \in Nat /\ repo[e].synced \in Nat
          /\ IsHistory(repo[e], Log) /\ recorded[e] \in Nat /\ Stored(repo[e]) \subseteq Copies
          /\ IsOwn(e, repo[e], recorded[e])
      BY <1>1 DEF FilesInOrder, HistInv, Inv, TypeOK, Faith, Device
    <2>5. /\ IsFiled(server) /\ server.latest \in Nat /\ Stored(server) \subseteq Copies
          /\ IsOrdered(Copies) /\ Agree(Copies) /\ Copies \subseteq Transactions
      BY <1>1 DEF FilesInOrder
    <2>6. IsPushed(e, repo[e], pc[e], recorded[e], Chain(server), b)
      BY <2>3, <2>4, <2>5, PushedByOne
    <2>7. Chain(server) \in Seq(Transactions)
      BY <2>5, ReadableChain, SeqMonotonic
    <2>8. ASSUME NEW c \in Clients
          PROVE  Device(c, repo[c], pc[c], job[c], recorded[c], log)
      <3>1. Device(c, repo[c], pc[c], job[c], recorded[c], Chain(server))
        BY DEF Faith
      <3>2. Device(c, repo[c], pc[c], job[c], recorded[c], Chain(server) \o b)
        <4>1. c = e => repo[c] = repo[e] /\ pc[c] = pc[e] /\ recorded[c] = recorded[e]
          OBVIOUS
        <4> QED BY <2>1, <2>6, <2>7, <3>1, <4>1, DevicesFaith, SMTT(60)
      <3> QED BY <2>2, <3>2
    <2>9. server.latest < latest
      <3>1. 1 \in 1..Len(b)
        BY <2>1, <2>2, LenProperties, EmptySeq
      <3> QED BY <2>1, <2>2, <2>5, <3>1, PathBounds
    <2>10. latest \in Nat
      <3>1. Len(b) \in 1..Len(b)
        BY <2>1, <2>2, LenProperties, EmptySeq
      <3> QED BY <2>1, <2>2, <2>5, <3>1, ElementOfSeq DEF Path, IsOrdered
    <2>11. ASSUME NEW x \in InFlight PROVE IsPush(x, latest)
      <3>1. x # << >> /\ x[1].parent <= server.latest /\ x \in Seq(Transactions)
        BY <1>1 DEF FilesInOrder, Faith, IsPush
      <3>2. x[1] \in Transactions
        BY <3>1, LenProperties, EmptySeq, ElementOfSeq
      <3>3. x[1].parent \in Nat
        BY <3>2 DEF Transactions
      <3>4. x[1].parent < latest
        BY <2>5, <2>9, <2>10, <3>1, <3>3
      <3> QED BY <2>10, <3>1, <3>3, <3>4 DEF IsPush
    <2> QED BY <2>8, <2>11 DEF Faith
  <1> QED BY <1>2, <1>3, LogStep

-------------------------------------------------------------------------------
(* The invariant.                                                            *)

FInv == ~rewound => Faith(Chain(server), server.latest)

\* A step of device c touches no other device.
Moves(c, s) ==
  /\ \A d \in Clients : repo'[d] = IF d = c THEN repo'[c] ELSE repo[d]
  /\ pc' = [pc EXCEPT ![c] = s]
  /\ job' = [job EXCEPT ![c] = job'[c]]
  /\ recorded' = [recorded EXCEPT ![c] = recorded'[c]]

\* A write of device c, or none, and a change of its local variables.
LEMMA MovesOne ==
  ASSUME Inv, NEW c \in Clients, NEW s,
         (\E r : Write(c, r)) \/ repo' = repo \/ repo' = [repo EXCEPT ![c] = disk[c]],
         pc' = [pc EXCEPT ![c] = s],
         job' = job \/ \E j : job' = [job EXCEPT ![c] = j],
         recorded' = recorded \/ \E n : recorded' = [recorded EXCEPT ![c] = n]
  PROVE  Moves(c, s)
  <1>1. DOMAIN repo = Clients /\ job \in [Clients -> Jobs] /\ recorded \in [Clients -> Nat]
    BY DEF Inv, TypeOK
  <1>2. \A d \in Clients : repo'[d] = IF d = c THEN repo'[c] ELSE repo[d]
    BY <1>1 DEF Write
  <1>3. job' = [job EXCEPT ![c] = job'[c]]
    BY <1>1
  <1>4. recorded' = [recorded EXCEPT ![c] = recorded'[c]]
    BY <1>1
  <1> QED BY <1>2, <1>3, <1>4 DEF Moves

\* A step of a device, while the server rests.
LEMMA LocalFaith ==
  ASSUME Inv, Faith(Chain(server), server.latest), server' = server, late' = late,
         NEW c \in Clients, NEW s, Moves(c, s), s # "pushing",
         Device(c, repo'[c], s, job'[c], recorded'[c], Chain(server)),
         KeepsPushes(c, repo'[c], s, server.latest)
  PROVE  Faith(Chain(server), server.latest)'
  <1> DEFINE r == repo'[c]
             j == job'[c]
             n == recorded'[c]
             log == Chain(server)
             latest == server.latest
  <1>1. log = Chain(server)' /\ latest = server'.latest /\ late' \subseteq InFlight
    BY DEF InFlight
  <1>2. /\ \A d \in Clients : repo'[d] = IF d = c THEN r ELSE repo[d]
        /\ pc' = [pc EXCEPT ![c] = s] /\ job' = [job EXCEPT ![c] = j]
        /\ recorded' = [recorded EXCEPT ![c] = n]
    BY DEF Moves
  <1>3. Faith(log, latest) /\ Device(c, r, s, j, n, log) /\ KeepsPushes(c, r, s, latest)
    OBVIOUS
  <1> HIDE DEF r, j, n, log, latest
  <1> QED BY <1>1, <1>2, <1>3, FaithStep

\* A device goes on to a step that writes nothing, while the server does anything.
LEMMA RestFaith ==
  ASSUME Inv, Faith(Chain(server)', server'.latest),
         NEW c \in Clients, NEW s, Moves(c, s), late' \subseteq InFlight,
         repo'[c] = repo[c], recorded'[c] = recorded[c],
         s \notin {"recording", "storing", "deleting"},
         s = "pushing" => /\ job'[c].batch # << >> /\ job'[c].batch[1].parent <= server'.latest
                          /\ job'[c].batch[1].parent = server'.latest =>
                               Pushable(s, repo[c], server'.latest, job'[c].batch)
  PROVE  Faith(Chain(server), server.latest)'
  <1> DEFINE r == repo[c]
             j == job'[c]
             n == recorded[c]
             log == Chain(server)'
             latest == server'.latest
  <1>1. /\ \A d \in Clients : repo'[d] = IF d = c THEN r ELSE repo[d]
        /\ pc' = [pc EXCEPT ![c] = s] /\ job' = [job EXCEPT ![c] = j]
        /\ recorded' = [recorded EXCEPT ![c] = n]
    BY DEF Moves
  <1>2. Faith(log, latest)
    OBVIOUS
  <1>3. Device(c, r, s, j, n, log)
    BY <1>2, DeviceRests DEF Faith
  <1>4. KeepsPushes(c, r, s, latest)
    BY DEF KeepsPushes, Pushable
  <1>5. s = "pushing" => /\ j.batch # << >> /\ j.batch[1].parent <= latest
                         /\ j.batch[1].parent = latest => Pushable(s, r, latest, j.batch)
    OBVIOUS
  <1>6. log = Chain(server)' /\ latest = server'.latest
    OBVIOUS
  <1> HIDE DEF r, j, n, log, latest
  <1> QED BY <1>1, <1>2, <1>3, <1>4, <1>5, <1>6, FaithStep

\* What a device pushes sits on the last transaction it knows the server to have.
LEMMA PushIsNew ==
  ASSUME Inv, HistInv, IsReadable(server), NEW c \in Clients, PushTransactions(c)
  PROVE  LET b == job'[c].batch
         IN  /\ b # << >> /\ b[1].parent <= server.latest
             /\ b[1].parent = server.latest => Pushable("pushing", repo[c], server.latest, b)
  <1> DEFINE r == repo[c]
             b == ChainSince(r, r.synced)
  <1>1. job'[c].batch = b /\ b # << >>
    BY NoJobType DEF PushTransactions, SetJob, Unsynchronized, Inv, TypeOK, NoJob
  <1>2. /\ IsFiled(r) /\ r.latest \in Nat /\ r.synced \in Nat /\ IsHistory(r, Log)
        /\ Stored(r) \subseteq Transactions
    BY FilesAreInOrder DEF FilesInOrder, HistInv
  <1>3. PICK p : Cuts(r, r.synced, p, b)
    BY <1>2, ChainSinceCuts DEF IsHistory
  <1> HIDE DEF b, r
  <1>4. b \in Seq(Transactions) /\ b[1].parent = r.synced
    BY <1>1, <1>2, <1>3, SeqMonotonic DEF Cuts, Path
  <1>5. r.synced <= server.latest
    BY <1>2, LogEnds DEF IsHistory
  <1>6. Begins(b, b)
    <2>1. << >> \in Seq(Transactions) /\ b \o << >> = b
      BY <1>4, EmptySeq, ConcatEmptySeq
    <2> QED BY <1>4, <2>1 DEF Begins
  <1>7. r.synced = server.latest => Pushable("pushing", r, server.latest, b)
    BY <1>6 DEF Pushable, b
  <1> QED BY <1>1, <1>4, <1>5, <1>7 DEF r

\* Recording, and the writes of a rebase and of a push.
LEMMA WritesFaith ==
  ASSUME Inv, HistInv, IsReadable(server), Faith(Chain(server), server.latest), FilesInOrder',
         NEW c \in Clients,
         \/ RecordTransaction(c) \/ SetLatest(c) \/ GetChildTransactions(c)
         \/ StoreTransaction(c) \/ SaveAccount(c) \/ CollectGarbage(c)
         \/ SetLatestSynchronized(c)
  PROVE  Faith(Chain(server), server.latest)'
  <1>0. Device(c, repo[c], pc[c], job[c], recorded[c], Chain(server))
    BY DEF Faith
  <1>1. server' = server /\ late' = late
    BY DEF RecordTransaction, SetLatest, GetChildTransactions, StoreTransaction,
           SaveAccount, CollectGarbage, SetLatestSynchronized, Offline
  <1>2. CASE RecordTransaction(c)
    <2>1. PICK t : IsRecorded(c, t)
      BY <1>2, RecordedTransaction
    <2>2. recorded' = recorded /\ Moves(c, "recording")
      <3>1. /\ \E r : Write(c, r)
            /\ pc' = [pc EXCEPT ![c] = "recording"]
            /\ \E j : job' = [job EXCEPT ![c] = j]
            /\ recorded' = recorded
        BY <2>1 DEF IsRecorded
      <3> QED BY <3>1, MovesOne
    <2>3. /\ Device(c, repo'[c], "recording", job'[c], recorded'[c], Chain(server))
          /\ KeepsPushes(c, repo'[c], "recording", server.latest)
      BY <1>0, <2>1, <2>2, RecordTransactionFaith
    <2> QED BY <1>1, <2>2, <2>3, LocalFaith
  <1>3. CASE SetLatest(c)
    <2>1. recorded'[c] = recorded[c] + 1 /\ Moves(c, "idle")
      <3>1. /\ \E r : Write(c, r)
            /\ pc' = [pc EXCEPT ![c] = "idle"]
            /\ \E j : job' = [job EXCEPT ![c] = j]
            /\ recorded' = [recorded EXCEPT ![c] = recorded[c] + 1]
        BY <1>3 DEF SetLatest, Goto, SetJob
      <3>2. recorded'[c] = recorded[c] + 1
        BY <3>1 DEF Inv, TypeOK
      <3> QED BY <3>1, <3>2, MovesOne
    <2>2. /\ Device(c, repo'[c], "idle", job'[c], recorded'[c], Chain(server))
          /\ KeepsPushes(c, repo'[c], "idle", server.latest)
      BY <1>0, <1>3, <2>1, SetLatestFaith
    <2> QED BY <1>1, <2>1, <2>2, LocalFaith
  <1>4. CASE GetChildTransactions(c)
    <2>1. recorded' = recorded /\ repo' = repo /\ Moves(c, "storing")
      <3>1. /\ repo' = repo
            /\ pc' = [pc EXCEPT ![c] = "storing"]
            /\ \E j : job' = [job EXCEPT ![c] = j]
            /\ recorded' = recorded
        BY <1>4 DEF GetChildTransactions, Goto, SetJob
      <3> QED BY <3>1, MovesOne
    <2>2. /\ Device(c, repo'[c], "storing", job'[c], recorded'[c], Chain(server))
          /\ KeepsPushes(c, repo'[c], "storing", server.latest)
      BY <1>0, <1>4, <2>1, RebaseFaith
    <2> QED BY <1>1, <2>1, <2>2, LocalFaith
  <1>5. CASE StoreTransaction(c)
    <2>1. recorded' = recorded /\ Moves(c, "storing")
      <3>1. /\ \E r : Write(c, r)
            /\ pc' = [pc EXCEPT ![c] = "storing"]
            /\ \E j : job' = [job EXCEPT ![c] = j]
            /\ recorded' = recorded
        BY <1>5 DEF StoreTransaction, Goto, SetJob
      <3> QED BY <3>1, MovesOne
    <2>2. /\ Device(c, repo'[c], "storing", job'[c], recorded'[c], Chain(server))
          /\ KeepsPushes(c, repo'[c], "storing", server.latest)
      BY <1>0, <1>5, <2>1, StoreTransactionFaith
    <2> QED BY <1>1, <2>1, <2>2, LocalFaith
  <1>6. CASE SaveAccount(c)
    <2>1. recorded' = recorded /\ job' = job /\ Moves(c, "deleting")
      <3>1. /\ \E r : Write(c, r)
            /\ pc' = [pc EXCEPT ![c] = "deleting"]
            /\ job' = job /\ recorded' = recorded
        BY <1>6 DEF SaveAccount, Goto
      <3> QED BY <3>1, MovesOne
    <2>2. /\ Device(c, repo'[c], "deleting", job'[c], recorded'[c], Chain(server))
          /\ KeepsPushes(c, repo'[c], "deleting", server.latest)
      BY <1>0, <1>6, <2>1, SaveAccountFaith
    <2> QED BY <1>1, <2>1, <2>2, LocalFaith
  <1>7. CASE CollectGarbage(c)
    <2>1. recorded' = recorded /\ Moves(c, "deleting")
      <3>1. /\ \E r : Write(c, r)
            /\ pc' = [pc EXCEPT ![c] = "deleting"]
            /\ \E j : job' = [job EXCEPT ![c] = j]
            /\ recorded' = recorded
        BY <1>7 DEF CollectGarbage, Goto, SetJob
      <3> QED BY <3>1, MovesOne
    <2>2. /\ Device(c, repo'[c], "deleting", job'[c], recorded'[c], Chain(server))
          /\ KeepsPushes(c, repo'[c], "deleting", server.latest)
      BY <1>0, <1>7, <2>1, CollectGarbageFaith
    <2> QED BY <1>1, <2>1, <2>2, LocalFaith
  <1>8. CASE SetLatestSynchronized(c)
    <2>1. recorded' = recorded /\ Moves(c, "idle")
      <3>1. /\ \E r : Write(c, r)
            /\ pc' = [pc EXCEPT ![c] = "idle"]
            /\ \E j : job' = [job EXCEPT ![c] = j]
            /\ recorded' = recorded
        BY <1>8 DEF SetLatestSynchronized, Goto, SetJob
      <3> QED BY <3>1, MovesOne
    <2>2. /\ Device(c, repo'[c], "idle", job'[c], recorded'[c], Chain(server))
          /\ KeepsPushes(c, repo'[c], "idle", server.latest)
      BY <1>0, <1>8, <2>1, MarkFaith
    <2> QED BY <1>1, <2>1, <2>2, LocalFaith
  <1> QED BY <1>2, <1>3, <1>4, <1>5, <1>6, <1>7, <1>8

\* The calls of sync(), and what is computed between them.
LEMMA CallsFaith ==
  ASSUME Inv, HistInv, IsReadable(server), Faith(Chain(server), server.latest),
         NEW c \in Clients,
         \/ GetLatestTransaction(c) \/ RefuseRebase(c) \/ EndRebase(c)
         \/ PushTransactions(c) \/ PushNothing(c)
  PROVE  Faith(Chain(server), server.latest)'
  <1>1. server' = server /\ late' = late /\ repo' = repo /\ recorded' = recorded
    BY DEF GetLatestTransaction, RefuseRebase, EndRebase, PushTransactions, PushNothing, Offline
  <1>2. Faith(Chain(server)', server'.latest) /\ late' \subseteq InFlight
    BY <1>1 DEF InFlight
  <1>3. ASSUME NEW s, pc' = [pc EXCEPT ![c] = s],
               job' = job \/ \E j : job' = [job EXCEPT ![c] = j]
        PROVE  Moves(c, s)
    BY <1>1, <1>3, MovesOne
  <1>4. CASE PushTransactions(c)
    <2>1. pc' = [pc EXCEPT ![c] = "pushing"] /\ \E j : job' = [job EXCEPT ![c] = j]
      BY <1>4 DEF PushTransactions, Goto, SetJob
    <2>2. Moves(c, "pushing")
      BY <1>3, <2>1
    <2>3. /\ job'[c].batch # << >> /\ job'[c].batch[1].parent <= server'.latest
          /\ job'[c].batch[1].parent = server'.latest =>
               Pushable("pushing", repo[c], server'.latest, job'[c].batch)
      BY <1>1, <1>4, PushIsNew
    <2> QED BY <1>1, <1>2, <2>2, <2>3, RestFaith
  <1>5. CASE GetLatestTransaction(c)
    <2>1. PICK s \in {"collecting", "fetching"} : pc' = [pc EXCEPT ![c] = s] /\ job' = job
      BY <1>5 DEF GetLatestTransaction, Goto
    <2>2. Moves(c, s)
      BY <1>3, <2>1
    <2> QED BY <1>1, <1>2, <2>2, RestFaith
  <1>6. CASE RefuseRebase(c) \/ EndRebase(c) \/ PushNothing(c)
    <2>1. PICK s \in {"idle", "collecting"} :
            /\ pc' = [pc EXCEPT ![c] = s]
            /\ job' = job \/ \E j : job' = [job EXCEPT ![c] = j]
      BY <1>6 DEF RefuseRebase, EndRebase, PushNothing, Goto, SetJob
    <2>2. Moves(c, s)
      BY <1>3, <2>1
    <2> QED BY <1>1, <1>2, <2>2, RestFaith
  <1> QED BY <1>4, <1>5, <1>6

\* The end of a push, whatever becomes of it, and a crash that loses no write.
LEMMA FaultsFaith ==
  ASSUME Inv, Faith(Chain(server)', server'.latest), ~rewound', NEW c \in Clients,
         \/ AnswerPush(c) \/ LoseRequest(c) \/ DelayRequest(c) \/ LoseReply(c)
         \/ CrashServer(c) \/ Crash(c)
  PROVE  Faith(Chain(server), server.latest)'
  <1>1. PICK s \in {"idle", "marking"} :
          pc' = [pc EXCEPT ![c] = s] /\ \E j : job' = [job EXCEPT ![c] = j]
    BY DEF AnswerPush, LoseRequest, DelayRequest, LoseReply, CrashServer, FailPush, Crash,
           Goto, SetJob
  <1>2. recorded' = recorded
    BY DEF AnswerPush, LoseRequest, DelayRequest, LoseReply, CrashServer, FailPush, Crash
  <1>3. late' \subseteq InFlight
    BY DEF AnswerPush, LoseRequest, DelayRequest, LoseReply, CrashServer, FailPush, Crash,
           Goto, InFlight
  <1>4. (repo' = repo \/ repo' = [repo EXCEPT ![c] = disk[c]]) /\ repo'[c] = repo[c]
    BY DEF AnswerPush, LoseRequest, DelayRequest, LoseReply, CrashServer, FailPush, Crash,
           Inv, TypeOK
  <1>5. Moves(c, s)
    BY <1>1, <1>2, <1>4, MovesOne
  <1> QED BY <1>2, <1>3, <1>4, <1>5, RestFaith

\* The server alone, a flush, and steps that change nothing.
LEMMA ServerFaith ==
  ASSUME Faith(Chain(server)', server'.latest), UNCHANGED <<repo, pc, job, recorded>>,
         late' \subseteq late
  PROVE  Faith(Chain(server), server.latest)'
  <1>1. InFlight' \subseteq InFlight
    BY DEF InFlight
  <1>2. \A b, latest : IsPush(b, latest) => IsPush(b, latest)'
    BY DEF IsPush
  <1> QED BY <1>1, <1>2 DEF Faith

\* Only a crash is a crash.
LEMMA CrashOrNot == [Next]_vars => NoCrash \/ \E c \in Clients : Crash(c)
  <1> SUFFICES ASSUME [Next]_vars PROVE NoCrash \/ \E c \in Clients : Crash(c)
    OBVIOUS
  <1>1. ASSUME NEW c \in Clients, Sync(c) PROVE NoCrash
    BY <1>1 DEF Sync, SetLatest, GetLatestTransaction, GetChildTransactions, RefuseRebase,
       StoreTransaction, SaveAccount, CollectGarbage, EndRebase, PushTransactions, PushNothing,
       AnswerPush, SetLatestSynchronized
  <1>2. ASSUME NEW c \in Clients,
               \/ RecordTransaction(c) \/ LoseRequest(c) \/ DelayRequest(c) \/ LoseReply(c)
               \/ CrashServer(c) \/ Flush(c)
        PROVE  NoCrash
    BY <1>2 DEF RecordTransaction, LoseRequest, DelayRequest, LoseReply, CrashServer, FailPush,
       Flush
  <1>3. CASE AnswerLatePush \/ UNCHANGED vars
    BY <1>3 DEF AnswerLatePush, NoCrash, vars
  <1> QED BY <1>1, <1>2, <1>3 DEF Next

\* A crash that has lost a write has done so for good, and is never forgotten.
LEMMA CrashesStay ==
  ASSUME Inv, [Next]_vars
  PROVE  (rewound => rewound') /\ (crashes' = 0 => crashes = 0 /\ NoCrash)
  <1>1. CASE NoCrash
    BY <1>1 DEF NoCrash
  <1>2. ASSUME NEW c \in Clients, Crash(c) PROVE (rewound => rewound') /\ crashes' # 0
    BY <1>2 DEF Crash, Inv, TypeOK
  <1> QED BY <1>1, <1>2, CrashOrNot

LEMMA FaithNext ==
  ASSUME Inv, Inv', HistInv, IsReadable(server), FInv, [Next]_vars
  PROVE  FInv'
  <1> SUFFICES ASSUME ~rewound' PROVE Faith(Chain(server), server.latest)'
    BY DEF FInv
  <1>1. Faith(Chain(server), server.latest)
    BY CrashesStay DEF FInv
  <1>2. FilesInOrder'
    BY FilesStayInOrder
  <1>3. Faith(Chain(server)', server'.latest)
    BY <1>1, LogFaith
  <1>4. ASSUME NEW c \in Clients, Sync(c) \/ RecordTransaction(c)
        PROVE  Faith(Chain(server), server.latest)'
    <2>1. CASE AnswerPush(c)
      BY <1>3, <2>1, FaultsFaith
    <2>2. CASE \/ RecordTransaction(c) \/ SetLatest(c) \/ GetChildTransactions(c)
               \/ StoreTransaction(c) \/ SaveAccount(c) \/ CollectGarbage(c)
               \/ SetLatestSynchronized(c)
      BY <1>1, <1>2, <2>2, WritesFaith
    <2>3. CASE \/ GetLatestTransaction(c) \/ RefuseRebase(c) \/ EndRebase(c)
               \/ PushTransactions(c) \/ PushNothing(c)
      BY <1>1, <2>3, CallsFaith
    <2> QED BY <1>4, <2>1, <2>2, <2>3 DEF Sync
  <1>5. ASSUME NEW c \in Clients,
               \/ LoseRequest(c) \/ DelayRequest(c) \/ LoseReply(c) \/ CrashServer(c) \/ Crash(c)
        PROVE  Faith(Chain(server), server.latest)'
    BY <1>3, <1>5, FaultsFaith
  <1>6. ASSUME NEW c \in Clients, Flush(c) PROVE Faith(Chain(server), server.latest)'
    <2>1. UNCHANGED <<repo, pc, job, recorded>> /\ late' \subseteq late
      BY <1>6 DEF Flush, Offline
    <2> QED BY <1>3, <2>1, ServerFaith
  <1>7. CASE AnswerLatePush \/ UNCHANGED vars
    <2>1. UNCHANGED <<repo, pc, job, recorded>> /\ late' \subseteq late
      BY <1>7 DEF AnswerLatePush, vars
    <2> QED BY <1>3, <2>1, ServerFaith
  <1> QED BY <1>4, <1>5, <1>6, <1>7 DEF Next

\* Nothing is recorded in the beginning.
LEMMA InitFaith == Init => FInv
  <1> SUFFICES ASSUME Init PROVE Faith(Chain(server), server.latest)
    BY DEF FInv
  <1> DEFINE r == EmptyRepo
  <1>1. IsFiled(r) /\ r.latest = NoId /\ r.synced = NoId /\ NoId \in Nat
    BY DEF EmptyRepo, IsFiled, IsOrdered, Stored, Range, NoId
  <1> HIDE DEF r
  <1>2. Chain(r) = << >> /\ ChainSince(r, r.synced) = << >>
    <2>1. ChainSince(r, NoId) = << >>
      BY <1>1, NoNews
    <2> QED BY <1>1, <2>1 DEF Chain
  <1>3. \A c : HoldsFirst(c, << >>, 0) /\ AllBy(c, << >>)
    <2>1. 1..0 = {} /\ DOMAIN << >> = {}
      OBVIOUS
    <2>2. \A c : RecordedBy(c, << >>) = {} /\ AllBy(c, << >>)
      BY <2>1 DEF RecordedBy, AllBy
    <2> QED BY <2>1, <2>2 DEF HoldsFirst
  <1>4. \A c : Device(c, r, "idle", NoJob, 0, << >>)
    <2>1. 0 \in 0..0 /\ Range(<< >>) = {}
      BY DEF Range
    <2> QED BY <1>2, <1>3, <2>1 DEF Device, IsOwn, KeepsOwn
  <1>5. InFlight = {}
    BY DEF Init, InFlight
  <1> QED BY <1>2, <1>4, <1>5 DEF Init, Faith, r

LEMMA FaithAlways == Spec => []FInv
  <1>1. Inv /\ Inv' /\ HistInv /\ IsReadable(server) /\ FInv /\ [Next]_vars => FInv'
    BY FaithNext
  <1> QED BY <1>1, InitFaith, InvAlways, HistoryAlways, LogReadable, PTL DEF Spec

\* On its own device, whatever is recorded stays in the history, once and in the order
\* of recording, through every rebase, error and crash that keeps the writes, for any
\* number of devices that push and rebase at the same time.
\* (rebase_local_transactions and rebase_transactions, sync.rs.)
THEOREM NothingRecordedIsLost == Spec => []OwnHistoryComplete
  <1>1. FInv => OwnHistoryComplete
    BY DEF FInv, Faith, Device, IsOwn, OwnHistoryComplete
  <1> QED BY <1>1, FaithAlways, PTL

\* The server's log holds the first so many transactions of every device, each once and
\* in the order of recording: pushes that are retried, refused, late, repeated or cut off
\* by a crash of the server leave no gap and no duplicate.
\* (receive_transactions, jsonrpcremote.rs; sync, sync.rs.)
THEOREM LogIsFaithful == Spec => []ServerLogFaithful
  <1>1. FInv => ServerLogFaithful
    BY DEF FInv, Faith, Device, ServerLogFaithful
  <1> QED BY <1>1, FaithAlways, PTL

-------------------------------------------------------------------------------
(* What is stored besides the chain.                                         *)

\* What device c stores at a step of its operation, with local variables j: its chain,
\* what it has just stored to set it as the latest, and what a rebase has still to
\* collect.
IsSwept(r, step, j) ==
  /\ step = "recording" => DOMAIN r.txs \subseteq Uuids(Chain(r)) \cup {j.latest}
  /\ step = "storing" => DOMAIN r.txs \cup Uuids(j.batch)
                           \subseteq Uuids(Chain(NextFile(r, j))) \cup Range(j.garbage)
  /\ step = "deleting" => DOMAIN r.txs \subseteq Uuids(Chain(r)) \cup Range(j.garbage)
  /\ step \notin {"recording", "storing", "deleting"} => DOMAIN r.txs \subseteq Uuids(Chain(r))

Swept == crashes = 0 => \A c \in Clients : IsSwept(repo[c], pc[c], job[c])

\* delete_transaction.
LEMMA DeletedFile ==
  ASSUME NEW r, IsRepo(r), NEW id
  PROVE  DOMAIN DeleteTransaction(r, id).txs = DOMAIN r.txs \ {id}
  BY DEF DeleteTransaction, IsRepo

LEMMA SweptStep ==
  ASSUME Inv, crashes = 0, Swept, NEW c \in Clients, NEW s, Moves(c, s),
         IsSwept(repo'[c], s, job'[c])
  PROVE  Swept'
  <1>1. pc'[c] = s /\ \A d \in Clients : d # c => pc'[d] = pc[d] /\ job'[d] = job[d]
    BY DEF Inv, TypeOK, Moves
  <1>2. \A d \in Clients : d # c => repo'[d] = repo[d]
    BY DEF Moves
  <1>3. ASSUME NEW d \in Clients PROVE IsSwept(repo'[d], pc'[d], job'[d])
    <2>1. CASE d = c
      BY <1>1, <2>1
    <2>2. CASE d # c
      BY <1>1, <1>2, <2>2 DEF Swept
    <2> QED BY <2>1, <2>2
  <1> QED BY <1>3 DEF Swept

\* Every transaction of a readable chain is in the file, under its uuid.
LEMMA FileOfKept ==
  ASSUME NEW r, IsRepo(r), NEW q, IsRepo(q)
  PROVE  /\ \A tx : Stored(q) = Stored(r) \cup {tx} => DOMAIN q.txs = DOMAIN r.txs \cup {tx.uuid}
         /\ Stored(q) = Stored(r) => DOMAIN q.txs = DOMAIN r.txs
  <1>1. \A id : id \in DOMAIN r.txs <=> \E tx \in Stored(r) : tx.uuid = id
    BY DEF IsRepo, Stored, Range
  <1>2. \A id : id \in DOMAIN q.txs <=> \E tx \in Stored(q) : tx.uuid = id
    BY DEF IsRepo, Stored, Range
  <1> QED BY <1>1, <1>2, ZenonT(40)

LEMMA SweptNext == Inv /\ Inv' /\ HistInv /\ IsReadable(server) /\ Swept /\ [Next]_vars => Swept'
  <1> SUFFICES ASSUME Inv, Inv', HistInv, IsReadable(server), Swept, [Next]_vars, crashes' = 0
               PROVE  Swept'
    BY DEF Swept
  <1>1. FilesInOrder /\ FilesInOrder' /\ crashes = 0 /\ NoCrash
    BY FilesAreInOrder, FilesStayInOrder, CrashesStay
  <1>2. ASSUME NEW c \in Clients, Sync(c) \/ RecordTransaction(c)
        PROVE  Swept'
    <2> DEFINE r == repo[c]
               q == repo'[c]
    <2>0. IsSwept(r, pc[c], job[c]) /\ IsRepo(r) /\ IsRepo(q)
      BY <1>1 DEF Swept, FilesInOrder
    <2>1. CASE RecordTransaction(c)
      <3>1. PICK t : IsRecorded(c, t)
        BY <2>1, RecordedTransaction
      <3>2. /\ \E w : Write(c, w)
            /\ pc' = [pc EXCEPT ![c] = "recording"] /\ pc[c] = "idle"
            /\ \E j : job' = [job EXCEPT ![c] = j]
            /\ recorded' = recorded /\ t.uuid = nextId
        BY <3>1 DEF IsRecorded
      <3>3. job'[c].latest = nextId /\ q = AddTransaction(r, t)
        BY <3>1 DEF IsRecorded, Write, NoJob, Inv, TypeOK
      <3>4. IsKept(q, r) /\ Stored(q) = Stored(r) \cup {t}
        BY <3>1, <3>3, RecordedChain
      <3>5. DOMAIN q.txs = DOMAIN r.txs \cup {nextId} /\ Chain(q) = Chain(r)
        BY <2>0, <3>2, <3>4, FileOfKept DEF IsKept
      <3> HIDE DEF q, r
      <3>6. IsSwept(q, "recording", job'[c])
        BY <2>0, <3>2, <3>3, <3>5 DEF IsSwept
      <3> QED BY <1>1, <3>2, <3>6, MovesOne, SweptStep DEF q
    <2>2. CASE SetLatest(c)
      <3>1. /\ \E w : Write(c, w)
            /\ pc' = [pc EXCEPT ![c] = "idle"] /\ pc[c] = "recording"
            /\ \E j : job' = [job EXCEPT ![c] = j]
            /\ recorded' = [recorded EXCEPT ![c] = recorded[c] + 1]
        BY <2>2 DEF SetLatest, Goto, SetJob
      <3> DEFINE t == r.txs[job[c].latest]
      <3>2. q.txs = r.txs /\ q.latest = t.uuid /\ IsHistory(q, Log) /\ Chain(q) = Chain(r) \o <<t>>
        BY <2>2, LatestSetChain
      <3>3. job[c].latest \in DOMAIN r.txs
        BY <3>1 DEF Inv, PlansKept, KeepsPlan
      <3>4. Chain(r) \in Seq(Stored(r)) /\ t \in Stored(r) /\ t.uuid = job[c].latest
        <4>1. IsHistory(r, Log) /\ IsFiled(r)
          BY <1>1 DEF HistInv, FilesInOrder
        <4> HIDE DEF r
        <4> QED BY <3>3, <4>1, StoredTransaction, ReadableChain DEF IsHistory
      <3> HIDE DEF t
      <3> DEFINE one == <<t>>
      <3>5. one \in Seq(Stored(r)) /\ Uuids(one) = {t.uuid} /\ Chain(q) = Chain(r) \o one
        BY <3>2, <3>4 DEF Uuids
      <3> HIDE DEF one
      <3>6. Uuids(Chain(q)) = Uuids(Chain(r)) \cup {job[c].latest}
        BY <3>4, <3>5, ConcatRange
      <3> HIDE DEF q, r
      <3>7. IsSwept(q, "idle", job'[c])
        BY <2>0, <3>1, <3>2, <3>6 DEF IsSwept
      <3> QED BY <1>1, <3>1, <3>7, MovesOne, SweptStep DEF q
    <2>3. CASE GetChildTransactions(c)
      <3> DEFINE j == job'[c]
                 m == NextFile(r, j)
                 news == News(repo[c], server)
                 old == Unsynchronized(repo[c])
                 rebased == RebaseTransactions(old, j.synced, nextId)
      <3>1. /\ repo' = repo
            /\ pc' = [pc EXCEPT ![c] = "storing"] /\ pc[c] = "fetching"
            /\ \E i : job' = [job EXCEPT ![c] = i]
            /\ recorded' = recorded
        BY <2>3 DEF GetChildTransactions, Goto, SetJob
      <3>2. IsRebased(r, Log, news, old, rebased, j, m) /\ j.batch = news \o rebased
        BY <1>1, <2>3, RebaseHistory
      <3>3. j.garbage = [i \in DOMAIN old |-> old[i].uuid]
        BY <2>3 DEF GetChildTransactions, SetJob, Inv, TypeOK
      <3>4. \A id \in Uuids(old) : id \in Range(j.garbage)
        BY <3>3 DEF Uuids, Range
      <3>5. /\ Uuids(Chain(r)) = Uuids(Synchronized(r)) \cup Uuids(old)
            /\ Uuids(Chain(m)) = Uuids(Synchronized(r)) \cup Uuids(j.batch)
        BY <3>2 DEF IsRebased
      <3> HIDE DEF j, m, q, r, old
      <3>7. IsSwept(r, "storing", j)
        BY <2>0, <3>1, <3>4, <3>5 DEF IsSwept, m
      <3> QED BY <1>1, <3>1, <3>7, MovesOne, SweptStep DEF r, j
    <2>4. CASE StoreTransaction(c)
      <3> DEFINE m == NextFile(r, job[c])
                 k == NextFile(q, job'[c])
      <3>1. /\ \E w : Write(c, w)
            /\ pc' = [pc EXCEPT ![c] = "storing"] /\ pc[c] = "storing"
            /\ \E i : job' = [job EXCEPT ![c] = i]
            /\ recorded' = recorded
        BY <2>4 DEF StoreTransaction, Goto, SetJob
      <3>2. Chain(k) = Chain(m) /\ job'[c].garbage = job[c].garbage
        BY <1>1, <2>4, StoredChain DEF IsKept
      <3>3. DOMAIN q.txs \cup Uuids(job'[c].batch) \subseteq DOMAIN r.txs \cup Uuids(job[c].batch)
        <4> DEFINE b == job[c].batch
        <4>1. b # << >> /\ q = AddTransaction(r, Head(b)) /\ job'[c].batch = Tail(b)
          BY <2>4 DEF StoreTransaction, SetJob, Write, Inv, TypeOK, Jobs
        <4>2. b \in Seq(Transactions)
          BY DEF Inv, TypeOK, Jobs
        <4> HIDE DEF b, q, r
        <4>3. Head(b) \in Transactions /\ Uuids(b) = {Head(b).uuid} \cup Uuids(Tail(b))
          BY <4>1, <4>2, HeadTailRange
        <4>4. DOMAIN q.txs = DOMAIN r.txs \cup {Head(b).uuid}
          BY <2>0, <4>1, <4>3, AddTransactionType
        <4> QED BY <4>1, <4>3, <4>4 DEF b
      <3> HIDE DEF q, r, m, k
      <3>4. IsSwept(q, "storing", job'[c])
        BY <2>0, <3>1, <3>2, <3>3 DEF IsSwept, m, k
      <3> QED BY <1>1, <3>1, <3>4, MovesOne, SweptStep DEF q
    <2>5. CASE SaveAccount(c)
      <3> DEFINE m == NextFile(r, job[c])
      <3>1. /\ \E w : Write(c, w)
            /\ pc' = [pc EXCEPT ![c] = "deleting"] /\ pc[c] = "storing"
            /\ job' = job /\ recorded' = recorded /\ job'[c] = job[c]
        BY <2>5 DEF SaveAccount, Goto
      <3>2. Chain(q) = Chain(m) /\ Stored(q) = Stored(r)
        BY <1>1, <2>5, SavedChain DEF IsKept
      <3> HIDE DEF q, r, m
      <3>3. DOMAIN q.txs = DOMAIN r.txs
        BY <2>0, <3>2, FileOfKept
      <3>4. IsSwept(q, "deleting", job'[c])
        BY <2>0, <3>1, <3>2, <3>3 DEF IsSwept, m
      <3> QED BY <1>1, <3>1, <3>4, MovesOne, SweptStep DEF q
    <2>6. CASE CollectGarbage(c)
      <3> DEFINE g == job[c].garbage
      <3>1. /\ \E w : Write(c, w) /\ w = DeleteTransaction(r, Head(g))
            /\ pc' = [pc EXCEPT ![c] = "deleting"] /\ pc[c] = "deleting"
            /\ \E i : job' = [job EXCEPT ![c] = i]
            /\ recorded' = recorded /\ g # << >>
        BY <2>6 DEF CollectGarbage, Goto, SetJob
      <3>2. Chain(q) = Chain(r)
        BY <1>1, <2>6, CollectedChain DEF IsKept
      <3>3. g \in Seq(Nat) /\ job'[c].garbage = Tail(g)
        BY <2>6 DEF CollectGarbage, SetJob, Inv, TypeOK, Jobs
      <3>4. Range(g) = {Head(g)} \cup Range(Tail(g))
        BY <3>1, <3>3, HeadTailRange
      <3>5. DOMAIN q.txs = DOMAIN r.txs \ {Head(g)}
        <4>1. q = DeleteTransaction(r, Head(g))
          BY <3>1 DEF Write, Inv, TypeOK
        <4> QED BY <2>0, <4>1, DeletedFile
      <3> HIDE DEF q, r, g
      <3>6. IsSwept(q, "deleting", job'[c])
        BY <2>0, <3>1, <3>2, <3>3, <3>4, <3>5 DEF IsSwept, g
      <3> QED BY <1>1, <3>1, <3>6, MovesOne, SweptStep DEF q
    <2>7. CASE SetLatestSynchronized(c)
      <3>1. /\ \E w : Write(c, w)
            /\ pc' = [pc EXCEPT ![c] = "idle"] /\ pc[c] = "marking"
            /\ \E j : job' = [job EXCEPT ![c] = j]
            /\ recorded' = recorded
        BY <2>7 DEF SetLatestSynchronized, Goto, SetJob
      <3>2. q.txs = r.txs /\ Chain(q) = Chain(r)
        BY <1>1, <2>7, MarkedChain
      <3> HIDE DEF q, r
      <3>3. IsSwept(q, "idle", job'[c])
        BY <2>0, <3>1, <3>2 DEF IsSwept
      <3> QED BY <1>1, <3>1, <3>3, MovesOne, SweptStep DEF q
    <2>8. CASE EndRebase(c)
      <3>1. /\ repo' = repo
            /\ pc' = [pc EXCEPT ![c] = "collecting"] /\ pc[c] = "deleting"
            /\ \E j : job' = [job EXCEPT ![c] = j]
            /\ recorded' = recorded /\ job[c].garbage = << >>
        BY <2>8 DEF EndRebase, Goto, SetJob
      <3>2. Range(job[c].garbage) = {}
        BY <3>1 DEF Range
      <3> HIDE DEF r
      <3>3. IsSwept(r, "collecting", job'[c])
        BY <2>0, <3>1, <3>2 DEF IsSwept
      <3> QED BY <1>1, <3>1, <3>3, MovesOne, SweptStep DEF r
    <2>9. CASE \/ GetLatestTransaction(c) \/ RefuseRebase(c) \/ PushTransactions(c)
               \/ PushNothing(c) \/ AnswerPush(c)
      <3>1. PICK s \in {"idle", "fetching", "collecting", "pushing", "marking"} :
              /\ pc' = [pc EXCEPT ![c] = s]
              /\ pc[c] \in {"idle", "fetching", "collecting", "pushing"}
              /\ repo' = repo /\ recorded' = recorded
              /\ job' = job \/ \E j : job' = [job EXCEPT ![c] = j]
        BY <2>9 DEF GetLatestTransaction, RefuseRebase, PushTransactions, PushNothing, AnswerPush,
                    Goto, SetJob
      <3> HIDE DEF r
      <3>2. IsSwept(r, s, job'[c])
        BY <2>0, <3>1 DEF IsSwept
      <3> QED BY <1>1, <3>1, <3>2, MovesOne, SweptStep DEF r
    <2> QED BY <1>2, <2>1, <2>2, <2>3, <2>4, <2>5, <2>6, <2>7, <2>8, <2>9 DEF Sync
  <1>3. ASSUME NEW c \in Clients,
               \/ LoseRequest(c) \/ DelayRequest(c) \/ LoseReply(c) \/ CrashServer(c)
        PROVE  Swept'
    <2>1. /\ pc' = [pc EXCEPT ![c] = "idle"] /\ pc[c] = "pushing" /\ repo' = repo
          /\ recorded' = recorded /\ \E j : job' = [job EXCEPT ![c] = j]
      BY <1>3 DEF LoseRequest, DelayRequest, LoseReply, CrashServer, FailPush, Goto, SetJob
    <2>2. IsSwept(repo[c], "idle", job'[c])
      BY <1>1, <2>1 DEF Swept, IsSwept
    <2> QED BY <1>1, <2>1, <2>2, MovesOne, SweptStep
  <1>4. ASSUME NEW c \in Clients, Flush(c) PROVE Swept'
    BY <1>1, <1>4 DEF Flush, NoCrash, Swept
  <1>5. CASE AnswerLatePush \/ UNCHANGED vars
    BY <1>5 DEF AnswerLatePush, NoCrash, vars, Swept
  <1>6. ASSUME NEW c \in Clients, Crash(c) PROVE FALSE
    BY <1>1, <1>6 DEF Crash, NoCrash, Inv, TypeOK
  <1> QED BY <1>2, <1>3, <1>4, <1>5, <1>6 DEF Next

LEMMA SweptAlways == Spec => []Swept
  <1>1. Init => Swept
    BY DEF Init, Swept, IsSwept, EmptyRepo
  <1> QED BY <1>1, SweptNext, InvAlways, HistoryAlways, LogReadable, PTL DEF Spec

\* A device that no crash has interrupted stores, between two operations, its chain and
\* nothing else: whatever a rebase replaced has been collected, and a rebase that the
\* server's news refuse has stored nothing.
\* (Garbage collection of rebase_local_transactions, sync.rs.)
THEOREM NothingIsLeftBehind == Spec => []NoLitter
  <1>1. Inv /\ HistInv /\ Swept => NoLitter
    <2> SUFFICES ASSUME Inv, HistInv, Swept, crashes = 0, NEW c \in Clients, pc[c] = "idle"
                 PROVE  DOMAIN repo[c].txs = Uuids(Chain(repo[c]))
      BY DEF NoLitter
    <2>1. DOMAIN repo[c].txs \subseteq Uuids(Chain(repo[c]))
      BY DEF Swept, IsSwept
    <2>2. IsFiled(repo[c]) /\ IsReadable(repo[c])
      BY FilesAreInOrder DEF FilesInOrder, HistInv, IsHistory
    <2> QED BY <2>1, <2>2, ChainIsStored
  <1> QED BY <1>1, SweptAlways, InvAlways, HistoryAlways, PTL

-------------------------------------------------------------------------------
(* The refinement: the numbers of what a device appends.                     *)

\* The first n numbers of f increase, and are all those from k + 1 to m.
Increases(f, n, k, m) ==
  /\ \A i \in 1..n : f[i] \in (k + 1)..m
  /\ \A i, j \in 1..n : i < j => f[i] < f[j]
  /\ \A x \in (k + 1)..m : \E i \in 1..n : f[i] = x

LEMMA Numbers ==
  ASSUME NEW n \in Nat, NEW k \in Nat, NEW m \in Nat, NEW f, Increases(f, n, k, m),
         NEW h \in 1..n
  PROVE  f[h] = k + h
  <1>0. /\ \A i \in 1..n : f[i] \in (k + 1)..m
        /\ \A i, j \in 1..n : i < j => f[i] < f[j]
        /\ \A x \in (k + 1)..m : \E i \in 1..n : f[i] = x
    BY DEF Increases
  <1> DEFINE D == {i \in 1..n : f[i] # k + i}
  <1>1. SUFFICES ASSUME D # {} PROVE FALSE
    BY <1>1
  <1>2. PICK i \in D : \A j \in D : i <= j
    BY <1>1, LeastElement, D \in SUBSET Nat
  <1>3. i \in 1..n /\ f[i] # k + i /\ f[i] \in (k + 1)..m
    BY <1>0, <1>2
  <1>4. \A j \in 1..n : j < i => f[j] = k + j
    BY <1>2
  <1> HIDE DEF D
  <1>5. k + i <= f[i]
    <2>1. CASE i = 1
      BY <1>3, <2>1
    <2>2. CASE i # 1
      <3>1. i - 1 \in 1..n /\ i - 1 < i
        BY <1>3, <2>2
      <3>2. f[i - 1] = k + (i - 1) /\ f[i - 1] < f[i]
        BY <1>0, <1>3, <1>4, <3>1
      <3> QED BY <1>3, <3>1, <3>2
    <2> QED BY <2>1, <2>2
  <1>6. k + i < f[i] /\ k + i \in (k + 1)..m
    BY <1>3, <1>5
  <1>7. PICK j \in 1..n : f[j] = k + i
    BY <1>0, <1>6
  <1>8. CASE j < i
    BY <1>3, <1>4, <1>7, <1>8
  <1>9. CASE i <= j
    BY <1>0, <1>3, <1>6, <1>7, <1>9
  <1> QED BY <1>3, <1>7, <1>8, <1>9

\* What device c appends to a list that holds its first k transactions, so that it
\* holds the first m, are the next ones.
LEMMA NextNumbers ==
  ASSUME NEW S, NEW s \in Seq(S), NEW b \in Seq(S), NEW c, NEW k \in Nat, NEW m \in Nat,
         HoldsFirst(c, s, k), HoldsFirst(c, s \o b, m), AllBy(c, b)
  PROVE  \A i \in 1..Len(b) : b[i].body.nth = k + i
  <1> DEFINE sb == s \o b
             f == [i \in 1..Len(b) |-> b[i].body.nth]
  <1>1. RecordedInConcat(c, s, b, sb)
    BY ConcatRecordedBy
  <1>2. /\ \A i \in RecordedBy(c, s) : i \in RecordedBy(c, sb) /\ sb[i] = s[i]
        /\ \A i \in RecordedBy(c, b) : i + Len(s) \in RecordedBy(c, sb) /\ sb[i + Len(s)] = b[i]
        /\ \A i \in RecordedBy(c, sb) :
             \/ i \in RecordedBy(c, s) /\ sb[i] = s[i]
             \/ i - Len(s) \in RecordedBy(c, b) /\ sb[i] = b[i - Len(s)] /\ i > Len(s)
        /\ RecordedBy(c, s) \subseteq 1..Len(s) /\ Len(s) \in Nat /\ Len(b) \in Nat
    BY <1>1 DEF RecordedInConcat
  <1>3. RecordedBy(c, b) = 1..Len(b)
    BY LenProperties DEF RecordedBy, AllBy
  <1>4. /\ \A i \in RecordedBy(c, s) : s[i].body.nth \in 1..k
        /\ \A x \in 1..k : \E i \in RecordedBy(c, s) : s[i].body.nth = x
    BY HoldsFirstIs
  <1>5. /\ \A i \in RecordedBy(c, sb) : sb[i].body.nth \in 1..m
        /\ \A x \in 1..m : \E i \in RecordedBy(c, sb) : sb[i].body.nth = x
        /\ \A i, j \in RecordedBy(c, sb) : i < j => sb[i].body.nth < sb[j].body.nth
    BY HoldsFirstIs
  <1> HIDE DEF sb
  <1>6. ASSUME NEW i \in 1..Len(b) PROVE b[i].body.nth \in (k + 1)..m
    <2>1. i + Len(s) \in RecordedBy(c, sb) /\ sb[i + Len(s)] = b[i] /\ b[i].body.nth \in 1..m
      BY <1>2, <1>3, <1>5
    <2>2. CASE k = 0
      BY <2>1, <2>2
    <2>3. CASE k # 0
      <3>1. k \in 1..k
        BY <2>3
      <3>2. PICK j \in RecordedBy(c, s) : s[j].body.nth = k
        BY <1>4, <3>1
      <3>3. j \in RecordedBy(c, sb) /\ sb[j] = s[j] /\ j < i + Len(s)
        BY <1>2, <3>2
      <3>4. k < b[i].body.nth
        BY <1>5, <2>1, <3>2, <3>3
      <3> QED BY <2>1, <3>4
    <2> QED BY <2>2, <2>3
  <1>7. ASSUME NEW i \in 1..Len(b), NEW j \in 1..Len(b), i < j
        PROVE  b[i].body.nth < b[j].body.nth
    <2> DEFINE p == i + Len(s)
               q == j + Len(s)
    <2>1. p < q
      BY <1>2, <1>7
    <2>2. p \in RecordedBy(c, sb) /\ sb[p] = b[i] /\ q \in RecordedBy(c, sb) /\ sb[q] = b[j]
      BY <1>2, <1>3
    <2> HIDE DEF p, q
    <2> QED BY <1>5, <2>1, <2>2
  <1>8. ASSUME NEW x \in (k + 1)..m PROVE \E i \in 1..Len(b) : b[i].body.nth = x
    <2>1. x \in 1..m /\ x \notin 1..k
      OBVIOUS
    <2>2. PICK i \in RecordedBy(c, sb) : sb[i].body.nth = x
      BY <1>5, <2>1
    <2>3. ~(i \in RecordedBy(c, s) /\ sb[i] = s[i])
      BY <1>4, <2>1, <2>2
    <2>4. i - Len(s) \in 1..Len(b) /\ sb[i] = b[i - Len(s)]
      BY <1>2, <1>3, <2>3
    <2> QED BY <2>2, <2>4
  <1>9. Increases(f, Len(b), k, m)
    BY <1>6, <1>7, <1>8 DEF Increases
  <1>10. \A i \in 1..Len(b) : f[i] = b[i].body.nth
    OBVIOUS
  <1> HIDE DEF f
  <1>11. \A i \in 1..Len(b) : f[i] = k + i
    BY <1>2, <1>9, Numbers
  <1> QED BY <1>10, <1>11

\* How many of a list are by device c, if it holds the first k.
LEMMA CountRecordedBy ==
  ASSUME NEW S, NEW s \in Seq(S), NEW c, NEW k \in Nat, HoldsFirst(c, s, k)
  PROVE  Cardinality(RecordedBy(c, s)) = k
  <1> DEFINE R == RecordedBy(c, s)
             F == [x \in 1..k |-> CHOOSE i \in R : s[i].body.nth = x]
  <1>1. /\ \A i \in R : s[i].body.nth \in 1..k
        /\ \A x \in 1..k : \E i \in R : s[i].body.nth = x
        /\ \A i, j \in R : i < j => s[i].body.nth < s[j].body.nth
    BY HoldsFirstIs
  <1>2. R \subseteq Nat
    BY LenProperties DEF RecordedBy
  <1>3. \A x \in 1..k : F[x] \in R /\ s[F[x]].body.nth = x
    BY <1>1
  <1>4. F \in [1..k -> R]
    BY <1>3
  <1> HIDE DEF F, R
  <1>5. \A a, b \in 1..k : F[a] = F[b] => a = b
    BY <1>3
  <1>6. ASSUME NEW i \in R PROVE \E x \in 1..k : F[x] = i
    <2>1. s[i].body.nth \in 1..k
      BY <1>1
    <2>2. PICK y \in R : F[s[i].body.nth] = y /\ s[y].body.nth = s[i].body.nth
      BY <1>3, <2>1
    <2>3. y \in Nat /\ i \in Nat /\ s[i].body.nth \in Nat
      BY <1>2, <2>1
    <2>4. ~(y < i) /\ ~(i < y)
      <3>1. y < i => s[y].body.nth < s[i].body.nth
        BY <1>1, <2>2
      <3>2. i < y => s[i].body.nth < s[y].body.nth
        BY <1>1, <2>2
      <3> QED BY <2>2, <2>3, <3>1, <3>2
    <2>5. y = i
      BY <2>3, <2>4
    <2> QED BY <2>1, <2>2, <2>5
  <1>7. F \in Bijection(1..k, R)
    BY <1>4, <1>5, <1>6, Fun_IsBij
  <1>8. ExistsBijection(1..k, R)
    BY <1>7 DEF ExistsBijection
  <1>9. IsFiniteSet(1..k) /\ Cardinality(1..k) = k
    BY FS_Interval
  <1>10. Cardinality(R) = Cardinality(1..k)
    BY <1>8, <1>9, FS_Bijection
  <1> QED BY <1>9, <1>10 DEF R

-------------------------------------------------------------------------------
(* What the transactions of a list say, in its order.                        *)

Entries(s) == [i \in DOMAIN s |-> s[i].body]

LEMMA EntriesType ==
  ASSUME NEW s \in Seq(Transactions)
  PROVE  /\ Entries(s) \in Seq(Expenses) /\ Len(Entries(s)) = Len(s)
         /\ DOMAIN Entries(s) = 1..Len(s)
         /\ \A i \in 1..Len(s) : Entries(s)[i] = s[i].body /\ s[i].body \in Expenses
  <1>1. /\ Len(s) \in Nat /\ DOMAIN s = 1..Len(s)
        /\ \A i \in 1..Len(s) : s[i] \in Transactions
    BY LenProperties, ElementOfSeq
  <1>2. \A i \in 1..Len(s) : s[i].body \in Expenses
    BY <1>1 DEF Transactions
  <1>3. Entries(s) = [i \in 1..Len(s) |-> s[i].body]
    BY <1>1 DEF Entries
  <1>4. Entries(s) \in Seq(Expenses)
    BY <1>1, <1>2, <1>3, IsASeq
  <1>5. Len(Entries(s)) = Len(s)
    BY <1>1, <1>3, <1>4, LenProperties
  <1> QED BY <1>2, <1>3, <1>4, <1>5

LEMMA ExpensesConcat ==
  ASSUME NEW x \in Seq(Expenses), NEW y \in Seq(Expenses),
         NEW m, m = Len(x), NEW n, n = Len(y)
  PROVE  /\ x \o y \in Seq(Expenses) /\ Len(x \o y) = m + n
         /\ \A i \in 1..(m + n) : (x \o y)[i] = IF i <= m THEN x[i] ELSE y[i - m]
  BY ConcatProperties

LEMMA EntriesConcat ==
  ASSUME NEW s \in Seq(Transactions), NEW b \in Seq(Transactions)
  PROVE  Entries(s \o b) = Entries(s) \o Entries(b)
  <1> DEFINE sb == s \o b
             x == Entries(sb)
             es == Entries(s)
             eb == Entries(b)
             y == es \o eb
             m == Len(s)
             n == Len(b)
  <1>1. sb \in Seq(Transactions) /\ Len(sb) = m + n /\ m \in Nat /\ n \in Nat
    BY ConcatProperties, LenProperties
  <1>2. \A i \in 1..(m + n) : sb[i] = IF i <= m THEN s[i] ELSE b[i - m]
    BY ConcatProperties
  <1> HIDE DEF sb
  <1>3. x \in Seq(Expenses) /\ Len(x) = m + n /\ \A i \in 1..(m + n) : x[i] = sb[i].body
    BY <1>1, EntriesType
  <1>4. es \in Seq(Expenses) /\ m = Len(es) /\ \A i \in 1..m : es[i] = s[i].body
    BY EntriesType
  <1>5. eb \in Seq(Expenses) /\ n = Len(eb) /\ \A i \in 1..n : eb[i] = b[i].body
    BY EntriesType
  <1> HIDE DEF x, es, eb, m, n
  <1>6. /\ y \in Seq(Expenses) /\ Len(y) = m + n
        /\ \A i \in 1..(m + n) : y[i] = IF i <= m THEN es[i] ELSE eb[i - m]
    BY <1>4, <1>5, ExpensesConcat
  <1> HIDE DEF y
  <1>7. ASSUME NEW i \in 1..(m + n) PROVE x[i] = y[i]
    <2>1. CASE i <= m
      <3>1. i \in 1..m
        BY <1>1, <2>1
      <3> QED BY <1>2, <1>3, <1>4, <1>6, <2>1, <3>1
    <2>2. CASE ~(i <= m)
      <3>1. i - m \in 1..n
        BY <1>1, <2>2
      <3> QED BY <1>2, <1>3, <1>5, <1>6, <2>2, <3>1
    <2> QED BY <2>1, <2>2
  <1>8. x = y
    BY <1>1, <1>3, <1>6, <1>7, SeqEqual
  <1> QED BY <1>8 DEF x, y, es, eb, sb

\* What device c appends, as SharedLog has it.
LEMMA EntriesNumbered ==
  ASSUME NEW s \in Seq(Transactions), NEW b \in Seq(Transactions), b # << >>,
         NEW c, NEW k \in Nat, NEW m \in Nat,
         HoldsFirst(c, s, k), HoldsFirst(c, s \o b, m), AllBy(c, b)
  PROVE  /\ Entries(b) = [i \in 1..Len(b) |-> [by |-> c, nth |-> k + i]]
         /\ Len(b) \in 1..(MaxExpenses - k)
  <1>1. Len(b) \in Nat \ {0} /\ DOMAIN b = 1..Len(b)
    BY LenProperties, EmptySeq
  <1>2. \A i \in 1..Len(b) : b[i].body.nth = k + i
    BY NextNumbers
  <1>3. \A i \in 1..Len(b) : b[i].body \in Expenses /\ b[i].body.by = c
    BY <1>1, EntriesType DEF AllBy
  <1>4. ASSUME NEW i \in 1..Len(b) PROVE b[i].body = [by |-> c, nth |-> k + i]
    <2>1. b[i].body = [by |-> b[i].body.by, nth |-> b[i].body.nth]
      BY <1>3 DEF Expenses
    <2> QED BY <1>2, <1>3, <2>1
  <1>5. Entries(b) = [i \in 1..Len(b) |-> [by |-> c, nth |-> k + i]]
    BY <1>1, <1>4 DEF Entries
  <1>6. k + Len(b) \in 1..MaxExpenses
    <2>1. Len(b) \in 1..Len(b)
      BY <1>1
    <2>2. b[Len(b)].body.nth = k + Len(b) /\ b[Len(b)].body.nth \in 1..MaxExpenses
      BY <1>2, <1>3, <2>1 DEF Expenses
    <2> QED BY <2>2
  <1>7. Len(b) \in 1..(MaxExpenses - k)
    BY <1>1, <1>6, ConstantsAssumption DEF ConstantsAssumption
  <1> QED BY <1>5, <1>7

-------------------------------------------------------------------------------
(* How much of the log a device knows.                                       *)

\* What a device calls synchronized and what is newer make up the server's log.
LEMMA SynchronizedCuts ==
  ASSUME NEW r, IsFiled(r), r.latest \in Nat, r.synced \in Nat,
         NEW s, IsFiled(s), s.latest \in Nat, IsReadable(s), IsHistory(r, Uuids(Chain(s))),
         NEW T, IsOrdered(T), Agree(T), Stored(r) \subseteq T, Stored(s) \subseteq T
  PROVE  Cuts(s, r.synced, Synchronized(r), ChainSince(s, r.synced))
  <1> DEFINE p == Synchronized(r)
             old == ChainSince(r, r.synced)
             news == ChainSince(s, r.synced)
  <1>1. Cuts(r, r.synced, p, old)
    BY ChainSinceCuts DEF IsHistory, Synchronized
  <1>2. PICK known : Cuts(s, r.synced, known, news)
    BY ChainSinceCuts DEF IsHistory
  <1> HIDE DEF p, old, news
  <1>3. /\ p \in Seq(Stored(r)) /\ known \in Seq(Stored(s))
        /\ Path(p, NoId, r.synced) /\ Path(known, NoId, r.synced)
    BY <1>1, <1>2 DEF Cuts
  <1>4. p \in Seq(T) /\ known \in Seq(T) /\ NoId \in Nat
    BY <1>3, SeqMonotonic DEF NoId
  <1>5. p = known
    BY <1>3, <1>4, PathUnique
  <1> QED BY <1>2, <1>5 DEF p, news

\* Of two beginnings of a log, the one that ends with the later transaction is the
\* longer one.
LEMMA KnowsMore ==
  ASSUME NEW s, IsFiled(s), NEW T, IsOrdered(T), Agree(T), Stored(s) \subseteq T,
         NEW a \in Nat, NEW b \in Nat, a <= b,
         NEW p, NEW u, Cuts(s, a, p, u), NEW q, NEW v, Cuts(s, b, q, v)
  PROVE  p = q \/ Len(p) < Len(q)
  <1>1. /\ p \in Seq(T) /\ u \in Seq(T) /\ q \in Seq(T) /\ v \in Seq(T)
        /\ Path(p, NoId, a) /\ Path(q, NoId, b) /\ p \o u = q \o v /\ NoId \in Nat
    BY SeqMonotonic DEF Cuts, NoId
  <1>2. CASE a = b
    BY <1>1, <1>2, PathUnique
  <1>3. CASE a # b
    <2> DEFINE k == Len(q)
    <2>1. q # << >>
      BY <1>1, <1>3 DEF Path, NoId
    <2>2. k \in Nat \ {0} /\ Len(p) \in Nat
      BY <1>1, <2>1, LenProperties, EmptySeq
    <2>3. q[k].uuid = b
      BY <1>1, <2>1 DEF Path
    <2> HIDE DEF k
    <2>4. SUFFICES ASSUME ~(Len(p) < k) PROVE FALSE
      BY <2>4 DEF k
    <2>5. k \in 1..Len(p) /\ k \in 1..Len(q)
      BY <2>2, <2>4 DEF k
    <2>6. (p \o u)[k] = p[k] /\ (q \o v)[k] = q[k]
      <3>1. \A x, y \in Seq(T) : \A i \in 1..Len(x) : (x \o y)[i] = x[i]
        <4> TAKE x, y \in Seq(T)
        <4> TAKE i \in 1..Len(x)
        <4>1. Len(x) \in Nat /\ Len(y) \in Nat
          BY LenProperties
        <4>2. i \in 1..(Len(x) + Len(y)) /\ i <= Len(x)
          BY <4>1
        <4> QED BY <4>2, ConcatProperties
      <3> QED BY <1>1, <2>5, <3>1
    <2>7. p[k].uuid = b
      BY <1>1, <2>3, <2>6
    <2>8. p[k].uuid <= a
      BY <1>1, <2>5, PathBounds
    <2> QED BY <1>3, <2>7, <2>8
  <1> QED BY <1>2, <1>3

-------------------------------------------------------------------------------
(* Steps, by what they write.                                                *)

\* Device c writes to its file, and moves the end of what is synchronized only by
\* saving the account after a rebase or by marking a push.
WritesFile(c) ==
  /\ server' = server /\ NoCrash
  /\ \E r : /\ Write(c, r)
            /\ r.synced = repo[c].synced \/ SaveAccount(c) \/ SetLatestSynchronized(c)

LEMMA WritingSteps ==
  ASSUME Inv, NEW c \in Clients,
         \/ RecordTransaction(c) \/ SetLatest(c) \/ StoreTransaction(c) \/ SaveAccount(c)
         \/ CollectGarbage(c) \/ SetLatestSynchronized(c)
  PROVE  WritesFile(c)
  <1> DEFINE r == repo[c]
  <1>1. r = [txs |-> r.txs, latest |-> r.latest, synced |-> r.synced]
    BY DEF Inv, TypeOK, IsRepo
  <1>2. /\ \A tx : AddTransaction(r, tx).synced = r.synced
        /\ \A id : DeleteTransaction(r, id).synced = r.synced
        /\ \A id : SetLatestTransaction(r, id).synced = r.synced
    BY <1>1 DEF AddTransaction, DeleteTransaction, SetLatestTransaction
  <1>3. server' = server /\ NoCrash
    BY DEF RecordTransaction, SetLatest, StoreTransaction, SaveAccount, CollectGarbage,
           SetLatestSynchronized, Offline
  <1> HIDE DEF r
  <1>4. CASE RecordTransaction(c)
    <2>1. \E tx : Write(c, AddTransaction(r, tx))
      BY <1>4 DEF RecordTransaction, r
    <2> QED BY <1>2, <1>3, <2>1 DEF WritesFile, r
  <1>5. CASE SetLatest(c)
    <2>1. \E id : Write(c, SetLatestTransaction(r, id))
      BY <1>5 DEF SetLatest, r
    <2> QED BY <1>2, <1>3, <2>1 DEF WritesFile, r
  <1>6. CASE StoreTransaction(c)
    <2>1. \E tx : Write(c, AddTransaction(r, tx))
      BY <1>6 DEF StoreTransaction, r
    <2> QED BY <1>2, <1>3, <2>1 DEF WritesFile, r
  <1>7. CASE CollectGarbage(c)
    <2>1. \E id : Write(c, DeleteTransaction(r, id))
      BY <1>7 DEF CollectGarbage, r
    <2> QED BY <1>2, <1>3, <2>1 DEF WritesFile, r
  <1>8. CASE SaveAccount(c)
    <2>1. \E q : Write(c, q)
      BY <1>8 DEF SaveAccount
    <2> QED BY <1>3, <1>8, <2>1 DEF WritesFile
  <1>9. CASE SetLatestSynchronized(c)
    <2>1. \E q : Write(c, q)
      BY <1>9 DEF SetLatestSynchronized
    <2> QED BY <1>3, <1>9, <2>1 DEF WritesFile
  <1> QED BY <1>4, <1>5, <1>6, <1>7, <1>8, <1>9

\* Every step writes to no file, or to one; a flush needs files that are not written
\* through.
StepKind ==
  \/ UNCHANGED <<repo, disk>> /\ NoCrash
  \/ \E c \in Clients : WritesFile(c)
  \/ ~WriteThrough /\ server' = server
  \/ \E c \in Clients : Crash(c)

LEMMA StepKinds ==
  ASSUME Inv, [Next]_vars
  PROVE  StepKind
  <1>1. ASSUME NEW c \in Clients,
               \/ RecordTransaction(c) \/ SetLatest(c) \/ StoreTransaction(c)
               \/ SaveAccount(c) \/ CollectGarbage(c) \/ SetLatestSynchronized(c)
        PROVE  StepKind
    BY <1>1, WritingSteps DEF StepKind
  <1>2. ASSUME NEW c \in Clients,
               \/ GetLatestTransaction(c) \/ GetChildTransactions(c) \/ RefuseRebase(c)
               \/ EndRebase(c) \/ PushTransactions(c) \/ PushNothing(c) \/ AnswerPush(c)
               \/ LoseRequest(c) \/ DelayRequest(c) \/ LoseReply(c) \/ CrashServer(c)
        PROVE  UNCHANGED <<repo, disk>> /\ NoCrash
    BY <1>2 DEF GetLatestTransaction, GetChildTransactions, RefuseRebase, EndRebase,
       PushTransactions, PushNothing, AnswerPush, LoseRequest, DelayRequest, LoseReply,
       CrashServer, FailPush
  <1>3. CASE AnswerLatePush \/ UNCHANGED vars
    BY <1>3 DEF AnswerLatePush, vars, StepKind, NoCrash
  <1>4. ASSUME NEW c \in Clients, Flush(c) PROVE StepKind
    BY <1>4 DEF Flush, StepKind, Offline
  <1>5. ASSUME NEW c \in Clients, Sync(c) PROVE StepKind
    BY <1>1, <1>2, <1>5 DEF Sync, StepKind
  <1>6. ASSUME NEW c \in Clients, Crash(c) PROVE StepKind
    BY <1>6 DEF StepKind
  <1>7. ASSUME NEW c \in Clients,
               \/ LoseRequest(c) \/ DelayRequest(c) \/ LoseReply(c) \/ CrashServer(c)
        PROVE  StepKind
    BY <1>2, <1>7 DEF StepKind
  <1> HIDE DEF StepKind
  <1> QED BY <1>1, <1>3, <1>4, <1>5, <1>6, <1>7 DEF Next

\* While files are written through, a disk holds what its device reads, and no crash
\* loses a write.
Solid == WriteThrough => ~rewound /\ \A c \in Clients : disk[c] = repo[c]

LEMMA SolidNext ==
  ASSUME Inv, Solid, [Next]_vars
  PROVE  Solid'
  <1> SUFFICES ASSUME WriteThrough PROVE ~rewound' /\ \A c \in Clients : disk'[c] = repo'[c]
    BY DEF Solid
  <1>1. ~rewound /\ (\A c \in Clients : disk[c] = repo[c])
        /\ DOMAIN repo = Clients /\ DOMAIN disk = Clients
    BY DEF Solid, Inv, TypeOK
  <1>2. CASE UNCHANGED <<repo, disk>> /\ NoCrash
    BY <1>1, <1>2 DEF NoCrash
  <1>3. ASSUME NEW c \in Clients, WritesFile(c)
        PROVE  ~rewound' /\ \A d \in Clients : disk'[d] = repo'[d]
    <2>1. PICK r : Write(c, r)
      BY <1>3 DEF WritesFile
    <2>2. rewound' = rewound
      BY <1>3 DEF WritesFile, NoCrash
    <2>3. repo' = [repo EXCEPT ![c] = r] /\ disk' = [disk EXCEPT ![c] = r]
      BY <2>1 DEF Write
    <2> QED BY <1>1, <2>2, <2>3
  <1>4. ASSUME NEW c \in Clients, Crash(c)
        PROVE  ~rewound' /\ \A d \in Clients : disk'[d] = repo'[d]
    BY <1>1, <1>4 DEF Crash
  <1> QED BY <1>2, <1>3, <1>4, StepKinds DEF StepKind

LEMMA SolidAlways == Spec => []Solid
  <1>1. Init => Solid
    BY DEF Init, Solid
  <1>2. Inv /\ Solid /\ [Next]_vars => Solid'
    BY SolidNext
  <1> QED BY <1>1, <1>2, InvAlways, PTL DEF Spec

\* A rebase moves the end of what is synchronized forward.
Ahead == \A c \in Clients : pc[c] = "storing" => repo[c].synced < job[c].synced

LEMMA RebaseIsAhead ==
  ASSUME Inv, HistInv, IsReadable(server), NEW c \in Clients, GetChildTransactions(c)
  PROVE  repo[c].synced < job'[c].synced
  <1> DEFINE r == repo[c]
             news == News(repo[c], server)
  <1>1. news # << >> /\ job'[c].synced = news[Len(news)].uuid
        /\ news = ChainSince(server, r.synced)
    BY DEF GetChildTransactions, CanRebase, SetJob, Inv, TypeOK, News, ChildTransactions
  <1>2. /\ IsOrdered(Copies) /\ Stored(server) \subseteq Copies /\ IsFiled(server)
        /\ server.latest \in Nat /\ r.synced \in Nat /\ IsHistory(r, Log)
    BY FilesAreInOrder DEF FilesInOrder, HistInv
  <1>3. PICK known : Cuts(server, r.synced, known, news)
    BY <1>1, <1>2, ChainSinceCuts DEF IsHistory, Log
  <1> HIDE DEF news
  <1>4. news \in Seq(Copies) /\ Path(news, r.synced, server.latest)
    BY <1>2, <1>3, SeqMonotonic DEF Cuts
  <1>5. Len(news) \in 1..Len(news)
    BY <1>1, <1>4, LenProperties, EmptySeq
  <1>6. r.synced < news[Len(news)].uuid
    BY <1>2, <1>4, <1>5, PathBounds
  <1> QED BY <1>1, <1>6

LEMMA AheadNext ==
  ASSUME Inv, HistInv, IsReadable(server), Ahead, [Next]_vars
  PROVE  Ahead'
  <1>1. /\ DOMAIN repo = Clients /\ pc \in [Clients -> Steps] /\ job \in [Clients -> Jobs]
        /\ \A c \in Clients : IsRepo(repo[c])
    BY DEF Inv, TypeOK
  <1> DEFINE Others(c) == \A d \in Clients : d # c => /\ pc'[d] = pc[d] /\ job'[d] = job[d]
                                                    /\ repo'[d] = repo[d]
  <1>2. ASSUME NEW c \in Clients, Others(c),
               pc'[c] = "storing" => repo'[c].synced < job'[c].synced
        PROVE  Ahead'
    BY <1>2 DEF Ahead
  <1>3. ASSUME UNCHANGED <<repo, pc, job>> PROVE Ahead'
    BY <1>3 DEF Ahead
  <1>4. ASSUME NEW c \in Clients,
               \/ RecordTransaction(c) \/ SetLatest(c) \/ GetLatestTransaction(c)
               \/ RefuseRebase(c) \/ SaveAccount(c)
               \/ CollectGarbage(c) \/ EndRebase(c) \/ PushTransactions(c) \/ PushNothing(c)
               \/ SetLatestSynchronized(c)
        PROVE  Others(c) /\ pc'[c] # "storing"
    BY <1>1, <1>4 DEF RecordTransaction, SetLatest, GetLatestTransaction, RefuseRebase,
       SaveAccount, CollectGarbage, EndRebase, PushTransactions, PushNothing,
       SetLatestSynchronized, Goto, SetJob, Write
  <1>5. ASSUME NEW c \in Clients,
               \/ AnswerPush(c) \/ LoseRequest(c) \/ DelayRequest(c) \/ LoseReply(c)
               \/ CrashServer(c) \/ Crash(c)
        PROVE  Others(c) /\ pc'[c] # "storing"
    BY <1>1, <1>5 DEF AnswerPush, LoseRequest, DelayRequest, LoseReply, CrashServer, FailPush,
       Crash, Goto, SetJob
  <1>6. ASSUME NEW c \in Clients, GetChildTransactions(c)
        PROVE  Others(c) /\ repo'[c].synced < job'[c].synced
    BY <1>1, <1>6, RebaseIsAhead DEF GetChildTransactions, Goto, SetJob
  <1>7. ASSUME NEW c \in Clients, StoreTransaction(c)
        PROVE  Others(c) /\ repo'[c].synced < job'[c].synced
    <2>1. Others(c)
      BY <1>1, <1>7 DEF StoreTransaction, Goto, SetJob, Write
    <2>2. repo'[c] = AddTransaction(repo[c], Head(job[c].batch))
      BY <1>1, <1>7 DEF StoreTransaction, Write
    <2>3. repo'[c].synced = repo[c].synced
      BY <1>1, <2>2 DEF AddTransaction, IsRepo
    <2>4. pc[c] = "storing" /\ job'[c].synced = job[c].synced
      BY <1>1, <1>7 DEF StoreTransaction, Goto, SetJob, Jobs
    <2> QED BY <2>1, <2>3, <2>4 DEF Ahead
  <1>8. ASSUME NEW c \in Clients, Flush(c) PROVE UNCHANGED <<repo, pc, job>>
    BY <1>8 DEF Flush
  <1>9. CASE AnswerLatePush \/ UNCHANGED vars
    BY <1>3, <1>9 DEF AnswerLatePush, vars
  <1> HIDE DEF Others
  <1> QED BY <1>2, <1>3, <1>4, <1>5, <1>6, <1>7, <1>8, <1>9 DEF Next, Sync

LEMMA AheadAlways == Spec => []Ahead
  <1>1. Init => Ahead
    BY DEF Init, Ahead
  <1>2. Inv /\ HistInv /\ IsReadable(server) /\ Ahead /\ [Next]_vars => Ahead'
    BY AheadNext
  <1> QED BY <1>1, <1>2, InvAlways, HistoryAlways, LogReadable, PTL DEF Spec

-------------------------------------------------------------------------------
(* The step simulation.                                                      *)

\* No step moves the end of what a device has synchronized back.
LEMMA SyncedAdvances ==
  ASSUME Inv, HistInv, Ahead, FilesInOrder', NEW c \in Clients, WritesFile(c)
  PROVE  repo[c].synced <= repo'[c].synced
  <1> DEFINE r == repo[c]
  <1>1. /\ IsFiled(r) /\ r.latest \in Nat /\ r.synced \in Nat /\ IsHistory(r, Log) /\ IsRepo(r)
        /\ job[c].synced \in Nat
    BY FilesAreInOrder DEF FilesInOrder, HistInv, Jobs
  <1>2. PICK q : /\ Write(c, q)
                 /\ q.synced = r.synced \/ SaveAccount(c) \/ SetLatestSynchronized(c)
    BY DEF WritesFile
  <1>3. repo'[c] = q
    BY <1>2 DEF Write, Inv, TypeOK
  <1>4. CASE q.synced = r.synced
    BY <1>1, <1>3, <1>4
  <1>5. CASE SaveAccount(c)
    <2>1. pc[c] = "storing"
      BY <1>5 DEF SaveAccount, Goto
    <2>2. IsKept(repo'[c], NextFile(r, job[c]))
      BY <1>5, SavedChain
    <2>3. repo'[c].synced = job[c].synced
      <3>1. CanFinish(r, job[c], Copies) /\ IsOrdered(Copies) /\ Agree(Copies)
            /\ job[c] \in Jobs
        BY <2>1, FilesAreInOrder DEF FilesInOrder
      <3>2. IsNextFile(NextFile(r, job[c]), r, job[c])
        BY <1>1, <3>1, NextFileType
      <3> QED BY <2>2, <3>2 DEF IsKept, IsNextFile
    <2>4. r.synced < job[c].synced
      BY <2>1 DEF Ahead
    <2> QED BY <1>1, <2>3, <2>4
  <1>6. CASE SetLatestSynchronized(c)
    <2>1. repo'[c].synced = r.latest
      BY <1>6, MarkedChain
    <2>2. PICK p, u : Cuts(r, r.synced, p, u)
      BY <1>1, ChainSinceCuts DEF IsHistory
    <2>3. u \in Seq(Stored(r)) /\ Path(u, r.synced, r.latest) /\ IsOrdered(Stored(r))
      BY <1>1, <2>2 DEF Cuts, IsFiled
    <2>4. CASE u = << >>
      BY <1>1, <2>1, <2>3, <2>4 DEF Path
    <2>5. CASE u # << >>
      <3>1. 1 \in 1..Len(u)
        BY <2>3, <2>5, LenProperties, EmptySeq
      <3>2. r.synced < r.latest
        BY <1>1, <2>3, <3>1, PathBounds
      <3> QED BY <1>1, <2>1, <3>2
    <2> QED BY <2>4, <2>5
  <1> QED BY <1>2, <1>4, <1>5, <1>6

\* A write of device c, as SharedLog sees it: nothing, or c learns more of the log.
LEMMA WriteLearns ==
  ASSUME Inv, HistInv, HistInv', IsReadable(server), Ahead, FilesInOrder',
         NEW c \in Clients, WritesFile(c)
  PROVE  LET p == Synchronized(repo[c])
             q == Synchronized(repo'[c])
         IN  \/ p = q
             \/ Len(p) < Len(q) /\ Len(q) \in 1..Len(Chain(server))
  <1> DEFINE r == repo[c]
             n == repo'[c]
             s == server
             p == Synchronized(r)
             q == Synchronized(n)
  <1>1. /\ IsFiled(r) /\ r.latest \in Nat /\ r.synced \in Nat /\ IsHistory(r, Log)
        /\ Stored(r) \subseteq Copies
        /\ IsFiled(s) /\ s.latest \in Nat /\ Stored(s) \subseteq Copies
        /\ IsOrdered(Copies) /\ Agree(Copies)
    BY FilesAreInOrder DEF FilesInOrder, HistInv
  <1>2. server' = server
    BY DEF WritesFile
  <1>3. /\ IsFiled(n) /\ n.latest \in Nat /\ n.synced \in Nat /\ IsHistory(n, Log)
        /\ Stored(n) \subseteq Copies' /\ Stored(s) \subseteq Copies'
        /\ IsOrdered(Copies') /\ Agree(Copies')
    BY <1>2 DEF FilesInOrder, HistInv, Log
  <1>4. r.synced <= n.synced
    BY SyncedAdvances
  <1> HIDE DEF r, n, s, p, q
  <1>5. PICK u : Cuts(s, r.synced, p, u)
    <2>1. Cuts(s, r.synced, p, ChainSince(s, r.synced))
      BY <1>1, SynchronizedCuts DEF Log, p, s
    <2> QED BY <2>1
  <1>6. PICK v : Cuts(s, n.synced, q, v)
    <2>1. Cuts(s, n.synced, q, ChainSince(s, n.synced))
      BY <1>1, <1>3, SynchronizedCuts DEF Log, q, s
    <2> QED BY <2>1
  <1>7. p = q \/ Len(p) < Len(q)
    BY <1>1, <1>3, <1>4, <1>5, <1>6, KnowsMore
  <1>8. Len(p) \in Nat /\ Len(q) \in Nat /\ Len(q) \in 0..Len(Chain(s))
    BY <1>5, <1>6, LenProperties DEF Cuts
  <1>9. Len(p) < Len(q) => Len(q) \in 1..Len(Chain(s))
    BY <1>8
  <1> QED BY <1>7, <1>9 DEF p, q, r, n, s

\* What the server appends, as SharedLog sees it: the next transactions of a device
\* that knows all of the log.
IsPublished(e, log, known, more) ==
  /\ known = Len(log)
  /\ \E b \in Seq(Transactions) :
       /\ more = log \o b
       /\ LET k == Cardinality(RecordedBy(e, log))
          IN  /\ Entries(b) = [i \in 1..Len(b) |-> [by |-> e, nth |-> k + i]]
              /\ Len(b) \in 1..(MaxExpenses - k)

LEMMA LogIsPublished ==
  ASSUME Inv, HistInv, IsReadable(server), FInv, ~rewound, [Next]_vars,
         ~(Chain(server') = Chain(server))
  PROVE  \E e \in Clients :
           IsPublished(e, Chain(server), Len(Synchronized(repo[e])), Chain(server'))
  <1> DEFINE s == Chain(server)
  <1>1. FilesInOrder /\ Faith(s, server.latest)
    BY FilesAreInOrder DEF FInv
  <1>2. PICK b \in InFlight : Accepts(server, b) /\ Extends(server', server, b)
    BY LogStep
  <1>3. b \in Seq(Transactions) /\ IsPush(b, server.latest)
    BY <1>1 DEF FilesInOrder, Faith
  <1>4. b # << >> /\ Chain(server') = s \o b /\ server.latest = b[1].parent
    BY <1>2 DEF Extends, Accepts
  <1>5. PICK e \in Clients : Pushable(pc[e], repo[e], server.latest, b)
    BY <1>3, <1>4 DEF IsPush
  <1> DEFINE r == repo[e]
  <1>6. /\ IsFiled(r) /\ r.latest \in Nat /\ r.synced \in Nat
        /\ IsHistory(r, Log) /\ recorded[e] \in Nat /\ Stored(r) \subseteq Copies
        /\ IsOwn(e, r, recorded[e]) /\ \E k \in 0..recorded[e] : HoldsFirst(e, s, k)
    BY <1>1 DEF FilesInOrder, HistInv, Inv, TypeOK, Faith, Device
  <1>7. /\ IsFiled(server) /\ server.latest \in Nat /\ Stored(server) \subseteq Copies
        /\ IsOrdered(Copies) /\ Agree(Copies) /\ Copies \subseteq Transactions
    BY <1>1 DEF FilesInOrder
  <1>8. IsPushed(e, r, pc[e], recorded[e], s, b)
    BY <1>5, <1>6, <1>7, PushedByOne
  <1>9. s \in Seq(Transactions)
    BY <1>7, ReadableChain, SeqMonotonic
  <1>10. Synchronized(r) = s
    <2> DEFINE p == Synchronized(r)
    <2>1. Cuts(server, r.synced, p, ChainSince(server, r.synced))
      BY <1>6, <1>7, SynchronizedCuts DEF Log
    <2>2. p \in Seq(Copies) /\ Path(p, NoId, server.latest) /\ NoId \in Nat
      BY <1>5, <1>7, <2>1, SeqMonotonic DEF Cuts, Pushable, NoId
    <2>3. s \in Seq(Copies) /\ Path(s, NoId, server.latest)
      BY <1>7, ReadableChain, SeqMonotonic
    <2> HIDE DEF p, s
    <2>4. p = s
      BY <1>7, <2>2, <2>3, PathUnique
    <2> QED BY <2>4 DEF p
  <1>11. PICK k \in Nat : HoldsFirst(e, s, k)
    BY <1>6
  <1>12. AllBy(e, b) /\ \E m \in Nat : HoldsFirst(e, s \o b, m)
    BY <1>6, <1>8 DEF IsPushed
  <1> HIDE DEF s, r
  <1>13. Cardinality(RecordedBy(e, s)) = k
    BY <1>9, <1>11, CountRecordedBy
  <1>14. /\ Entries(b) = [i \in 1..Len(b) |-> [by |-> e, nth |-> k + i]]
         /\ Len(b) \in 1..(MaxExpenses - k)
    BY <1>3, <1>4, <1>9, <1>11, <1>12, EntriesNumbered
  <1>15. IsPublished(e, s, Len(Synchronized(r)), Chain(server'))
    BY <1>3, <1>4, <1>10, <1>13, <1>14 DEF IsPublished
  <1> QED BY <1>15 DEF s, r

\* The state of SharedLog.
LogNow == [i \in DOMAIN Chain(server) |-> Chain(server)[i].body]
KnownNow == [c \in Clients |-> Len(Synchronized(repo[c]))]

LEMMA Publishes ==
  ASSUME NEW e \in Clients, NEW log \in Seq(Transactions), log = Chain(server),
         IsPublished(e, log, Len(Synchronized(repo[e])), Chain(server')), repo' = repo
  PROVE  \E n \in 1..(MaxExpenses - Abstract!Published(e)) : Abstract!Publish(e, n)
  <1>1. PICK b \in Seq(Transactions) :
          /\ Chain(server') = log \o b
          /\ LET k == Cardinality(RecordedBy(e, log))
             IN  /\ Entries(b) = [i \in 1..Len(b) |-> [by |-> e, nth |-> k + i]]
                 /\ Len(b) \in 1..(MaxExpenses - k)
    BY DEF IsPublished
  <1> DEFINE k == Cardinality(RecordedBy(e, log))
             n == Len(b)
  <1>2. LogNow = Entries(log) /\ LogNow' = Entries(log \o b)
    BY <1>1 DEF LogNow, Entries
  <1>3. LogNow' = LogNow \o [i \in 1..n |-> [by |-> e, nth |-> k + i]]
    BY <1>1, <1>2, EntriesConcat
  <1>4. Len(LogNow) = Len(log) /\ DOMAIN LogNow = DOMAIN log
    BY <1>2, EntriesType, LenProperties
  <1>5. KnownNow[e] = Len(LogNow)
    BY <1>4 DEF KnownNow, IsPublished
  <1>6. UNCHANGED KnownNow
    BY DEF KnownNow
  <1>7. Abstract!Published(e) = k
    <2>1. {i \in DOMAIN LogNow : LogNow[i].by = e} = RecordedBy(e, log)
      BY <1>2, <1>4 DEF RecordedBy, Entries
    <2>2. Abstract!Published(e) = Cardinality({i \in DOMAIN LogNow : LogNow[i].by = e})
      BY DEF Abstract!Published, Abstract!Cardinality, Cardinality, LogNow
    <2> QED BY <2>1, <2>2
  <1>8. n \in 1..(MaxExpenses - k)
    BY <1>1
  <1> HIDE DEF k, n
  <1>9. Abstract!Publish(e, n)
    BY <1>3, <1>5, <1>6, <1>7 DEF Abstract!Publish, LogNow, KnownNow
  <1> QED BY <1>7, <1>8, <1>9

LEMMA Learns ==
  ASSUME NEW c \in Clients, \A d \in Clients : d # c => repo'[d] = repo[d], server' = server,
         Chain(server) \in Seq(Transactions),
         Len(Synchronized(repo[c])) < Len(Synchronized(repo'[c])),
         Len(Synchronized(repo'[c])) \in 1..Len(Chain(server))
  PROVE  \E n \in 1..Len(LogNow) : Abstract!Learn(c, n)
  <1> DEFINE n == Len(Synchronized(repo'[c]))
  <1>1. Len(LogNow) = Len(Chain(server))
    BY EntriesType DEF LogNow, Entries
  <1>2. KnownNow[c] < n
    BY DEF KnownNow
  <1>3. KnownNow' = [KnownNow EXCEPT ![c] = n]
    BY DEF KnownNow
  <1>4. UNCHANGED LogNow
    BY DEF LogNow
  <1>5. n \in 1..Len(LogNow)
    BY <1>1
  <1> HIDE DEF n
  <1>6. Abstract!Learn(c, n)
    BY <1>2, <1>3, <1>4 DEF Abstract!Learn, LogNow, KnownNow
  <1> QED BY <1>5, <1>6

LEMMA StepRefines ==
  ASSUME WriteThrough, Inv, Inv', HistInv, HistInv', IsReadable(server), FInv, Solid, Ahead,
         [Next]_vars
  PROVE  Abstract!Next \/ UNCHANGED <<LogNow, KnownNow>>
  <1>1. ~rewound /\ \A c \in Clients : disk[c] = repo[c]
    BY DEF Solid
  <1>2. FilesInOrder' /\ DOMAIN repo = Clients
    BY FilesStayInOrder DEF Inv, TypeOK
  <1>3. Chain(server) \in Seq(Transactions)
    <2>1. Stored(server) \subseteq Transactions
      BY FilesAreInOrder DEF FilesInOrder
    <2> QED BY <2>1, ReadableChain, SeqMonotonic
  <1>4. CASE UNCHANGED <<repo, disk>> /\ NoCrash
    <2>1. CASE Chain(server') = Chain(server)
      BY <1>4, <2>1 DEF LogNow, KnownNow
    <2>2. CASE ~(Chain(server') = Chain(server))
      <3>1. PICK e \in Clients :
              IsPublished(e, Chain(server), Len(Synchronized(repo[e])), Chain(server'))
        BY <1>1, <2>2, LogIsPublished
      <3>2. \E n \in 1..(MaxExpenses - Abstract!Published(e)) : Abstract!Publish(e, n)
        BY <1>3, <1>4, <3>1, Publishes
      <3> QED BY <3>2 DEF Abstract!Next
    <2> QED BY <2>1, <2>2
  <1>5. ASSUME NEW c \in Clients, WritesFile(c)
        PROVE  Abstract!Next \/ UNCHANGED <<LogNow, KnownNow>>
    <2>1. server' = server /\ \A d \in Clients : d # c => repo'[d] = repo[d]
      BY <1>2, <1>5 DEF WritesFile, Write
    <2>2. CASE Synchronized(repo[c]) = Synchronized(repo'[c])
      BY <2>1, <2>2 DEF LogNow, KnownNow
    <2>3. CASE /\ Len(Synchronized(repo[c])) < Len(Synchronized(repo'[c]))
               /\ Len(Synchronized(repo'[c])) \in 1..Len(Chain(server))
      <3>1. \E n \in 1..Len(LogNow) : Abstract!Learn(c, n)
        BY <1>3, <2>1, <2>3, Learns
      <3> QED BY <3>1 DEF Abstract!Next, LogNow
    <2> QED BY <1>2, <1>5, <2>2, <2>3, WriteLearns
  <1>6. ASSUME NEW c \in Clients, Crash(c) PROVE UNCHANGED <<LogNow, KnownNow>>
    <2>1. server' = server /\ \A d \in Clients : repo'[d] = repo[d]
      BY <1>1, <1>2, <1>6 DEF Crash
    <2> QED BY <2>1 DEF LogNow, KnownNow
  <1> QED BY <1>4, <1>5, <1>6, StepKinds DEF StepKind

\* As long as crashes lose no write, everything that any number of devices do to the
\* server, through requests that are lost, late or repeated and crashes of anybody, is to
\* the log what SharedLog allows: a device that knows all of the log appends what it
\* recorded next, or a device learns more of the log, or nothing happens.
\* (sync, sync.rs, with receive_transactions, jsonrpcremote.rs.)
THEOREM SyncSharesALog ==
  ASSUME WriteThrough
  PROVE  Spec => ImplementsSharedLog
  <1>1. Init => Abstract!Init
    <2> SUFFICES ASSUME Init PROVE Abstract!Init
      OBVIOUS
    <2> DEFINE r == EmptyRepo
    <2>1. IsFiled(r) /\ r.latest = NoId /\ r.synced = NoId /\ NoId \in Nat
      BY DEF EmptyRepo, IsFiled, IsOrdered, Stored, Range, NoId
    <2> HIDE DEF r
    <2>2. Chain(r) = << >> /\ ChainSince(r, r.synced) = << >>
      <3>1. ChainSince(r, NoId) = << >>
        BY <2>1, NoNews
      <3> QED BY <2>1, <3>1 DEF Chain
    <2>3. Len(Synchronized(r)) = 0
      <3>1. SubSeq(<< >>, 1, 0 - 0) = << >> /\ Len(<< >>) = 0
        OBVIOUS
      <3> QED BY <2>2, <3>1 DEF Synchronized
    <2>4. LogNow = << >>
      BY <2>2 DEF Init, LogNow, r
    <2>5. KnownNow = [c \in Clients |-> 0]
      BY <2>3 DEF Init, KnownNow, r
    <2> QED BY <2>4, <2>5 DEF Abstract!Init, LogNow, KnownNow
  <1>2. /\ Inv /\ Inv' /\ HistInv /\ HistInv' /\ IsReadable(server) /\ FInv /\ Solid /\ Ahead
        /\ [Next]_vars
        => [Abstract!Next]_<<LogNow, KnownNow>>
    BY StepRefines
  <1>3. Inv /\ Inv' /\ HistInv /\ HistInv' /\ IsReadable(server) /\ FInv /\ Solid /\ Ahead
        /\ [Next]_vars
        => [Abstract!Next]_<<[i \in DOMAIN Chain(server) |-> Chain(server)[i].body],
                             [c \in Clients |-> Len(Synchronized(repo[c]))]>>
    BY <1>2 DEF LogNow, KnownNow
  <1>4. Spec => Abstract!Spec
    BY <1>1, <1>3, InvAlways, HistoryAlways, LogReadable, FaithAlways, SolidAlways,
       AheadAlways, PTL DEF Spec, Abstract!Spec
  <1> QED BY <1>4 DEF ImplementsSharedLog
================================================================================
