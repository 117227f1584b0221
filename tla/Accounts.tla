-------------------------------- MODULE Accounts ------------------------------
(* Which accounts exist where: the commands of the CLI (cli/src/main.rs), the *)
(* pages of the phone that create, share, import and delete accounts          *)
(* (mobile/lib/blocs), create_account and get_account_info of the server      *)
(* (lib/src/jsonrpcremote.rs).                                                *)
(*                                                                           *)
(* A file holds accounts and, under keys of their own, transactions: deleting *)
(* an account leaves its transactions.  A command that is refused changes     *)
(* nothing and is no step.  Lists, balances and transfers are only read.      *)
(* Requests and answers may be lost; those that come late or twice, and what  *)
(* a crash in the middle of a call leaves, are in FlouzeSync.                 *)
EXTENDS SyncCall, SequencesExt

CONSTANTS
  Laptops,         \* files used through the CLI
  Phones,          \* files used through the mobile app
  AccountIds,      \* bound: uuids of accounts, in the order of sled's keys
  Labels,          \* what users call accounts
  MaxTransactions, \* bound: transactions recorded by each device
  MaxPages         \* bound: clone pages open on top of each other

\* What nobody can call an account, and what the server refuses as a label.
Absent  == "no account"
NoLabel == ""

ASSUME ConstantsAssumption ==
  /\ Laptops \cap Phones = {}
  /\ AccountIds \subseteq Nat
  /\ Absent \notin Labels
  /\ MaxTransactions \in Nat
  /\ MaxPages \in Nat

Devices == Laptops \cup Phones

VARIABLES
  file,        \* file[d][a]: what device d stores of account a
  server,      \* server[a]: what the server stores of it
  config,      \* config[d]: the accounts that phone d noted as `synchronized`
  pages,       \* pages[d]: what the open clone pages of phone d offer, top last
  nextId,      \* the next transaction id that has not been generated
  recorded,    \* recorded[d]: how many transactions device d has recorded
  generated,   \* account ids that have been generated or typed
  interrupted, \* history: <<d, a>> created on the server by d, which never knew
  unanswered   \* history: <<d, a>> pushed by d, stored, and never known to be

vars == <<file, server, config, pages, nextId, recorded, generated, interrupted,
          unanswered>>

NoAccounts == [a \in AccountIds |-> [label |-> Absent, repo |-> EmptyRepo]]

Init ==
  /\ file = [d \in Devices |-> NoAccounts]
  /\ server = NoAccounts
  /\ config = [d \in Phones |-> {}]
  /\ pages = [d \in Phones |-> << >>]
  /\ nextId = 1
  /\ recorded = [d \in Devices |-> 0]
  /\ generated = {}
  /\ interrupted = {}
  /\ unanswered = {}

-------------------------------------------------------------------------------
(* Accounts of one file f.                                                   *)

HasAccount(f, a) == f[a].label # Absent

ListAccounts(f) == {a \in AccountIds : HasAccount(f, a)}

\* A model::Account: what the key of an account holds.
NewAccount(label) == [label |-> label, latest |-> NoId, synced |-> NoId]

AccountInfo(f, a) ==
  [label |-> f[a].label, latest |-> f[a].repo.latest, synced |-> f[a].repo.synced]

\* Repository::add_account: it overwrites an account of that uuid, and finds
\* the transactions of an earlier one.
AddAccount(f, a, account) ==
  [f EXCEPT ![a] = [label |-> account.label,
                    repo  |-> [@.repo EXCEPT !.latest = account.latest,
                                             !.synced = account.synced]]]

DeleteAccount(f, a) == AddAccount(f, a, NewAccount(Absent))

Labelled(f, label) == {a \in ListAccounts(f) : f[a].label = label}

\* find_account_by_label: the first one of that label in the order of the keys.
FindAccountByLabel(f, label) ==
  CHOOSE a \in Labelled(f, label) : \A b \in Labelled(f, label) : a <= b

\* list-transactions: it gives up at a transaction that is not stored.
CanListTransactions(f, a) == IsReadable(f[a].repo)

-------------------------------------------------------------------------------
(* The server.                                                               *)

ValidateAccount(label) == label # NoLabel

\* Mutant: nobody looks whether the account exists.
CanCreateAccount_Again(a, label) == ValidateAccount(label)

CanCreateAccount(a, label) == ValidateAccount(label) /\ ~HasAccount(server, a)

AsCreated(account) == NewAccount(account.label)

\* create_account; what the server then stores.
Created(a, account) == AddAccount(server, a, AsCreated(account))

CreateAccount(a, account) ==
  /\ CanCreateAccount(a, account.label)
  /\ server' = Created(a, account)

\* The call sync() for account a of device d, from the contents f of its file
\* and s of the server's.
SyncAccount(d, a, f, s) ==
  LET local  == f[a].repo
      remote == s[a].repo
  IN  /\ HasAccount(s, a)
      /\ nextId' = IF CanFetch(local, remote)
                     THEN nextId + IdsForFetch(local, remote)
                     ELSE nextId
      /\ \E o \in SyncOutcomes(local, remote, nextId) :
           /\ file' = [file EXCEPT ![d] = [f EXCEPT ![a].repo = o.local]]
           /\ server' = [s EXCEPT ![a].repo = o.remote]
           /\ unanswered' = IF o.end = "unanswered"
                              THEN unanswered \cup {<<d, a>>} ELSE unanswered

\* Mutant: the copy keeps the pointers of the server's account.
AsCloned_WithPointers(account) == account

AsCloned(account) == NewAccount(account.label)

\* clone_remote, as far as writing the account: nothing asks whether the file
\* has it.
FileWithCopy(d, a) == AddAccount(file[d], a, AsCloned(AccountInfo(server, a)))

-------------------------------------------------------------------------------
(* The CLI.                                                                  *)

NoPhone == UNCHANGED <<config, pages, interrupted>>

\* The uuid of an account that a command adds: generated and so not in use, or
\* typed with --id by somebody who has seen it listed.
GenerateOrType(a) ==
  /\ \/ a \notin generated
     \/ HasAccount(server, a)
     \/ \E d \in Laptops : HasAccount(file[d], a)
  /\ generated' = generated \cup {a}

\* add-account
AddAccountCommand(d, a, label) ==
  /\ Labelled(file[d], label) = {}
  /\ file' = [file EXCEPT ![d] = AddAccount(@, a, NewAccount(label))]
  /\ GenerateOrType(a)
  /\ UNCHANGED <<server, nextId, recorded, unanswered>> /\ NoPhone

\* add-remote-account
AddRemoteAccountCommand(a, label) ==
  /\ CreateAccount(a, NewAccount(label))
  /\ GenerateOrType(a)
  /\ UNCHANGED <<file, nextId, recorded, unanswered>> /\ NoPhone

\* delete-account
DeleteAccountCommand(d, label) ==
  /\ Labelled(file[d], label) # {}
  /\ file' = [file EXCEPT ![d] = DeleteAccount(@, FindAccountByLabel(@, label))]
  /\ UNCHANGED <<server, nextId, recorded, generated, unanswered>> /\ NoPhone

\* Device d records a transaction for account a, on top of its latest one.  (The
\* parent that the phone chooses may be out of date: AccountPage.)
RecordTransaction(d, a) ==
  LET tx == [uuid |-> nextId, parent |-> file[d][a].repo.latest, replaces |-> NoId,
             deleted |-> FALSE, body |-> [by |-> d, nth |-> recorded[d] + 1]]
  IN  /\ recorded[d] < MaxTransactions
      /\ file' = [file EXCEPT ![d][a].repo =
                    SetLatestTransaction(AddTransaction(@, tx), tx.uuid)]
      /\ nextId' = nextId + 1
      /\ recorded' = [recorded EXCEPT ![d] = @ + 1]
      /\ UNCHANGED <<server, generated, unanswered>> /\ NoPhone

\* add-transaction
AddTransactionCommand(d, label) ==
  /\ Labelled(file[d], label) # {}
  /\ RecordTransaction(d, FindAccountByLabel(file[d], label))

\* clone
CloneCommand(d, a) ==
  /\ SyncAccount(d, a, FileWithCopy(d, a), server)
  /\ UNCHANGED <<recorded, generated>> /\ NoPhone

\* clone, when the server gets out of reach once the account is written.
CloneInterrupted(d, a) ==
  /\ HasAccount(server, a)
  /\ file' = [file EXCEPT ![d] = FileWithCopy(d, a)]
  /\ UNCHANGED <<server, nextId, recorded, generated, unanswered>> /\ NoPhone

\* sync
SyncCommand(d, label) ==
  /\ Labelled(file[d], label) # {}
  /\ SyncAccount(d, FindAccountByLabel(file[d], label), file[d], server)
  /\ UNCHANGED <<recorded, generated>> /\ NoPhone

-------------------------------------------------------------------------------
(* The phone.                                                                *)

\* The form asks for a name and generates the uuid (makeAccount); saveAccount
\* of account_list.dart notes that the account is not synchronized, and adds it.
SaveAccount(d, a, label) ==
  /\ label # NoLabel
  /\ a \notin generated
  /\ file' = [file EXCEPT ![d] = AddAccount(@, a, NewAccount(label))]
  /\ generated' = generated \cup {a}
  /\ UNCHANGED <<server, config, pages, nextId, recorded,
                 interrupted, unanswered>>

\* deleteAccount of transactions.dart: what is noted of the account stays.
DeleteAccountOnPhone(d, a) ==
  /\ HasAccount(file[d], a)
  /\ file' = [file EXCEPT ![d] = DeleteAccount(@, a)]
  /\ UNCHANGED <<server, config, pages, nextId, recorded, generated,
                 interrupted, unanswered>>

Synchronize(d, a) ==
  /\ HasAccount(file[d], a)
  /\ a \in config[d]
  /\ SyncAccount(d, a, file[d], server)
  /\ UNCHANGED <<config, pages, recorded, generated, interrupted>>

\* Mutant: the phone forgets that it created the account.
ShareAccount_NotNoted(d, a) ==
  /\ HasAccount(file[d], a)
  /\ a \notin config[d]
  /\ CanCreateAccount(a, file[d][a].label)
  /\ SyncAccount(d, a, file[d], Created(a, AccountInfo(file[d], a)))
  /\ UNCHANGED <<config, pages, recorded, generated, interrupted>>

\* share, the first time: _ensureRemoteAccountExists creates the account on the
\* server and notes it, then sync() pushes what the phone has recorded.
ShareAccount(d, a) ==
  /\ HasAccount(file[d], a)
  /\ a \notin config[d]
  /\ CanCreateAccount(a, file[d][a].label)
  /\ config' = [config EXCEPT ![d] = @ \cup {a}]
  /\ SyncAccount(d, a, file[d], Created(a, AccountInfo(file[d], a)))
  /\ UNCHANGED <<pages, recorded, generated, interrupted>>

\* Mutant: the phone notes the account before it asks the server.
ShareInterrupted_NotedFirst(d, a) ==
  /\ HasAccount(file[d], a)
  /\ a \notin config[d]
  /\ config' = [config EXCEPT ![d] = @ \cup {a}]
  /\ server' \in {server, Created(a, AccountInfo(file[d], a))}
  /\ UNCHANGED <<file, pages, nextId, recorded, generated,
                 interrupted, unanswered>>

\* share, when the server gets out of reach: before it answers create_account,
\* which it may handle, or before sync().
ShareInterrupted(d, a) ==
  /\ HasAccount(file[d], a)
  /\ a \notin config[d]
  /\ CreateAccount(a, AccountInfo(file[d], a))
  /\ \/ /\ config' = [config EXCEPT ![d] = @ \cup {a}]
        /\ UNCHANGED interrupted
     \/ /\ interrupted' = interrupted \cup {<<d, a>>}
        /\ UNCHANGED config
  /\ UNCHANGED <<file, pages, nextId, recorded, generated, unanswered>>

\* A link to account a opens a clone page, on top of those that are open.
\* prepareImport: it offers to import what the file does not have.  A page that
\* does not offer anything, or shows an error, is as good as closed.
PrepareImport(d, a) ==
  /\ HasAccount(server, a)
  /\ ~HasAccount(file[d], a)
  /\ Len(pages[d]) < MaxPages
  /\ pages' = [pages EXCEPT ![d] = Append(@, a)]
  /\ UNCHANGED <<file, server, config, nextId, recorded, generated,
                 interrupted, unanswered>>

ClosePage(d) ==
  /\ pages[d] # << >>
  /\ pages' = [pages EXCEPT ![d] = Front(@)]
  /\ UNCHANGED <<file, server, config, nextId, recorded, generated,
                 interrupted, unanswered>>

\* The page on top takes the import of account a: it goes when that succeeds, and
\* shows an error otherwise.
Offered(d, a) ==
  /\ pages[d] # << >>
  /\ a = Last(pages[d])
  /\ pages' = [pages EXCEPT ![d] = Front(@)]

\* import: the phone notes the account, then calls clone_remote.
Import(d, a) ==
  /\ Offered(d, a)
  /\ config' = [config EXCEPT ![d] = @ \cup {a}]
  /\ SyncAccount(d, a, FileWithCopy(d, a), server)
  /\ UNCHANGED <<recorded, generated, interrupted>>

\* import, when the server is out of reach, or gets so once the account is
\* written.
ImportInterrupted(d, a) ==
  /\ Offered(d, a)
  /\ config' = [config EXCEPT ![d] = @ \cup {a}]
  /\ \/ UNCHANGED file
     \/ file' = [file EXCEPT ![d] = FileWithCopy(d, a)]
  /\ UNCHANGED <<server, nextId, recorded, generated, interrupted, unanswered>>

-------------------------------------------------------------------------------

Command(d) ==
  \/ \E label \in Labels :
       \/ \E a \in AccountIds : AddAccountCommand(d, a, label)
       \/ DeleteAccountCommand(d, label)
       \/ AddTransactionCommand(d, label)
       \/ SyncCommand(d, label)
  \/ \E a \in AccountIds : CloneCommand(d, a) \/ CloneInterrupted(d, a)

\* A clone page covers the others.
Tap(d) ==
  \/ /\ pages[d] = << >>
     /\ \E a \in AccountIds :
          \/ \E label \in Labels : SaveAccount(d, a, label)
          \/ DeleteAccountOnPhone(d, a)
          \/ HasAccount(file[d], a) /\ RecordTransaction(d, a)
          \/ Synchronize(d, a)
          \/ ShareAccount(d, a)
          \/ ShareInterrupted(d, a)
  \/ \E a \in AccountIds :
       PrepareImport(d, a) \/ Import(d, a) \/ ImportInterrupted(d, a)
  \/ ClosePage(d)

Next ==
  \/ \E d \in Laptops : Command(d)
  \/ \E a \in AccountIds, label \in Labels : AddRemoteAccountCommand(a, label)
  \/ \E d \in Phones : Tap(d)

Spec == Init /\ [][Next]_vars

-------------------------------------------------------------------------------
(* Properties.                                                               *)

\* The file holds no transactions of an earlier account of that uuid.
IsTidy(r) == DOMAIN r.txs = Uuids(Chain(r))

Bodies(txs) == {txs[i].body : i \in DOMAIN txs}

\* An account that a phone has and notes as synchronized is on the server,
\* wherever sharing or importing it was interrupted: the phone never asks for
\* an account that nobody will create again.  (_ensureRemoteAccountExists.)
SharedMeansOnServer ==
  \A d \in Phones : \A a \in config[d] :
    HasAccount(file[d], a) => HasAccount(server, a)

\* An account that a phone has and does not note as synchronized can be shared,
\* unless the answer to an earlier attempt was lost: the server will take its
\* name, and nobody else has created it.  (create_account, saveAccount.)
CanBeShared ==
  \A d \in Phones : \A a \in AccountIds \ config[d] :
    HasAccount(file[d], a) /\ <<d, a>> \notin interrupted =>
      CanCreateAccount(a, file[d][a].label)

\* Whatever has been created, cloned, shared, deleted and interrupted before, a
\* device can list every account it has; and when its file holds nothing of one
\* but its chain, it can synchronize it with the server's account, unless the
\* server once stored what the device pushed and the answer was lost: then it
\* never can again.  (clone_remote, add_account, delete_account, sync.)
OnlyLostAnswersBlock ==
  \A d \in Devices : \A a \in ListAccounts(file[d]) :
    /\ CanListTransactions(file[d], a)
    /\ HasAccount(server, a) /\ IsTidy(file[d][a].repo) =>
         (CanSync(file[d][a].repo, server[a].repo, nextId)
            <=> <<d, a>> \notin unanswered)

\* The server keeps every account under its name, and its log only grows.
\* (create_account, receive_transactions.)
ServerKeepsAccounts ==
  [][ \A a \in ListAccounts(server) :
        /\ server'[a].label = server[a].label
        /\ IsPrefix(Chain(server[a].repo), Chain(server'[a].repo)) ]_server

\* As long as an account stays on a device and is not added over its own
\* transactions, its expenses stay listed.  (clone_remote, sync.)
ExpensesKept ==
  [][ \A d \in Devices, a \in AccountIds :
        /\ HasAccount(file[d], a) /\ HasAccount(file'[d], a)
        /\ IsTidy(file'[d][a].repo)
        => Bodies(Chain(file[d][a].repo)) \subseteq Bodies(Chain(file'[d][a].repo))
    ]_file
===============================================================================
