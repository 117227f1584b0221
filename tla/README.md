# flouze in TLA+

flouze keeps the expenses of a group: every member's device holds a file with
a log of transactions, and devices exchange their logs through a server.  This
directory models that program in TLA+, checks the models with TLC on small
instances and proves the most important facts with TLAPS for all instances.

## The system

| Part | Code | State it keeps | Operations |
|---|---|---|---|
| Account storage | `lib/src/sledrepository.rs`, `lib/src/repository.rs` | per account: transactions by uuid, `latest_transaction`, `latest_synchronized_transaction`, in a sled file | add/get/list/delete accounts, add/delete/get transaction, move either pointer, flush, walk the chain |
| Synchronization | `lib/src/sync.rs` | local variables of `sync()`, nothing else | `sync` (fetch, rebase, push, mark), `clone_remote` |
| Server | `lib/src/jsonrpcremote.rs` | a repository under an RwLock | `create_account`, `get_account_info`, `get_latest_transaction`, `get_child_transactions`, `receive_transactions` |
| Balances and transfers | `lib/src/repository.rs`, `mobile/lib/utils/transactions.dart` | none | `get_balance`, `get_transfers`, `flattenHistory` |
| Command line | `cli/src/main.rs` | the file it opens | add/delete/list accounts, add/list transactions, `serve`, `clone`, `sync`, `balance`, `settle` |
| Mobile accounts | `mobile/lib/blocs/account_{sync,clone,list}.dart`, `add_account.dart` | configuration per account (`synchronized`, `meUuid`), clone pages that are open | create, share, synchronize, import, delete an account |
| Account page | `mobile/lib/blocs/transactions.dart`, `account_sync.dart`, `mobile/lib/pages/account.dart` | an account object with `latestTransaction`, the list shown, whether it synchronizes | load, save an expense, an edit or a deletion, synchronize |
| Transaction editor | `mobile/lib/blocs/transaction.dart`, `mobile/lib/pages/add_transaction.dart` | the fields of one transaction and what their validation said | set label, amount, date, payers, beneficiaries; split; save; delete |
| Native handles | `flouze_flutter/lib/`, `flouze_flutter/rust/`, `mobile/lib/utils/services.dart` | proxies with futures of handles, raw pointers, one isolate with a queue of calls | open on demand, call, close when the app is paused |

The editor hands a transaction to the account page, the page calls the library
through a native handle, the CLI calls it directly; `sync()` on a device
calls the server.  Sharing and importing decide between which files `sync()`
runs at all.

A transaction names its `parent` (the transaction it was recorded on) and maybe
the transaction it `replaces`.  The transactions reached from
`latest_transaction` through `parent` are the account's chain.  A device
records on top of its own latest transaction, without asking anybody.
`sync()` compares the server's latest transaction with the last one it knows
to be synchronized, fetches what is newer, rebases its own unsynchronized
transactions on top (with new uuids), stores everything, moves the account,
deletes the originals, and pushes; the server accepts a push only on top of
its latest transaction.

What is hard about it: a sync is three requests and up to a dozen writes, any
two of which can be separated by a crash, by another device's push or by a
lost answer; a push may reach the server after its device has given up; sled
flushes when it likes; nothing but uuids tells a transaction from its rebased
copy.  Around that log, accounts are created, deleted and imported while the
server comes and goes; the account page and the closing of the native repository
go on while calls are queued; two people edit the same transaction without
knowing of each other; and an editor turns typed amounts into shares that must
add up to the cent.  `PROJECT.json` lists these hazards line by line, with the
properties that watch them.

## Modules

| Module | Models |
|---|---|
| `Repository` | one account's part of a repository: the writes of `sledrepository.rs`, the chain, and the pure functions of `repository.rs` and `sync.rs` (consistency check, uniqueness check, rebase, receive) |
| `FlouzeSync` | devices, server and network: recording and `sync()` write by write, the server's handlers, lost, late and repeated pushes, crashes of devices and of the server, files that lose unflushed writes |
| `SharedLog` | what synchronization promises, with no device files, uuids, requests or rebases: one log that grows at its end, devices that know a beginning of it |
| `FlouzeSyncRefinement` | `FlouzeSync` implements `SharedLog` |
| `FlouzeSyncProofs` | the inductive invariants of `FlouzeSync`: what is stored, and under which uuids; what the chains of its devices, of their disks and of its server hold, through every step of a rebase; that no history loses, doubles or reorders what a device recorded, that a rebase leaves nothing behind, and that `FlouzeSync` implements `SharedLog`, step by step |
| `Balance` | `get_balance` and the list of transactions shown, over records, edits and deletions by several devices and the rebases between them |
| `Transfers` | `get_transfers`: the search for few transfers, call by call, in every order of its hash maps |
| `Totals`, `TotalsProofs` | what the balances of some persons, or their shares, add up to; lemmas on such sums and on folds |
| `BalanceProofs` | the inductive invariants and theorems of `Balance` and of `Transfers` |
| `TransactionForm` | the editor of the mobile app, from typed amounts to the saved transaction and back; `divideAmount` |
| `TransactionFormProofs` | its inductive invariant and theorems |
| `SyncCall` | `sync()` and what `clone_remote` copies as one call, for `Accounts` and `AccountPage`; what it fetches and when it may rebase, for `FlouzeSync` too |
| `SyncCallProofs` | lemmas on chains: what the recursive function `ChainSince` returns, when it is kept, cut and extended; and on what a whole call leaves on the device and the server: what it stores, pushes, keeps and deletes |
| `Accounts` | which accounts exist where: every command of the CLI that changes something, the phone's pages that create, share, import and delete, `create_account` |
| `AccountsProofs` | its inductive invariants and theorems |
| `AccountPage` | the page of a shared account, the queue of the isolate behind it, and other devices that push |
| `AccountPageProofs` | its inductive invariants and theorems, with lemmas on queues and on the phone's part of a log |
| `NativeHandles` | opening, calling and closing the phone's repository: proxies, handles, the isolate's messages and answers |
| `NativeHandlesProofs` | its inductive invariants and theorems |
| `MCFlouzeSync`, `MCBalance`, `MCTransfers`, `MCTransactionForm` | instances for TLC |

`Repository` is under both `FlouzeSync` (every step of `sync()`) and `SyncCall`
(the same functions in one step), and both decide by the same operators what is
news and whether it can be rebased upon.  `Accounts` and `AccountPage` may take the
call as one step: nothing else touches the file meanwhile (sled's lock, the
isolate), and what others do to the server between its requests is the subject
of `FlouzeSync`.  So are pushes that arrive late or twice, and crashes in the
middle of a call.  How the call ends is not left out: `SyncOutcomes` lists the
success, the errors that come before the push, the push that is lost, and the push
that the server stores while its answer is lost, which leaves the device with what
it has fetched and without the mark.

What makes these parts correct: a device's file stays readable and its history
complete, and all devices agree on one log (`FlouzeSync`); no sequence of
commands and taps leaves an account that cannot be listed, shared or
synchronized (`Accounts`); what is saved on the page goes on top of the history,
and the page ends up showing it (`AccountPage`); a call finds an open repository
and ends (`NativeHandles`); the balance is that of the transactions people see
(`Balance`); transfers settle it, and are few (`Transfers`); a saved transaction
adds up, and opening it again does not change it (`TransactionForm`), which is
also what `Balance` and `Transfers` rely on.

### Repository and FlouzeSync against the code

A repository is a record `[txs, latest, synced]`: `txs` maps uuids to
transactions (the sled keys `tx:<account>:<uuid>`), the others are the two
pointers of the account.  One account is enough: accounts share no key, and no
operation of the library touches two of them.  A uuid is a positive number
handed out in increasing order, as random 128-bit ids only matter for being
fresh or equal; 0 is the empty id.  `body` stands for label, amount, payers and
date, which the modelled code copies untouched; it says who recorded the
transaction, which only the properties look at.

`pc[c]` is where device `c` is in its current operation, `job[c]` its local
variables: what is still to be stored (`batch`), the pointers to be saved, what
is still to be deleted (`garbage`).

| Step | Code |
|---|---|
| `RecordTransaction`, `SetLatest` | the two writes of `add_transaction` (CLI `main.rs:347-350`, `flouze_flutter/rust/lib.rs:139-150`) |
| `GetLatestTransaction` | first request of `rebase_local_transactions` and its early return |
| `GetChildTransactions` / `RefuseRebase` | second request, all checks on its answer, `rebase_transactions` / any error among them |
| `StoreTransaction`, `SaveAccount`, `CollectGarbage`, `EndRebase` | one write each: news, then rebased transactions; the account; the originals |
| `PushTransactions` / `PushNothing` | collecting what to push / nothing to push or an unreadable chain |
| `AnswerPush` | `receive_transactions` on the server and its answer |
| `SetLatestSynchronized` | the writes after an accepted push |
| `LoseRequest`, `DelayRequest`, `AnswerLatePush`, `LoseReply`, `CrashServer` | what the network and the server may do to a push |
| `Flush`, `Crash` | sled and the operating system |

Atomicity.  A request is one step on the server: the handlers hold the RwLock.
Everything a device computes between two requests or writes is local, so it is
joined to the request it depends on.  Each write to a device's file is a step.
A device runs one operation at a time: the CLI locks the file through sled, the
mobile app sends native calls to one isolate.  A write that fails makes the
operation return its error; the file then is as after a crash that loses
nothing, so `Crash` covers it.  The two writes that end `sync()` are one step,
as the second writes the same account again.  Transport failures of the two
reading requests end `sync()` without a write, like `RefuseRebase`.

Crashes.  `repo[c]` is what device `c` reads, `disk[c]` what it would read
after a crash.  With `WriteThrough = TRUE` a crash loses nothing; with `FALSE`
everything since the last `Flush`, which can happen between any two steps (the
mobile app flushes after recording and after a sync, the CLI when it exits, sled
every half second).  sled keeps the order of writes, so what survives is a
prefix of them.  The server's file is write-through: a server that forgets
acknowledged pushes is not modelled.

### Balance against the code

`log` is the server's, `seen[d]` how much of it device `d` calls synchronized,
`own[d]` what `d` has recorded on top.  That files and server have this shape is the
subject of `FlouzeSync`.  A device records, edits and deletes what its own list shows,
so an edit or deletion may land behind transactions its author had not seen, and
behind another edit of the same transaction; it may also be about a transaction that
has not been synchronized yet.  `Synchronize` is a call of `sync()` with its rebase:
`Rebased` gives every transaction on top a new uuid and leaves what it replaces, as
`rebase_transactions` does, and the originals are gone.  The push may be lost or its
answer may; a device that finds its own transactions among the news is refused.

`ApplyTransaction` is the body of the loop of `get_balance`, `BalanceKnown` says that
none of its look-ups ends in `NoSuchTransaction`, `Shown` is `flattenHistory`.  One
payer and one beneficiary are enough, as `update_balance` adds up shares one by one.
The history variable `orphans` holds the edits and deletions that were rebased
together with what they are about.

### Transfers against the code

`get_transfers_helper` is recursive; `frames` is its call stack, without the
innermost call until that has picked its creditor and entered the loop.  A step
is one call up to its return or its loop, or one round of the loop.  `left` are
the debitors the loop has not come to: hash maps have no order, and a clone
another one than its original, so each choice is open.  `balance` is the argument
of the innermost call.

### TransactionForm against the code

`form` is the state of `TransactionBloc`; each action is a setter, which goes
through `_update` (`Update`), `SaveTransaction` includes the check of the page's
fields and the conversion to shares.  Opening a transaction includes what the
page does then: it writes the stored amount into its text field, whose listener
reads it back (`ReadBack`).  `amountFromString` works on doubles; what it does to
an amount is given by the constant `RoundedDown`, the amounts `n` for which
`trunc(double(n / 100) * 10 * 10)` is `n - 1`; up to 114 these are 47, 57, 59, 83,
94, 113 and 114.  The list of payers keeps its order, because the editor looks
at the first one.  Setting the date validates the fields like setting the same
label again and has no action of its own.  `split_amount` of the CLI
(`main.rs:191-203`) computes the same shares as `divideAmount`, and is shuffled
like it.  A total that is no number is left out, and so are assertions, which a
release build does not evaluate.

### Accounts against the code

A file maps account uuids to a label and a repository.  Deleting an account
removes its label and pointers but not its transactions, as in
`sledrepository.rs`, so adding it again finds them.  `GenerateOrType` is where
uuids come from: generated, or given with `--id` by somebody who has seen them.
`FindAccountByLabel` takes the first account of a label in the order of the keys.
A command or tap that is refused is no step.  On the phone `config[d]` is the
stored note `synchronized`; it outlives the account.  A link opens a clone page on
top of the others, whatever they show, so two pages may offer the same account.
The server may get out of reach between the calls of sharing
(`ShareInterrupted`) and importing (`ImportInterrupted`) and between
`add_account` and `sync()` of `clone_remote` (`CloneInterrupted`); within `sync()` a
push or its answer may be lost (`SyncAccount`).  `unanswered` remembers where the
server has stored a push that its device does not know of.  A request is handled at
once or never here; files keep what is written.

### AccountPage against the code

`latest` is `_account.latestTransaction`: the list of accounts hands out the
object and the page sets the field when it saves, but no synchronization does.
`calls` and `answers` are the two directions of the isolate's port, in order.
A tap on a transaction opens the editor for it (`editing`), and what comes back
replaces it or deletes it; an edit that comes back while the page loads is dropped
(`LeaveEditor`).  Saving appends the write and the list right behind it, without
waiting; the flush follows as a call of its own once the write has been answered.
Synchronizing first asks for the native pointers, then calls `sync()`, then flushes.

`ServeList` stands for the list and the balance, which the page asks for together:
either may fail, the list on a broken chain, the balance also on a transaction that
replaces something the file does not hold (`CanShow`).  `ServeSync` takes each of the
`SyncOutcomes`, or fails before it has got the news.

`Reopen` is leaving the page and opening it again on the same object: what is under
way goes on but is no longer `mine`, and its answers change nothing on the new page.
Only `Restart` reads the account again, and it finds `disk`: what the last flush has
written, by a call of the app or by sled itself after any call (`MaybeFlushed`).  The
app is killed between two calls; a kill in the middle of `sync()`, which leaves a part
of what it wrote, is the `Crash` of `FlouzeSync`.

The history variables say when the page's picture may be wrong: `stale` (the object
is out of date), `forked` (something was stored on the wrong parent), `unnoticed` (a
`sync()` that nobody reads the list after), `rewound` (a killed app has lost what it
had stored).

### NativeHandles against the code

`getRepository` waits for the documents directory between looking for
`_repository` and setting it (`GetDirectory`, `GotDirectory`).  A
`ClosableHandle` keeps a future: a proxy's handle is "opening" with messages
waiting for it, "open" or "failed".  `closeRepository` sends `destroy` behind
what the proxy was asked before and forgets the handle, so the next call opens
the file again.  The isolate takes one message at a time; `native` says whether
the repository behind a handle is not yet made, alive or destroyed.  A `sync` is
sent with raw addresses, which `_sync` has collected in two earlier calls.  Behind
the address of a repository that was destroyed since is freed memory: the call then
succeeds, fails, or hangs the isolate or crashes the app, after which nothing is
answered (`lost`).
Whether a second opening of the file fails depends on the OS's file locks
(`Locks`).

## Properties and runs

Every bound is a constant of the cfg, named there.

| Run | Shows |
|---|---|
| `SyncNetwork` | late and lost pushes, lost answers, a server that dies while storing a push: the log has each device's expenses once, in order and without gap (`ServerLogFaithful`) and only grows at its end (`ServerLogGrows`); no stored transaction is altered (`ServerKeepsTransactions`), a uuid names one (`CopiesAgree`), accounts point to what is stored (`TypeOK`) |
| `SyncCrash` | devices die between any two writes: nothing recorded gets lost (`OwnHistoryComplete`), what the server has stays in the file (`KeepsSynchronized`), a completed rebase leaves no copy behind (`NoLitter`), and `SharedLog` is implemented (`ImplementsSharedLog`) |
| `SyncVolatile` | crashes that lose every write since the last flush, with expenses, edits and deletions: files stay readable (`ChainsReadable`), and what a device calls synchronized is the beginning of the server's log (`CommonHistory`) |
| `SyncLive` | with a lost request or a server crash everybody ends up with one history (`EventuallyInSync`), and `SharedLog` is implemented with its fairness (`ImplementsFairSharedLog`) |
| `Accounts` | a laptop and a phone: what a phone notes as synchronized is on the server (`SharedMeansOnServer`), what it does not can be shared (`CanBeShared`), every account can be listed, and if its file holds nothing else of it, synchronized exactly when no answer to an accepted push was lost (`OnlyLostAnswersBlock`), the server keeps its accounts (`ServerKeepsAccounts`) and devices their expenses (`ExpensesKept`) |
| `AccountPage` | while the object is up to date the next transaction will sit on the latest one (`ParentIsLatest`) and nothing leaves the history (`HistoryKeptUnlessStale`); before any is misplaced, each one stored is in the file's history once, in order, and so on the server (`HistoryComplete`); the settled page shows what is stored if it can be shown (`SettledPageIsRight`); loading and synchronizing end (`PageSettles`) |
| `NativeHandles` | a call finds its repository open and nobody closes one twice (`CallsFindRepository`); the file is not opened while it is open (`NeverOpenTwice`); a pause closes it for good, also while it was being opened (`PauseCloses`); every call ends, unless a `sync()` that a pause has overtaken used freed memory (`CallsEnd`) |
| `BalanceEdits` | on each device the balance can be computed and is that of the transactions shown, unless two edits or deletions are about the same one, or one was rebased together with what it is about (`BalanceOfShownUnlessOrphaned`) |
| `TransfersBest` | nobody overshoots (`NobodyOvershoots`), the depth is bounded (`EachTransferSettlesSomeone`), a solution settles everybody (`SolutionSettles`) with the fewest transfers there are (`FindsFewestTransfers`), the search ends (`Terminates`), and without a solution exactly when the credits exceed the debts (`SolvedUnlessOverpaid`); the stack stays well-formed (`TypeOK`) |
| `FormSums` | sums that were validated add up (`SavedAddsUpUnlessAmountLast`), an even split is exact and fair (`EvenSplitIsExactAndFair`), reopening moves no money between beneficiaries (`ReopeningKeepsShares`) or payers (`ReopeningKeepsPayers`), and saving an untouched transaction costs at most the cent that its amount loses when it is read back (`UntouchedLosesACentAtMost`) |
| `SyncLostReply`, `PageStaleParent` | two defects, see below |

Why the bounds are enough.  Synchronization: two devices are enough for one to
be overtaken between any two of its steps, two expenses each for a rebase of
more than one transaction and for a device that records again after a fault; two
faults for a late push that meets a retry or a server that crashes twice; two
crashes for one that loses the repair of the other, where one recorded
transaction per device suffices, as it can be an edit of the other's.
`Accounts`: two uuids for two accounts of one label, one expense per device, so that
one is pushed and the other rebased, and two clone pages for an import over another;
312002 states.  Other labels, the empty one included, are left to the theorems.
`AccountPage`: two transactions of the page are two expenses or one and its edit or
deletion, and one of somebody else makes both of them rebased, together or apart; one
mishap is a call that fails, a push or an answer that is lost, a page that is left and
opened again, or a kill; 562125 states.  That several mishaps do no more harm is left
to the theorems, which bound nothing.
`NativeHandles`: three calls are one before, one during and one after a pause,
two pauses close what the first reopened.  `BalanceEdits`: four transactions
are an edit of an edit of an edit, or two separate edits, on either side of a rebase,
and five uuids leave one to rename one of them, or two when there are three; two expenses of different sizes and directions
cannot be taken for each other in a sum; 1152005 states.  `TransfersBest`: every
balance of five persons with amounts up to 4 and some that do not add up to 0;
five persons are two groups that settle among themselves, of which a greedy
search would mix the members; `FewestTransfers`, the reference, looks for the
largest number of such groups.  `FormSums`: 57 and 114 are
read as 56 and 113, and 113 as 112 when it is opened again, so that an even split
among three leaves one or two cents over, and two payers or beneficiaries can share
a sum evenly or not; its state space is closed, so nothing bounds the
number of edits or openings.  Devices and members are permuted (`SYMMETRY`) where
nothing tells them apart and no liveness is checked.

Runs with `CHECK_DEADLOCK FALSE` are those where everything may have been used up
or a search has returned.

Fairness.  `FlouzeSync`: `WF(Sync(c))` for each device.  It says that a device
keeps calling `sync()` and that an operation goes on once begun, which is what the
program does while it runs; nothing is assumed about recording, faults, flushes
or late pushes.  A device may still be overtaken between fetching and pushing,
but only finitely often, as the others record a bounded number of expenses.
`AccountPage`: weak fairness of `Serve` and `ReceiveAnswer` (written out, as it is
plain when they are enabled), and `NativeHandles`: `WF(Isolate)`, `WF(App)` and
`WF(GotDirectory)`: the isolate's loop and Dart's event loop go on, nobody has to
tap.  For `Serve` this presumes that `sync()` returns: the HTTP client is created
without a timeout of its own and waits for each answer (`jsonrpcremote.rs:96-108`), so
a server that keeps the connection and never answers would hold up the isolate.  `Transfers`: `WF(Next)`, a call runs until
it returns.

## Where the code fails

Two runs show the code breaking what its documents say.  Each checks one property,
which TLC finds violated:

* `SyncLostReply`: when the answer to an accepted push is lost (or the device
  dies before it marks the push), the device takes its own transactions for
  news, finds them stored already and fails with `DuplicateTransactionId`, in
  every later sync.
* `PageStaleParent`: after a `sync()` that moved the account, the open page
  records the next expense on the transaction that was the latest when the list of
  accounts was read; what came in between drops out of the history, though
  the log is to hold all expenses.

Other defects show in the exception that a property carries, and so have no run
of their own:

* A device that dies while it stores the news finds them again in the next sync
  and refuses them like after a lost answer: liveness is checked without
  crashes of devices.
* A crash that loses the rebase of an accepted push makes the device post the
  expense again under a third id.  The page flushes only when `sync()` has returned
  (`account_sync.dart:101`), so killing the app in between is enough.
  `OwnHistoryComplete`, `ServerLogFaithful`, `KeepsSynchronized` and, for the page,
  `HistoryComplete` and `HistoryKeptUnlessStale` therefore exempt behaviours in which
  a crash has lost writes (`rewound`).
* A rebase renames a transaction but not the `replaces` of its edits
  (`sync.rs:224-225`), and deletes the original that they name
  (`sync.rs:94-97`).  Whoever edits or deletes an expense before it is synchronized
  and is then rebased gets `NoSuchTransaction` from `get_balance`
  (`repository.rs:144`), and so does every device that this is pushed to; the list
  shows the expense and its edit.  `BalanceOfShownUnlessOrphaned` exempts these
  (`orphans`).  The page of such an account shows an error, or the list of an earlier
  loading that ended later: `SettledPageIsRight` is about files that can be shown
  (`CanShow`).
* A transaction edited on two devices is taken back twice by `get_balance`
  (`repository.rs:174`), and hidden once by the list.
* Left-over transactions of a deleted account, an account that is cloned over
  itself, and an import from an old clone page hide what was not pushed and block
  `sync()`: `OnlyLostAnswersBlock` and `ExpensesKept` ask for a tidy file.
* A lost answer to an accepted push blocks a tidy file as well, for ever, also when
  the account is deleted and cloned again on that device: `OnlyLostAnswersBlock` says
  so, and that nothing else does.
* When the answer to `create_account` is lost the account can never be shared:
  `CanBeShared` exempts `interrupted`.
* `add-account --id` overwrites an account of that uuid under another label.
* A `sync()` that fails after its rebase, or outlives its page, leaves the old
  list on the page; saving while the page loads is dropped without a word.
* The answer to an earlier list may overtake the error of a later one, so an
  account that cannot be read, or has no balance, may show an old list.
* Two first calls of `getRepository` make two proxies, of which the second cannot
  open the file and the first is never closed; a call right after a pause that
  fell into the opening opens the file a second time.  `NeverOpenTwice` exempts
  both.  `PauseCloses` says what holds in spite of them: a handle that a pause has
  taken from its proxy is closed.  The first of two proxies keeps its own.
* `_sync` holds the address of the repository across two calls; a pause in
  between destroys what it points to, and `sync()` uses freed memory
  (`lib.rs:247-252`).  `CallsFindRepository` covers the address as long as no pause
  has taken the handle from its proxy; `CallsEnd` exempts what follows (`lost`).
* With more credit than debt, `get_transfers` unwraps a solution that does not
  exist (`SolvedUnlessOverpaid`).  Saved transactions that do not add up lead
  there.
* `setAmount` does not validate, so an amount changed last is saved with shares of
  another sum (`SavedAddsUpUnlessAmountLast`).
* An amount such as 1.14 is read back as 1.13 when its transaction is opened,
  and again lower the next time if the new amount is another such one.
* A payer of 0 listed before the real one is shown as the only payer, in spite of
  the assertion of `transaction.dart:33` (`ReopeningKeepsPayers`).

## Proofs

Each theorem holds for every value of the constants that the assumption of its
module admits: any set of devices, any finite set of persons, any bound.  The
assumptions say no more than that bounds are numbers, persons can be counted, and
the editor's placeholder for "no payer yet" (`Nobody`) is no member of the account:
it is `null` in the code (`PayedByOne`, `transaction.dart:27-42`).

### Synchronization

`FlouzeSyncProofs` proves, under `ConstantsAssumption` alone:

* `TypeCorrect`: `Spec => []TypeOK`.  More than types: the pointers of every
  file, disk and server name stored transactions in every state.
* `UuidsNameOneTransaction`: `Spec => []CopiesAgree`.
* `ServerKeeps`: `Spec => ServerKeepsTransactions`.

The inductive invariant is `Inv == TypeOK /\ PlansKept /\ CopiesAgree`.
`TypeOK` alone is not inductive: `SaveAccount` moves the pointers to ids that it
took from `job`, and `CollectGarbage` deletes.  `PlansKept` says that those ids
are stored or still in the batch, and that no garbage is pointed to.  That holds
when the plan is made because the news are not stored yet (the uniqueness
check) and rebased ids are fresh, that is greater than all ids in use, which
takes `CopiesAgree`.  `CopiesAgree` also gives `ServerKeeps`: what a push
overwrites is a copy of the same transaction.  `StepInv` proves once what all
steps have in common (a step changes one device's file, step and variables,
writes nothing to any disk that was not in its file, and sends the server only
copies); there is one lemma per action above it.

`SyncCallProofs` begins with chains in any file.  `ChainSince` is a recursive
function; as every parent is older than its child (`CopiesAgree`), its value is the
only sequence of stored transactions in which each sits on the one before and
which ends at the latest (`ChainSinceIs`, `PathUnique`).  The lemmas say when it
stays the same (`ChainKept`), and how it falls into what is before a transaction
and what is after (`ChainSinceCuts`).

`FlouzeSyncProofs` goes on, under the same assumption and for crashes that lose
unflushed writes as well:

* `LogOnlyGrows`: `Spec => ServerLogGrows`.
* `AlwaysReadable`: `Spec => []ChainsReadable`.
* `SharedBeginning`: `Spec => []CommonHistory`.
* `SynchronizedKept`: `Spec => KeepsSynchronized`.

Its invariant `HistInv` says that each file and each disk is readable, with a last
synchronized transaction that is on its chain and on the server's
(`IsHistory`), and what each operation has yet to make of it (`Plan`).  The plan is
needed because a rebase is a dozen writes: between storing and saving, the file
shows none of the new chain, so readability after `SaveAccount` has to be promised
from the moment the answer of the server was accepted, about the file that the rest
of the batch will have made (`NextFile`).  The plan also says that the garbage is
not on the chain it will leave.  That disks are covered is what makes the
theorems hold after a crash: what survives is a state that the file was in.

Further down it proves:

* `NothingRecordedIsLost`: `Spec => []OwnHistoryComplete`.
* `LogIsFaithful`: `Spec => []ServerLogFaithful`.
* `NothingIsLeftBehind`: `Spec => []NoLitter`.

The first two speak of behaviours in which no crash has lost a write, and so does
their invariant.  `Device` says that what a device has and the server is not
known to have is by that device (`IsOwn`), and that it stores whatever the log has
of its own and will not collect it (`KeepsOwn`): this is why a retry after a lost
answer is refused as a duplicate instead of being posted again under new ids.
`IsPush` says of every push under way, late and repeated ones included, that the
server either refuses it, because its log has moved on, or finds the device that
sent it still where it was, with that push at the front of what it has to publish:
a push that would still be accepted has not been rebased in the meantime.
`Swept` accounts for every transaction that is stored: on the chain, just
stored to be put there, or garbage that the rebase will delete.

Its last part is the refinement:

* `SyncSharesALog`: `ASSUME WriteThrough PROVE Spec => ImplementsSharedLog`.

A step that changes the server is `Publish`, one that changes how much a device
knows is `Learn`, all others stutter.  That an accepted push is what `SharedLog`
allows, namely exactly the next expenses of a device that knows the whole log,
takes `IsPush` and `HoldsFirst` for the log before and after; that a device never
knows less takes `Ahead` (a rebase moves the synchronized end forward).
`WriteThrough` says that crashes lose no write, and is instantiated by the runs
`SyncCrash` and `SyncNetwork`.  The theorem is false without it: a crash that takes
back the mark after an accepted push, and the rebase before it, makes the device
publish the same expense a second time.

### Transfers

`BalanceProofs` proves, for every finite set of persons and all balances
(`BalancesAssumption`), in whatever order the hash maps are gone through:

* `TransfersTyped`: `Spec => []TypeOK`.
* `NobodyPaysTooMuch`: `Spec => []NobodyOvershoots`.
* `DepthBounded`: `Spec => []EachTransferSettlesSomeone`.
* `SolutionsSettle`: `Spec => []SolutionSettles`.
* `UnwrapsUnlessOverpaid`: `Spec => []SolvedUnlessOverpaid`.
* `SearchFindsFewest`: `Spec => []FindsFewestTransfers`.
* `NothingBeatsTheSolution`: `Spec => []ShortestOfAll`, which the runs do not check: it
  speaks of every list of transfers there is.

The second and third need a stronger invariant (`Inv`): what lies on the stack is
also a legal call, with a creditor of its balance and debitors of it, one transfer
per frame but the last; each transfer then settles one of its two persons and
unsettles nobody, so the number of unsettled persons falls with the depth.

The next two are about sums (`SInv`).  `Accounted` says that the balance of each call on
the stack, and what the transfers up to it pay, make up the balance that was asked
for, person by person, and that no transfer changes the total.  When nobody is
owed anything any more, everybody who was has been paid, and if the total is 0
nobody owes anything either.  `Searched` says that a loop which has tried one
debitor, or the whole search at its end, has found a solution if the persons owe at
least what they are owed: then a call with a creditor has a debitor too
(`SomebodyOwes`).  The pruning by length does not get in the way, as a branch is
cut only when there is a solution already.  The lemmas on sums do without an
induction theorem: the counterexample with the fewest elements is refuted
(`SmallestSet`).

The last two are about groups.  `FewestTransfers(b)` is the number of unsettled persons
less the most disjoint groups of them that settle among themselves (`Groupings`).  One
transfer between any two persons, of any amount, lowers it by one at most: groups that
contain one of the two are joined into one that settles after the transfer as it did
before (`OneTransferCloser`, with `Regrouped`).  Hence no list of transfers that settles
`b` is shorter (`NoShorterListSettles`, by the shortest counterexample).  The other
way round, whichever creditor a call picks, one of its debitors is such that the
transfer the code makes does lower it: a debitor of the creditor's own group in a best
grouping (`SomeTransferHelps`; `BestCovers` says that a best grouping of a balance that
adds up leaves nobody out).  That the search tries all debitors of one creditor and never
goes back on the creditor is therefore enough.  The invariant `FInv` says of each
loop on the stack that whatever it has tried and come back from has left a solution at
least as good as that try could lead to (`Tried`), and that no solution is shorter than
`FewestTransfers(owed)` (`NoneShorter`); pruning a list that is as long as the
solution keeps both.

### Balance

`BalanceProofs` also proves, for any devices and finite set of members and logs of any
length:

* `BalanceIsThatOfTheList`: `BalanceSpec => []BalanceOfShownUnlessOrphaned`.

The invariant `LogInv` says of the log and of what each device stores (`IsHistory`) that
uuids are distinct and older than the next one, a deletion replaces something, and
whatever replaces a transaction comes after it, unless it is in `orphans`; and that
what is replaced is no deletion, because nobody can tap on what the list does not show
(`EditableIsLive`).  A rebase keeps that: what a transaction on top replaces is either
below it and keeps its uuid, or on top as well, and then the rebased transaction is
among the orphans (`HistoryRebased`).  Where there are none, the ancestor that
`get_balance` looks for is there, and is the replaced transaction itself
(`AncestorIs`).  The rest compares two folds: `get_balance` goes through the whole chain
backwards, adding each transaction and taking back the one it replaces
(`GetBalanceIsSum`), the other side through what is shown (`ShownIsSum`).  Both are sums,
member by member; without conflicts, going from a replacement to what it replaces is
one-to-one, so what is taken back is the sum over the replaced transactions
(`ColumnsAgree`, with `TotalRenamed`), and what is left are those that are shown.

### Transaction editor

`TransactionFormProofs` proves, for any finite set of members that is not empty, any
typed amounts and any amounts that lose a cent:

* `SavedSumsAddUp`: `Spec => []SavedAddsUpUnlessAmountLast`.
* `EvenSplitsAreExact`: `Spec => []EvenSplitIsExactAndFair`.
* `UntouchedIsSafe`: `Spec => []UntouchedLosesACentAtMost`.
* `SharesSurviveReopening`: `Spec => []ReopeningKeepsShares`.
* `PayersSurviveReopening`: `Spec => []ReopeningKeepsPayers`.

What `payedByOk` and `payedForOk` say was true of some amount: that of the form unless
the amount was changed last, and at most a cent more if nothing else was touched
(`Validated`).  This is what the form keeps through any setter, as each one
validates against the amount of that moment and only `setAmount` does not; `Saved` says
the same of the stored transaction.  `EvenAddsUp` shows that rounded shares and the
cents left over make up the amount, for any number of persons.  The last two theorems
are about conversions that undo each other: shares that look like an even split are one
(`DividedAgain`).

### Accounts

`AccountsProofs` proves, for any laptops, phones, uuids, labels and open pages:

* `SharedIsOnServer`: `Spec => []SharedMeansOnServer`.
* `UnsharedCanBeShared`: `Spec => []CanBeShared`.
* `LostAnswersAlwaysBlock`: `Spec => []OnlyLostAnswersBlock`.
* `ServerOnlyGrows`: `Spec => ServerKeepsAccounts`.
* `ExpensesAreKept`: `Spec => ExpensesKept`.

The invariant of the first two, `IInv`, adds to the first one that an open clone page offers accounts of the
server (`OfferedOnServer`: importing notes the account before it asks), and to the
second that whatever exists has a generated uuid (`UsedIsGenerated`: so a new
one is nowhere yet) and that an account which a phone has and has not noted is
neither on the server nor on another device, unless that phone was interrupted
(`UnsharedIsKept`): nobody else has seen its uuid, so nobody can create it.  All
of it is about labels alone: every action changes at most one label of one file and
one of the server (`OneAccountChanges`), and what `sync()` does to transactions
never shows, so the operators of `SyncCall` are not expanded.

The last three are about transactions, and need `RInv` besides: on every device the
repository of an account, also of one that the device has deleted, is `Linked` with
the server's.  Both can be read, and what the device takes for synchronized is on both
chains.  As long as no answer of the server was lost they are `Paired`: nothing that the
device has yet to push is stored on the server, nor on another device (`Apart`).  After
that they are `Blocked`: the device stores something that the server's log has after
what the device takes for synchronized.  No fetch gets past that
(`BlockedCannotFetch`), and nothing the device can do takes it away (`StaysBlocked`):
only a rebase deletes transactions, and there is none.  Every step of every command and tap writes the repository of at
most one account on one device and the server's (`IsStep`), and what it writes is
what a few elementary writes leave, one after the other (`IsWritten`): the account
added anew, a transaction recorded, a `sync()` as far as it gets.
`SyncCallProofs` has the lemmas about `sync()`: a rebase is one step there, so its
news, its copies and its garbage are put together from `ChainSinceCuts`, and
`OnlyChainCanSync` says that nothing refuses a call when the file holds nothing but
its chain.  A file that holds more is where the code fails (left over from a
deleted account, or cloned over itself), and what the two properties exempt.

### Account page

`AccountPageProofs` proves, for any number of expenses, edits and deletions, and of
failures, lost pushes and answers, reopened pages and kills:

* `SettledIsRightAlways`: `Spec => []SettledPageIsRight`.
* `ParentIsLatestAlways`: `Spec => []ParentIsLatest`.
* `HistoryIsComplete`: `Spec => []HistoryComplete`.
* `HistoryIsKeptUnlessStale`: `Spec => HistoryKeptUnlessStale`.

The first two are about the two queues, which are of any length.  `PageInv` follows
what will become of the page: each expense that waits to be stored has a list of the
same page behind it, a page that synchronizes has one call or answer under way that
will end it, and a page that did not miss a change shows the file, if that can be shown
(`IsFresh`), or will be told to read it again (`WillRead`).  That an old list cannot be the last word
takes the order of the queues: the newest list in either of them is right
(`NewestIs`).  `TurnInv` says that the expenses in the queue sit on each other, the
first one on the file's latest transaction, and that the page's `latest` is the last
of them.

The last two are about the chain after a whole `sync()`.  `KeptInv` says, as long as
nothing was stored on the wrong parent and no kill took writes back, that the phone
holds what it has stored (`IsHeld`), in one of two ways.  Either file and server are
`Paired`, the server's log is what the phone takes for synchronized and then only what
others pushed, and the phone's part of its chain is what it has stored, in that order
(`IsKept`); or a push was stored and its answer lost (`IsStranded`): then the phone is
`Blocked` as in `Accounts`, so no rebase can give its transactions new uuids and post
them again, and the server has a beginning of them.  It also says that the transactions
which wait to be stored have ids that neither of them stores (`IsPlanned`).  `OfPhone`,
which picks the phone's transactions from a list, is a recursive function on positions;
that it goes through concatenation, and that a rebased copy counts like its original, is
shown by the least position at which it would not (`OfPhoneConcat`, `SameOfPhone`).

### Native handles

`NativeHandlesProofs` proves, for any number of calls, pauses and failures and
with or without file locks:

* `CallsFind`: `Spec => []CallsFindRepository`.
* `OpenedOneAtATime`: `Spec => []NeverOpenTwice`.
* `PausedIsClosed`: `Spec => []PauseCloses`.

The first property looks at the head of the queue; the invariant `IInv` has to
follow a `destroy` from the moment it is sent.  `DestroyIsLast` says that no proxy
has the handle any more and that the message is the last one to it, in the queue or
among those that wait; `OpenedOnce` and `WaitsUntilOpen` say that a handle is being
opened exactly while its `init` or the answer is under way, that nothing else is
sent to it until then, and that nothing waits afterwards, so that what is sent once
it is open cannot overtake what waited; `Found` is the property at every place of
the queue.  An address under way is that of a handle that was opened once (`Located`);
while its proxy has the handle no `destroy` was sent, so it still is.

The other two need to know who will close a repository (`Owner`): a handle that is
being opened will be told how that ended (`Told`), there is no repository before
(`NotYet`), and one that is not closed is held by a proxy, or its `destroy` is in
the queue, or waits for the opening to end (`Cared`).  With one proxy that was
never paused while opening, no `destroy` waits, and each one in the queue is ahead
of the next `init` (`OneAtATime`).

### Only model-checked

Every invariant and every action property of the passing runs is proved.  TLC alone
checks what must eventually happen: `EventuallyInSync`, `ImplementsFairSharedLog`,
`Terminates`, `PageSettles` and `CallsEnd`.  They rest on fairness, and so on
`ENABLED`, which is out of the prover's reach.  The safety half of the fair refinement
is `SyncSharesALog`; `DepthBounded` says why `Terminates` holds.

The prover has no induction over data.  Where a proof is about a sequence or a set of
any size, it looks at the smallest counterexample instead (`SmallestSet`,
`LeastElement`); where the model is recursive, at the defining equation of the
recursive function.

## Not modelled, and the plan

Not modelled: the layout, wording and printing of CLI and app, marshalling, the
generated protobuf classes, HTTP, sled itself (a map with a prefix of its
writes on disk), sharing links.  `flouze_flutter/rust/android.rs` is dead code:
no build enables the feature that compiles it, and the Android libraries export
the C functions of `ios.rs`.  `lib/src/localremote.rs` implements the server's
interface for tests only.  Who the user of a phone is (`meUuid`) changes only
what is highlighted; a configuration that cannot be read or saved, and a total
that is no number, are left out.  `lib/src/errors.rs` and `applinks.dart` have no
state.

Every module of the plan is written, and every safety property that a run checks is
proved.
