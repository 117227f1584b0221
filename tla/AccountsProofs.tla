--------------------------- MODULE AccountsProofs ----------------------------
(* Theorems about Accounts, for any laptops, phones, accounts and labels.     *)
(*                                                                           *)
(* Whether an account exists is a matter of its label alone: the first part,  *)
(* up to UnsharedCanBeShared, is about labels, and leaves the operators of    *)
(* SyncCall unexpanded.  Every action changes at most one label of one file   *)
(* and one label of the server.  The second part is about the repositories:   *)
(* every action writes those of one account on one device and on the server,  *)
(* in one of the ways of IsWritten, and those of all accounts stay in order:  *)
(* paired with the server's as sync() needs it, or blocked, once the answer   *)
(* to a push was lost.                                                        *)
EXTENDS Accounts, SyncCallProofs

-------------------------------------------------------------------------------
(* The inductive invariant.                                                  *)

\* f stores a label and a repository for every account.
IsFile(f) ==
  /\ f = [a \in AccountIds |-> f[a]]
  /\ \A a \in AccountIds : f[a] = [label |-> f[a].label, repo |-> f[a].repo]

Shaped ==
  /\ file = [d \in Devices |-> file[d]]
  /\ \A d \in Devices : IsFile(file[d])
  /\ IsFile(server)
  /\ config \in [Phones -> SUBSET AccountIds]
  /\ pages \in [Phones -> Seq(AccountIds)]

\* Whatever a phone noted, or a clone page offers, is on the server, which never
\* deletes an account.
NotedOnServer == \A d \in Phones : \A a \in config[d] : HasAccount(server, a)

OfferedOnServer ==
  \A d \in Phones : \A i \in 1..Len(pages[d]) : HasAccount(server, pages[d][i])

\* A uuid that names an account somewhere has been generated.
UsedIsGenerated ==
  \A a \in AccountIds \ generated :
    /\ ~HasAccount(server, a)
    /\ \A d \in Devices : ~HasAccount(file[d], a)

\* What CanBeShared needs in the next state: nobody else has an account that a
\* phone keeps to itself, so nobody has seen its uuid.
KeptToItself(d, a) ==
  /\ file[d][a].label # NoLabel
  /\ ~HasAccount(server, a)
  /\ \A e \in Devices \ {d} : ~HasAccount(file[e], a)

UnsharedIsKept ==
  \A d \in Phones : \A a \in AccountIds \ config[d] :
    HasAccount(file[d], a) /\ <<d, a>> \notin interrupted => KeptToItself(d, a)

IInv ==
  /\ Shaped
  /\ NotedOnServer
  /\ OfferedOnServer
  /\ UsedIsGenerated
  /\ UnsharedIsKept

-------------------------------------------------------------------------------
(* What happens to the labels.                                               *)

\* From f to g at most the label of account a changes, to l.
Relabels(f, g, a, l) ==
  /\ IsFile(g)
  /\ \A b \in AccountIds : g[b].label = IF b = a THEN l ELSE f[b].label

KeepsLabels(f, g) ==
  /\ IsFile(g)
  /\ \A b \in AccountIds : g[b].label = f[b].label

\* A step after which device d has file g, and the others the one they had.
Stores(d, g) ==
  /\ file' = [e \in Devices |-> file'[e]]
  /\ file'[d] = g
  /\ \A e \in Devices \ {d} : file'[e] = file[e]

\* Adding an account gives it its label and leaves the others alone.
LEMMA AddAccountLabels ==
  ASSUME NEW f, IsFile(f), NEW a \in AccountIds, NEW account
  PROVE  Relabels(f, AddAccount(f, a, account), a, account.label)
  BY DEF IsFile, AddAccount, Relabels

\* Writing the repository of an account changes no label.
LEMMA WriteRepoLabels ==
  ASSUME NEW f, IsFile(f), NEW a, NEW repo
  PROVE  KeepsLabels(f, [f EXCEPT ![a].repo = repo])
<1>1. CASE a \in AccountIds
  BY <1>1 DEF IsFile, KeepsLabels
<1>2. CASE a \notin AccountIds
  <2>1. [f EXCEPT ![a].repo = repo] = f
    BY <1>2 DEF IsFile
  <2>. QED
    BY <2>1 DEF KeepsLabels
<1>. QED
  BY <1>1, <1>2

\* A device writes its own file.
LEMMA WritesItsFile ==
  ASSUME Shaped, NEW d \in Devices, NEW g, file' = [file EXCEPT ![d] = g]
  PROVE  Stores(d, g)
  BY DEF Shaped, Stores

\* sync() leaves the labels of the file and of the server that it starts from.
LEMMA SyncLabels ==
  ASSUME Shaped, NEW d \in Devices, NEW a,
         NEW f, IsFile(f), NEW s, IsFile(s), SyncAccount(d, a, f, s)
  PROVE  /\ HasAccount(s, a)
         /\ \E g : Stores(d, g) /\ KeepsLabels(f, g)
         /\ KeepsLabels(s, server')
<1>1. /\ HasAccount(s, a)
      /\ \E local, remote :
           /\ file' = [file EXCEPT ![d] = [f EXCEPT ![a].repo = local]]
           /\ server' = [s EXCEPT ![a].repo = remote]
  BY Zenon DEF SyncAccount
<1>0. PICK local, remote :
        /\ file' = [file EXCEPT ![d] = [f EXCEPT ![a].repo = local]]
        /\ server' = [s EXCEPT ![a].repo = remote]
  BY <1>1, Zenon
<1>2. KeepsLabels(f, [f EXCEPT ![a].repo = local])
  BY WriteRepoLabels, Zenon
<1>3. KeepsLabels(s, [s EXCEPT ![a].repo = remote])
  BY WriteRepoLabels, Zenon
<1>4. Stores(d, [f EXCEPT ![a].repo = local])
  BY <1>0, WritesItsFile, Zenon
<1>. QED
  BY <1>0, <1>1, <1>2, <1>3, <1>4, Zenon

\* Copying an account of the server gives it the label it has there.
LEMMA CopyLabels ==
  ASSUME Shaped, NEW d \in Devices, NEW a \in AccountIds
  PROVE  Relabels(file[d], FileWithCopy(d, a), a, server[a].label)
<1>1. IsFile(file[d])
  BY DEF Shaped
<1>2. AsCloned(AccountInfo(server, a)).label = server[a].label
  BY DEF AsCloned, NewAccount, AccountInfo
<1>. DEFINE account == AsCloned(AccountInfo(server, a))
<1>. HIDE DEF account
<1>3. Relabels(file[d], AddAccount(file[d], a, account), a, account.label)
  BY <1>1, AddAccountLabels, Zenon
<1>. QED
  BY <1>2, <1>3 DEF FileWithCopy, account

\* Creating an account on the server gives it the label it has on the device.
LEMMA CreatedLabels ==
  ASSUME Shaped, NEW a \in AccountIds, NEW account
  PROVE  Relabels(server, Created(a, account), a, account.label)
<1>1. IsFile(server)
  BY DEF Shaped
<1>2. AsCreated(account).label = account.label
  BY DEF AsCreated, NewAccount
<1>. DEFINE new == AsCreated(account)
<1>. HIDE DEF new
<1>3. Relabels(server, AddAccount(server, a, new), a, new.label)
  BY <1>1, AddAccountLabels, Zenon
<1>. QED
  BY <1>2, <1>3 DEF Created, new

\* Closing a page leaves the others as they are.
LEMMA FrontEntries ==
  ASSUME NEW S, NEW s \in Seq(S), s # << >>
  PROVE  /\ Front(s) \in Seq(S)
         /\ Len(Front(s)) = Len(s) - 1
         /\ \A i \in 1..Len(s) - 1 : Front(s)[i] = s[i]
         /\ Last(s) = s[Len(s)] /\ Len(s) \in 1..Len(s)
<1>. DEFINE n == Len(s) - 1
<1>1. n \in Nat /\ 1 \in Int /\ n \in Int /\ Len(s) = n + 1
  OBVIOUS
<1>2. \A i \in 1..n : s[i] \in S
  BY <1>1
<1>3. Front(s) = SubSeq(s, 1, n)
  BY DEF Front
<1>. HIDE DEF n
<1>4. /\ SubSeq(s, 1, n) \in Seq(S)
      /\ Len(SubSeq(s, 1, n)) = IF 1 <= n THEN n - 1 + 1 ELSE 0
      /\ \A i \in 1..n - 1 + 1 : SubSeq(s, 1, n)[i] = s[1 + i - 1]
  BY <1>1, <1>2, SubSeqProperties
<1>5. Len(Front(s)) = n
  BY <1>1, <1>3, <1>4
<1>6. \A i \in 1..n : Front(s)[i] = s[i]
  BY <1>1, <1>3, <1>4
<1>7. Last(s) = s[Len(s)] /\ Len(s) \in 1..Len(s)
  BY <1>1 DEF Last
<1>. QED
  BY <1>3, <1>4, <1>5, <1>6, <1>7 DEF n

-------------------------------------------------------------------------------
(* The step.                                                                 *)

\* Every phone that keeps account a to itself in the next state may do so.
StillKept(a) ==
  \A p \in Phones :
    /\ a \notin config'[p]
    /\ <<p, a>> \notin interrupted'
    /\ HasAccount(file'[p], a)
    => /\ file'[p][a].label # NoLabel
       /\ ~HasAccount(server', a)
       /\ \A e \in Devices \ {p} : ~HasAccount(file'[e], a)

\* What phones note, and pages offer, they did already, unless it is account a
\* and the server has it under label m.
NotesAtMost(a, m) ==
  /\ config' \in [Phones -> SUBSET AccountIds]
  /\ \A p \in Phones :
       /\ config[p] \subseteq config'[p]
       /\ \A b \in config'[p] \ config[p] : b = a /\ m # Absent

OffersAtMost(a, m) ==
  /\ pages' \in [Phones -> Seq(AccountIds)]
  /\ \A p \in Phones : \A i \in 1..Len(pages'[p]) :
       \/ \E j \in 1..Len(pages[p]) : pages'[p][i] = pages[p][j]
       \/ pages'[p][i] = a /\ m # Absent

\* The invariant survives whatever changes the labels of one account only, as
\* far as the other accounts are concerned.
LEMMA OneAccountChanges ==
  ASSUME IInv, NEW d \in Devices, NEW a \in AccountIds, NEW g, NEW l, NEW m,
         Stores(d, g), Relabels(file[d], g, a, l), Relabels(server, server', a, m),
         HasAccount(server, a) => m # Absent,
         NotesAtMost(a, m), OffersAtMost(a, m),
         generated \subseteq generated',
         l # Absent \/ m # Absent => a \in generated',
         interrupted \subseteq interrupted',
         StillKept(a)
  PROVE  IInv'
<1>1. Shaped'
  BY DEF IInv, Shaped, Stores, Relabels, NotesAtMost, OffersAtMost
<1>2. \A b \in AccountIds : HasAccount(server, b) => HasAccount(server', b)
  BY DEF Relabels, HasAccount
<1>3. m # Absent => HasAccount(server', a)
  BY DEF Relabels, HasAccount
<1>4. NotedOnServer'
  BY <1>2, <1>3 DEF IInv, Shaped, NotedOnServer, NotesAtMost
<1>5. OfferedOnServer'
  <2>. SUFFICES ASSUME NEW p \in Phones, NEW i \in 1..Len(pages'[p])
                PROVE  HasAccount(server', pages'[p][i])
    BY DEF OfferedOnServer
  <2>1. CASE pages'[p][i] = a /\ m # Absent
    BY <1>3, <2>1
  <2>2. CASE \E j \in 1..Len(pages[p]) : pages'[p][i] = pages[p][j]
    <3>1. PICK j \in 1..Len(pages[p]) : pages'[p][i] = pages[p][j]
      BY <2>2
    <3>2. pages[p][j] \in AccountIds
      BY DEF IInv, Shaped
    <3>. QED
      BY <1>2, <3>1, <3>2 DEF IInv, OfferedOnServer
  <2>. QED
    BY <2>1, <2>2 DEF OffersAtMost
<1>6. \A e \in Devices : \A b \in AccountIds :
        file'[e][b].label = IF e = d /\ b = a THEN l ELSE file[e][b].label
  BY DEF Stores, Relabels
<1>7. UsedIsGenerated'
  BY <1>6 DEF IInv, UsedIsGenerated, Relabels, HasAccount
<1>8. UnsharedIsKept'
  <2>. SUFFICES ASSUME NEW p \in Phones, NEW b \in AccountIds, b \notin config'[p],
                       HasAccount(file'[p], b), <<p, b>> \notin interrupted'
                PROVE  /\ file'[p][b].label # NoLabel
                       /\ ~HasAccount(server', b)
                       /\ \A e \in Devices \ {p} : ~HasAccount(file'[e], b)
    BY DEF UnsharedIsKept, KeptToItself, HasAccount
  <2>1. CASE b = a
    BY <2>1 DEF StillKept
  <2>2. CASE b # a
    <3>1. p \in Devices
      BY DEF Devices
    <3>2. b \notin config[p] /\ <<p, b>> \notin interrupted
      BY DEF NotesAtMost
    <3>3. HasAccount(file[p], b)
      BY <1>6, <2>2, <3>1 DEF HasAccount
    <3>4. KeptToItself(p, b)
      BY <3>2, <3>3 DEF IInv, UnsharedIsKept
    <3>. QED
      BY <1>6, <2>2, <3>1, <3>4 DEF KeptToItself, HasAccount, Relabels
  <2>. QED
    BY <2>1, <2>2
<1>. QED
  BY <1>1, <1>4, <1>5, <1>7, <1>8 DEF IInv

LEMMA KeepsIsRelabels ==
  ASSUME NEW f, NEW g, KeepsLabels(f, g), NEW a \in AccountIds
  PROVE  Relabels(f, g, a, f[a].label)
  BY DEF KeepsLabels, Relabels

LEMMA UnchangedFile ==
  ASSUME Shaped, UNCHANGED file, NEW d \in Devices
  PROVE  Stores(d, file[d]) /\ KeepsLabels(file[d], file[d])
  BY DEF Shaped, Stores, KeepsLabels

LEMMA UnchangedServer ==
  ASSUME Shaped, UNCHANGED server
  PROVE  KeepsLabels(server, server')
  BY DEF Shaped, KeepsLabels

LEMMA UnchangedNotes ==
  ASSUME Shaped, UNCHANGED config, NEW a, NEW m
  PROVE  NotesAtMost(a, m)
  BY DEF Shaped, NotesAtMost

LEMMA UnchangedPages ==
  ASSUME Shaped, UNCHANGED pages, NEW a, NEW m
  PROVE  OffersAtMost(a, m)
  BY DEF Shaped, OffersAtMost

\* An account that somebody has is on a list of used uuids.
LEMMA UsedGenerated ==
  ASSUME IInv, NEW a \in AccountIds
  PROVE  /\ server[a].label # Absent => a \in generated
         /\ \A d \in Devices : file[d][a].label # Absent => a \in generated
  BY DEF IInv, UsedIsGenerated, HasAccount

\* A step that changes no label, such as recording and synchronizing.
LEMMA NoLabelChanges ==
  ASSUME IInv, NEW d \in Devices, AccountIds # {}, NEW g,
         Stores(d, g), KeepsLabels(file[d], g), KeepsLabels(server, server'),
         UNCHANGED <<config, pages, generated, interrupted>>
  PROVE  IInv'
<1>. PICK a \in AccountIds : TRUE
  OBVIOUS
<1>1. Shaped
  BY DEF IInv
<1>2. Relabels(file[d], g, a, file[d][a].label)
  BY KeepsIsRelabels, Zenon
<1>3. Relabels(server, server', a, server[a].label)
  BY KeepsIsRelabels, Zenon
<1>4. NotesAtMost(a, server[a].label) /\ OffersAtMost(a, server[a].label)
  BY <1>1, UnchangedNotes, UnchangedPages, Zenon
<1>5. StillKept(a)
  <2>. SUFFICES ASSUME NEW p \in Phones, a \notin config[p], <<p, a>> \notin interrupted,
                       HasAccount(file'[p], a)
                PROVE  /\ file'[p][a].label # NoLabel
                       /\ ~HasAccount(server', a)
                       /\ \A e \in Devices \ {p} : ~HasAccount(file'[e], a)
    BY DEF StillKept
  <2>1. \A e \in Devices : file'[e][a].label = file[e][a].label
    BY DEF Stores, KeepsLabels
  <2>2. p \in Devices
    BY DEF Devices
  <2>3. HasAccount(file[p], a)
    BY <2>1, <2>2 DEF HasAccount
  <2>4. KeptToItself(p, a)
    BY <2>3 DEF IInv, UnsharedIsKept
  <2>. QED
    BY <2>1, <2>2, <2>4 DEF KeptToItself, HasAccount, KeepsLabels
<1>6. HasAccount(server, a) => server[a].label # Absent
  BY DEF HasAccount
<1>7. file[d][a].label # Absent \/ server[a].label # Absent => a \in generated'
  BY UsedGenerated
<1>. QED
  BY <1>2, <1>3, <1>4, <1>5, <1>6, <1>7, OneAccountChanges

\* A step in which device d gives account a label l and the server stays.
LEMMA DeviceRelabels ==
  ASSUME IInv, NEW d \in Devices, NEW a \in AccountIds, NEW g, NEW l,
         Stores(d, g), Relabels(file[d], g, a, l), KeepsLabels(server, server'),
         NotesAtMost(a, server[a].label), OffersAtMost(a, server[a].label),
         generated \subseteq generated', l # Absent => a \in generated',
         UNCHANGED interrupted, StillKept(a)
  PROVE  IInv'
<1>1. Relabels(server, server', a, server[a].label)
  BY KeepsIsRelabels, Zenon
<1>2. HasAccount(server, a) => server[a].label # Absent
  BY DEF HasAccount
<1>3. l # Absent \/ server[a].label # Absent => a \in generated'
  BY UsedGenerated
<1>. QED
  BY <1>1, <1>2, <1>3, OneAccountChanges

\* A step in which the server gives account a label m and the files stay as they
\* are, or are written without changing a label.
LEMMA ServerRelabels ==
  ASSUME IInv, NEW d \in Devices, NEW a \in AccountIds, NEW g, NEW m,
         Stores(d, g), KeepsLabels(file[d], g), Relabels(server, server', a, m),
         ~HasAccount(server, a), NotesAtMost(a, m), OffersAtMost(a, m),
         generated \subseteq generated', m # Absent => a \in generated',
         interrupted \subseteq interrupted', StillKept(a)
  PROVE  IInv'
<1>1. Relabels(file[d], g, a, file[d][a].label)
  BY KeepsIsRelabels, Zenon
<1>2. file[d][a].label # Absent \/ m # Absent => a \in generated'
  BY UsedGenerated
<1>. QED
  BY <1>1, <1>2, OneAccountChanges

-------------------------------------------------------------------------------
(* The CLI.                                                                  *)

\* No phone keeps an account to itself whose uuid a command may add, or that the
\* server has.
LEMMA NobodyKeeps ==
  ASSUME IInv, NEW a \in AccountIds,
         \/ a \notin generated
         \/ HasAccount(server, a)
         \/ \E d \in Laptops : HasAccount(file[d], a),
         NEW p \in Phones, a \notin config[p], <<p, a>> \notin interrupted
  PROVE  ~HasAccount(file[p], a)
<1>1. p \in Devices /\ \A d \in Laptops : d \in Devices /\ d # p
  BY ConstantsAssumption DEF Devices
<1>2. a \notin generated => ~HasAccount(file[p], a)
  BY <1>1 DEF IInv, UsedIsGenerated
<1>3. HasAccount(file[p], a) => KeptToItself(p, a)
  BY DEF IInv, UnsharedIsKept
<1>. QED
  BY <1>1, <1>2, <1>3 DEF KeptToItself

\* A laptop adds an account.
LEMMA AddAccountStep ==
  ASSUME IInv, NEW d \in Laptops, NEW a \in AccountIds, NEW label,
         AddAccountCommand(d, a, label)
  PROVE  IInv'
<1>. DEFINE g == AddAccount(file[d], a, NewAccount(label))
<1>1. d \in Devices /\ Shaped /\ IsFile(file[d])
  BY DEF Devices, IInv, Shaped
<1>2. /\ file' = [file EXCEPT ![d] = g]
      /\ UNCHANGED <<server, config, pages, interrupted>>
      /\ GenerateOrType(a)
  BY DEF AddAccountCommand, NoPhone
<1>. HIDE DEF g
<1>3. Stores(d, g)
  BY <1>1, <1>2, WritesItsFile, Zenon
<1>4. Relabels(file[d], g, a, label)
  <2>1. NewAccount(label).label = label
    BY DEF NewAccount
  <2>2. Relabels(file[d], g, a, NewAccount(label).label)
    BY <1>1, AddAccountLabels, Zenon DEF g
  <2>. QED
    BY <2>1, <2>2
<1>5. KeepsLabels(server, server')
  BY <1>1, <1>2, UnchangedServer
<1>6. /\ NotesAtMost(a, server[a].label)
      /\ OffersAtMost(a, server[a].label)
  BY <1>1, <1>2, UnchangedNotes, UnchangedPages
<1>7. generated \subseteq generated' /\ a \in generated'
  BY <1>2 DEF GenerateOrType
<1>8. StillKept(a)
  <2>1. \/ a \notin generated
        \/ HasAccount(server, a)
        \/ \E e \in Laptops : HasAccount(file[e], a)
    BY <1>2 DEF GenerateOrType
  <2>2. \A p \in Phones : p \in Devices /\ p # d
    BY ConstantsAssumption DEF Devices
  <2>3. \A p \in Phones : file'[p] = file[p]
    BY <2>2, <1>3 DEF Stores
  <2>. QED
    BY <1>2, <2>1, <2>3, NobodyKeeps DEF StillKept
<1>. QED
  BY <1>1, <1>2, <1>3, <1>4, <1>5, <1>6, <1>7, <1>8, DeviceRelabels

\* Somebody creates an account on the server.
LEMMA AddRemoteAccountStep ==
  ASSUME IInv, NEW a \in AccountIds, NEW label,
         AddRemoteAccountCommand(a, label)
  PROVE  IInv'
<1>1. Shaped
  BY DEF IInv
<1>2. /\ ~HasAccount(server, a)
      /\ server' = Created(a, NewAccount(label))
      /\ UNCHANGED <<file, config, pages, interrupted>>
      /\ GenerateOrType(a)
  BY DEF AddRemoteAccountCommand, CreateAccount, CanCreateAccount, NoPhone
<1>3. NewAccount(label).label = label
  BY DEF NewAccount
<1>4. Relabels(server, server', a, label)
  BY <1>1, <1>2, <1>3, CreatedLabels
<1>5. NotesAtMost(a, label) /\ OffersAtMost(a, label)
  BY <1>1, <1>2, UnchangedNotes, UnchangedPages
<1>6. generated \subseteq generated' /\ a \in generated'
  BY <1>2 DEF GenerateOrType
<1>7. StillKept(a)
  BY <1>2, NobodyKeeps DEF StillKept, GenerateOrType
<1>8. CASE Devices = {}
  <2>1. Phones = {}
    BY <1>8 DEF Devices
  <2>2. Shaped'
    BY <1>1, <1>2, <1>4 DEF Shaped, Relabels
  <2>3. UsedIsGenerated'
    BY <1>4, <1>6, <1>8 DEF IInv, UsedIsGenerated, Relabels, HasAccount
  <2>. QED
    BY <2>1, <2>2, <2>3 DEF IInv, NotedOnServer, OfferedOnServer, UnsharedIsKept
<1>9. CASE Devices # {}
  <2>1. PICK d \in Devices : TRUE
    BY <1>9
  <2>2. Stores(d, file[d]) /\ KeepsLabels(file[d], file[d])
    BY <1>1, <1>2, UnchangedFile
  <2>. QED
    BY <2>2, <1>2, <1>4, <1>5, <1>6, <1>7, ServerRelabels
<1>. QED
  BY <1>8, <1>9

\* A device deletes an account.
LEMMA DeleteStep ==
  ASSUME IInv, NEW d \in Devices, NEW a \in AccountIds,
         file' = [file EXCEPT ![d] = DeleteAccount(file[d], a)],
         UNCHANGED <<server, config, pages, generated, interrupted>>
  PROVE  IInv'
<1>. DEFINE g == DeleteAccount(file[d], a)
<1>1. Shaped /\ IsFile(file[d])
  BY DEF IInv, Shaped
<1>. HIDE DEF g
<1>2. Stores(d, g)
  BY <1>1, WritesItsFile, Zenon DEF g
<1>3. Relabels(file[d], g, a, Absent)
  <2>1. NewAccount(Absent).label = Absent
    BY DEF NewAccount
  <2>2. Relabels(file[d], g, a, NewAccount(Absent).label)
    BY <1>1, AddAccountLabels, Zenon DEF g, DeleteAccount
  <2>. QED
    BY <2>1, <2>2
<1>4. KeepsLabels(server, server')
  BY <1>1, UnchangedServer
<1>5. /\ NotesAtMost(a, server[a].label)
      /\ OffersAtMost(a, server[a].label)
  BY <1>1, UnchangedNotes, UnchangedPages
<1>6. StillKept(a)
  <2>. SUFFICES ASSUME NEW p \in Phones, a \notin config[p], <<p, a>> \notin interrupted,
                       HasAccount(file'[p], a)
                PROVE  /\ file'[p][a].label # NoLabel
                       /\ ~HasAccount(server', a)
                       /\ \A e \in Devices \ {p} : ~HasAccount(file'[e], a)
    BY DEF StillKept
  <2>1. p \in Devices
    BY DEF Devices
  <2>2. \A e \in Devices :
          file'[e][a].label = IF e = d THEN Absent ELSE file[e][a].label
    BY <1>2, <1>3 DEF Stores, Relabels
  <2>3. p # d /\ HasAccount(file[p], a)
    BY <2>1, <2>2 DEF HasAccount
  <2>4. KeptToItself(p, a)
    BY <2>3 DEF IInv, UnsharedIsKept
  <2>. QED
    BY <2>1, <2>2, <2>3, <2>4 DEF KeptToItself, HasAccount
<1>. QED
  BY <1>2, <1>3, <1>4, <1>5, <1>6, DeviceRelabels

\* A device records a transaction.
LEMMA RecordStep ==
  ASSUME IInv, NEW d \in Devices, AccountIds # {}, NEW a, RecordTransaction(d, a)
  PROVE  IInv'
<1>1. Shaped /\ IsFile(file[d])
  BY DEF IInv, Shaped
<1>2. PICK repo : file' = [file EXCEPT ![d][a].repo = repo]
  BY DEF RecordTransaction
<1>3. UNCHANGED <<server, config, pages, generated, interrupted>>
  BY DEF RecordTransaction, NoPhone
<1>. DEFINE g == [file[d] EXCEPT ![a].repo = repo]
<1>4. file' = [file EXCEPT ![d] = g]
  BY <1>2
<1>5. KeepsLabels(file[d], g)
  BY <1>1, WriteRepoLabels, Zenon
<1>. HIDE DEF g
<1>6. Stores(d, g)
  BY <1>1, <1>4, WritesItsFile, Zenon
<1>7. KeepsLabels(server, server')
  BY <1>1, <1>3, UnchangedServer
<1>. QED
  BY <1>3, <1>5, <1>6, <1>7, NoLabelChanges

\* A device synchronizes an account of its file.
LEMMA SyncStep ==
  ASSUME IInv, NEW d \in Devices, AccountIds # {}, NEW a,
         SyncAccount(d, a, file[d], server),
         UNCHANGED <<config, pages, generated, interrupted>>
  PROVE  IInv'
<1>1. Shaped /\ IsFile(file[d]) /\ IsFile(server)
  BY DEF IInv, Shaped
<1>2. PICK g : Stores(d, g) /\ KeepsLabels(file[d], g) /\ KeepsLabels(server, server')
  BY <1>1, SyncLabels, Zenon
<1>. QED
  BY <1>2, NoLabelChanges

\* clone and import, as far as writing the copy of the server's account.
LEMMA CopyStep ==
  ASSUME IInv, NEW d \in Devices, NEW a \in AccountIds, HasAccount(server, a),
         NEW g, Stores(d, g), Relabels(file[d], g, a, server[a].label),
         KeepsLabels(server, server'), NotesAtMost(a, server[a].label),
         OffersAtMost(a, server[a].label), UNCHANGED <<generated, interrupted>>,
         d \in Phones => a \in config'[d]
  PROVE  IInv'
<1>1. a \in generated
  BY UsedGenerated DEF HasAccount
<1>2. StillKept(a)
  <2>1. \A p \in Phones \ {d} : file'[p] = file[p]
    BY DEF Stores, Devices
  <2>2. \A p \in Phones : a \notin config'[p] => p # d /\ a \notin config[p]
    BY DEF NotesAtMost
  <2>. QED
    BY <2>1, <2>2, NobodyKeeps DEF StillKept
<1>. QED
  BY <1>1, <1>2, DeviceRelabels

\* clone_remote.
LEMMA CloneLabels ==
  ASSUME Shaped, NEW d \in Devices, NEW a \in AccountIds,
         SyncAccount(d, a, FileWithCopy(d, a), server)
  PROVE  /\ HasAccount(server, a)
         /\ \E g : Stores(d, g) /\ Relabels(file[d], g, a, server[a].label)
         /\ KeepsLabels(server, server')
<1>. DEFINE copy == FileWithCopy(d, a)
<1>1. Relabels(file[d], copy, a, server[a].label)
  BY CopyLabels
<1>2. IsFile(copy) /\ IsFile(server)
  BY <1>1 DEF Relabels, Shaped
<1>. HIDE DEF copy
<1>3. SyncAccount(d, a, copy, server)
  BY DEF copy
<1>4. /\ HasAccount(server, a)
      /\ \E g : Stores(d, g) /\ KeepsLabels(copy, g)
      /\ KeepsLabels(server, server')
  BY <1>2, <1>3, SyncLabels, Zenon
<1>5. PICK g : Stores(d, g) /\ KeepsLabels(copy, g)
  BY <1>4
<1>6. Relabels(file[d], g, a, server[a].label)
  BY <1>1, <1>5 DEF Relabels, KeepsLabels
<1>. QED
  BY <1>4, <1>5, <1>6

\* Every command of the CLI.
LEMMA CommandStep ==
  ASSUME IInv, NEW d \in Laptops, Command(d)
  PROVE  IInv'
<1>1. Shaped /\ IsFile(file[d]) /\ d \in Devices /\ d \notin Phones
  BY ConstantsAssumption DEF IInv, Shaped, Devices
<1>2. CASE \E label \in Labels, a \in AccountIds : AddAccountCommand(d, a, label)
  BY <1>2, AddAccountStep
<1>3. CASE \E label \in Labels : DeleteAccountCommand(d, label)
  <2>1. PICK label \in Labels : DeleteAccountCommand(d, label)
    BY <1>3
  <2>. DEFINE a == FindAccountByLabel(file[d], label)
  <2>2. AccountIds # {}
    BY <2>1 DEF DeleteAccountCommand, Labelled, ListAccounts
  <2>3. /\ file' = [file EXCEPT ![d] = DeleteAccount(file[d], a)]
        /\ UNCHANGED <<server, config, pages, generated, interrupted>>
    BY <2>1 DEF DeleteAccountCommand, NoPhone
  <2>. HIDE DEF a
  <2>4. CASE a \in AccountIds
    BY <1>1, <2>3, <2>4, DeleteStep
  <2>5. CASE a \notin AccountIds
    <3>1. DeleteAccount(file[d], a) = file[d]
      BY <1>1, <2>5 DEF DeleteAccount, AddAccount, IsFile
    <3>2. UNCHANGED file
      BY <1>1, <2>3, <3>1 DEF Shaped
    <3>3. Stores(d, file[d]) /\ KeepsLabels(file[d], file[d])
      BY <1>1, <3>2, UnchangedFile
    <3>. QED
      BY <1>1, <2>2, <2>3, <3>3, UnchangedServer, NoLabelChanges
  <2>. QED
    BY <2>4, <2>5
<1>4. CASE \E label \in Labels : AddTransactionCommand(d, label)
  <2>1. PICK label \in Labels : AddTransactionCommand(d, label)
    BY <1>4
  <2>2. AccountIds # {} /\ RecordTransaction(d, FindAccountByLabel(file[d], label))
    BY <2>1 DEF AddTransactionCommand, Labelled, ListAccounts
  <2>. QED
    BY <1>1, <2>2, RecordStep
<1>5. CASE \E label \in Labels : SyncCommand(d, label)
  <2>1. PICK label \in Labels : SyncCommand(d, label)
    BY <1>5
  <2>2. /\ AccountIds # {}
        /\ SyncAccount(d, FindAccountByLabel(file[d], label), file[d], server)
        /\ UNCHANGED <<config, pages, generated, interrupted>>
    BY <2>1 DEF SyncCommand, Labelled, ListAccounts, NoPhone
  <2>. QED
    BY <1>1, <2>2, SyncStep
<1>6. ASSUME NEW a \in AccountIds, CloneCommand(d, a)
      PROVE  IInv'
  <2>1. /\ SyncAccount(d, a, FileWithCopy(d, a), server)
        /\ UNCHANGED <<config, pages, generated, interrupted>>
    BY <1>6 DEF CloneCommand, NoPhone
  <2>2. /\ HasAccount(server, a)
        /\ \E g : Stores(d, g) /\ Relabels(file[d], g, a, server[a].label)
        /\ KeepsLabels(server, server')
    BY <1>1, <2>1, CloneLabels
  <2>3. NotesAtMost(a, server[a].label) /\ OffersAtMost(a, server[a].label)
    BY <1>1, <2>1, UnchangedNotes, UnchangedPages
  <2>. QED
    BY <1>1, <2>1, <2>2, <2>3, CopyStep
<1>7. ASSUME NEW a \in AccountIds, CloneInterrupted(d, a)
      PROVE  IInv'
  <2>1. /\ HasAccount(server, a)
        /\ file' = [file EXCEPT ![d] = FileWithCopy(d, a)]
        /\ UNCHANGED <<server, config, pages, generated, interrupted>>
    BY <1>7 DEF CloneInterrupted, NoPhone
  <2>2. Stores(d, FileWithCopy(d, a))
    BY <1>1, <2>1, WritesItsFile, Zenon
  <2>3. Relabels(file[d], FileWithCopy(d, a), a, server[a].label)
    BY <1>1, CopyLabels
  <2>4. NotesAtMost(a, server[a].label) /\ OffersAtMost(a, server[a].label)
    BY <1>1, <2>1, UnchangedNotes, UnchangedPages
  <2>5. KeepsLabels(server, server')
    BY <1>1, <2>1, UnchangedServer
  <2>. QED
    BY <1>1, <2>1, <2>2, <2>3, <2>4, <2>5, CopyStep
<1>. QED
  BY <1>2, <1>3, <1>4, <1>5, <1>6, <1>7 DEF Command

-------------------------------------------------------------------------------
(* The phone.                                                                *)

LEMMA SaveAccountStep ==
  ASSUME IInv, NEW d \in Phones, NEW a \in AccountIds, NEW label,
         SaveAccount(d, a, label)
  PROVE  IInv'
<1>. DEFINE g == AddAccount(file[d], a, NewAccount(label))
<1>1. d \in Devices /\ Shaped /\ IsFile(file[d])
  BY DEF Devices, IInv, Shaped
<1>2. /\ label # NoLabel /\ a \notin generated
      /\ file' = [file EXCEPT ![d] = g]
      /\ generated' = generated \cup {a}
      /\ UNCHANGED <<server, config, pages, interrupted>>
  BY DEF SaveAccount
<1>. HIDE DEF g
<1>3. Stores(d, g)
  BY <1>1, <1>2, WritesItsFile, Zenon
<1>4. Relabels(file[d], g, a, label)
  <2>1. NewAccount(label).label = label
    BY DEF NewAccount
  <2>2. Relabels(file[d], g, a, NewAccount(label).label)
    BY <1>1, AddAccountLabels, Zenon DEF g
  <2>. QED
    BY <2>1, <2>2
<1>5. KeepsLabels(server, server')
  BY <1>1, <1>2, UnchangedServer
<1>6. /\ NotesAtMost(a, server[a].label)
      /\ OffersAtMost(a, server[a].label)
  BY <1>1, <1>2, UnchangedNotes, UnchangedPages
<1>7. StillKept(a)
  <2>1. /\ ~HasAccount(server, a)
        /\ \A e \in Devices : ~HasAccount(file[e], a)
    BY <1>2 DEF IInv, UsedIsGenerated
  <2>2. \A e \in Devices \ {d} : ~HasAccount(file'[e], a)
    BY <1>3, <2>1 DEF Stores
  <2>3. file'[d][a].label # NoLabel
    BY <1>2, <1>3, <1>4 DEF Stores, Relabels
  <2>4. Phones \subseteq Devices
    BY DEF Devices
  <2>. QED
    BY <1>2, <2>1, <2>2, <2>3, <2>4 DEF StillKept
<1>. QED
  BY <1>1, <1>2, <1>3, <1>4, <1>5, <1>6, <1>7, DeviceRelabels

\* What the server has is used, so no phone keeps it to itself but the one that
\* has just created it, which notes it.
LEMMA ShareAccountStep ==
  ASSUME IInv, NEW d \in Phones, NEW a \in AccountIds, ShareAccount(d, a)
  PROVE  IInv'
<1>. DEFINE s == Created(a, AccountInfo(file[d], a))
            m == file[d][a].label
<1>1. d \in Devices /\ Shaped /\ IsFile(file[d])
  BY DEF Devices, IInv, Shaped
<1>2. /\ HasAccount(file[d], a) /\ ~HasAccount(server, a)
      /\ config' = [config EXCEPT ![d] = @ \cup {a}]
      /\ SyncAccount(d, a, file[d], s)
      /\ UNCHANGED <<pages, generated, interrupted>>
  BY DEF ShareAccount, CanCreateAccount
<1>3. Relabels(server, s, a, m)
  BY <1>1, CreatedLabels DEF AccountInfo
<1>. HIDE DEF s
<1>4. IsFile(s)
  BY <1>3 DEF Relabels
<1>5. PICK g : Stores(d, g) /\ KeepsLabels(file[d], g) /\ KeepsLabels(s, server')
  BY <1>1, <1>2, <1>4, SyncLabels, Zenon
<1>6. Relabels(server, server', a, m)
  BY <1>3, <1>5 DEF Relabels, KeepsLabels
<1>7. m # Absent /\ a \in generated
  BY <1>1, <1>2, UsedGenerated DEF HasAccount
<1>8. NotesAtMost(a, m)
  BY <1>1, <1>2, <1>7 DEF NotesAtMost, Shaped
<1>9. OffersAtMost(a, m)
  BY <1>1, <1>2, UnchangedPages
<1>10. StillKept(a)
  <2>. SUFFICES ASSUME NEW p \in Phones, a \notin config'[p], <<p, a>> \notin interrupted,
                       HasAccount(file'[p], a)
                PROVE  FALSE
    BY <1>2 DEF StillKept
  <2>1. p # d /\ a \notin config[p]
    BY <1>1, <1>2 DEF Shaped
  <2>2. HasAccount(file[p], a)
    BY <1>5, <2>1 DEF Stores, Devices
  <2>3. KeptToItself(p, a)
    BY <2>1, <2>2 DEF IInv, UnsharedIsKept
  <2>. QED
    BY <1>1, <1>2, <2>1, <2>3 DEF KeptToItself
<1>. HIDE DEF m
<1>11. /\ generated \subseteq generated' /\ (m # Absent => a \in generated')
       /\ interrupted \subseteq interrupted' /\ ~HasAccount(server, a)
  BY <1>2, <1>7
<1>. QED
  BY <1>1, <1>5, <1>6, <1>8, <1>9, <1>10, <1>11, ServerRelabels

LEMMA ShareInterruptedStep ==
  ASSUME IInv, NEW d \in Phones, NEW a \in AccountIds, ShareInterrupted(d, a)
  PROVE  IInv'
<1>. DEFINE m == file[d][a].label
<1>1. d \in Devices /\ Shaped /\ IsFile(file[d])
  BY DEF Devices, IInv, Shaped
<1>2. /\ HasAccount(file[d], a) /\ ~HasAccount(server, a)
      /\ server' = Created(a, AccountInfo(file[d], a))
      /\ \/ config' = [config EXCEPT ![d] = @ \cup {a}] /\ UNCHANGED interrupted
         \/ interrupted' = interrupted \cup {<<d, a>>} /\ UNCHANGED config
      /\ UNCHANGED <<file, pages, generated>>
  BY DEF ShareInterrupted, CreateAccount, CanCreateAccount
<1>3. Relabels(server, server', a, m)
  BY <1>1, <1>2, CreatedLabels DEF AccountInfo
<1>4. Stores(d, file[d]) /\ KeepsLabels(file[d], file[d])
  BY <1>1, <1>2, UnchangedFile
<1>5. m # Absent /\ a \in generated
  BY <1>1, <1>2, UsedGenerated DEF HasAccount
<1>6. NotesAtMost(a, m)
  <2>1. CASE config' = [config EXCEPT ![d] = @ \cup {a}]
    BY <1>1, <1>5, <2>1 DEF NotesAtMost, Shaped
  <2>2. CASE UNCHANGED config
    BY <1>1, <2>2, UnchangedNotes
  <2>. QED
    BY <1>2, <2>1, <2>2
<1>7. OffersAtMost(a, m)
  BY <1>1, <1>2, UnchangedPages
<1>8. StillKept(a)
  <2>. SUFFICES ASSUME NEW p \in Phones, a \notin config'[p], <<p, a>> \notin interrupted',
                       HasAccount(file[p], a)
                PROVE  FALSE
    BY <1>2 DEF StillKept
  <2>1. p # d /\ a \notin config[p] /\ <<p, a>> \notin interrupted
    BY <1>1, <1>2 DEF Shaped
  <2>2. KeptToItself(p, a)
    BY <2>1 DEF IInv, UnsharedIsKept
  <2>. QED
    BY <1>1, <1>2, <2>1, <2>2 DEF KeptToItself
<1>. HIDE DEF m
<1>9. /\ generated \subseteq generated' /\ (m # Absent => a \in generated')
      /\ interrupted \subseteq interrupted' /\ ~HasAccount(server, a)
  BY <1>2, <1>5
<1>. QED
  BY <1>1, <1>3, <1>4, <1>6, <1>7, <1>8, <1>9, ServerRelabels

\* A step that only opens or closes a clone page.
LEMMA PageStep ==
  ASSUME IInv, NEW d \in Phones, NEW a \in AccountIds,
         OffersAtMost(a, server[a].label),
         UNCHANGED <<file, server, config, generated, interrupted>>
  PROVE  IInv'
<1>1. d \in Devices /\ Shaped
  BY DEF Devices, IInv
<1>2. Stores(d, file[d]) /\ KeepsLabels(file[d], file[d])
  BY <1>1, UnchangedFile
<1>3. Relabels(file[d], file[d], a, file[d][a].label)
  BY <1>2, KeepsIsRelabels, Zenon
<1>4. KeepsLabels(server, server')
  BY <1>1, UnchangedServer
<1>5. NotesAtMost(a, server[a].label)
  BY <1>1, UnchangedNotes
<1>6. StillKept(a)
  <2>. SUFFICES ASSUME NEW p \in Phones, a \notin config[p], <<p, a>> \notin interrupted,
                       HasAccount(file[p], a)
                PROVE  KeptToItself(p, a)
    BY DEF StillKept, KeptToItself
  <2>. QED
    BY DEF IInv, UnsharedIsKept
<1>7. file[d][a].label # Absent => a \in generated'
  BY <1>1, UsedGenerated
<1>. QED
  BY <1>1, <1>2, <1>3, <1>4, <1>5, <1>6, <1>7, DeviceRelabels

\* Closing the page on top leaves the others.
LEMMA FrontOffers ==
  ASSUME Shaped, NEW d \in Phones, pages[d] # << >>,
         pages' = [pages EXCEPT ![d] = Front(@)], NEW a, NEW m
  PROVE  OffersAtMost(a, m)
<1>1. pages[d] \in Seq(AccountIds)
  BY DEF Shaped
<1>2. /\ Front(pages[d]) \in Seq(AccountIds)
      /\ Len(Front(pages[d])) = Len(pages[d]) - 1
      /\ \A i \in 1..Len(pages[d]) - 1 : Front(pages[d])[i] = pages[d][i]
  BY <1>1, FrontEntries
<1>3. Len(pages[d]) \in Nat
  BY <1>1
<1>4. pages' \in [Phones -> Seq(AccountIds)]
  BY <1>2 DEF Shaped
<1>5. \A p \in Phones : pages'[p] = IF p = d THEN Front(pages[d]) ELSE pages[p]
  BY DEF Shaped
<1>6. ASSUME NEW p \in Phones, NEW i \in 1..Len(pages'[p])
      PROVE  \E j \in 1..Len(pages[p]) : pages'[p][i] = pages[p][j]
  <2>1. CASE p = d
    <3>1. i \in 1..Len(pages[d]) - 1 /\ pages'[p] = Front(pages[d])
      BY <1>2, <1>5, <2>1
    <3>2. i \in 1..Len(pages[d]) /\ pages'[p][i] = pages[d][i]
      BY <1>2, <1>3, <3>1
    <3>. QED
      BY <2>1, <3>2
  <2>2. CASE p # d
    BY <1>5, <2>2
  <2>. QED
    BY <2>1, <2>2
<1>. QED
  BY <1>4, <1>6 DEF OffersAtMost

\* Only what a page offers can be imported, and the server has that.
LEMMA OfferedAccount ==
  ASSUME IInv, NEW d \in Phones, NEW a \in AccountIds, Offered(d, a)
  PROVE  HasAccount(server, a) /\ OffersAtMost(a, server[a].label)
<1>1. /\ pages[d] # << >> /\ a = Last(pages[d])
      /\ pages' = [pages EXCEPT ![d] = Front(@)]
  BY DEF Offered
<1>2. Shaped /\ pages[d] \in Seq(AccountIds)
  BY DEF IInv, Shaped
<1>3. Last(pages[d]) = pages[d][Len(pages[d])] /\ Len(pages[d]) \in 1..Len(pages[d])
  BY <1>1, <1>2, FrontEntries
<1>4. HasAccount(server, a)
  BY <1>1, <1>3 DEF IInv, OfferedOnServer
<1>5. OffersAtMost(a, server[a].label)
  BY <1>1, <1>2, FrontOffers
<1>. QED
  BY <1>4, <1>5

\* The phone notes an account that the server has.
LEMMA NotedAccount ==
  ASSUME Shaped, NEW d \in Phones, NEW a \in AccountIds, HasAccount(server, a),
         config' = [config EXCEPT ![d] = @ \cup {a}]
  PROVE  NotesAtMost(a, server[a].label) /\ a \in config'[d]
  BY DEF Shaped, NotesAtMost, HasAccount

LEMMA ImportStep ==
  ASSUME IInv, NEW d \in Phones, NEW a \in AccountIds, Import(d, a)
  PROVE  IInv'
<1>1. Shaped /\ d \in Devices
  BY DEF IInv, Devices
<1>2. /\ Offered(d, a)
      /\ config' = [config EXCEPT ![d] = @ \cup {a}]
      /\ SyncAccount(d, a, FileWithCopy(d, a), server)
      /\ UNCHANGED <<generated, interrupted>>
  BY DEF Import
<1>3. HasAccount(server, a) /\ OffersAtMost(a, server[a].label)
  BY <1>2, OfferedAccount
<1>4. NotesAtMost(a, server[a].label) /\ a \in config'[d]
  BY <1>1, <1>2, <1>3, NotedAccount
<1>5. /\ \E g : Stores(d, g) /\ Relabels(file[d], g, a, server[a].label)
      /\ KeepsLabels(server, server')
  BY <1>1, <1>2, CloneLabels
<1>. QED
  BY <1>1, <1>2, <1>3, <1>4, <1>5, CopyStep

LEMMA ImportInterruptedStep ==
  ASSUME IInv, NEW d \in Phones, NEW a \in AccountIds, ImportInterrupted(d, a)
  PROVE  IInv'
<1>1. Shaped /\ d \in Devices
  BY DEF IInv, Devices
<1>2. /\ Offered(d, a)
      /\ config' = [config EXCEPT ![d] = @ \cup {a}]
      /\ UNCHANGED <<server, generated, interrupted>>
  BY DEF ImportInterrupted
<1>3. HasAccount(server, a) /\ OffersAtMost(a, server[a].label)
  BY <1>2, OfferedAccount
<1>4. NotesAtMost(a, server[a].label) /\ a \in config'[d]
  BY <1>1, <1>2, <1>3, NotedAccount
<1>5. KeepsLabels(server, server')
  BY <1>1, <1>2, UnchangedServer
<1>6. CASE UNCHANGED file
  <2>1. Stores(d, file[d]) /\ KeepsLabels(file[d], file[d])
    BY <1>1, <1>6, UnchangedFile
  <2>2. Relabels(file[d], file[d], a, file[d][a].label)
    BY <2>1, KeepsIsRelabels, Zenon
  <2>3. StillKept(a)
    <3>. SUFFICES ASSUME NEW p \in Phones, a \notin config'[p], <<p, a>> \notin interrupted,
                         HasAccount(file[p], a)
                  PROVE  FALSE
      BY <1>2, <1>6 DEF StillKept
    <3>1. a \notin config[p]
      BY <1>4 DEF NotesAtMost, Shaped
    <3>. QED
      BY <1>3, <3>1, NobodyKeeps
  <2>4. file[d][a].label # Absent => a \in generated
    BY <1>1, UsedGenerated
  <2>. QED
    BY <1>1, <1>2, <1>3, <1>4, <1>5, <2>1, <2>2, <2>3, <2>4, DeviceRelabels
<1>7. CASE file' = [file EXCEPT ![d] = FileWithCopy(d, a)]
  <2>1. Stores(d, FileWithCopy(d, a))
    BY <1>1, <1>7, WritesItsFile, Zenon
  <2>2. Relabels(file[d], FileWithCopy(d, a), a, server[a].label)
    BY <1>1, CopyLabels
  <2>. QED
    BY <1>1, <1>2, <1>3, <1>4, <1>5, <2>1, <2>2, CopyStep
<1>. QED
  BY <1>6, <1>7 DEF ImportInterrupted

LEMMA PrepareImportStep ==
  ASSUME IInv, NEW d \in Phones, NEW a \in AccountIds, PrepareImport(d, a)
  PROVE  IInv'
<1>1. /\ HasAccount(server, a)
      /\ pages' = [pages EXCEPT ![d] = Append(@, a)]
      /\ UNCHANGED <<file, server, config, generated, interrupted>>
  BY DEF PrepareImport
<1>2. pages \in [Phones -> Seq(AccountIds)]
  BY DEF IInv, Shaped
<1>3. \A p \in Phones :
        pages'[p] = IF p = d THEN Append(pages[d], a) ELSE pages[p]
  BY <1>1, <1>2
<1>4. ASSUME NEW p \in Phones, NEW i \in 1..Len(pages'[p])
      PROVE  \/ \E j \in 1..Len(pages[p]) : pages'[p][i] = pages[p][j]
             \/ pages'[p][i] = a
  <2>1. CASE p = d
    <3>1. pages[d] \in Seq(AccountIds) /\ pages'[p] = Append(pages[d], a)
      BY <1>2, <1>3, <2>1
    <3>2. CASE i \in 1..Len(pages[d])
      BY <1>2, <2>1, <3>1, <3>2
    <3>3. CASE i \notin 1..Len(pages[d])
      BY <1>2, <3>1, <3>3
    <3>. QED
      BY <3>2, <3>3
  <2>2. CASE p # d
    BY <1>3, <2>2
  <2>. QED
    BY <2>1, <2>2
<1>5. pages' \in [Phones -> Seq(AccountIds)]
  BY <1>1, <1>2
<1>6. OffersAtMost(a, server[a].label)
  BY <1>1, <1>4, <1>5 DEF OffersAtMost, HasAccount
<1>. QED
  BY <1>1, <1>6, PageStep

LEMMA ClosePageStep ==
  ASSUME IInv, NEW d \in Phones, AccountIds # {}, ClosePage(d)
  PROVE  IInv'
<1>1. PICK a \in AccountIds : TRUE
  OBVIOUS
<1>2. /\ pages[d] # << >>
      /\ pages' = [pages EXCEPT ![d] = Front(@)]
      /\ UNCHANGED <<file, server, config, generated, interrupted>>
  BY DEF ClosePage
<1>3. OffersAtMost(a, server[a].label)
  BY <1>2, FrontOffers DEF IInv
<1>. QED
  BY <1>2, <1>3, PageStep

\* Whatever the user of a phone does.
LEMMA TapStep ==
  ASSUME IInv, NEW d \in Phones, Tap(d)
  PROVE  IInv'
<1>1. d \in Devices
  BY DEF Devices
<1>2. ASSUME NEW a \in AccountIds, NEW label \in Labels, SaveAccount(d, a, label)
      PROVE  IInv'
  BY <1>2, SaveAccountStep
<1>3. ASSUME NEW a \in AccountIds, DeleteAccountOnPhone(d, a)
      PROVE  IInv'
  BY <1>1, <1>3, DeleteStep DEF DeleteAccountOnPhone
<1>4. ASSUME NEW a \in AccountIds, RecordTransaction(d, a)
      PROVE  IInv'
  BY <1>1, <1>4, RecordStep
<1>5. ASSUME NEW a \in AccountIds, Synchronize(d, a)
      PROVE  IInv'
  BY <1>1, <1>5, SyncStep DEF Synchronize
<1>6. CASE ClosePage(d)
  <2>1. pages[d] # << >> /\ pages[d] \in Seq(AccountIds)
    BY <1>6 DEF ClosePage, IInv, Shaped
  <2>2. pages[d][1] \in AccountIds
    BY <2>1
  <2>. QED
    BY <1>6, <2>2, ClosePageStep
<1>. QED
  BY <1>2, <1>3, <1>4, <1>5, <1>6, ShareAccountStep, ShareInterruptedStep,
     PrepareImportStep, ImportStep, ImportInterruptedStep DEF Tap

-------------------------------------------------------------------------------
(* The theorems.                                                             *)

LEMMA StartsWell == Init => IInv
<1>. SUFFICES ASSUME Init PROVE IInv
  OBVIOUS
<1>1. IsFile(NoAccounts) /\ \A a \in AccountIds : NoAccounts[a].label = Absent
  BY DEF NoAccounts, IsFile
<1>2. << >> \in Seq(AccountIds)
  OBVIOUS
<1>3. Shaped
  BY <1>1, <1>2 DEF Init, Shaped
<1>4. Phones \subseteq Devices
  BY DEF Devices
<1>5. NotedOnServer /\ OfferedOnServer
  BY DEF Init, NotedOnServer, OfferedOnServer
<1>6. UsedIsGenerated /\ UnsharedIsKept
  BY <1>1, <1>4 DEF Init, UsedIsGenerated, UnsharedIsKept, HasAccount
<1>. QED
  BY <1>3, <1>5, <1>6 DEF IInv

LEMMA StepsWell == IInv /\ [Next]_vars => IInv'
<1>. SUFFICES ASSUME IInv, [Next]_vars PROVE IInv'
  OBVIOUS
<1>1. CASE UNCHANGED vars
  <2>1. UNCHANGED <<file, server, config, pages, generated, interrupted>>
    BY <1>1 DEF vars
  <2>2. Shaped' /\ NotedOnServer' /\ OfferedOnServer'
    BY <2>1 DEF IInv, Shaped, NotedOnServer, OfferedOnServer
  <2>3. UsedIsGenerated'
    BY <2>1 DEF IInv, UsedIsGenerated
  <2>4. UnsharedIsKept'
    BY <2>1 DEF IInv, UnsharedIsKept, KeptToItself
  <2>. QED
    BY <2>2, <2>3, <2>4 DEF IInv
<1>. QED
  BY <1>1, CommandStep, AddRemoteAccountStep, TapStep DEF Next

\* An account that a phone has and notes as synchronized is on the server, for
\* any number of devices, accounts and open pages.  (_ensureRemoteAccountExists.)
THEOREM SharedIsOnServer == Spec => []SharedMeansOnServer
<1>1. IInv => SharedMeansOnServer
  BY DEF IInv, NotedOnServer, SharedMeansOnServer
<1>. QED
  BY StartsWell, StepsWell, <1>1, PTL DEF Spec

\* What a phone has and does not note can be shared, unless the answer to an
\* earlier attempt was lost.  (create_account, saveAccount.)
THEOREM UnsharedCanBeShared == Spec => []CanBeShared
<1>1. IInv => CanBeShared
  BY DEF IInv, UnsharedIsKept, KeptToItself, CanBeShared, CanCreateAccount,
     ValidateAccount
<1>. QED
  BY StartsWell, StepsWell, <1>1, PTL DEF Spec

-------------------------------------------------------------------------------
(* The repositories of one account.                                          *)

\* The repositories of device and server, when n is the next id and b tells whether
\* the answer to a push was lost.
Linked(local, remote, n, b) ==
  /\ n \in Nat /\ Sound(local, n) /\ Sound(remote, n)
  /\ local.synced \in Known(local) /\ local.synced \in Known(remote)
  /\ b = "lost" => Blocked(local, remote, n)
  /\ b # "lost" => Paired(local, remote, n)

LEMMA PairedIsLinked ==
  ASSUME NEW local, NEW remote, NEW n, Paired(local, remote, n)
  PROVE  Linked(local, remote, n, "known")
  BY DEF Paired, Linked

LEMMA BlockedIsLinked ==
  ASSUME NEW local, NEW remote, NEW n, Blocked(local, remote, n)
  PROVE  Linked(local, remote, n, "lost")
  BY DEF Blocked, Linked

\* From local and remote to l and s, while the next id went from n to m and the
\* answers from b to c: what any step does to the repositories of one account on one
\* device and the server.
IsWritten(local, remote, n, b, m, l, s, c) ==
  /\ m \in Nat /\ n <= m /\ Linked(l, s, m, c)
  /\ b = "lost" => c = "lost"
  /\ c # "lost" => \A id \in Uuids(Unsynchronized(l)) :
                     id \in Uuids(Unsynchronized(local)) \/ n <= id
  /\ \A id \in DOMAIN l.txs \cup DOMAIN s.txs :
       id \in DOMAIN local.txs \/ id \in DOMAIN remote.txs \/ n <= id
  /\ IsPrefix(Chain(remote), Chain(s)) /\ Known(remote) \subseteq Known(s)
  /\ OnlyChain(l) => OnlyChain(local) /\ Keeps(Chain(local), Chain(l))

\* The account is written anew, with both pointers at nothing.
Cleared(r) == [txs |-> r.txs, latest |-> NoId, synced |-> NoId]

LEMMA PrefixOfSame ==
  ASSUME NEW r, NEW n, Sound(r, n)
  PROVE  IsPrefix(Chain(r), Chain(r))
<1>1. Chain(r) \in Seq(Stored(r))
  BY ReadableChain DEF Sound
<1>2. Len(Chain(r)) <= Len(Chain(r)) /\ Chain(r) = SubSeq(Chain(r), 1, Len(Chain(r)))
  BY <1>1
<1>. QED
  BY <1>2 DEF IsPrefix

\* Time passes.
LEMMA StaysLinked ==
  ASSUME NEW local, NEW remote, NEW n, NEW b, Linked(local, remote, n, b),
         NEW m \in Nat, n <= m
  PROVE  Linked(local, remote, m, b)
<1>1. /\ Sound(local, n) /\ Sound(remote, n) /\ n \in Nat
      /\ local.synced \in Known(local) /\ local.synced \in Known(remote)
  BY DEF Linked
<1>2. Sound(local, m) /\ Sound(remote, m)
  BY <1>1, StaysSound
<1>3. b # "lost" => Paired(local, remote, m)
  BY <1>2 DEF Linked, Paired
<1>4. b = "lost" => Blocked(local, remote, m)
  BY <1>2 DEF Linked, Blocked
<1>. QED
  BY <1>1, <1>2, <1>3, <1>4 DEF Linked

\* Nothing happens, or time passes.
LEMMA NothingWritten ==
  ASSUME NEW local, NEW remote, NEW n, NEW b, Linked(local, remote, n, b),
         NEW m \in Nat, n <= m
  PROVE  IsWritten(local, remote, n, b, m, local, remote, b)
<1>1. Sound(local, n) /\ Sound(remote, n) /\ n \in Nat
  BY DEF Linked
<1>2. Linked(local, remote, m, b)
  BY StaysLinked
<1>3. IsPrefix(Chain(remote), Chain(remote))
  BY <1>1, PrefixOfSame
<1>4. Keeps(Chain(local), Chain(local))
  BY DEF Keeps
<1>. QED
  BY <1>2, <1>3, <1>4 DEF IsWritten

LEMMA ClearedIsWritten ==
  ASSUME NEW local, NEW remote, NEW n, NEW b, Linked(local, remote, n, b)
  PROVE  IsWritten(local, remote, n, b, n, Cleared(local), remote, b)
<1>. DEFINE l == Cleared(local)
<1>1. Sound(local, n) /\ Sound(remote, n) /\ n \in Nat
  BY DEF Linked
<1>2. /\ IsRecord(l) /\ l.txs = local.txs /\ l.latest = NoId /\ l.synced = NoId
      /\ Stored(l) = Stored(local)
  BY DEF Cleared, IsRecord, Stored
<1>. HIDE DEF l
<1>3. IsFiled(l) /\ l.latest \in Nat
  BY <1>1, <1>2 DEF Sound, IsFiled, NoId
<1>4. << >> \in Seq(Stored(l)) /\ Path(<< >>, NoId, l.latest)
  BY <1>2, EmptySeq DEF Path, CheckChainConsistency
<1>5. Chain(l) = << >> /\ IsReadable(l)
  BY <1>3, <1>4, ChainIs
<1>6. Sound(l, n)
  BY <1>1, <1>2, <1>3, <1>5 DEF Sound
<1>7. Unsynchronized(l) = << >>
  BY <1>2, <1>5 DEF Unsynchronized, Chain
<1>8. Uuids(<< >>) = {}
  BY EmptySeq DEF Uuids
<1>9. l.synced \in Known(l) /\ l.synced \in Known(remote)
  BY <1>2 DEF Known
<1>10. Linked(l, remote, n, b)
  <2>1. b # "lost" => Paired(l, remote, n)
    BY <1>1, <1>6, <1>7, <1>8, <1>9 DEF Paired
  <2>2. l.synced <= local.synced
    BY <1>1, <1>2, SoundIds DEF Linked, NoId
  <2>3. b = "lost" => Blocked(l, remote, n)
    BY <1>1, <1>2, <1>6, <1>9, <2>2, StaysBlocked DEF Linked
  <2>. QED
    BY <1>1, <1>6, <1>9, <2>1, <2>3 DEF Linked
<1>11. OnlyChain(l) => OnlyChain(local) /\ Keeps(Chain(local), Chain(l))
  <2>. SUFFICES ASSUME OnlyChain(l)
                PROVE  OnlyChain(local) /\ Keeps(Chain(local), Chain(l))
    OBVIOUS
  <2>1. Uuids(Chain(local)) \subseteq {} /\ DOMAIN local.txs = {}
    BY <1>1, <1>2, <1>5, <1>8, SoundIds DEF OnlyChain
  <2>2. DOMAIN Chain(local) = {}
    BY <2>1 DEF Uuids
  <2>. QED
    BY <2>1, <2>2 DEF OnlyChain, Keeps
<1>12. IsPrefix(Chain(remote), Chain(remote))
  BY <1>1, PrefixOfSame
<1>. QED
  BY <1>1, <1>2, <1>7, <1>8, <1>10, <1>11, <1>12 DEF IsWritten, l

\* A device records a transaction under the next id.
LEMMA RecordedIsWritten ==
  ASSUME NEW local, NEW remote, NEW n, NEW b, Linked(local, remote, n, b), n > 0,
         NEW tx, IsTransaction(tx), tx.uuid = n, tx.parent = local.latest,
         NEW l, l = SetLatestTransaction(AddTransaction(local, tx), tx.uuid)
  PROVE  IsWritten(local, remote, n, b, n + 1, l, remote, b)
<1>. DEFINE m == n + 1
<1>1. Sound(local, n) /\ Sound(remote, n) /\ n \in Nat
  BY DEF Linked
<1>2. m \in Nat /\ n <= m /\ n < m /\ n <= n
  BY <1>1
<1>. HIDE DEF m
<1>3. Sound(local, m) /\ Sound(remote, m)
  BY <1>1, <1>2, StaysSound
<1>4. /\ \A id \in DOMAIN local.txs : id \in Nat /\ id < n
      /\ \A id \in DOMAIN remote.txs : id \in Nat /\ id < n
      /\ Uuids(Chain(local)) \subseteq DOMAIN local.txs
  BY <1>1, SoundIds
<1>5. n \notin DOMAIN local.txs /\ n \notin DOMAIN remote.txs
  BY <1>1, <1>4
<1>6. local.latest < n
  <2>1. local.latest \in {NoId} \cup Uuids(Chain(local))
    BY <1>1, LatestOnChain DEF Sound
  <2>. QED
    BY <1>1, <1>4, <2>1 DEF NoId
<1>7. RecordsOnTop(local, tx, l, m)
  BY <1>1, <1>2, <1>3, <1>5, <1>6, RecordCall
<1>8. /\ Sound(l, m) /\ l.synced = local.synced
      /\ DOMAIN l.txs = DOMAIN local.txs \cup {n}
      /\ <<tx>> \in Seq(Stored(l)) /\ Chain(local) \in Seq(Stored(l))
      /\ Chain(l) = Chain(local) \o <<tx>>
  BY <1>7 DEF RecordsOnTop
<1>9. Uuids(Chain(l)) = Uuids(Chain(local)) \cup {n}
  <2>. DEFINE T == Stored(l)
              one == <<tx>>
              chain == Chain(local)
  <2>1. Uuids(one) = {n}
    BY DEF Uuids
  <2>2. one \in Seq(T) /\ chain \in Seq(T) /\ Chain(l) = chain \o one
    BY <1>8
  <2>. HIDE DEF T, one, chain
  <2>3. Uuids(chain \o one) = Uuids(chain) \cup Uuids(one)
    BY <2>2, ConcatRange
  <2>. QED
    BY <2>1, <2>2, <2>3 DEF chain
<1>10. l.synced \in Known(l) /\ l.synced \in Known(remote)
  BY <1>8, <1>9 DEF Linked, Known
<1>11. ASSUME b # "lost"
       PROVE  /\ Paired(l, remote, m)
              /\ \A id \in Uuids(Unsynchronized(l)) :
                   id \in Uuids(Unsynchronized(local)) \/ n <= id
  <2>1. Paired(local, remote, n)
    BY <1>11 DEF Linked
  <2>2. IsOneMore(local, remote, tx, l, m)
    BY <1>1, <1>2, <1>5, <1>7, <2>1, RecordedIsPaired
  <2>. QED
    BY <1>2, <2>2 DEF IsOneMore
<1>12. b = "lost" => Blocked(l, remote, m)
  <2>1. l.synced <= local.synced
    BY <1>1, <1>8, SoundIds DEF Linked
  <2>. QED
    BY <1>2, <1>3, <1>8, <1>10, <2>1, StaysBlocked DEF Linked
<1>13. Linked(l, remote, m, b)
  BY <1>2, <1>3, <1>8, <1>10, <1>11, <1>12 DEF Linked
<1>14. OnlyChain(l) => OnlyChain(local)
  BY <1>4, <1>5, <1>8, <1>9 DEF OnlyChain
<1>15. Keeps(Chain(local), Chain(l))
  BY <1>7, RecordedKeeps
<1>16. IsPrefix(Chain(remote), Chain(remote))
  BY <1>1, PrefixOfSame
<1>17. \A id \in DOMAIN l.txs : id \in DOMAIN local.txs \/ n <= id
  BY <1>2, <1>8
<1>. QED
  BY <1>2, <1>11, <1>13, <1>14, <1>15, <1>16, <1>17 DEF IsWritten, m

\* A sync() that could fetch, however it ended: f is what it fetched, and o, one of
\* the outcomes, is that with or without the push.
LEMMA FetchedIsWritten ==
  ASSUME NEW local, NEW remote, NEW n, Paired(local, remote, n),
         CanFetch(local, remote), NEW m, m = n + IdsForFetch(local, remote),
         NEW f, f = Fetch(local, remote, n), NEW s, s = RemoteAfterSync(local, remote, n)
  PROVE  /\ IsWritten(local, remote, n, "known", m, f, remote, "known")
         /\ Unsynchronized(f) # << >> =>
              IsWritten(local, remote, n, "known", m, f, s, "lost")
<1>1. LeavesFetched(local, remote, n, m, f)
  BY FetchedLeaves
<1>2. /\ m \in Nat /\ n <= m /\ Paired(f, remote, m)
      /\ \A id \in Uuids(Unsynchronized(f)) : id \in Uuids(Unsynchronized(local)) \/ n <= id
      /\ \A id \in DOMAIN f.txs : id \in DOMAIN local.txs \/ id \in DOMAIN remote.txs \/ n <= id
      /\ Keeps(Chain(local), Chain(f))
      /\ OnlyChain(f) => OnlyChain(local)
  BY <1>1 DEF LeavesFetched
<1>3. Sound(remote, n) /\ Sound(f, m)
  BY <1>2 DEF Paired
<1>4. IsPrefix(Chain(remote), Chain(remote))
  BY <1>3, PrefixOfSame
<1>5. Linked(f, remote, m, "known")
  BY <1>2, PairedIsLinked
<1>6. IsWritten(local, remote, n, "known", m, f, remote, "known")
  BY <1>2, <1>4, <1>5 DEF IsWritten
<1>7. ASSUME Unsynchronized(f) # << >>
      PROVE  IsWritten(local, remote, n, "known", m, f, s, "lost")
  <2>1. PushesAll(f, remote, m, MarkPushed(f), s)
    BY FetchedIsPushed
  <2>2. Linked(f, s, m, "lost")
    BY <1>2, <1>7, <2>1, UnansweredIsBlocked, BlockedIsLinked
  <2>3. /\ Chain(s) = Chain(remote) \o Unsynchronized(f)
        /\ Chain(remote) \in Seq(Stored(s)) /\ Unsynchronized(f) \in Seq(Stored(s))
        /\ Uuids(Chain(s)) = Uuids(Chain(remote)) \cup Uuids(Unsynchronized(f))
        /\ DOMAIN s.txs = DOMAIN remote.txs \cup Uuids(Unsynchronized(f))
    BY <2>1 DEF PushesAll
  <2>4. IsPrefix(Chain(remote), Chain(s)) /\ Known(remote) \subseteq Known(s)
    BY <2>3, PrefixOfConcat DEF Known
  <2>5. Uuids(Unsynchronized(local)) \subseteq DOMAIN local.txs
    <3>1. PICK q : IsFork(local, remote, SyncedPart(local), Unsynchronized(local),
                          q, News(local, remote))
      BY ForkIs
    <3>2. Uuids(Chain(local)) \subseteq DOMAIN local.txs
      BY SoundIds DEF Paired
    <3>. QED
      BY <3>1, <3>2 DEF IsFork
  <2>6. \A id \in DOMAIN s.txs : id \in DOMAIN local.txs \/ id \in DOMAIN remote.txs \/ n <= id
    BY <1>2, <2>3, <2>5
  <2>. QED
    BY <1>2, <2>2, <2>4, <2>6 DEF IsWritten
<1>. QED
  BY <1>6, <1>7

\* A call that returns.
LEMMA ReturnedIsWritten ==
  ASSUME NEW local, NEW remote, NEW n, Paired(local, remote, n),
         CanFetch(local, remote), NEW m, m = n + IdsForFetch(local, remote),
         NEW l, l = LocalAfterSync(local, remote, n),
         NEW s, s = RemoteAfterSync(local, remote, n)
  PROVE  IsWritten(local, remote, n, "known", m, l, s, "known")
<1>1. IsSynced(local, remote, n, m, l, s)
  BY SyncedCall
<1>2. Paired(l, s, m)
  BY <1>1 DEF IsSynced, Paired
<1>3. Uuids(Unsynchronized(local)) \subseteq DOMAIN local.txs
  <2>1. PICK q : IsFork(local, remote, SyncedPart(local), Unsynchronized(local),
                        q, News(local, remote))
    BY ForkIs
  <2>2. Uuids(Chain(local)) \subseteq DOMAIN local.txs
    BY SoundIds DEF Paired
  <2>. QED
    BY <2>1, <2>2 DEF IsFork
<1>4. \A id \in DOMAIN l.txs \cup DOMAIN s.txs :
        id \in DOMAIN local.txs \/ id \in DOMAIN remote.txs \/ n <= id
  BY <1>1, <1>3 DEF IsSynced
<1>5. Linked(l, s, m, "known")
  BY <1>2, PairedIsLinked
<1>. QED
  BY <1>1, <1>4, <1>5 DEF IsSynced, IsWritten

\* What is known of the answers after outcome o of a sync(), when it was b before.
StatusAfter(b, o) == IF o.end = "unanswered" THEN "lost" ELSE b

\* A call of sync(), however it ends.
LEMMA SyncedIsWritten ==
  ASSUME NEW local, NEW remote, NEW n, NEW b, b \in {"known", "lost"},
         Linked(local, remote, n, b),
         NEW m, m = IF CanFetch(local, remote) THEN n + IdsForFetch(local, remote) ELSE n,
         NEW o \in SyncOutcomes(local, remote, n)
  PROVE  IsWritten(local, remote, n, b, m, o.local, o.remote, StatusAfter(b, o))
<1>1. CASE ~CanFetch(local, remote)
  <2>1. o.local = local /\ o.remote = remote /\ o.end = "returned" /\ m = n
    BY <1>1, RefusedOutcome
  <2>2. n \in Nat /\ n <= n
    BY DEF Linked
  <2>3. IsWritten(local, remote, n, b, n, local, remote, b)
    BY <2>2, NothingWritten
  <2>. QED
    BY <2>1, <2>3 DEF StatusAfter
<1>2. CASE CanFetch(local, remote)
  <2>1. b = "known" /\ Paired(local, remote, n)
    BY <1>2, BlockedCannotFetch DEF Linked
  <2>2. m = n + IdsForFetch(local, remote)
    BY <1>2
  <2>3. CASE o.end = "returned"
    <3>1. o.local = LocalAfterSync(local, remote, n) /\ o.remote = RemoteAfterSync(local, remote, n)
      BY <2>3, FetchedOutcomes
    <3>. QED
      BY <1>2, <2>1, <2>2, <2>3, <3>1, ReturnedIsWritten DEF StatusAfter
  <2>4. CASE o.end = "not pushed"
    <3>1. o.local = Fetch(local, remote, n) /\ o.remote = remote
      BY <2>4, FetchedOutcomes
    <3>. QED
      BY <1>2, <2>1, <2>2, <2>4, <3>1, FetchedIsWritten DEF StatusAfter
  <2>5. CASE o.end = "unanswered"
    <3>1. /\ o.local = Fetch(local, remote, n) /\ o.remote = RemoteAfterSync(local, remote, n)
          /\ Unsynchronized(Fetch(local, remote, n)) # << >>
      BY <2>5, FetchedOutcomes
    <3>. QED
      BY <1>2, <2>1, <2>2, <2>5, <3>1, FetchedIsWritten DEF StatusAfter
  <2>. QED
    BY <2>3, <2>4, <2>5, FetchedOutcomes
<1>. QED
  BY <1>1, <1>2

\* One after the other.
LEMMA ClearedThenWritten ==
  ASSUME NEW local, NEW remote, NEW n, NEW b, NEW k, NEW m, NEW l, NEW s, NEW c,
         IsWritten(local, remote, n, b, n, k, remote, b),
         IsWritten(k, remote, n, b, m, l, s, c)
  PROVE  IsWritten(local, remote, n, b, m, l, s, c)
<1>1. /\ b # "lost" => \A id \in Uuids(Unsynchronized(k)) :
                         id \in Uuids(Unsynchronized(local)) \/ n <= id
      /\ \A id \in DOMAIN k.txs : id \in DOMAIN local.txs \/ id \in DOMAIN remote.txs \/ n <= id
      /\ OnlyChain(k) => OnlyChain(local) /\ Keeps(Chain(local), Chain(k))
  BY DEF IsWritten
<1>2. /\ m \in Nat /\ n <= m /\ Linked(l, s, m, c)
      /\ b = "lost" => c = "lost"
      /\ c # "lost" => \A id \in Uuids(Unsynchronized(l)) :
                         id \in Uuids(Unsynchronized(k)) \/ n <= id
      /\ \A id \in DOMAIN l.txs \cup DOMAIN s.txs :
           id \in DOMAIN k.txs \/ id \in DOMAIN remote.txs \/ n <= id
      /\ IsPrefix(Chain(remote), Chain(s)) /\ Known(remote) \subseteq Known(s)
      /\ OnlyChain(l) => OnlyChain(k) /\ Keeps(Chain(k), Chain(l))
  BY DEF IsWritten
<1>3. OnlyChain(l) => OnlyChain(local) /\ Keeps(Chain(local), Chain(l))
  <2>1. Keeps(Chain(local), Chain(k)) /\ Keeps(Chain(k), Chain(l))
          => Keeps(Chain(local), Chain(l))
    BY DEF Keeps
  <2>. QED
    BY <1>1, <1>2, <2>1
<1>4. /\ c # "lost" => \A id \in Uuids(Unsynchronized(l)) :
                         id \in Uuids(Unsynchronized(local)) \/ n <= id
      /\ \A id \in DOMAIN l.txs \cup DOMAIN s.txs :
           id \in DOMAIN local.txs \/ id \in DOMAIN remote.txs \/ n <= id
  BY <1>1, <1>2
<1>. QED
  BY <1>2, <1>3, <1>4 DEF IsWritten

-------------------------------------------------------------------------------
(* The repositories of the accounts.                                         *)

\* No transaction that r has still to push is stored in q.
Apart(r, q) == Uuids(Unsynchronized(r)) \cap DOMAIN q.txs = {}

Status(d, a) == IF <<d, a>> \in unanswered THEN "lost" ELSE "known"

InOrder(a) ==
  /\ Sound(server[a].repo, nextId)
  /\ \A d \in Devices :
       /\ Linked(file[d][a].repo, server[a].repo, nextId, Status(d, a))
       /\ Status(d, a) # "lost" =>
            \A e \in Devices \ {d} : Apart(file[d][a].repo, file[e][a].repo)

\* What the server has not created, it holds no transactions of.
OnlyCreated ==
  \A a \in AccountIds : ~HasAccount(server, a) => server[a].repo = EmptyRepo

RInv ==
  /\ nextId \in Nat /\ nextId > 0
  /\ \A a \in AccountIds : InOrder(a)
  /\ OnlyCreated

\* Files f and g have the same repositories, but for account a.
SameBut(f, g, a) == \A b \in AccountIds \ {a} : g[b].repo = f[b].repo

\* The files have the same repositories after the step, but for account a of d.
OthersStay(d, a) ==
  \A e \in Devices : \A b \in AccountIds :
    e # d \/ b # a => file'[e][b].repo = file[e][b].repo

\* No answer is lost in the step, but for account a of d.
OthersAnswered(d, a) ==
  \A e \in Devices : \A b \in AccountIds :
    e # d \/ b # a => Status(e, b)' = Status(e, b)

\* The server's accounts and the accounts s: at most some more, without transactions.
HasMore(s) ==
  \A b \in AccountIds :
    /\ s[b].repo = server[b].repo
    /\ HasAccount(server, b) => s[b].label = server[b].label

\* A step that writes the repositories of account a on device d and the server.
Writes(d, a) ==
  /\ OthersStay(d, a) /\ OthersAnswered(d, a)
  /\ \A b \in AccountIds \ {a} : server'[b].repo = server[b].repo
  /\ IsWritten(file[d][a].repo, server[a].repo, nextId, Status(d, a),
               nextId', file'[d][a].repo, server'[a].repo, Status(d, a)')

\* A step that writes none.
WritesNothing ==
  /\ UNCHANGED <<nextId, unanswered>>
  /\ \A d \in Devices : \A a \in AccountIds : file'[d][a].repo = file[d][a].repo
  /\ \A a \in AccountIds : server'[a].repo = server[a].repo

\* The server never deletes or renames an account, and only writes what it has.
ServerKeeps ==
  \A a \in AccountIds :
    /\ HasAccount(server, a) => server'[a].label = server[a].label
    /\ HasAccount(server', a) \/ server'[a].repo = server[a].repo

IsStep ==
  /\ ServerKeeps
  /\ WritesNothing \/ \E d \in Devices, a \in AccountIds : Writes(d, a)

\* The devices that do not take part are in order still: t tells whether an answer
\* to the other device was lost.
LEMMA OthersInOrder ==
  ASSUME NEW local, NEW remote, NEW n, NEW b, Linked(local, remote, n, b),
         NEW m, NEW l, NEW s, NEW c, IsWritten(local, remote, n, b, m, l, s, c),
         NEW other, NEW t, Linked(other, remote, n, t),
         t # "lost" => Apart(other, local), b # "lost" => Apart(local, other)
  PROVE  /\ Linked(other, s, m, t)
         /\ t # "lost" => Apart(other, l)
         /\ c # "lost" => Apart(l, other)
<1>1. /\ n \in Nat /\ m \in Nat /\ n <= m
      /\ Sound(other, n) /\ other.synced \in Known(other) /\ other.synced \in Known(remote)
      /\ Known(remote) \subseteq Known(s) /\ Sound(s, m)
  BY DEF IsWritten, Linked
<1>2. /\ c # "lost" => b # "lost" /\ \A id \in Uuids(Unsynchronized(l)) :
                                       id \in Uuids(Unsynchronized(local)) \/ n <= id
      /\ \A id \in DOMAIN l.txs \cup DOMAIN s.txs :
           id \in DOMAIN local.txs \/ id \in DOMAIN remote.txs \/ n <= id
  BY DEF IsWritten
<1>3. \A id \in DOMAIN other.txs : id \in Nat /\ id < n
  BY <1>1, SoundIds
<1>4. \A id \in DOMAIN other.txs : ~(n <= id)
  BY <1>1, <1>3
<1>5. Sound(other, m) /\ other.synced \in Known(s)
  BY <1>1, StaysSound
<1>6. ASSUME t # "lost" PROVE Paired(other, s, m) /\ Apart(other, l)
  <2>1. Paired(other, remote, n) /\ Uuids(Unsynchronized(other)) \cap DOMAIN remote.txs = {}
    BY <1>6 DEF Linked, Paired
  <2>2. Uuids(Unsynchronized(other)) \subseteq DOMAIN other.txs
    <3>1. PICK q : IsFork(other, remote, SyncedPart(other), Unsynchronized(other),
                          q, News(other, remote))
      BY <2>1, ForkIs
    <3>2. Uuids(Chain(other)) \subseteq DOMAIN other.txs
      BY <1>1, SoundIds
    <3>. QED
      BY <3>1, <3>2 DEF IsFork
  <2>3. /\ Uuids(Unsynchronized(other)) \cap DOMAIN l.txs = {}
        /\ Uuids(Unsynchronized(other)) \cap DOMAIN s.txs = {}
    BY <1>2, <1>4, <1>6, <2>1, <2>2 DEF Apart
  <2>. QED
    BY <1>1, <1>5, <2>3 DEF Apart, Paired
<1>7. t = "lost" => Blocked(other, s, m)
  <2>1. other.synced <= other.synced
    BY <1>1, SoundIds
  <2>. QED
    BY <1>1, <1>5, <2>1, StaysBlocked DEF Linked
<1>8. c # "lost" => Apart(l, other)
  BY <1>2, <1>4 DEF Apart
<1>. QED
  BY <1>1, <1>5, <1>6, <1>7, <1>8 DEF Linked

LEMMA WritesInOrder ==
  ASSUME RInv, NEW d \in Devices, NEW a \in AccountIds, Writes(d, a)
  PROVE  nextId' \in Nat /\ nextId' > 0 /\ \A b \in AccountIds : InOrder(b)'
<1>1. /\ nextId \in Nat /\ nextId > 0 /\ nextId' \in Nat /\ nextId <= nextId'
      /\ Linked(file'[d][a].repo, server'[a].repo, nextId', Status(d, a)')
  BY DEF RInv, Writes, IsWritten
<1>. HIDE DEF Status
<1>2. ASSUME NEW b \in AccountIds, b # a PROVE InOrder(b)'
  <2>1. /\ server'[b].repo = server[b].repo
        /\ \A e \in Devices : file'[e][b].repo = file[e][b].repo
        /\ \A e \in Devices : Status(e, b)' = Status(e, b)
    BY <1>2 DEF Writes, OthersStay, OthersAnswered
  <2>2. /\ Sound(server[b].repo, nextId)
        /\ \A e \in Devices :
             /\ Linked(file[e][b].repo, server[b].repo, nextId, Status(e, b))
             /\ Status(e, b) # "lost" =>
                  \A c \in Devices \ {e} : Apart(file[e][b].repo, file[c][b].repo)
    BY DEF RInv, InOrder
  <2>3. Sound(server[b].repo, nextId')
    BY <1>1, <2>2, StaysSound
  <2>4. ASSUME NEW e \in Devices
        PROVE  Linked(file[e][b].repo, server[b].repo, nextId', Status(e, b))
    BY <1>1, <2>2, StaysLinked
  <2>. QED
    BY <2>1, <2>2, <2>3, <2>4 DEF InOrder
<1>3. InOrder(a)'
  <2>. DEFINE local == file[d][a].repo
              l     == file'[d][a].repo
              s     == server'[a].repo
              b     == Status(d, a)
              c     == Status(d, a)'
  <2>1. \A e \in Devices \ {d} :
          file'[e][a].repo = file[e][a].repo /\ Status(e, a)' = Status(e, a)
    BY DEF Writes, OthersStay, OthersAnswered
  <2>2. \A e \in Devices :
          /\ Linked(file[e][a].repo, server[a].repo, nextId, Status(e, a))
          /\ Status(e, a) # "lost" =>
               \A k \in Devices \ {e} : Apart(file[e][a].repo, file[k][a].repo)
    BY DEF RInv, InOrder
  <2>3. IsWritten(local, server[a].repo, nextId, b, nextId', l, s, c)
    BY DEF Writes
  <2>. HIDE DEF local, l, s, b, c
  <2>4. ASSUME NEW e \in Devices, e # d
        PROVE  /\ Linked(file[e][a].repo, s, nextId', Status(e, a))
               /\ Status(e, a) # "lost" => Apart(file[e][a].repo, l)
               /\ c # "lost" => Apart(l, file[e][a].repo)
    <3>1. /\ Linked(local, server[a].repo, nextId, b)
          /\ Linked(file[e][a].repo, server[a].repo, nextId, Status(e, a))
          /\ Status(e, a) # "lost" => Apart(file[e][a].repo, local)
          /\ b # "lost" => Apart(local, file[e][a].repo)
      BY <2>2, <2>4 DEF local, b
    <3>. QED
      BY <2>3, <3>1, OthersInOrder
  <2>5. Sound(s, nextId')
    BY <1>1 DEF Linked, s
  <2>6. ASSUME NEW e \in Devices
        PROVE  /\ Linked(file'[e][a].repo, s, nextId', Status(e, a)')
               /\ Status(e, a)' # "lost" =>
                    \A k \in Devices \ {e} : Apart(file'[e][a].repo, file'[k][a].repo)
    <3>1. CASE e = d
      <4>1. Linked(l, s, nextId', c)
        BY <1>1 DEF l, s, c
      <4>2. ASSUME c # "lost", NEW k \in Devices \ {d} PROVE Apart(l, file'[k][a].repo)
        BY <2>1, <2>4, <4>2
      <4>. QED
        BY <3>1, <4>1, <4>2 DEF l, c
    <3>2. CASE e # d
      <4>1. Linked(file'[e][a].repo, s, nextId', Status(e, a)')
        BY <2>1, <2>4, <3>2
      <4>2. Status(e, a)' # "lost" => Apart(file'[e][a].repo, file'[d][a].repo)
        BY <2>1, <2>4, <3>2 DEF l
      <4>3. Status(e, a)' # "lost" =>
              \A k \in Devices \ {e} : k # d => Apart(file'[e][a].repo, file'[k][a].repo)
        BY <2>1, <2>2, <3>2
      <4>. QED
        BY <4>1, <4>2, <4>3
    <3>. QED
      BY <3>1, <3>2
  <2>. QED
    BY <2>5, <2>6 DEF InOrder, s
<1>. QED
  BY <1>1, <1>2, <1>3

\* Whatever is such a step keeps the repositories in order.
LEMMA StepInOrder ==
  ASSUME RInv, IsStep
  PROVE  RInv'
<1>1. nextId' \in Nat /\ nextId' > 0 /\ \A b \in AccountIds : InOrder(b)'
  <2>1. CASE WritesNothing
    BY <2>1 DEF RInv, WritesNothing, InOrder, Status
  <2>2. CASE \E d \in Devices, a \in AccountIds : Writes(d, a)
    BY <2>2, WritesInOrder
  <2>. QED
    BY <2>1, <2>2 DEF IsStep
<1>2. OnlyCreated'
  <2>. SUFFICES ASSUME NEW a \in AccountIds, ~HasAccount(server', a)
                PROVE  server'[a].repo = EmptyRepo
    BY DEF OnlyCreated
  <2>1. ~HasAccount(server, a) /\ server'[a].repo = server[a].repo
    BY DEF IsStep, ServerKeeps, HasAccount
  <2>. QED
    BY <2>1 DEF RInv, OnlyCreated
<1>. QED
  BY <1>1, <1>2 DEF RInv
-------------------------------------------------------------------------------
(* What the actions write.                                                   *)

\* A device writes its own file, and of that what it holds of account a.
LEMMA WritesOneRepo ==
  ASSUME Shaped, NEW d \in Devices, NEW a \in AccountIds,
         NEW g, file' = [file EXCEPT ![d] = g],
         SameBut(file[d], g, a)
  PROVE  /\ file'[d][a].repo = g[a].repo
         /\ OthersStay(d, a)
<1>1. file'[d] = g /\ \A e \in Devices \ {d} : file'[e] = file[e]
  BY WritesItsFile DEF Stores
<1>. QED
  BY <1>1 DEF OthersStay, SameBut

\* It writes the repository of account a in the file.
LEMMA WritesRepoOnly ==
  ASSUME NEW f, IsFile(f), NEW a \in AccountIds, NEW repo,
         NEW g, g = [f EXCEPT ![a].repo = repo]
  PROVE  g[a].repo = repo /\ SameBut(f, g, a)
  BY DEF IsFile, SameBut

LEMMA AllAnswered ==
  ASSUME UNCHANGED unanswered, NEW d, NEW a
  PROVE  OthersAnswered(d, a) /\ Status(d, a)' = Status(d, a)
  BY DEF OthersAnswered, Status

LEMMA SameServer ==
  ASSUME UNCHANGED server
  PROVE  ServerKeeps /\ \A b \in AccountIds : server'[b].repo = server[b].repo
  BY DEF ServerKeeps

\* Adding an account leaves its transactions, and points to none of them.
LEMMA AddAccountRepos ==
  ASSUME NEW f, IsFile(f), NEW a \in AccountIds, IsRecord(f[a].repo), NEW label,
         NEW g, g = AddAccount(f, a, NewAccount(label))
  PROVE  /\ g[a].repo = Cleared(f[a].repo)
         /\ \A b \in AccountIds \ {a} : g[b].repo = f[b].repo /\ g[b].label = f[b].label
<1>. DEFINE account == NewAccount(label)
            r       == f[a].repo
            one     == [r EXCEPT !.latest = account.latest]
            new     == [one EXCEPT !.synced = account.synced]
<1>1. account.latest = NoId /\ account.synced = NoId
  BY DEF NewAccount
<1>. HIDE DEF account
<1>2. g = [f EXCEPT ![a] = [label |-> account.label, repo |-> new]]
  BY DEF AddAccount, account
<1>3. one = [txs |-> r.txs, latest |-> NoId, synced |-> r.synced]
  BY <1>1 DEF IsRecord
<1>. HIDE DEF one
<1>4. new = [txs |-> r.txs, latest |-> NoId, synced |-> NoId]
  BY <1>1, <1>3
<1>. HIDE DEF new
<1>5. g[a].repo = new /\ \A b \in AccountIds \ {a} : g[b] = f[b]
  BY <1>2 DEF IsFile
<1>. QED
  BY <1>4, <1>5 DEF Cleared

LEMMA LinkedAccounts ==
  ASSUME RInv, NEW d \in Devices, NEW a \in AccountIds
  PROVE  /\ Linked(file[d][a].repo, server[a].repo, nextId, Status(d, a))
         /\ Status(d, a) \in {"known", "lost"}
         /\ IsRecord(file[d][a].repo) /\ IsRecord(server[a].repo)
         /\ nextId \in Nat /\ nextId > 0
<1>1. Linked(file[d][a].repo, server[a].repo, nextId, Status(d, a))
  BY DEF RInv, InOrder
<1>2. IsRecord(file[d][a].repo) /\ IsRecord(server[a].repo)
  BY <1>1 DEF Linked, Sound
<1>. QED
  BY <1>1, <1>2 DEF RInv, Status

\* What a device has once it has added account a.
LEMMA ClearedAccount ==
  ASSUME Shaped, RInv, NEW d \in Devices, NEW a \in AccountIds, NEW label,
         NEW g, g = AddAccount(file[d], a, NewAccount(label))
  PROVE  /\ IsWritten(file[d][a].repo, server[a].repo, nextId, Status(d, a),
                      nextId, g[a].repo, server[a].repo, Status(d, a))
         /\ SameBut(file[d], g, a)
<1>1. IsFile(file[d])
  BY DEF Shaped
<1>2. /\ Linked(file[d][a].repo, server[a].repo, nextId, Status(d, a))
      /\ IsRecord(file[d][a].repo)
  BY LinkedAccounts
<1>3. /\ g[a].repo = Cleared(file[d][a].repo)
      /\ SameBut(file[d], g, a)
  BY <1>1, <1>2, AddAccountRepos DEF SameBut
<1>4. IsWritten(file[d][a].repo, server[a].repo, nextId, Status(d, a),
                nextId, Cleared(file[d][a].repo), server[a].repo, Status(d, a))
  BY <1>2, ClearedIsWritten
<1>. QED
  BY <1>3, <1>4

\* Adding, deleting and copying an account.
LEMMA AddsAccount ==
  ASSUME Shaped, RInv, NEW d \in Devices, NEW a \in AccountIds, NEW label,
         file' = [file EXCEPT ![d] = AddAccount(file[d], a, NewAccount(label))],
         UNCHANGED <<server, nextId, unanswered>>
  PROVE  IsStep
<1>. DEFINE g == AddAccount(file[d], a, NewAccount(label))
<1>1. /\ IsWritten(file[d][a].repo, server[a].repo, nextId, Status(d, a),
                   nextId, g[a].repo, server[a].repo, Status(d, a))
      /\ SameBut(file[d], g, a)
  BY ClearedAccount
<1>. HIDE DEF g
<1>2. file' = [file EXCEPT ![d] = g]
  BY DEF g
<1>3. /\ file'[d][a].repo = g[a].repo
      /\ OthersStay(d, a)
  BY <1>1, <1>2, WritesOneRepo
<1>4. ServerKeeps /\ \A b \in AccountIds : server'[b].repo = server[b].repo
  BY SameServer
<1>5. OthersAnswered(d, a) /\ Status(d, a)' = Status(d, a)
  BY AllAnswered
<1>6. Writes(d, a)
  BY <1>1, <1>3, <1>4, <1>5 DEF Writes
<1>. QED
  BY <1>4, <1>6 DEF IsStep

\* A file that is not written.
LEMMA NoRepoWritten ==
  ASSUME UNCHANGED <<file, server, nextId, unanswered>>
  PROVE  IsStep
<1>1. ServerKeeps /\ \A b \in AccountIds : server'[b].repo = server[b].repo
  BY SameServer
<1>2. WritesNothing
  BY <1>1 DEF WritesNothing
<1>. QED
  BY <1>1, <1>2 DEF IsStep

LEMMA RecordsTransaction ==
  ASSUME Shaped, RInv, NEW d \in Devices, NEW a \in AccountIds, RecordTransaction(d, a)
  PROVE  IsStep
<1>. DEFINE r  == file[d][a].repo
            tx == [uuid |-> nextId, parent |-> r.latest, replaces |-> NoId,
                   deleted |-> FALSE, body |-> [by |-> d, nth |-> recorded[d] + 1]]
            l  == SetLatestTransaction(AddTransaction(r, tx), tx.uuid)
            g  == [file[d] EXCEPT ![a].repo = l]
<1>1. IsFile(file[d])
  BY DEF Shaped
<1>2. /\ file' = [file EXCEPT ![d] = g] /\ UNCHANGED <<server, unanswered>>
      /\ nextId' = nextId + 1
  BY DEF RecordTransaction
<1>3. IsTransaction(tx) /\ tx.uuid = nextId /\ tx.parent = r.latest
  BY DEF IsTransaction
<1>. HIDE DEF tx
<1>4. IsWritten(r, server[a].repo, nextId, Status(d, a),
                nextId + 1, l, server[a].repo, Status(d, a))
  BY <1>3, LinkedAccounts, RecordedIsWritten
<1>. HIDE DEF l
<1>5. g[a].repo = l /\ SameBut(file[d], g, a)
  BY <1>1, WritesRepoOnly
<1>. HIDE DEF g
<1>6. /\ file'[d][a].repo = l
      /\ OthersStay(d, a)
  BY <1>2, <1>5, WritesOneRepo
<1>7. ServerKeeps /\ \A b \in AccountIds : server'[b].repo = server[b].repo
  BY <1>2, SameServer
<1>8. OthersAnswered(d, a) /\ Status(d, a)' = Status(d, a)
  BY <1>2, AllAnswered
<1>9. Writes(d, a)
  BY <1>2, <1>4, <1>6, <1>7, <1>8 DEF Writes
<1>. QED
  BY <1>7, <1>9 DEF IsStep

\* sync() from a file and a server that the action may have written before.
LEMMA SyncsAccount ==
  ASSUME Shaped, RInv, NEW d \in Devices, NEW a \in AccountIds,
         NEW f, IsFile(f), SameBut(file[d], f, a),
         IsWritten(file[d][a].repo, server[a].repo, nextId, Status(d, a),
                   nextId, f[a].repo, server[a].repo, Status(d, a)),
         NEW s, IsFile(s), HasMore(s),
         SyncAccount(d, a, f, s)
  PROVE  IsStep
<1>. DEFINE local  == f[a].repo
            remote == server[a].repo
<1>1. s[a].repo = remote
  BY DEF HasMore
<1>2. HasAccount(s, a)
  BY DEF SyncAccount
<1>3. PICK o \in SyncOutcomes(local, remote, nextId) :
        /\ file' = [file EXCEPT ![d] = [f EXCEPT ![a].repo = o.local]]
        /\ server' = [s EXCEPT ![a].repo = o.remote]
        /\ unanswered' = IF o.end = "unanswered"
                           THEN unanswered \cup {<<d, a>>} ELSE unanswered
  BY <1>1 DEF SyncAccount
<1>4. nextId' = IF CanFetch(local, remote)
                  THEN nextId + IdsForFetch(local, remote) ELSE nextId
  BY <1>1 DEF SyncAccount
<1>. DEFINE l == o.local
            t == o.remote
            g == [f EXCEPT ![a].repo = l]
<1>5. /\ Linked(local, remote, nextId, Status(d, a))
      /\ Status(d, a) \in {"known", "lost"}
  BY LinkedAccounts DEF IsWritten
<1>. HIDE DEF local, remote
<1>6. IsWritten(local, remote, nextId, Status(d, a), nextId', l, t,
                StatusAfter(Status(d, a), o))
  BY <1>3, <1>4, <1>5, SyncedIsWritten
<1>7. /\ OthersAnswered(d, a)
      /\ Status(d, a)' = StatusAfter(Status(d, a), o)
  <2>1. CASE o.end = "unanswered"
    BY <1>3, <2>1 DEF OthersAnswered, Status, StatusAfter
  <2>2. CASE o.end # "unanswered"
    <3>1. UNCHANGED unanswered
      BY <1>3, <2>2
    <3>. QED
      BY <2>2, <3>1, AllAnswered DEF StatusAfter
  <2>. QED
    BY <2>1, <2>2
<1>. HIDE DEF l, t
<1>8. g[a].repo = l /\ SameBut(file[d], g, a)
  BY DEF IsFile, SameBut
<1>9. file' = [file EXCEPT ![d] = g]
  BY <1>3 DEF l
<1>. HIDE DEF g
<1>10. /\ file'[d][a].repo = l
       /\ OthersStay(d, a)
  BY <1>8, <1>9, WritesOneRepo
<1>11. server' = [s EXCEPT ![a].repo = t]
  BY <1>3 DEF t
<1>12. /\ server'[a].repo = t /\ server'[a].label = s[a].label
       /\ \A b \in AccountIds \ {a} : server'[b] = s[b]
  BY <1>11 DEF IsFile
<1>13. HasAccount(server', a)
  BY <1>2, <1>12 DEF HasAccount
<1>14. ServerKeeps
  BY <1>12, <1>13 DEF HasMore, ServerKeeps
<1>15. IsWritten(file[d][a].repo, remote, nextId, Status(d, a), nextId', l, t,
                 StatusAfter(Status(d, a), o))
  BY <1>6, ClearedThenWritten DEF local, remote
<1>16. \A b \in AccountIds \ {a} : server'[b].repo = server[b].repo
  BY <1>12 DEF HasMore
<1>17. Writes(d, a)
  BY <1>7, <1>10, <1>12, <1>15, <1>16 DEF Writes, remote
<1>. QED
  BY <1>14, <1>17 DEF IsStep

\* Synchronizing what the device has with what the server has.
LEMMA SyncsAsItIs ==
  ASSUME Shaped, RInv, NEW d \in Devices, NEW a \in AccountIds,
         SyncAccount(d, a, file[d], server)
  PROVE  IsStep
<1>1. IsFile(file[d]) /\ IsFile(server)
  BY DEF Shaped
<1>2. nextId \in Nat /\ nextId <= nextId
  BY LinkedAccounts
<1>3. IsWritten(file[d][a].repo, server[a].repo, nextId, Status(d, a),
                nextId, file[d][a].repo, server[a].repo, Status(d, a))
  BY <1>2, LinkedAccounts, NothingWritten
<1>4. SameBut(file[d], file[d], a) /\ HasMore(server)
  BY DEF SameBut, HasMore
<1>. QED
  BY <1>1, <1>3, <1>4, SyncsAccount

\* clone_remote.
LEMMA SyncsCopy ==
  ASSUME Shaped, RInv, NEW d \in Devices, NEW a \in AccountIds,
         SyncAccount(d, a, FileWithCopy(d, a), server)
  PROVE  IsStep
<1>. DEFINE g == FileWithCopy(d, a)
<1>1. g = AddAccount(file[d], a, NewAccount(AccountInfo(server, a).label))
  BY DEF FileWithCopy, AsCloned
<1>2. IsFile(g) /\ IsFile(server)
  BY CopyLabels DEF Relabels, Shaped
<1>. HIDE DEF g
<1>3. /\ IsWritten(file[d][a].repo, server[a].repo, nextId, Status(d, a),
                   nextId, g[a].repo, server[a].repo, Status(d, a))
      /\ SameBut(file[d], g, a)
  BY <1>1, ClearedAccount
<1>4. SyncAccount(d, a, g, server)
  BY DEF g
<1>5. HasMore(server)
  BY DEF HasMore
<1>. QED
  BY <1>2, <1>3, <1>4, <1>5, SyncsAccount

\* A new account of the server has no transactions, as it had none before.
LEMMA CreatedRepos ==
  ASSUME Shaped, RInv, NEW a \in AccountIds, ~HasAccount(server, a), NEW account,
         NEW s, s = Created(a, account)
  PROVE  /\ IsFile(s)
         /\ HasMore(s)
<1>1. IsFile(server)
  BY DEF Shaped
<1>2. server[a].repo = EmptyRepo
  BY DEF RInv, OnlyCreated
<1>3. IsRecord(EmptyRepo) /\ Cleared(EmptyRepo) = EmptyRepo
  BY DEF IsRecord, EmptyRepo, Cleared
<1>4. s = AddAccount(server, a, NewAccount(account.label))
  BY DEF Created, AsCreated
<1>5. /\ s[a].repo = Cleared(server[a].repo)
      /\ \A b \in AccountIds \ {a} :
           s[b].repo = server[b].repo /\ s[b].label = server[b].label
  BY <1>1, <1>2, <1>3, <1>4, AddAccountRepos
<1>6. IsFile(s)
  BY CreatedLabels DEF Relabels
<1>. QED
  BY <1>2, <1>3, <1>5, <1>6 DEF HasMore

LEMMA CreatesAccount ==
  ASSUME Shaped, RInv, NEW a \in AccountIds, NEW account, CreateAccount(a, account),
         UNCHANGED <<file, nextId, unanswered>>
  PROVE  IsStep
<1>1. ~HasAccount(server, a) /\ server' = Created(a, account)
  BY DEF CreateAccount, CanCreateAccount
<1>2. HasMore(server')
  BY <1>1, CreatedRepos
<1>. QED
  BY <1>2 DEF HasMore, IsStep, WritesNothing, ServerKeeps

\* share, the first time.
LEMMA SyncsCreated ==
  ASSUME Shaped, RInv, NEW d \in Devices, NEW a \in AccountIds, NEW account,
         CanCreateAccount(a, file[d][a].label),
         SyncAccount(d, a, file[d], Created(a, account))
  PROVE  IsStep
<1>. DEFINE s == Created(a, account)
<1>1. ~HasAccount(server, a)
  BY DEF CanCreateAccount
<1>2. /\ IsFile(s)
      /\ HasMore(s)
  BY <1>1, CreatedRepos
<1>3. SyncAccount(d, a, file[d], s)
  OBVIOUS
<1>. HIDE DEF s
<1>4. IsFile(file[d])
  BY DEF Shaped
<1>5. nextId \in Nat /\ nextId <= nextId
  BY LinkedAccounts
<1>6. IsWritten(file[d][a].repo, server[a].repo, nextId, Status(d, a),
                nextId, file[d][a].repo, server[a].repo, Status(d, a))
  BY <1>5, LinkedAccounts, NothingWritten
<1>7. SameBut(file[d], file[d], a)
  BY DEF SameBut
<1>. QED
  BY <1>2, <1>3, <1>4, <1>6, <1>7, SyncsAccount

\* find_account_by_label finds an account of that label, if there is one.
LEMMA FoundByLabel ==
  ASSUME NEW f, NEW label, Labelled(f, label) # {}
  PROVE  FindAccountByLabel(f, label) \in AccountIds
<1>1. Labelled(f, label) \in SUBSET Nat /\ Labelled(f, label) \subseteq AccountIds
  BY ConstantsAssumption DEF Labelled, ListAccounts
<1>2. \E a \in Labelled(f, label) : \A b \in Labelled(f, label) : a <= b
  BY <1>1, LeastElement
<1>. QED
  BY <1>1, <1>2 DEF FindAccountByLabel

LEMMA CommandWrites ==
  ASSUME Shaped, RInv, NEW d \in Laptops, Command(d)
  PROVE  IsStep
<1>1. d \in Devices
  BY DEF Devices
<1>2. ASSUME NEW label \in Labels, NEW a \in AccountIds, AddAccountCommand(d, a, label)
      PROVE  IsStep
  BY <1>1, <1>2, AddsAccount DEF AddAccountCommand
<1>3. ASSUME NEW label \in Labels, DeleteAccountCommand(d, label)
      PROVE  IsStep
  <2>. DEFINE a == FindAccountByLabel(file[d], label)
  <2>1. a \in AccountIds
    BY <1>3, FoundByLabel DEF DeleteAccountCommand
  <2>2. file' = [file EXCEPT ![d] = DeleteAccount(file[d], a)] /\ UNCHANGED <<server, nextId, unanswered>>
    BY <1>3 DEF DeleteAccountCommand
  <2>. QED
    BY <1>1, <2>1, <2>2, AddsAccount DEF DeleteAccount
<1>4. ASSUME NEW label \in Labels, AddTransactionCommand(d, label)
      PROVE  IsStep
  BY <1>1, <1>4, FoundByLabel, RecordsTransaction DEF AddTransactionCommand
<1>5. ASSUME NEW label \in Labels, SyncCommand(d, label)
      PROVE  IsStep
  BY <1>1, <1>5, FoundByLabel, SyncsAsItIs DEF SyncCommand
<1>6. ASSUME NEW a \in AccountIds, CloneCommand(d, a)
      PROVE  IsStep
  BY <1>1, <1>6, SyncsCopy DEF CloneCommand
<1>7. ASSUME NEW a \in AccountIds, CloneInterrupted(d, a)
      PROVE  IsStep
  BY <1>1, <1>7, AddsAccount DEF CloneInterrupted, FileWithCopy, AsCloned
<1>. QED
  BY <1>2, <1>3, <1>4, <1>5, <1>6, <1>7 DEF Command

LEMMA TapWrites ==
  ASSUME Shaped, RInv, NEW d \in Phones, Tap(d)
  PROVE  IsStep
<1>1. d \in Devices
  BY DEF Devices
<1>2. ASSUME NEW a \in AccountIds, NEW label \in Labels, SaveAccount(d, a, label)
      PROVE  IsStep
  BY <1>1, <1>2, AddsAccount DEF SaveAccount
<1>3. ASSUME NEW a \in AccountIds, DeleteAccountOnPhone(d, a)
      PROVE  IsStep
  BY <1>1, <1>3, AddsAccount DEF DeleteAccountOnPhone, DeleteAccount
<1>4. ASSUME NEW a \in AccountIds, RecordTransaction(d, a)
      PROVE  IsStep
  BY <1>1, <1>4, RecordsTransaction
<1>5. ASSUME NEW a \in AccountIds, Synchronize(d, a)
      PROVE  IsStep
  BY <1>1, <1>5, SyncsAsItIs DEF Synchronize
<1>6. ASSUME NEW a \in AccountIds, ShareAccount(d, a)
      PROVE  IsStep
  BY <1>1, <1>6, SyncsCreated DEF ShareAccount
<1>7. ASSUME NEW a \in AccountIds, ShareInterrupted(d, a)
      PROVE  IsStep
  BY <1>7, CreatesAccount DEF ShareInterrupted
<1>8. ASSUME NEW a \in AccountIds, Import(d, a)
      PROVE  IsStep
  BY <1>1, <1>8, SyncsCopy DEF Import
<1>9. ASSUME NEW a \in AccountIds, ImportInterrupted(d, a)
      PROVE  IsStep
  <2>1. CASE UNCHANGED file
    BY <1>9, <2>1, NoRepoWritten DEF ImportInterrupted
  <2>2. CASE file' = [file EXCEPT ![d] = FileWithCopy(d, a)]
    BY <1>1, <1>9, <2>2, AddsAccount DEF ImportInterrupted, FileWithCopy, AsCloned
  <2>. QED
    BY <1>9, <2>1, <2>2 DEF ImportInterrupted
<1>10. ASSUME NEW a \in AccountIds, PrepareImport(d, a)
       PROVE  IsStep
  BY <1>10, NoRepoWritten DEF PrepareImport
<1>11. CASE ClosePage(d)
  BY <1>11, NoRepoWritten DEF ClosePage
<1>. QED
  BY <1>2, <1>3, <1>4, <1>5, <1>6, <1>7, <1>8, <1>9, <1>10, <1>11 DEF Tap

\* Every step of the specification is such a step.
LEMMA EveryStep ==
  ASSUME Shaped, RInv, [Next]_vars
  PROVE  IsStep
<1>1. CASE UNCHANGED vars
  BY <1>1, NoRepoWritten DEF vars
<1>2. ASSUME NEW a \in AccountIds, NEW label \in Labels, AddRemoteAccountCommand(a, label)
      PROVE  IsStep
  BY <1>2, CreatesAccount DEF AddRemoteAccountCommand
<1>. QED
  BY <1>1, <1>2, CommandWrites, TapWrites DEF Next

-------------------------------------------------------------------------------

LEMMA StartsInOrder == Init => RInv
<1>. SUFFICES ASSUME Init PROVE RInv
  OBVIOUS
<1>1. nextId = 1 /\ 1 \in Nat /\ 1 > 0
  BY DEF Init
<1>2. /\ \A a \in AccountIds : server[a].repo = EmptyRepo
      /\ \A d \in Devices : \A a \in AccountIds : file[d][a].repo = EmptyRepo
  BY DEF Init, NoAccounts
<1>3. /\ Sound(EmptyRepo, nextId) /\ Chain(EmptyRepo) = << >>
      /\ NoId \in Known(EmptyRepo) /\ EmptyRepo.synced = NoId
      /\ DOMAIN EmptyRepo.txs = {}
  BY EmptyRepoSound DEF EmptyRepo
<1>4. Linked(EmptyRepo, EmptyRepo, nextId, "known") /\ Apart(EmptyRepo, EmptyRepo)
  BY <1>1, <1>3, PairedIsLinked DEF Paired, Apart
<1>5. \A d \in Devices : \A a \in AccountIds : Status(d, a) = "known"
  BY DEF Init, Status
<1>6. \A a \in AccountIds : InOrder(a)
  BY <1>2, <1>3, <1>4, <1>5 DEF InOrder
<1>. QED
  BY <1>1, <1>2, <1>6 DEF RInv, OnlyCreated

LEMMA StepsInOrder == IInv /\ RInv /\ [Next]_vars => RInv'
  BY EveryStep, StepInOrder DEF IInv

\* A device can list every account it has, and synchronize it with the server's, if
\* its file holds nothing of the account but its chain and the answer to none of its
\* pushes was lost; once one was, it never can: for any devices and accounts,
\* whatever they did before.  (clone_remote, add_account, delete_account, sync.)
THEOREM LostAnswersAlwaysBlock == Spec => []OnlyLostAnswersBlock
<1>1. RInv => OnlyLostAnswersBlock
  <2>. SUFFICES ASSUME RInv, NEW d \in Devices, NEW a \in ListAccounts(file[d])
                PROVE  /\ CanListTransactions(file[d], a)
                       /\ IsTidy(file[d][a].repo) =>
                            (CanSync(file[d][a].repo, server[a].repo, nextId)
                               <=> <<d, a>> \notin unanswered)
    BY DEF OnlyLostAnswersBlock
  <2>1. Linked(file[d][a].repo, server[a].repo, nextId, Status(d, a))
    BY LinkedAccounts DEF ListAccounts
  <2>2. CanListTransactions(file[d], a)
    BY <2>1 DEF Linked, Sound, CanListTransactions
  <2>3. ASSUME IsTidy(file[d][a].repo), <<d, a>> \notin unanswered
        PROVE  CanSync(file[d][a].repo, server[a].repo, nextId)
    <3>1. Paired(file[d][a].repo, server[a].repo, nextId)
      BY <2>1, <2>3 DEF Linked, Status
    <3>. QED
      BY <2>3, <3>1, OnlyChainCanSync DEF IsTidy, OnlyChain
  <2>4. ASSUME <<d, a>> \in unanswered
        PROVE  ~CanSync(file[d][a].repo, server[a].repo, nextId)
    <3>1. Blocked(file[d][a].repo, server[a].repo, nextId)
      BY <2>1, <2>4 DEF Linked, Status
    <3>. QED
      BY <3>1, BlockedCannotFetch DEF CanSync
  <2>. QED
    BY <2>2, <2>3, <2>4
<1>. QED
  BY StartsWell, StepsWell, StartsInOrder, StepsInOrder, <1>1, PTL DEF Spec

\* The server keeps every account under its name, and its log only grows, whoever
\* creates, shares, imports and synchronizes.  (create_account,
\* receive_transactions.)
THEOREM ServerOnlyGrows == Spec => ServerKeepsAccounts
<1>1. IInv /\ RInv /\ [Next]_vars =>
        \A a \in ListAccounts(server) :
          /\ server'[a].label = server[a].label
          /\ IsPrefix(Chain(server[a].repo), Chain(server'[a].repo))
  <2>. SUFFICES ASSUME IInv, RInv, [Next]_vars, NEW a \in ListAccounts(server)
                PROVE  /\ server'[a].label = server[a].label
                       /\ IsPrefix(Chain(server[a].repo), Chain(server'[a].repo))
    OBVIOUS
  <2>1. IsStep /\ a \in AccountIds /\ HasAccount(server, a)
    BY EveryStep DEF IInv, ListAccounts
  <2>2. server'[a].label = server[a].label
    BY <2>1 DEF IsStep, ServerKeeps
  <2>3. IsPrefix(Chain(server[a].repo), Chain(server[a].repo))
    BY <2>1, PrefixOfSame DEF RInv, InOrder
  <2>4. CASE server'[a].repo = server[a].repo
    BY <2>2, <2>3, <2>4
  <2>5. CASE server'[a].repo # server[a].repo
    <3>1. PICK d \in Devices, b \in AccountIds : Writes(d, b)
      BY <2>1, <2>5 DEF IsStep, WritesNothing
    <3>2. b = a
      BY <2>1, <2>5, <3>1 DEF Writes
    <3>. QED
      BY <2>2, <3>1, <3>2 DEF Writes, IsWritten
  <2>. QED
    BY <2>4, <2>5
<1>. QED
  BY StartsWell, StepsWell, StartsInOrder, StepsInOrder, <1>1, PTL
  DEF Spec, ServerKeepsAccounts

\* As long as an account stays on a device and is not added over its own
\* transactions, its expenses stay listed.  (clone_remote, sync.)
THEOREM ExpensesAreKept == Spec => ExpensesKept
<1>1. IInv /\ RInv /\ [Next]_vars =>
        \A d \in Devices, a \in AccountIds :
          /\ HasAccount(file[d], a) /\ HasAccount(file'[d], a)
          /\ IsTidy(file'[d][a].repo)
          => Bodies(Chain(file[d][a].repo)) \subseteq Bodies(Chain(file'[d][a].repo))
  <2>. SUFFICES ASSUME IInv, RInv, [Next]_vars, NEW d \in Devices, NEW a \in AccountIds,
                       IsTidy(file'[d][a].repo)
                PROVE  Bodies(Chain(file[d][a].repo))
                         \subseteq Bodies(Chain(file'[d][a].repo))
    OBVIOUS
  <2>1. IsStep
    BY EveryStep DEF IInv
  <2>2. CASE file'[d][a].repo = file[d][a].repo
    BY <2>2
  <2>3. CASE file'[d][a].repo # file[d][a].repo
    <3>1. PICK e \in Devices, b \in AccountIds : Writes(e, b)
      BY <2>1, <2>3 DEF IsStep, WritesNothing
    <3>2. e = d /\ b = a
      BY <2>3, <3>1 DEF Writes, OthersStay
    <3>3. OnlyChain(file'[d][a].repo)
      BY DEF IsTidy, OnlyChain
    <3>4. Keeps(Chain(file[d][a].repo), Chain(file'[d][a].repo))
      BY <3>1, <3>2, <3>3 DEF Writes, IsWritten
    <3>. QED
      BY <3>4 DEF Keeps, Bodies
  <2>. QED
    BY <2>2, <2>3
<1>. QED
  BY StartsWell, StepsWell, StartsInOrder, StepsInOrder, <1>1, PTL
  DEF Spec, ExpensesKept
===============================================================================
