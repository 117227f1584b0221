------------------------- MODULE NativeHandlesProofs -------------------------
(* Theorems about NativeHandles, for any number of calls, pauses and failures  *)
(* and whether or not sled locks the file.                                    *)
EXTENDS NativeHandles, TLAPS

-------------------------------------------------------------------------------
(* The inductive invariant.                                                  *)

\* What goes through the proxy to the repository of a handle.
ProxyKinds == Kinds \cup {"destroy"}

Messages == [kind : ProxyKinds \cup {"init", "client", "sync"}, handle : Nat, call : Nat]

Answers == [kind : {"opened", "address", "client", "answer"},
            handle : Nat, call : Nat, ok : BOOLEAN]

Handles == [proxy : Nat, state : {"opening", "open", "failed"}, waiting : Seq(Messages)]

TypeOK ==
  /\ repository \in 0..Len(current)
  /\ getting \in Seq([kind : Kinds, call : Nat])
  /\ current \in Seq(Nat)
  /\ handles \in Seq(Handles)
  /\ native \in Seq({"unborn", "alive", "destroyed"})
  /\ Len(native) = Len(handles)
  /\ inbox \in Seq(Messages)
  /\ outbox \in Seq(Answers)
  /\ status \in Seq({"asked", "done", "failed"})

\* Handles are known: to proxies, each of which has its own, and in messages.
Addressed ==
  /\ \A p \in 1..Len(current) : current[p] # None =>
       current[p] \in 1..Len(handles) /\ handles[current[p]].proxy = p
  /\ \A i \in 1..Len(inbox) : inbox[i].handle \in 1..Len(handles)
  /\ \A i \in 1..Len(outbox) : outbox[i].handle \in 1..Len(handles)
  /\ \A h \in 1..Len(handles) : \A i \in 1..Len(handles[h].waiting) :
       handles[h].waiting[i].handle = h /\ handles[h].waiting[i].kind \in ProxyKinds

\* Each handle is opened once: while it is, the message that does so or its answer
\* is on its way.
OpenedOnce ==
  /\ \A i \in 1..Len(inbox) : inbox[i].kind = "init" =>
       /\ handles[inbox[i].handle].state = "opening"
       /\ \A j \in 1..Len(inbox) :
            inbox[j].kind = "init" /\ inbox[j].handle = inbox[i].handle => j = i
       /\ \A j \in 1..Len(outbox) :
            outbox[j].kind = "opened" => outbox[j].handle # inbox[i].handle
  /\ \A i \in 1..Len(outbox) : outbox[i].kind = "opened" =>
       /\ handles[outbox[i].handle].state = "opening"
       /\ outbox[i].ok => native[outbox[i].handle] = "alive"
       /\ \A j \in 1..Len(outbox) :
            outbox[j].kind = "opened" /\ outbox[j].handle = outbox[i].handle => j = i

\* Until it is open nothing is sent to a repository, and then nothing waits.
WaitsUntilOpen ==
  \A h \in 1..Len(handles) :
    /\ handles[h].state = "opening" =>
         /\ native[h] # "destroyed"
         /\ \A i \in 1..Len(inbox) :
              inbox[i].kind \in ProxyKinds => inbox[i].handle # h
    /\ handles[h].state # "opening" => handles[h].waiting = << >>
    /\ handles[h].state = "open" => native[h] # "unborn"

\* A repository that is closed, or will be by a message under way or waiting,
\* belongs to no proxy any more, and that message is the last one.
DestroyIsLast ==
  /\ \A p \in 1..Len(current) : current[p] # None => native[current[p]] # "destroyed"
  /\ \A i \in 1..Len(inbox) : inbox[i].kind = "destroy" =>
       /\ \A p \in 1..Len(current) : current[p] # inbox[i].handle
       /\ \A j \in 1..Len(inbox) :
            j > i /\ inbox[j].kind \in ProxyKinds => inbox[j].handle # inbox[i].handle
  /\ \A h \in 1..Len(handles) : \A i \in 1..Len(handles[h].waiting) :
       handles[h].waiting[i].kind = "destroy" =>
         /\ \A p \in 1..Len(current) : current[p] # h
         /\ i = Len(handles[h].waiting)

\* What is under way to a repository will find it.
Found ==
  \A i \in 1..Len(inbox) :
    inbox[i].kind \in ProxyKinds => native[inbox[i].handle] = "alive"

IInv ==
  /\ TypeOK
  /\ Addressed
  /\ OpenedOnce
  /\ WaitsUntilOpen
  /\ DestroyIsLast
  /\ Found

-------------------------------------------------------------------------------
(* Steps.                                                                    *)

\* The messages to the isolate are those of before without the first k, and
\* perhaps one that does not go through a proxy.
QuietInbox(k) ==
  /\ inbox' \in Seq(Messages)
  /\ \A i \in 1..Len(inbox') :
       \/ i + k \in 1..Len(inbox) /\ inbox'[i] = inbox[i + k]
       \/ inbox'[i].kind \in {"client", "sync"} /\ inbox'[i].handle \in 1..Len(handles)

\* The same for the answers, and one that opens nothing.
QuietOutbox(k) ==
  /\ outbox' \in Seq(Answers)
  /\ \A i \in 1..Len(outbox') :
       \/ i + k \in 1..Len(outbox) /\ outbox'[i] = outbox[i + k]
       \/ outbox'[i].kind # "opened" /\ outbox'[i].handle \in 1..Len(handles)

LEMMA QuietStep ==
  ASSUME IInv, NEW k \in {0, 1}, QuietInbox(k), NEW l \in {0, 1}, QuietOutbox(l),
         UNCHANGED <<repository, current, handles, native>>,
         getting' \in Seq([kind : Kinds, call : Nat]),
         status' \in Seq({"asked", "done", "failed"})
  PROVE  IInv'
<1>1. \A i \in 1..Len(inbox') : inbox'[i].kind \in ProxyKinds \cup {"init"} =>
        i + k \in 1..Len(inbox) /\ inbox'[i] = inbox[i + k]
  BY DEF QuietInbox, ProxyKinds, Kinds
<1>2. \A i \in 1..Len(outbox') : outbox'[i].kind = "opened" =>
        i + l \in 1..Len(outbox) /\ outbox'[i] = outbox[i + l]
  BY DEF QuietOutbox
<1>3. TypeOK'
  BY DEF IInv, TypeOK, QuietInbox, QuietOutbox
<1>4. Len(inbox') \in Nat /\ Len(outbox') \in Nat
  BY <1>3 DEF TypeOK
<1>5. Addressed'
  BY DEF IInv, Addressed, QuietInbox, QuietOutbox
<1>6. OpenedOnce'
  <2>1. ASSUME NEW i \in 1..Len(inbox'), inbox'[i].kind = "init"
        PROVE  /\ handles[inbox'[i].handle].state = "opening"
               /\ \A j \in 1..Len(inbox') :
                    inbox'[j].kind = "init" /\ inbox'[j].handle = inbox'[i].handle => j = i
               /\ \A j \in 1..Len(outbox') :
                    outbox'[j].kind = "opened" => outbox'[j].handle # inbox'[i].handle
    <3>1. i + k \in 1..Len(inbox) /\ inbox'[i] = inbox[i + k]
      BY <1>1, <2>1
    <3>2. \A j \in 1..Len(inbox') : inbox'[j].kind = "init" =>
            j + k \in 1..Len(inbox) /\ inbox'[j] = inbox[j + k]
      BY <1>1
    <3>3. \A j \in 1..Len(inbox') :
            inbox'[j].kind = "init" /\ inbox'[j].handle = inbox'[i].handle => j + k = i + k
      BY <2>1, <3>1, <3>2 DEF IInv, OpenedOnce
    <3>4. \A j \in 1..Len(outbox') :
            outbox'[j].kind = "opened" => outbox'[j].handle # inbox'[i].handle
      <4>1. \A j \in 1..Len(outbox) :
              outbox[j].kind = "opened" => outbox[j].handle # inbox[i + k].handle
        BY <2>1, <3>1 DEF IInv, OpenedOnce
      <4>. QED
        BY <1>2, <3>1, <4>1
    <3>5. handles[inbox'[i].handle].state = "opening"
      BY <2>1, <3>1 DEF IInv, OpenedOnce
    <3>6. \A j \in 1..Len(inbox') :
            inbox'[j].kind = "init" /\ inbox'[j].handle = inbox'[i].handle => j = i
      <4>1. \A j \in 1..Len(inbox') : j + k = i + k => j = i
        BY <1>4
      <4>. QED
        BY <3>3, <4>1
    <3>. QED
      BY <3>4, <3>5, <3>6
  <2>2. ASSUME NEW i \in 1..Len(outbox'), outbox'[i].kind = "opened"
        PROVE  /\ handles[outbox'[i].handle].state = "opening"
               /\ outbox'[i].ok => native[outbox'[i].handle] = "alive"
               /\ \A j \in 1..Len(outbox') :
                    outbox'[j].kind = "opened" /\ outbox'[j].handle = outbox'[i].handle
                      => j = i
    <3>1. i + l \in 1..Len(outbox) /\ outbox'[i] = outbox[i + l]
      BY <1>2, <2>2
    <3>2. \A j \in 1..Len(outbox') :
            outbox'[j].kind = "opened" /\ outbox'[j].handle = outbox'[i].handle
              => j + l = i + l
      BY <1>2, <2>2, <3>1 DEF IInv, OpenedOnce
    <3>3. /\ handles[outbox'[i].handle].state = "opening"
          /\ outbox'[i].ok => native[outbox'[i].handle] = "alive"
      BY <2>2, <3>1 DEF IInv, OpenedOnce
    <3>. QED
      BY <1>4, <3>2, <3>3
  <2>. QED
    BY <2>1, <2>2 DEF OpenedOnce
<1>7. WaitsUntilOpen'
  BY <1>1 DEF IInv, WaitsUntilOpen
<1>8. DestroyIsLast'
  <2>1. ASSUME NEW i \in 1..Len(inbox'), inbox'[i].kind = "destroy"
        PROVE  /\ \A p \in 1..Len(current) : current[p] # inbox'[i].handle
               /\ \A j \in 1..Len(inbox') :
                    j > i /\ inbox'[j].kind \in ProxyKinds
                      => inbox'[j].handle # inbox'[i].handle
    <3>1. i + k \in 1..Len(inbox) /\ inbox'[i] = inbox[i + k]
      BY <1>1, <2>1 DEF ProxyKinds
    <3>2. \A j \in 1..Len(inbox') : j > i /\ inbox'[j].kind \in ProxyKinds =>
            j + k > i + k /\ j + k \in 1..Len(inbox) /\ inbox'[j] = inbox[j + k]
      BY <1>1, <1>4
    <3>. QED
      BY <2>1, <3>1, <3>2 DEF IInv, DestroyIsLast
  <2>. QED
    BY <2>1 DEF IInv, DestroyIsLast
<1>9. Found'
  BY <1>1 DEF IInv, Found
<1>. QED
  BY <1>3, <1>5, <1>6, <1>7, <1>8, <1>9 DEF IInv

\* What holds of the handle h of the last proxy: it is its own, and nobody has
\* closed it.
LEMMA CurrentHandle ==
  ASSUME IInv, NEW h, h = current[repository], repository # None, h # None
  PROVE  /\ repository \in 1..Len(current)
         /\ h \in 1..Len(handles)
         /\ \A p \in 1..Len(current) : current[p] = h => p = repository
         /\ native[h] # "destroyed"
         /\ \A i \in 1..Len(inbox) : inbox[i].kind = "destroy" => inbox[i].handle # h
         /\ \A i \in 1..Len(handles[h].waiting) : handles[h].waiting[i].kind # "destroy"
<1>1. repository \in 1..Len(current)
  BY DEF IInv, TypeOK, None
<1>2. h \in 1..Len(handles) /\ handles[h].proxy = repository
  BY <1>1 DEF IInv, Addressed
<1>3. \A p \in 1..Len(current) : current[p] = h => p = repository
  BY <1>2 DEF IInv, Addressed
<1>4. native[h] # "destroyed"
  BY <1>1 DEF IInv, DestroyIsLast
<1>5. \A i \in 1..Len(inbox) : inbox[i].kind = "destroy" => inbox[i].handle # h
  BY <1>1 DEF IInv, DestroyIsLast
<1>6. \A i \in 1..Len(handles[h].waiting) : handles[h].waiting[i].kind # "destroy"
  BY <1>1, <1>2 DEF IInv, DestroyIsLast
<1>. QED
  BY <1>1, <1>2, <1>3, <1>4, <1>5, <1>6

\* Handle h becomes x, and the others stay as they are.
Becomes(h, x) ==
  /\ handles' \in Seq(Handles)
  /\ Len(handles') = Len(handles)
  /\ handles'[h] = x
  /\ \A g \in 1..Len(handles) : g # h => handles'[g] = handles[g]

LEMMA HandleFields ==
  ASSUME TypeOK, NEW h \in 1..Len(handles)
  PROVE  /\ handles[h] \in Handles
         /\ handles[h].waiting \in Seq(Messages)
         /\ handles[h].proxy \in Nat
         /\ handles[h].state \in {"opening", "open", "failed"}
         /\ Len(handles[h].waiting) \in Nat
<1>1. handles[h] \in Handles
  BY DEF TypeOK
<1>2. /\ handles[h].waiting \in Seq(Messages)
      /\ handles[h].proxy \in Nat
      /\ handles[h].state \in {"opening", "open", "failed"}
  BY <1>1 DEF Handles
<1>. QED
  BY <1>1, <1>2

LEMMA HandleBecomes ==
  ASSUME TypeOK, NEW h \in 1..Len(handles), NEW x \in Handles,
         handles' = [handles EXCEPT ![h] = x]
  PROVE  Becomes(h, x)
  BY DEF TypeOK, Becomes

\* A call leaves the proxies their handles, a pause takes one away.
LeavesCurrent(h, kind) ==
  /\ current' \in Seq(Nat) /\ Len(current') = Len(current)
  /\ \A p \in 1..Len(current) : current'[p] \in {current[p], None}
  /\ kind = "destroy" => \A p \in 1..Len(current) : current'[p] # h

\* A message for a handle that is being opened waits.
LEMMA WaitStep ==
  ASSUME IInv, NEW h \in 1..Len(handles), NEW kind \in ProxyKinds, NEW n \in Nat,
         handles[h].state = "opening",
         handles' = [handles EXCEPT ![h].waiting = Append(@, Message(kind, h, n))],
         \A i \in 1..Len(handles[h].waiting) : handles[h].waiting[i].kind # "destroy",
         LeavesCurrent(h, kind),
         UNCHANGED <<repository, getting, native, inbox, outbox>>,
         status' \in Seq({"asked", "done", "failed"})
  PROVE  IInv'
<1>. DEFINE m == Message(kind, h, n)
<1>1. m \in Messages /\ m.kind = kind /\ m.handle = h
  BY DEF Message, Messages
<1>2. TypeOK /\ handles[h].waiting \in Seq(Messages)
  BY HandleFields DEF IInv
<1>. HIDE DEF m
<1>. DEFINE w == Append(handles[h].waiting, m)
            x == [handles[h] EXCEPT !.waiting = w]
<1>3. /\ w \in Seq(Messages)
      /\ Len(w) = Len(handles[h].waiting) + 1
      /\ \A i \in 1..Len(handles[h].waiting) : w[i] = handles[h].waiting[i]
      /\ w[Len(handles[h].waiting) + 1] = m
      /\ Len(handles[h].waiting) \in Nat
  BY <1>1, <1>2
<1>4. handles' = [handles EXCEPT ![h] = x]
  BY <1>2 DEF m, TypeOK
<1>. HIDE DEF w
<1>5. /\ x \in Handles /\ x.waiting = w
      /\ x.proxy = handles[h].proxy /\ x.state = handles[h].state
  BY <1>2, <1>3, HandleFields DEF Handles
<1>. HIDE DEF x
<1>6. /\ handles' \in Seq(Handles)
      /\ Len(handles') = Len(handles)
      /\ \A g \in 1..Len(handles) :
           /\ handles'[g].proxy = handles[g].proxy
           /\ handles'[g].state = handles[g].state
           /\ g # h => handles'[g].waiting = handles[g].waiting
      /\ handles'[h].waiting = w
  <2>1. Becomes(h, x)
    BY <1>2, <1>4, <1>5, HandleBecomes, Zenon
  <2>2. \A g \in 1..Len(handles) :
          /\ handles'[g].proxy = handles[g].proxy
          /\ handles'[g].state = handles[g].state
          /\ g # h => handles'[g].waiting = handles[g].waiting
    <3>. TAKE g \in 1..Len(handles)
    <3>1. CASE g = h
      BY <1>5, <2>1, <3>1 DEF Becomes
    <3>2. CASE g # h
      BY <2>1, <3>2 DEF Becomes
    <3>. QED
      BY <3>1, <3>2
  <2>. QED
    BY <1>5, <2>1, <2>2 DEF Becomes
<1>7. TypeOK'
  BY <1>6 DEF IInv, TypeOK, LeavesCurrent
<1>8. Addressed'
  <2>1. \A p \in 1..Len(current') : current'[p] # None =>
          current'[p] \in 1..Len(handles') /\ handles'[current'[p]].proxy = p
    BY <1>6 DEF IInv, Addressed, LeavesCurrent
  <2>2. \A g \in 1..Len(handles') : \A i \in 1..Len(handles'[g].waiting) :
          handles'[g].waiting[i].handle = g /\ handles'[g].waiting[i].kind \in ProxyKinds
    BY <1>1, <1>3, <1>6 DEF IInv, Addressed
  <2>. QED
    BY <1>6, <2>1, <2>2, SMTT(30) DEF IInv, Addressed
<1>9. OpenedOnce'
  BY <1>6, SMTT(30) DEF IInv, OpenedOnce, Addressed
<1>10. WaitsUntilOpen'
  BY <1>6 DEF IInv, WaitsUntilOpen
<1>11. DestroyIsLast'
  <2>1. \A g \in 1..Len(handles') : \A i \in 1..Len(handles'[g].waiting) :
          handles'[g].waiting[i].kind = "destroy" =>
            /\ \A p \in 1..Len(current') : current'[p] # g
            /\ i = Len(handles'[g].waiting)
    <3>. SUFFICES ASSUME NEW g \in 1..Len(handles), NEW i \in 1..Len(handles'[g].waiting),
                         handles'[g].waiting[i].kind = "destroy"
                  PROVE  /\ \A p \in 1..Len(current) : current'[p] # g
                         /\ i = Len(handles'[g].waiting)
      BY <1>6, SMTT(30) DEF LeavesCurrent
    <3>1. CASE g = h
      <4>1. i \notin 1..Len(handles[h].waiting)
        BY <1>3, <1>6, <3>1
      <4>2. i = Len(w) /\ kind = "destroy"
        BY <1>1, <1>3, <1>6, <3>1, <4>1
      <4>. QED
        BY <1>6, <3>1, <4>2 DEF LeavesCurrent
    <3>2. CASE g # h
      <4>1. /\ \A p \in 1..Len(current) : current[p] # g
            /\ i = Len(handles[g].waiting)
        BY <1>6, <3>2 DEF IInv, DestroyIsLast
      <4>. QED
        BY <1>6, <3>2, <4>1 DEF LeavesCurrent, None
    <3>. QED
      BY <3>1, <3>2
  <2>2. \A p \in 1..Len(current') : current'[p] # None => native[current'[p]] # "destroyed"
    BY DEF IInv, DestroyIsLast, LeavesCurrent
  <2>3. ASSUME NEW i \in 1..Len(inbox), inbox[i].kind = "destroy"
        PROVE  \A p \in 1..Len(current') : current'[p] # inbox[i].handle
    <3>1. inbox[i].handle # None /\ \A p \in 1..Len(current) : current[p] # inbox[i].handle
      BY <2>3 DEF IInv, DestroyIsLast, Addressed, None
    <3>. QED
      BY <3>1 DEF LeavesCurrent
  <2>. QED
    BY <2>1, <2>2, <2>3 DEF IInv, DestroyIsLast
<1>12. Found'
  BY DEF IInv, Found
<1>. QED
  BY <1>7, <1>8, <1>9, <1>10, <1>11, <1>12 DEF IInv

\* A message for a handle that is open is sent.
LEMMA SendStep ==
  ASSUME IInv, NEW h \in 1..Len(handles), NEW kind \in ProxyKinds, NEW n \in Nat,
         handles[h].state = "open", native[h] = "alive",
         \A i \in 1..Len(inbox) : inbox[i].kind = "destroy" => inbox[i].handle # h,
         inbox' = Append(inbox, Message(kind, h, n)),
         LeavesCurrent(h, kind),
         UNCHANGED <<repository, getting, handles, native, outbox>>,
         status' \in Seq({"asked", "done", "failed"})
  PROVE  IInv'
<1>. DEFINE m == Message(kind, h, n)
<1>1. m \in Messages /\ m.kind = kind /\ m.handle = h /\ m.kind \in ProxyKinds
  BY DEF Message, Messages
<1>. HIDE DEF m
<1>2. /\ inbox' \in Seq(Messages)
      /\ Len(inbox') = Len(inbox) + 1
      /\ \A i \in 1..Len(inbox) : inbox'[i] = inbox[i]
      /\ inbox'[Len(inbox) + 1] = m
      /\ Len(inbox) \in Nat
  BY <1>1 DEF IInv, TypeOK, m
<1>3. \A i \in 1..Len(inbox') : i \in 1..Len(inbox) \/ (i = Len(inbox) + 1 /\ inbox'[i] = m)
  BY <1>2
<1>4. TypeOK'
  BY <1>2 DEF IInv, TypeOK, LeavesCurrent
<1>5. Addressed'
  <2>1. \A p \in 1..Len(current') : current'[p] # None =>
          current'[p] \in 1..Len(handles') /\ handles'[current'[p]].proxy = p
    BY DEF IInv, Addressed, LeavesCurrent
  <2>2. \A i \in 1..Len(inbox') : inbox'[i].handle \in 1..Len(handles')
    BY <1>1, <1>2, <1>3 DEF IInv, Addressed
  <2>. QED
    BY <2>1, <2>2 DEF IInv, Addressed
<1>6. OpenedOnce'
  <2>1. \A i \in 1..Len(inbox') : inbox'[i].kind = "init" =>
          i \in 1..Len(inbox) /\ inbox'[i] = inbox[i]
    BY <1>1, <1>2, <1>3 DEF ProxyKinds, Kinds
  <2>. QED
    BY <2>1 DEF IInv, OpenedOnce
<1>7. WaitsUntilOpen'
  BY <1>1, <1>2, <1>3 DEF IInv, WaitsUntilOpen
<1>8. DestroyIsLast'
  <2>1. \A p \in 1..Len(current') : current'[p] # None => native[current'[p]] # "destroyed"
    BY DEF IInv, DestroyIsLast, LeavesCurrent
  <2>2. ASSUME NEW i \in 1..Len(inbox'), inbox'[i].kind = "destroy"
        PROVE  /\ \A p \in 1..Len(current') : current'[p] # inbox'[i].handle
               /\ \A j \in 1..Len(inbox') :
                    j > i /\ inbox'[j].kind \in ProxyKinds
                      => inbox'[j].handle # inbox'[i].handle
    <3>1. CASE i \in 1..Len(inbox)
      <4>1. /\ inbox'[i] = inbox[i] /\ inbox[i].handle # h /\ inbox[i].handle # None
            /\ inbox[i].kind = "destroy"
        BY <1>2, <2>2, <3>1 DEF IInv, Addressed, None
      <4>2. /\ \A p \in 1..Len(current) : current[p] # inbox[i].handle
            /\ \A j \in 1..Len(inbox) :
                 j > i /\ inbox[j].kind \in ProxyKinds => inbox[j].handle # inbox[i].handle
        BY <3>1, <4>1 DEF IInv, DestroyIsLast
      <4>3. \A p \in 1..Len(current') : current'[p] # inbox'[i].handle
        BY <4>1, <4>2 DEF LeavesCurrent
      <4>4. \A j \in 1..Len(inbox') :
              j > i /\ inbox'[j].kind \in ProxyKinds => inbox'[j].handle # inbox'[i].handle
        BY <1>1, <1>2, <1>3, <4>1, <4>2
      <4>. QED
        BY <4>3, <4>4
    <3>2. CASE i = Len(inbox) + 1
      <4>1. inbox'[i].handle = h /\ kind = "destroy"
        BY <1>1, <1>2, <2>2, <3>2
      <4>. QED
        BY <1>2, <3>2, <4>1 DEF LeavesCurrent
    <3>. QED
      BY <1>3, <3>1, <3>2
  <2>3. ASSUME NEW g \in 1..Len(handles), NEW i \in 1..Len(handles[g].waiting),
               handles[g].waiting[i].kind = "destroy"
        PROVE  /\ \A p \in 1..Len(current') : current'[p] # g
               /\ i = Len(handles[g].waiting)
    BY <2>3 DEF IInv, DestroyIsLast, LeavesCurrent, None
  <2>. QED
    BY <2>1, <2>2, <2>3, Zenon DEF DestroyIsLast
<1>9. Found'
  BY <1>1, <1>2, <1>3 DEF IInv, Found
<1>. QED
  BY <1>4, <1>5, <1>6, <1>7, <1>8, <1>9 DEF IInv

\* Proxy p opens its repository and sends a message to it.
LEMMA OpenStep ==
  ASSUME IInv, NEW p \in 1..Len(current'), NEW kind \in Kinds, NEW n \in Nat,
         Open(p, kind, n),
         current' \in Seq(Nat),
         current'[p] = Len(handles) + 1,
         \A q \in 1..Len(current') :
           q # p => q \in 1..Len(current) /\ current'[q] = current[q],
         repository' \in 0..Len(current'),
         getting' \in Seq([kind : Kinds, call : Nat]),
         UNCHANGED outbox,
         status' \in Seq({"asked", "done", "failed"})
  PROVE  IInv'
<1>. DEFINE new == Len(handles) + 1
            m == Message(kind, new, n)
            o == Message("init", new, n)
            x == [proxy |-> p, state |-> "opening", waiting |-> <<m>>]
<1>1. /\ Len(handles) \in Nat /\ Len(native) = Len(handles) /\ Len(inbox) \in Nat
      /\ Len(outbox) \in Nat /\ Len(current') \in Nat
  BY SMTT(30) DEF IInv, TypeOK
<1>2. /\ m \in Messages /\ m.kind \in Kinds /\ m.handle = new
      /\ o \in Messages /\ o.kind = "init" /\ o.handle = new
  BY <1>1 DEF Message, Messages, ProxyKinds
<1>3. handles' = Append(handles, x) /\ native' = Append(native, "unborn")
      /\ inbox' = Append(inbox, o)
  BY DEF Open
<1>. HIDE DEF m, o
<1>4. <<m>> \in Seq(Messages) /\ Len(<<m>>) = 1 /\ <<m>>[1] = m
  BY <1>2
<1>5. x \in Handles /\ x.proxy = p /\ x.state = "opening" /\ x.waiting = <<m>>
  BY <1>1, <1>4 DEF Handles
<1>. HIDE DEF x
<1>6. /\ handles' \in Seq(Handles)
      /\ Len(handles') = new
      /\ \A g \in 1..Len(handles) : handles'[g] = handles[g]
      /\ handles'[new] = x
  BY <1>1, <1>3, <1>5 DEF IInv, TypeOK
<1>7. /\ native' \in Seq({"unborn", "alive", "destroyed"})
      /\ Len(native') = new
      /\ \A g \in 1..Len(handles) : native'[g] = native[g]
      /\ native'[new] = "unborn"
  <2>1. native \in Seq({"unborn", "alive", "destroyed"})
    BY DEF IInv, TypeOK
  <2>2. native' = Append(native, "unborn") /\ Len(native) = Len(handles) /\ Len(handles) \in Nat
    BY <1>1, <1>3
  <2>. QED
    BY <2>1, <2>2
<1>8. /\ inbox' \in Seq(Messages)
      /\ Len(inbox') = Len(inbox) + 1
      /\ \A i \in 1..Len(inbox) : inbox'[i] = inbox[i]
      /\ inbox'[Len(inbox) + 1] = o
  BY <1>1, <1>2, <1>3 DEF IInv, TypeOK
<1>9. \A i \in 1..Len(inbox') : i \in 1..Len(inbox) \/ (i = Len(inbox) + 1 /\ inbox'[i] = o)
  BY <1>1, <1>8
<1>10. \A g \in 1..Len(handles') : g \in 1..Len(handles) \/ g = new
  BY <1>1, <1>6
<1>11. new \in 1..Len(handles') /\ \A g \in 1..Len(handles) : g \in 1..Len(handles') /\ g # new
  BY <1>1, <1>6
<1>12. \A i \in 1..Len(inbox) : inbox[i].handle \in 1..Len(handles)
  BY DEF IInv, Addressed
<1>13. \A i \in 1..Len(outbox) : outbox[i].handle \in 1..Len(handles)
  BY DEF IInv, Addressed
<1>14. \A g \in 1..Len(handles') : \A i \in 1..Len(handles'[g].waiting) :
         \/ g \in 1..Len(handles) /\ i \in 1..Len(handles[g].waiting)
            /\ handles'[g] = handles[g]
         \/ g = new /\ i = 1 /\ handles'[g].waiting[i] = m
  <2>. TAKE g \in 1..Len(handles')
  <2>1. CASE g \in 1..Len(handles)
    BY <1>6, <2>1
  <2>2. CASE g = new
    <3>1. handles'[g].waiting = <<m>>
      BY <1>5, <1>6, <2>2
    <3>. QED
      BY <1>4, <2>2, <3>1
  <2>. QED
    BY <1>10, <2>1, <2>2
<1>15. \A q \in 1..Len(current') : q # p => q \in 1..Len(current) /\ current'[q] = current[q]
  OBVIOUS
<1>16. UNCHANGED outbox
  OBVIOUS
<1>. HIDE DEF new
<1>17. TypeOK'
  BY <1>6, <1>7, <1>8, <1>16 DEF IInv, TypeOK
<1>18. Addressed'
  <2>1. ASSUME NEW q \in 1..Len(current'), current'[q] # None
        PROVE  current'[q] \in 1..Len(handles') /\ handles'[current'[q]].proxy = q
    <3>1. CASE q = p
      <4>1. current'[q] = new
        BY <3>1 DEF new
      <4>. QED
        BY <1>5, <1>6, <1>11, <3>1, <4>1
    <3>2. CASE q # p
      <4>1. current'[q] = current[q] /\ q \in 1..Len(current)
        BY <1>15, <3>2
      <4>2. current[q] \in 1..Len(handles) /\ handles[current[q]].proxy = q
        BY <2>1, <4>1 DEF IInv, Addressed
      <4>. QED
        BY <1>6, <1>11, <4>1, <4>2
    <3>. QED
      BY <3>1, <3>2
  <2>2. \A i \in 1..Len(inbox') : inbox'[i].handle \in 1..Len(handles')
    BY <1>2, <1>8, <1>9, <1>11, <1>12
  <2>3. \A i \in 1..Len(outbox') : outbox'[i].handle \in 1..Len(handles')
    BY <1>11, <1>13, <1>16
  <2>4. ASSUME NEW g \in 1..Len(handles'), NEW i \in 1..Len(handles'[g].waiting)
        PROVE  handles'[g].waiting[i].handle = g /\ handles'[g].waiting[i].kind \in ProxyKinds
    <3>1. CASE g = new /\ i = 1 /\ handles'[g].waiting[i] = m
      BY <1>2, <3>1 DEF ProxyKinds
    <3>2. CASE g \in 1..Len(handles) /\ i \in 1..Len(handles[g].waiting)
               /\ handles'[g] = handles[g]
      BY <3>2 DEF IInv, Addressed
    <3>. QED
      BY <1>14, <3>1, <3>2
  <2>. QED
    BY <2>1, <2>2, <2>3, <2>4 DEF Addressed
<1>19. OpenedOnce'
  <2>1. ASSUME NEW i \in 1..Len(inbox'), inbox'[i].kind = "init"
        PROVE  /\ handles'[inbox'[i].handle].state = "opening"
               /\ \A j \in 1..Len(inbox') :
                    inbox'[j].kind = "init" /\ inbox'[j].handle = inbox'[i].handle => j = i
               /\ \A j \in 1..Len(outbox') :
                    outbox'[j].kind = "opened" => outbox'[j].handle # inbox'[i].handle
    <3>1. CASE i \in 1..Len(inbox)
      <4>1. inbox'[i] = inbox[i] /\ inbox[i].handle # new /\ inbox[i].kind = "init"
            /\ handles'[inbox[i].handle] = handles[inbox[i].handle]
        BY <1>6, <1>8, <1>11, <1>12, <2>1, <3>1
      <4>2. \A j \in 1..Len(inbox') : inbox'[j].handle = inbox'[i].handle =>
              j \in 1..Len(inbox) /\ inbox'[j] = inbox[j]
        BY <1>2, <1>8, <1>9, <4>1
      <4>3. /\ handles[inbox[i].handle].state = "opening"
            /\ \A j \in 1..Len(inbox) :
                 inbox[j].kind = "init" /\ inbox[j].handle = inbox[i].handle => j = i
            /\ \A j \in 1..Len(outbox) :
                 outbox[j].kind = "opened" => outbox[j].handle # inbox[i].handle
        BY <3>1, <4>1 DEF IInv, OpenedOnce
      <4>4. \A j \in 1..Len(inbox') :
              inbox'[j].kind = "init" /\ inbox'[j].handle = inbox'[i].handle => j = i
        BY <4>1, <4>2, <4>3
      <4>5. \A j \in 1..Len(outbox') :
              outbox'[j].kind = "opened" => outbox'[j].handle # inbox'[i].handle
        BY <1>16, <4>1, <4>3
      <4>. QED
        BY <4>1, <4>3, <4>4, <4>5
    <3>2. CASE i = Len(inbox) + 1
      <4>1. inbox'[i].handle = new
        BY <1>2, <1>8, <3>2
      <4>2. \A j \in 1..Len(inbox') : inbox'[j].handle = new => j = i
        BY <1>8, <1>9, <1>11, <1>12, <3>2
      <4>3. \A j \in 1..Len(outbox') : outbox'[j].handle # new
        BY <1>11, <1>13, <1>16
      <4>. QED
        BY <1>5, <1>6, <4>1, <4>2, <4>3
    <3>. QED
      BY <1>9, <3>1, <3>2
  <2>2. ASSUME NEW i \in 1..Len(outbox'), outbox'[i].kind = "opened"
        PROVE  /\ handles'[outbox'[i].handle].state = "opening"
               /\ outbox'[i].ok => native'[outbox'[i].handle] = "alive"
               /\ \A j \in 1..Len(outbox') :
                    outbox'[j].kind = "opened" /\ outbox'[j].handle = outbox'[i].handle
                      => j = i
    <3>1. /\ i \in 1..Len(outbox) /\ outbox'[i] = outbox[i] /\ outbox[i].kind = "opened"
          /\ outbox[i].handle \in 1..Len(handles)
      BY <1>13, <1>16, <2>2
    <3>2. /\ handles[outbox[i].handle].state = "opening"
          /\ outbox[i].ok => native[outbox[i].handle] = "alive"
          /\ \A j \in 1..Len(outbox) :
               outbox[j].kind = "opened" /\ outbox[j].handle = outbox[i].handle => j = i
      BY <3>1 DEF IInv, OpenedOnce
    <3>3. /\ handles'[outbox[i].handle] = handles[outbox[i].handle]
          /\ native'[outbox[i].handle] = native[outbox[i].handle]
      BY <1>6, <1>7, <3>1
    <3>. QED
      BY <1>16, <3>1, <3>2, <3>3
  <2>. QED
    BY <2>1, <2>2 DEF OpenedOnce
<1>20. WaitsUntilOpen'
  <2>. SUFFICES ASSUME NEW g \in 1..Len(handles')
                PROVE  /\ handles'[g].state = "opening" =>
                            /\ native'[g] # "destroyed"
                            /\ \A i \in 1..Len(inbox') :
                                 inbox'[i].kind \in ProxyKinds => inbox'[i].handle # g
                       /\ handles'[g].state # "opening" => handles'[g].waiting = << >>
                       /\ handles'[g].state = "open" => native'[g] # "unborn"
    BY DEF WaitsUntilOpen
  <2>1. \A i \in 1..Len(inbox') : inbox'[i].kind \in ProxyKinds =>
          i \in 1..Len(inbox) /\ inbox'[i] = inbox[i] /\ inbox'[i].handle # new
    BY <1>2, <1>8, <1>9, <1>11, <1>12 DEF ProxyKinds, Kinds
  <2>2. CASE g \in 1..Len(handles)
    <3>1. handles'[g] = handles[g] /\ native'[g] = native[g]
      BY <1>6, <1>7, <2>2
    <3>2. /\ handles[g].state = "opening" =>
               /\ native[g] # "destroyed"
               /\ \A i \in 1..Len(inbox) :
                    inbox[i].kind \in ProxyKinds => inbox[i].handle # g
          /\ handles[g].state # "opening" => handles[g].waiting = << >>
          /\ handles[g].state = "open" => native[g] # "unborn"
      BY <2>2 DEF IInv, WaitsUntilOpen
    <3>. QED
      BY <2>1, <3>1, <3>2
  <2>3. CASE g = new
    BY <1>5, <1>6, <1>7, <2>1, <2>3
  <2>. QED
    BY <1>10, <2>2, <2>3
<1>21. DestroyIsLast'
  <2>1. ASSUME NEW q \in 1..Len(current'), current'[q] # None
        PROVE  native'[current'[q]] # "destroyed"
    <3>1. CASE q = p
      <4>1. current'[q] = new
        BY <3>1 DEF new
      <4>. QED
        BY <1>7, <4>1
    <3>2. CASE q # p
      <4>1. current'[q] = current[q] /\ q \in 1..Len(current)
            /\ current[q] \in 1..Len(handles) /\ native[current[q]] # "destroyed"
        BY <1>15, <2>1, <3>2 DEF IInv, Addressed, DestroyIsLast
      <4>. QED
        BY <1>7, <4>1
    <3>. QED
      BY <3>1, <3>2
  <2>2. \A g \in 1..Len(handles) :
          (\A q \in 1..Len(current) : current[q] # g) => \A q \in 1..Len(current') : current'[q] # g
    <3>. SUFFICES ASSUME NEW g \in 1..Len(handles), \A q \in 1..Len(current) : current[q] # g,
                         NEW q \in 1..Len(current')
                  PROVE  current'[q] # g
      OBVIOUS
    <3>1. g # Len(handles) + 1
      BY <1>1
    <3>. QED
      BY <1>15, <3>1
  <2>3. ASSUME NEW i \in 1..Len(inbox'), inbox'[i].kind = "destroy"
        PROVE  /\ \A q \in 1..Len(current') : current'[q] # inbox'[i].handle
               /\ \A j \in 1..Len(inbox') :
                    j > i /\ inbox'[j].kind \in ProxyKinds
                      => inbox'[j].handle # inbox'[i].handle
    <3>1. i \in 1..Len(inbox) /\ inbox'[i] = inbox[i] /\ inbox[i].kind = "destroy"
      BY <1>2, <1>8, <1>9, <2>3
    <3>2. /\ \A q \in 1..Len(current) : current[q] # inbox[i].handle
          /\ \A j \in 1..Len(inbox) :
               j > i /\ inbox[j].kind \in ProxyKinds => inbox[j].handle # inbox[i].handle
      BY <3>1 DEF IInv, DestroyIsLast
    <3>3. \A q \in 1..Len(current') : current'[q] # inbox'[i].handle
      BY <1>12, <2>2, <3>1, <3>2
    <3>4. \A j \in 1..Len(inbox') :
            j > i /\ inbox'[j].kind \in ProxyKinds => inbox'[j].handle # inbox'[i].handle
      BY <1>2, <1>8, <1>9, <1>11, <1>12, <3>1, <3>2
    <3>. QED
      BY <3>3, <3>4
  <2>4. ASSUME NEW g \in 1..Len(handles'), NEW i \in 1..Len(handles'[g].waiting),
               handles'[g].waiting[i].kind = "destroy"
        PROVE  /\ \A q \in 1..Len(current') : current'[q] # g
               /\ i = Len(handles'[g].waiting)
    <3>1. /\ g \in 1..Len(handles) /\ i \in 1..Len(handles[g].waiting)
          /\ handles'[g] = handles[g]
      BY <1>2, <1>14, <2>4 DEF Kinds
    <3>2. /\ \A q \in 1..Len(current) : current[q] # g
          /\ i = Len(handles[g].waiting)
      BY <2>4, <3>1 DEF IInv, DestroyIsLast
    <3>. QED
      BY <2>2, <3>1, <3>2
  <2>. QED
    BY <2>1, <2>3, <2>4 DEF DestroyIsLast
<1>22. Found'
  BY <1>2, <1>7, <1>8, <1>9, <1>12 DEF IInv, Found, ProxyKinds, Kinds
<1>. QED
  BY <1>17, <1>18, <1>19, <1>20, <1>21, <1>22 DEF IInv

\* The message that the isolate takes, and the ones that are left.
LEMMA TakeMessage ==
  ASSUME TypeOK, NEW kind, Take(kind)
  PROVE  /\ 1 \in 1..Len(inbox) /\ inbox[1] = Head(inbox) /\ inbox[1] \in Messages
         /\ inbox[1].kind = kind /\ inbox[1].handle \in Nat /\ inbox[1].call \in Nat
         /\ inbox' \in Seq(Messages)
         /\ Len(inbox') = Len(inbox) - 1
         /\ \A i \in 1..Len(inbox') : i + 1 \in 1..Len(inbox) /\ inbox'[i] = inbox[i + 1]
<1>1. inbox \in Seq(Messages) /\ inbox # << >> /\ inbox' = Tail(inbox) /\ Head(inbox).kind = kind
  BY DEF TypeOK, Take
<1>2. inbox[1] \in Messages /\ 1 \in 1..Len(inbox) /\ inbox[1] = Head(inbox)
  BY <1>1
<1>3. inbox[1].handle \in Nat /\ inbox[1].call \in Nat
  BY <1>2 DEF Messages
<1>. QED
  BY <1>1, <1>2, <1>3

\* The isolate opens the repository of handle h, or not.
LEMMA OpenedStep ==
  ASSUME IInv, Take("init"), NEW h, h = Head(inbox).handle, NEW ok \in BOOLEAN,
         Answer("opened", ok),
         native' = [native EXCEPT ![h] = IF ok THEN "alive" ELSE @],
         UNCHANGED <<repository, getting, current, handles, status>>
  PROVE  IInv'
<1>1. TypeOK
  BY DEF IInv
<1>2. /\ 1 \in 1..Len(inbox) /\ inbox[1] = Head(inbox)
      /\ inbox[1].kind = "init" /\ inbox[1].call \in Nat
      /\ inbox' \in Seq(Messages)
      /\ Len(inbox') = Len(inbox) - 1
      /\ \A i \in 1..Len(inbox') : i + 1 \in 1..Len(inbox) /\ inbox'[i] = inbox[i + 1]
  BY <1>1, TakeMessage
<1>3. inbox[1].handle = h /\ h \in 1..Len(handles) /\ h \in Nat /\ Len(inbox) \in Nat
  BY <1>1, <1>2 DEF IInv, Addressed, TypeOK
<1>4. /\ handles[h].state = "opening"
      /\ \A j \in 1..Len(inbox) : inbox[j].kind = "init" /\ inbox[j].handle = h => j = 1
      /\ \A j \in 1..Len(outbox) : outbox[j].kind = "opened" => outbox[j].handle # h
  BY <1>2, <1>3 DEF IInv, OpenedOnce
<1>. DEFINE a == [kind |-> "opened", handle |-> h, call |-> inbox[1].call, ok |-> ok]
<1>5. a \in Answers /\ a.kind = "opened" /\ a.handle = h /\ a.ok = ok
  BY <1>2, <1>3 DEF Answers
<1>6. outbox' = Append(outbox, a)
  BY <1>2, <1>3 DEF Answer
<1>. HIDE DEF a
<1>7. /\ outbox' \in Seq(Answers)
      /\ Len(outbox') = Len(outbox) + 1
      /\ \A i \in 1..Len(outbox) : outbox'[i] = outbox[i]
      /\ outbox'[Len(outbox) + 1] = a
      /\ Len(outbox) \in Nat
  BY <1>1, <1>5, <1>6 DEF TypeOK
<1>8. \A i \in 1..Len(outbox') : i \in 1..Len(outbox) \/ (i = Len(outbox) + 1 /\ outbox'[i] = a)
  BY <1>7
<1>9. /\ native' \in Seq({"unborn", "alive", "destroyed"})
      /\ Len(native') = Len(handles)
      /\ \A g \in 1..Len(handles) : native'[g] = native[g] \/ native'[g] = "alive"
      /\ ok => native'[h] = "alive"
  BY <1>1, <1>3 DEF TypeOK
<1>10. TypeOK'
  BY <1>1, <1>2, <1>7, <1>9 DEF TypeOK
<1>11. Addressed'
  <2>1. \A i \in 1..Len(inbox') : inbox'[i].handle \in 1..Len(handles)
    BY <1>2 DEF IInv, Addressed
  <2>2. \A i \in 1..Len(outbox') : outbox'[i].handle \in 1..Len(handles)
    BY <1>3, <1>5, <1>7, <1>8 DEF IInv, Addressed
  <2>. QED
    BY <2>1, <2>2 DEF IInv, Addressed
<1>12. OpenedOnce'
  <2>1. ASSUME NEW i \in 1..Len(inbox'), inbox'[i].kind = "init"
        PROVE  /\ handles[inbox'[i].handle].state = "opening"
               /\ \A j \in 1..Len(inbox') :
                    inbox'[j].kind = "init" /\ inbox'[j].handle = inbox'[i].handle => j = i
               /\ \A j \in 1..Len(outbox') :
                    outbox'[j].kind = "opened" => outbox'[j].handle # inbox'[i].handle
    <3>1. /\ i + 1 \in 1..Len(inbox) /\ inbox'[i] = inbox[i + 1] /\ i \in Nat /\ i + 1 # 1
          /\ inbox[i + 1].kind = "init"
      BY <1>2, <1>3, <2>1
    <3>2. /\ handles[inbox[i + 1].handle].state = "opening"
          /\ \A j \in 1..Len(inbox) :
               inbox[j].kind = "init" /\ inbox[j].handle = inbox[i + 1].handle => j = i + 1
          /\ \A j \in 1..Len(outbox) :
               outbox[j].kind = "opened" => outbox[j].handle # inbox[i + 1].handle
      BY <3>1 DEF IInv, OpenedOnce
    <3>3. inbox[i + 1].handle # h
      BY <1>4, <3>1
    <3>4. \A j \in 1..Len(inbox') :
            inbox'[j].kind = "init" /\ inbox'[j].handle = inbox'[i].handle => j = i
      <4>1. \A j \in 1..Len(inbox') :
              inbox'[j].kind = "init" /\ inbox'[j].handle = inbox'[i].handle => j + 1 = i + 1
        BY <1>2, <3>1, <3>2
      <4>. QED
        BY <4>1
    <3>5. \A j \in 1..Len(outbox') :
            outbox'[j].kind = "opened" => outbox'[j].handle # inbox'[i].handle
      BY <1>5, <1>7, <1>8, <3>1, <3>2, <3>3
    <3>. QED
      BY <3>1, <3>2, <3>4, <3>5
  <2>2. ASSUME NEW i \in 1..Len(outbox'), outbox'[i].kind = "opened"
        PROVE  /\ handles[outbox'[i].handle].state = "opening"
               /\ outbox'[i].ok => native'[outbox'[i].handle] = "alive"
               /\ \A j \in 1..Len(outbox') :
                    outbox'[j].kind = "opened" /\ outbox'[j].handle = outbox'[i].handle
                      => j = i
    <3>1. CASE i \in 1..Len(outbox)
      <4>1. outbox'[i] = outbox[i] /\ outbox[i].kind = "opened" /\ outbox[i].handle # h
        BY <1>4, <1>7, <2>2, <3>1
      <4>2. /\ handles[outbox[i].handle].state = "opening"
            /\ outbox[i].ok => native[outbox[i].handle] = "alive"
            /\ \A j \in 1..Len(outbox) :
                 outbox[j].kind = "opened" /\ outbox[j].handle = outbox[i].handle => j = i
            /\ outbox[i].handle \in 1..Len(handles)
        BY <3>1, <4>1 DEF IInv, OpenedOnce, Addressed
      <4>3. \A j \in 1..Len(outbox') :
              outbox'[j].kind = "opened" /\ outbox'[j].handle = outbox'[i].handle => j = i
        BY <1>5, <1>7, <1>8, <4>1, <4>2
      <4>4. outbox'[i].ok => native'[outbox'[i].handle] = "alive"
        BY <1>9, <4>1, <4>2
      <4>. QED
        BY <4>1, <4>2, <4>3, <4>4
    <3>2. CASE i = Len(outbox) + 1
      <4>1. outbox'[i] = a
        BY <1>7, <3>2
      <4>2. \A j \in 1..Len(outbox') :
              outbox'[j].kind = "opened" /\ outbox'[j].handle = h => j = i
        BY <1>4, <1>7, <1>8, <3>2
      <4>. QED
        BY <1>4, <1>5, <1>9, <4>1, <4>2
    <3>. QED
      BY <1>8, <3>1, <3>2
  <2>. QED
    BY <2>1, <2>2 DEF OpenedOnce
<1>13. WaitsUntilOpen'
  <2>. SUFFICES ASSUME NEW g \in 1..Len(handles)
                PROVE  /\ handles[g].state = "opening" =>
                            /\ native'[g] # "destroyed"
                            /\ \A i \in 1..Len(inbox') :
                                 inbox'[i].kind \in ProxyKinds => inbox'[i].handle # g
                       /\ handles[g].state # "opening" => handles[g].waiting = << >>
                       /\ handles[g].state = "open" => native'[g] # "unborn"
    BY DEF WaitsUntilOpen
  <2>1. /\ handles[g].state = "opening" =>
             /\ native[g] # "destroyed"
             /\ \A i \in 1..Len(inbox) :
                  inbox[i].kind \in ProxyKinds => inbox[i].handle # g
        /\ handles[g].state # "opening" => handles[g].waiting = << >>
        /\ handles[g].state = "open" => native[g] # "unborn"
    BY DEF IInv, WaitsUntilOpen
  <2>. QED
    BY <1>2, <1>9, <2>1
<1>14. DestroyIsLast'
  <2>1. \A p \in 1..Len(current) : current[p] # None => native'[current[p]] # "destroyed"
    BY <1>9 DEF IInv, DestroyIsLast, Addressed
  <2>2. ASSUME NEW i \in 1..Len(inbox'), inbox'[i].kind = "destroy"
        PROVE  /\ \A p \in 1..Len(current) : current[p] # inbox'[i].handle
               /\ \A j \in 1..Len(inbox') :
                    j > i /\ inbox'[j].kind \in ProxyKinds
                      => inbox'[j].handle # inbox'[i].handle
    <3>1. i + 1 \in 1..Len(inbox) /\ inbox'[i] = inbox[i + 1]
      BY <1>2
    <3>2. \A j \in 1..Len(inbox') : j > i /\ inbox'[j].kind \in ProxyKinds =>
            j + 1 > i + 1 /\ j + 1 \in 1..Len(inbox) /\ inbox'[j] = inbox[j + 1]
      BY <1>2, <1>3
    <3>. QED
      BY <2>2, <3>1, <3>2 DEF IInv, DestroyIsLast
  <2>. QED
    BY <2>1, <2>2 DEF IInv, DestroyIsLast
<1>15. Found'
  <2>. SUFFICES ASSUME NEW i \in 1..Len(inbox'), inbox'[i].kind \in ProxyKinds
                PROVE  native'[inbox'[i].handle] = "alive"
    BY DEF Found
  <2>1. i + 1 \in 1..Len(inbox) /\ inbox'[i] = inbox[i + 1]
    BY <1>2
  <2>2. inbox[i + 1].handle \in 1..Len(handles) /\ native[inbox[i + 1].handle] = "alive"
    BY <2>1 DEF IInv, Found, Addressed
  <2>. QED
    BY <1>9, <2>1, <2>2
<1>. QED
  BY <1>10, <1>11, <1>12, <1>13, <1>14, <1>15 DEF IInv

\* The isolate closes a repository.
LEMMA DestroyStep ==
  ASSUME IInv, Destroy
  PROVE  IInv'
<1>. DEFINE h == inbox[1].handle
<1>1. TypeOK /\ Take("destroy")
  BY DEF IInv, Destroy
<1>2. /\ 1 \in 1..Len(inbox) /\ inbox[1] = Head(inbox)
      /\ inbox[1].kind = "destroy"
      /\ inbox' \in Seq(Messages)
      /\ Len(inbox') = Len(inbox) - 1
      /\ \A i \in 1..Len(inbox') : i + 1 \in 1..Len(inbox) /\ inbox'[i] = inbox[i + 1]
  BY <1>1, TakeMessage
<1>3. h \in 1..Len(handles) /\ Len(inbox) \in Nat
  BY <1>1, <1>2 DEF IInv, Addressed, TypeOK
<1>4. /\ \A p \in 1..Len(current) : current[p] # h
      /\ \A j \in 1..Len(inbox) : j > 1 /\ inbox[j].kind \in ProxyKinds => inbox[j].handle # h
  BY <1>2 DEF IInv, DestroyIsLast
<1>5. handles[h].state # "opening"
  BY <1>2, <1>3 DEF IInv, WaitsUntilOpen, ProxyKinds
<1>6. /\ native' = [native EXCEPT ![h] = "destroyed"]
      /\ UNCHANGED <<repository, getting, current, handles, outbox, status>>
  BY <1>2 DEF Destroy, AppUnchanged
<1>. HIDE DEF h
<1>7. /\ native' \in Seq({"unborn", "alive", "destroyed"})
      /\ Len(native') = Len(handles)
      /\ \A g \in 1..Len(handles) : g # h => native'[g] = native[g]
      /\ native'[h] = "destroyed"
  BY <1>1, <1>3, <1>6 DEF TypeOK
<1>8. TypeOK'
  BY <1>1, <1>2, <1>6, <1>7 DEF TypeOK
<1>9. Addressed'
  BY <1>2, <1>6 DEF IInv, Addressed
<1>10. OpenedOnce'
  <2>1. ASSUME NEW i \in 1..Len(inbox'), inbox'[i].kind = "init"
        PROVE  /\ handles[inbox'[i].handle].state = "opening"
               /\ \A j \in 1..Len(inbox') :
                    inbox'[j].kind = "init" /\ inbox'[j].handle = inbox'[i].handle => j = i
               /\ \A j \in 1..Len(outbox) :
                    outbox[j].kind = "opened" => outbox[j].handle # inbox'[i].handle
    <3>1. i + 1 \in 1..Len(inbox) /\ inbox'[i] = inbox[i + 1]
      BY <1>2
    <3>2. \A j \in 1..Len(inbox') :
            inbox'[j].kind = "init" /\ inbox'[j].handle = inbox'[i].handle => j + 1 = i + 1
      BY <1>2, <2>1, <3>1 DEF IInv, OpenedOnce
    <3>3. \A j \in 1..Len(inbox') :
            inbox'[j].kind = "init" /\ inbox'[j].handle = inbox'[i].handle => j = i
      <4>1. \A j \in 1..Len(inbox') : j + 1 = i + 1 => j = i
        OBVIOUS
      <4>. QED
        BY <3>2, <4>1
    <3>4. /\ handles[inbox'[i].handle].state = "opening"
          /\ \A j \in 1..Len(outbox) :
               outbox[j].kind = "opened" => outbox[j].handle # inbox'[i].handle
      BY <2>1, <3>1 DEF IInv, OpenedOnce
    <3>. QED
      BY <3>3, <3>4, Zenon
  <2>2. \A i \in 1..Len(outbox) : outbox[i].kind = "opened" /\ outbox[i].ok =>
          native'[outbox[i].handle] = "alive"
    <3>. SUFFICES ASSUME NEW i \in 1..Len(outbox), outbox[i].kind = "opened", outbox[i].ok
                  PROVE  native'[outbox[i].handle] = "alive"
      OBVIOUS
    <3>1. outbox[i].handle \in 1..Len(handles) /\ native[outbox[i].handle] = "alive"
      BY DEF IInv, OpenedOnce, Addressed
    <3>2. \A j \in 1..Len(outbox) : outbox[j].kind = "opened" => outbox[j].handle # h
      BY <1>5, <1>7 DEF IInv, OpenedOnce
    <3>. QED
      BY <1>5, <1>7, <3>1, <3>2
  <2>. QED
    BY <1>6, <2>1, <2>2 DEF IInv, OpenedOnce
<1>11. WaitsUntilOpen'
  <2>. SUFFICES ASSUME NEW g \in 1..Len(handles)
                PROVE  /\ handles[g].state = "opening" =>
                            /\ native'[g] # "destroyed"
                            /\ \A i \in 1..Len(inbox') :
                                 inbox'[i].kind \in ProxyKinds => inbox'[i].handle # g
                       /\ handles[g].state # "opening" => handles[g].waiting = << >>
                       /\ handles[g].state = "open" => native'[g] # "unborn"
    BY <1>6 DEF WaitsUntilOpen
  <2>1. /\ handles[g].state = "opening" =>
             /\ native[g] # "destroyed"
             /\ \A i \in 1..Len(inbox) :
                  inbox[i].kind \in ProxyKinds => inbox[i].handle # g
        /\ handles[g].state # "opening" => handles[g].waiting = << >>
        /\ handles[g].state = "open" => native[g] # "unborn"
    BY DEF IInv, WaitsUntilOpen
  <2>2. native'[g] = native[g] \/ (g = h /\ native'[g] = "destroyed")
    BY <1>7
  <2>. QED
    BY <1>2, <1>5, <2>1, <2>2
<1>12. DestroyIsLast'
  <2>1. \A p \in 1..Len(current) : current[p] # None => native'[current[p]] # "destroyed"
    BY <1>4, <1>7 DEF IInv, DestroyIsLast, Addressed
  <2>2. ASSUME NEW i \in 1..Len(inbox'), inbox'[i].kind = "destroy"
        PROVE  /\ \A p \in 1..Len(current) : current[p] # inbox'[i].handle
               /\ \A j \in 1..Len(inbox') :
                    j > i /\ inbox'[j].kind \in ProxyKinds
                      => inbox'[j].handle # inbox'[i].handle
    <3>1. i + 1 \in 1..Len(inbox) /\ inbox'[i] = inbox[i + 1]
      BY <1>2
    <3>2. \A j \in 1..Len(inbox') : j > i /\ inbox'[j].kind \in ProxyKinds =>
            j + 1 > i + 1 /\ j + 1 \in 1..Len(inbox) /\ inbox'[j] = inbox[j + 1]
      BY <1>2, <1>3
    <3>. QED
      BY <2>2, <3>1, <3>2 DEF IInv, DestroyIsLast
  <2>. QED
    BY <1>6, <2>1, <2>2 DEF IInv, DestroyIsLast
<1>13. Found'
  <2>. SUFFICES ASSUME NEW i \in 1..Len(inbox'), inbox'[i].kind \in ProxyKinds
                PROVE  native'[inbox'[i].handle] = "alive"
    BY DEF Found
  <2>1. i + 1 \in 1..Len(inbox) /\ inbox'[i] = inbox[i + 1] /\ i + 1 > 1
    BY <1>2, <1>3
  <2>2. inbox[i + 1].handle # h /\ inbox[i + 1].handle \in 1..Len(handles)
        /\ native[inbox[i + 1].handle] = "alive"
    BY <1>4, <2>1 DEF IInv, Found, Addressed
  <2>. QED
    BY <1>7, <2>1, <2>2
<1>. QED
  BY <1>8, <1>9, <1>10, <1>11, <1>12, <1>13 DEF IInv

\* The answer that the app takes, and the ones that are left.
LEMMA ReceiveAnswer ==
  ASSUME TypeOK, NEW kind, Receive(kind)
  PROVE  /\ 1 \in 1..Len(outbox) /\ outbox[1] = Head(outbox) /\ outbox[1] \in Answers
         /\ outbox[1].kind = kind /\ outbox[1].handle \in Nat /\ outbox[1].call \in Nat
         /\ outbox[1].ok \in BOOLEAN
         /\ outbox' \in Seq(Answers)
         /\ Len(outbox') = Len(outbox) - 1
         /\ \A i \in 1..Len(outbox') : i + 1 \in 1..Len(outbox) /\ outbox'[i] = outbox[i + 1]
<1>1. outbox \in Seq(Answers) /\ outbox # << >> /\ outbox' = Tail(outbox)
      /\ Head(outbox).kind = kind
  BY DEF TypeOK, Receive
<1>2. outbox[1] \in Answers /\ 1 \in 1..Len(outbox) /\ outbox[1] = Head(outbox)
  BY <1>1
<1>3. outbox[1].handle \in Nat /\ outbox[1].call \in Nat /\ outbox[1].ok \in BOOLEAN
  BY <1>2 DEF Answers
<1>. QED
  BY <1>1, <1>2, <1>3

\* The elements of two sequences, joined.
JoinedFrom(S, c, a, b) ==
  /\ c \in Seq(S)
  /\ Len(c) = Len(a) + Len(b)
  /\ \A i \in 1..Len(a) : c[i] = a[i]
  /\ \A i \in 1..Len(c) : i \notin 1..Len(a) =>
       i - Len(a) \in 1..Len(b) /\ c[i] = b[i - Len(a)]

LEMMA Joined ==
  ASSUME NEW S, NEW a \in Seq(S), NEW b \in Seq(S)
  PROVE  JoinedFrom(S, a \o b, a, b)
<1>1. Len(a) \in Nat /\ Len(b) \in Nat
  OBVIOUS
<1>2. /\ a \o b \in Seq(S)
      /\ Len(a \o b) = Len(a) + Len(b)
      /\ \A i \in 1..Len(a) + Len(b) :
           (a \o b)[i] = IF i <= Len(a) THEN a[i] ELSE b[i - Len(a)]
  OBVIOUS
<1>3. \A i \in 1..Len(a) + Len(b) : i \notin 1..Len(a) => i - Len(a) \in 1..Len(b) /\ ~(i <= Len(a))
  BY <1>1
<1>. QED
  BY <1>1, <1>2, <1>3 DEF JoinedFrom

\* Handle h gets to state s with nothing waiting: all that did is sent if s is "open".
GetsTo(h, s) ==
  /\ handles' = [handles EXCEPT ![h].state = s, ![h].waiting = << >>]
  /\ inbox' = IF s = "open" THEN inbox \o handles[h].waiting ELSE inbox

\* The app learns what has become of handle h.
LEMMA EndOpening ==
  ASSUME IInv, Receive("opened"), NEW h, h = Head(outbox).handle,
         NEW s \in {"open", "failed"}, GetsTo(h, s),
         UNCHANGED <<repository, getting, current, native>>,
         s = "open" => Head(outbox).ok,
         status' \in Seq({"asked", "done", "failed"})
  PROVE  IInv'
<1>. DEFINE m == handles[h].waiting
            x == [handles[h] EXCEPT !.state = s, !.waiting = << >>]
<1>1. TypeOK
  BY DEF IInv
<1>2. /\ 1 \in 1..Len(outbox) /\ outbox[1] = Head(outbox) /\ outbox[1].kind = "opened"
      /\ outbox' \in Seq(Answers)
      /\ Len(outbox') = Len(outbox) - 1
      /\ \A i \in 1..Len(outbox') : i + 1 \in 1..Len(outbox) /\ outbox'[i] = outbox[i + 1]
  BY <1>1, ReceiveAnswer
<1>3. outbox[1].handle = h /\ h \in 1..Len(handles) /\ h \in Nat /\ h # None
      /\ Len(outbox) \in Nat /\ Len(inbox) \in Nat
  <2>1. outbox[1].handle = h
    BY <1>2
  <2>2. outbox[1].handle \in 1..Len(handles)
    BY <1>2 DEF IInv, Addressed
  <2>3. Len(handles) \in Nat /\ Len(outbox) \in Nat /\ Len(inbox) \in Nat
    BY <1>1 DEF TypeOK
  <2>. QED
    BY <2>1, <2>2, <2>3 DEF None
<1>4. /\ handles[h].state = "opening"
      /\ s = "open" => native[h] = "alive"
      /\ \A j \in 1..Len(outbox) : outbox[j].kind = "opened" /\ outbox[j].handle = h => j = 1
  BY <1>2, <1>3 DEF IInv, OpenedOnce
<1>5. /\ native[h] # "destroyed"
      /\ \A i \in 1..Len(inbox) : inbox[i].kind \in ProxyKinds => inbox[i].handle # h
  BY <1>3, <1>4 DEF IInv, WaitsUntilOpen
<1>6. \A i \in 1..Len(inbox) : inbox[i].kind = "init" => inbox[i].handle # h
  BY <1>2, <1>3 DEF IInv, OpenedOnce
<1>7. /\ m \in Seq(Messages) /\ Len(m) \in Nat
      /\ \A i \in 1..Len(m) : m[i].handle = h /\ m[i].kind \in ProxyKinds
      /\ \A i \in 1..Len(m) : m[i].kind = "destroy" =>
           i = Len(m) /\ \A p \in 1..Len(current) : current[p] # h
  BY <1>1, <1>3, HandleFields DEF IInv, Addressed, DestroyIsLast
<1>8. x \in Handles /\ x.waiting = << >> /\ x.state = s /\ x.proxy = handles[h].proxy
  <2>1. << >> \in Seq(Messages)
    OBVIOUS
  <2>. QED
    BY <1>1, <1>3, <2>1, HandleFields DEF Handles
<1>9. handles' = [handles EXCEPT ![h] = x]
  BY <1>1, <1>3 DEF TypeOK, GetsTo
<1>10. inbox' = IF s = "open" THEN inbox \o m ELSE inbox
  BY DEF GetsTo
<1>. HIDE DEF x, m
<1>11. /\ handles' \in Seq(Handles)
       /\ Len(handles') = Len(handles)
       /\ handles'[h].waiting = << >> /\ handles'[h].state = s
       /\ handles'[h].proxy = handles[h].proxy
       /\ \A g \in 1..Len(handles) : g # h => handles'[g] = handles[g]
  <2>1. Becomes(h, x)
    BY <1>1, <1>3, <1>8, <1>9, HandleBecomes, Zenon
  <2>. QED
    BY <1>8, <2>1 DEF Becomes
<1>12. /\ inbox' \in Seq(Messages)
       /\ Len(inbox') >= Len(inbox) /\ Len(inbox') \in Nat
       /\ \A i \in 1..Len(inbox) : inbox'[i] = inbox[i]
       /\ \A i \in 1..Len(inbox') : i \notin 1..Len(inbox) =>
            /\ s = "open" /\ i - Len(inbox) \in 1..Len(m) /\ inbox'[i] = m[i - Len(inbox)]
            /\ Len(inbox') = Len(inbox) + Len(m)
  <2>1. inbox \in Seq(Messages)
    BY <1>1 DEF TypeOK
  <2>2. CASE s = "open"
    <3>1. inbox' = inbox \o m
      BY <1>10, <2>2
    <3>2. m \in Seq(Messages)
      BY <1>7
    <3>3. JoinedFrom(Messages, inbox \o m, inbox, m)
      BY <2>1, <3>2, Joined, Zenon
    <3>4. JoinedFrom(Messages, inbox', inbox, m)
      BY <3>1, <3>3, Zenon
    <3>5. Len(inbox) \in Nat /\ Len(m) \in Nat
      BY <1>3, <1>7
    <3>. QED
      BY <2>2, <3>4, <3>5 DEF JoinedFrom
  <2>3. CASE s # "open"
    BY <1>3, <1>10, <2>1, <2>3
  <2>. QED
    BY <2>2, <2>3
<1>13. \A i \in 1..Len(inbox') :
         \/ i \in 1..Len(inbox) /\ inbox'[i] = inbox[i]
         \/ /\ i \notin 1..Len(inbox) /\ s = "open"
            /\ inbox'[i].handle = h /\ inbox'[i].kind \in ProxyKinds
  BY <1>7, <1>12
<1>14. \A i \in 1..Len(inbox') : inbox'[i].kind = "init" =>
         i \in 1..Len(inbox) /\ inbox'[i] = inbox[i] /\ inbox[i].handle # h
  <2>1. "init" \notin ProxyKinds
    BY DEF ProxyKinds, Kinds
  <2>. QED
    BY <1>6, <1>13, <2>1
<1>15. TypeOK'
  BY <1>1, <1>2, <1>11, <1>12 DEF TypeOK
<1>16. Addressed'
  <2>1. \A p \in 1..Len(current) : current[p] # None =>
          current[p] \in 1..Len(handles) /\ handles'[current[p]].proxy = p
    BY <1>11 DEF IInv, Addressed
  <2>2. \A i \in 1..Len(inbox') : inbox'[i].handle \in 1..Len(handles)
    BY <1>3, <1>13 DEF IInv, Addressed
  <2>3. \A i \in 1..Len(outbox') : outbox'[i].handle \in 1..Len(handles)
    BY <1>2 DEF IInv, Addressed
  <2>4. ASSUME NEW g \in 1..Len(handles), NEW i \in 1..Len(handles'[g].waiting)
        PROVE  handles'[g].waiting[i].handle = g /\ handles'[g].waiting[i].kind \in ProxyKinds
    <3>1. g # h
      BY <1>11
    <3>. QED
      BY <1>11, <3>1 DEF IInv, Addressed
  <2>. QED
    BY <1>11, <2>1, <2>2, <2>3, <2>4 DEF Addressed
<1>17. OpenedOnce'
  <2>1. ASSUME NEW i \in 1..Len(inbox'), inbox'[i].kind = "init"
        PROVE  /\ handles'[inbox'[i].handle].state = "opening"
               /\ \A j \in 1..Len(inbox') :
                    inbox'[j].kind = "init" /\ inbox'[j].handle = inbox'[i].handle => j = i
               /\ \A j \in 1..Len(outbox') :
                    outbox'[j].kind = "opened" => outbox'[j].handle # inbox'[i].handle
    <3>1. /\ i \in 1..Len(inbox) /\ inbox'[i] = inbox[i] /\ inbox[i].handle # h
          /\ inbox[i].kind = "init" /\ inbox[i].handle \in 1..Len(handles)
      BY <1>14, <2>1 DEF IInv, Addressed
    <3>2. /\ handles[inbox[i].handle].state = "opening"
          /\ \A j \in 1..Len(inbox) :
               inbox[j].kind = "init" /\ inbox[j].handle = inbox[i].handle => j = i
          /\ \A j \in 1..Len(outbox) :
               outbox[j].kind = "opened" => outbox[j].handle # inbox[i].handle
      BY <3>1 DEF IInv, OpenedOnce
    <3>3. \A j \in 1..Len(inbox') :
            inbox'[j].kind = "init" /\ inbox'[j].handle = inbox'[i].handle => j = i
      BY <1>14, <3>1, <3>2
    <3>4. \A j \in 1..Len(outbox') :
            outbox'[j].kind = "opened" => outbox'[j].handle # inbox'[i].handle
      BY <1>2, <3>1, <3>2
    <3>. QED
      BY <1>11, <3>1, <3>2, <3>3, <3>4
  <2>2. ASSUME NEW i \in 1..Len(outbox'), outbox'[i].kind = "opened"
        PROVE  /\ handles'[outbox'[i].handle].state = "opening"
               /\ outbox'[i].ok => native[outbox'[i].handle] = "alive"
               /\ \A j \in 1..Len(outbox') :
                    outbox'[j].kind = "opened" /\ outbox'[j].handle = outbox'[i].handle
                      => j = i
    <3>1. /\ i + 1 \in 1..Len(outbox) /\ outbox'[i] = outbox[i + 1] /\ i \in Nat /\ i + 1 # 1
          /\ outbox[i + 1].kind = "opened"
      BY <1>2, <1>3, <2>2, SMTT(30)
    <3>2. /\ outbox[i + 1].handle # h /\ outbox[i + 1].handle \in 1..Len(handles)
      <4>1. outbox[i + 1].handle # h
        BY <1>4, <3>1
      <4>. QED
        BY <3>1, <4>1 DEF IInv, Addressed
    <3>3. /\ handles[outbox[i + 1].handle].state = "opening"
          /\ outbox[i + 1].ok => native[outbox[i + 1].handle] = "alive"
          /\ \A j \in 1..Len(outbox) :
               outbox[j].kind = "opened" /\ outbox[j].handle = outbox[i + 1].handle => j = i + 1
      BY <3>1 DEF IInv, OpenedOnce
    <3>4. \A j \in 1..Len(outbox') :
            outbox'[j].kind = "opened" /\ outbox'[j].handle = outbox'[i].handle => j = i
      <4>1. \A j \in 1..Len(outbox') :
              outbox'[j].kind = "opened" /\ outbox'[j].handle = outbox'[i].handle
                => j + 1 = i + 1
        BY <1>2, <3>1, <3>3
      <4>. QED
        BY <3>1, <4>1
    <3>. QED
      BY <1>11, <3>1, <3>2, <3>3, <3>4
  <2>. QED
    BY <2>1, <2>2 DEF OpenedOnce
<1>18. WaitsUntilOpen'
  <2>. SUFFICES ASSUME NEW g \in 1..Len(handles)
                PROVE  /\ handles'[g].state = "opening" =>
                            /\ native[g] # "destroyed"
                            /\ \A i \in 1..Len(inbox') :
                                 inbox'[i].kind \in ProxyKinds => inbox'[i].handle # g
                       /\ handles'[g].state # "opening" => handles'[g].waiting = << >>
                       /\ handles'[g].state = "open" => native[g] # "unborn"
    BY <1>11 DEF WaitsUntilOpen
  <2>1. CASE g = h
    BY <1>4, <1>11, <2>1
  <2>2. CASE g # h
    <3>1. handles'[g] = handles[g]
      BY <1>11, <2>2
    <3>2. /\ handles[g].state = "opening" =>
               /\ native[g] # "destroyed"
               /\ \A i \in 1..Len(inbox) :
                    inbox[i].kind \in ProxyKinds => inbox[i].handle # g
          /\ handles[g].state # "opening" => handles[g].waiting = << >>
          /\ handles[g].state = "open" => native[g] # "unborn"
      BY DEF IInv, WaitsUntilOpen
    <3>. QED
      BY <1>13, <2>2, <3>1, <3>2
  <2>. QED
    BY <2>1, <2>2
<1>19. DestroyIsLast'
  <2>1. ASSUME NEW i \in 1..Len(inbox'), inbox'[i].kind = "destroy"
        PROVE  /\ \A p \in 1..Len(current') : current'[p] # inbox'[i].handle
               /\ \A j \in 1..Len(inbox') :
                    j > i /\ inbox'[j].kind \in ProxyKinds
                      => inbox'[j].handle # inbox'[i].handle
    <3>1. CASE i \in 1..Len(inbox)
      <4>1. inbox'[i] = inbox[i] /\ inbox[i].kind = "destroy" /\ inbox[i].handle # h
        BY <1>5, <1>12, <2>1, <3>1 DEF ProxyKinds
      <4>2. /\ \A p \in 1..Len(current) : current[p] # inbox[i].handle
            /\ \A j \in 1..Len(inbox) :
                 j > i /\ inbox[j].kind \in ProxyKinds => inbox[j].handle # inbox[i].handle
        BY <3>1, <4>1 DEF IInv, DestroyIsLast
      <4>3. \A j \in 1..Len(inbox') :
              j > i /\ inbox'[j].kind \in ProxyKinds => inbox'[j].handle # inbox'[i].handle
        BY <1>13, <4>1, <4>2
      <4>. QED
        BY <4>1, <4>2, <4>3
    <3>2. CASE i \notin 1..Len(inbox)
      <4>1. /\ i - Len(inbox) \in 1..Len(m) /\ inbox'[i] = m[i - Len(inbox)]
            /\ Len(inbox') = Len(inbox) + Len(m) /\ inbox'[i].handle = h
        BY <1>12, <1>13, <3>2
      <4>2. i - Len(inbox) = Len(m) /\ \A p \in 1..Len(current) : current[p] # h
        BY <1>7, <2>1, <4>1
      <4>3. i = Len(inbox')
        <5>1. i \in Nat /\ Len(inbox) \in Nat /\ Len(m) \in Nat
          BY <1>3, <1>7, <1>12
        <5>2. i - Len(inbox) = Len(m)
          BY <4>2
        <5>3. Len(inbox') = Len(inbox) + Len(m)
          BY <4>1
        <5>. QED
          BY <5>1, <5>2, <5>3
      <4>4. \A j \in 1..Len(inbox') : ~(j > i)
        BY <1>12, <4>3
      <4>. QED
        BY <4>1, <4>2, <4>4
    <3>. QED
      BY <3>1, <3>2
  <2>2. ASSUME NEW g \in 1..Len(handles'), NEW i \in 1..Len(handles'[g].waiting),
               handles'[g].waiting[i].kind = "destroy"
        PROVE  /\ \A p \in 1..Len(current') : current'[p] # g
               /\ i = Len(handles'[g].waiting)
    <3>1. g # h
      BY <1>11
    <3>2. handles'[g] = handles[g]
      BY <1>11, <3>1
    <3>. QED
      BY <1>11, <2>2, <3>2 DEF IInv, DestroyIsLast
  <2>3. \A p \in 1..Len(current') : current'[p] # None => native'[current'[p]] # "destroyed"
    BY DEF IInv, DestroyIsLast
  <2>. QED
    BY <2>1, <2>2, <2>3 DEF DestroyIsLast
<1>20. Found'
  BY <1>4, <1>13 DEF IInv, Found
<1>. QED
  BY <1>15, <1>16, <1>17, <1>18, <1>19, <1>20 DEF IInv

\* The handle of the last proxy could not be opened; a pause takes it away.
LEMMA LoseHandle ==
  ASSUME IInv, NEW h, LeavesCurrent(h, "destroy"),
         UNCHANGED <<repository, getting, handles, native, inbox, outbox, status>>
  PROVE  IInv'
<1>1. TypeOK'
  BY DEF IInv, TypeOK, LeavesCurrent
<1>2. Addressed'
  BY DEF IInv, Addressed, LeavesCurrent
<1>3. OpenedOnce' /\ WaitsUntilOpen' /\ Found'
  BY DEF IInv, OpenedOnce, WaitsUntilOpen, Found
<1>4. \A g \in Nat : g # None /\ (\A p \in 1..Len(current) : current[p] # g) =>
        \A p \in 1..Len(current') : current'[p] # g
  BY DEF LeavesCurrent
<1>5. DestroyIsLast'
  <2>1. \A p \in 1..Len(current') : current'[p] # None => native'[current'[p]] # "destroyed"
    BY DEF IInv, DestroyIsLast, LeavesCurrent
  <2>2. ASSUME NEW i \in 1..Len(inbox'), inbox'[i].kind = "destroy"
        PROVE  /\ \A p \in 1..Len(current') : current'[p] # inbox'[i].handle
               /\ \A j \in 1..Len(inbox') :
                    j > i /\ inbox'[j].kind \in ProxyKinds
                      => inbox'[j].handle # inbox'[i].handle
    <3>1. inbox[i].handle \in Nat /\ inbox[i].handle # None
      BY DEF IInv, Addressed, None
    <3>. QED
      BY <1>4, <2>2, <3>1 DEF IInv, DestroyIsLast
  <2>3. ASSUME NEW g \in 1..Len(handles'), NEW i \in 1..Len(handles'[g].waiting),
               handles'[g].waiting[i].kind = "destroy"
        PROVE  /\ \A p \in 1..Len(current') : current'[p] # g
               /\ i = Len(handles'[g].waiting)
    <3>1. g \in Nat /\ g # None
      BY DEF None
    <3>. QED
      BY <1>4, <2>3, <3>1 DEF IInv, DestroyIsLast
  <2>. QED
    BY <2>1, <2>2, <2>3 DEF DestroyIsLast
<1>. QED
  BY <1>1, <1>2, <1>3, <1>5 DEF IInv

\* The isolate takes a message that opens and closes nothing.
LEMMA TakeQuietly ==
  ASSUME TypeOK, NEW kind, Take(kind)
  PROVE  QuietInbox(1)
  BY TakeMessage DEF QuietInbox

LEMMA AnswerQuietly ==
  ASSUME IInv, NEW kind, Take(kind), NEW a \in {"address", "client", "answer"},
         NEW ok \in BOOLEAN, Answer(a, ok)
  PROVE  QuietOutbox(0)
<1>. DEFINE m == [kind |-> a, handle |-> Head(inbox).handle, call |-> Head(inbox).call,
                  ok |-> ok]
<1>1. TypeOK
  BY DEF IInv
<1>2. /\ 1 \in 1..Len(inbox) /\ inbox[1] = Head(inbox)
      /\ inbox[1].handle \in Nat /\ inbox[1].call \in Nat
  BY <1>1, TakeMessage
<1>3. Head(inbox).handle \in 1..Len(handles)
  BY <1>2 DEF IInv, Addressed
<1>4. m \in Answers /\ m.kind # "opened" /\ m.handle \in 1..Len(handles)
  BY <1>2, <1>3 DEF Answers
<1>5. outbox \in Seq(Answers) /\ outbox' = Append(outbox, m)
  BY <1>1 DEF Answer, TypeOK
<1>. HIDE DEF m
<1>6. /\ outbox' \in Seq(Answers)
      /\ \A i \in 1..Len(outbox') :
           (i \in 1..Len(outbox) /\ outbox'[i] = outbox[i]) \/ outbox'[i] = m
  BY <1>4, <1>5
<1>. QED
  BY <1>4, <1>6 DEF QuietOutbox

\* The app takes an answer that opens nothing.
LEMMA ReceiveQuietly ==
  ASSUME TypeOK, NEW kind, Receive(kind)
  PROVE  QuietOutbox(1)
  BY ReceiveAnswer DEF QuietOutbox

LEMMA SendQuietly ==
  ASSUME IInv, NEW kind, Receive(kind), NEW a \in {"client", "sync"},
         inbox' = Append(inbox, Message(a, Head(outbox).handle, Head(outbox).call))
  PROVE  QuietInbox(0)
<1>. DEFINE m == Message(a, Head(outbox).handle, Head(outbox).call)
<1>1. TypeOK
  BY DEF IInv
<1>2. /\ 1 \in 1..Len(outbox) /\ outbox[1] = Head(outbox)
      /\ outbox[1].handle \in Nat /\ outbox[1].call \in Nat
  BY <1>1, ReceiveAnswer
<1>3. Head(outbox).handle \in 1..Len(handles)
  BY <1>2 DEF IInv, Addressed
<1>4. m \in Messages /\ m.kind \in {"client", "sync"} /\ m.handle \in 1..Len(handles)
  BY <1>2, <1>3 DEF Message, Messages
<1>5. inbox \in Seq(Messages) /\ inbox' = Append(inbox, m)
  BY <1>1 DEF TypeOK
<1>. HIDE DEF m
<1>6. /\ inbox' \in Seq(Messages)
      /\ \A i \in 1..Len(inbox') :
           (i \in 1..Len(inbox) /\ inbox'[i] = inbox[i]) \/ inbox'[i] = m
  BY <1>4, <1>5
<1>. QED
  BY <1>4, <1>6 DEF QuietInbox

\* A sequence with one more element, or with another one in its place.
LEMMA SeqWith ==
  ASSUME NEW S, NEW s \in Seq(S), NEW e \in S
  PROVE  /\ Append(s, e) \in Seq(S)
         /\ \A i : [s EXCEPT ![i] = e] \in Seq(S)
<1>1. Append(s, e) \in Seq(S)
  OBVIOUS
<1>2. ASSUME NEW i PROVE [s EXCEPT ![i] = e] \in Seq(S)
  <2>. DEFINE t == [s EXCEPT ![i] = e]
  <2>1. DOMAIN s = 1..Len(s) /\ Len(s) \in Nat /\ \A j \in DOMAIN s : s[j] \in S
    OBVIOUS
  <2>2. t \in [1..Len(s) -> S]
    BY <2>1
  <2>. QED
    BY <2>1, <2>2
<1>. QED
  BY <1>1, <1>2

\* What does not change has no news.
LEMMA Quiet ==
  ASSUME TypeOK
  PROVE  /\ UNCHANGED inbox => QuietInbox(0)
         /\ UNCHANGED outbox => QuietOutbox(0)
  BY DEF TypeOK, QuietInbox, QuietOutbox

-------------------------------------------------------------------------------
(* The actions keep the invariant.                                           *)

LEMMA StartsWell == Init => IInv
<1>. SUFFICES ASSUME Init PROVE IInv
  OBVIOUS
<1>1. TypeOK
  <2>1. \A S : << >> \in Seq(S)
    OBVIOUS
  <2>2. Len(<< >>) = 0
    OBVIOUS
  <2>. QED
    BY <2>1, <2>2 DEF Init, TypeOK, None
<1>2. Addressed /\ OpenedOnce /\ WaitsUntilOpen /\ DestroyIsLast /\ Found
  BY DEF Init, Addressed, OpenedOnce, WaitsUntilOpen, DestroyIsLast, Found
<1>. QED
  BY <1>1, <1>2 DEF IInv

LEMMA GetDirectoryKeeps == ASSUME IInv, GetDirectory PROVE IInv'
<1>1. TypeOK /\ UNCHANGED <<inbox, outbox, repository, current, handles, native>>
  BY DEF IInv, GetDirectory
<1>2. QuietInbox(0) /\ QuietOutbox(0)
  BY <1>1, Quiet
<1>3. status' \in Seq({"asked", "done", "failed"})
  BY <1>1 DEF TypeOK, GetDirectory
<1>4. PICK kind \in Kinds :
        getting' = Append(getting, [kind |-> kind, call |-> Len(status) + 1])
  BY DEF GetDirectory
<1>5. getting' \in Seq([kind : Kinds, call : Nat])
  <2>1. getting \in Seq([kind : Kinds, call : Nat]) /\ Len(status) \in Nat
    BY <1>1 DEF TypeOK
  <2>2. [kind |-> kind, call |-> Len(status) + 1] \in [kind : Kinds, call : Nat]
    BY <2>1
  <2>. QED
    BY <1>4, <2>1, <2>2
<1>. QED
  BY <1>1, <1>2, <1>3, <1>5, QuietStep

LEMMA GotDirectoryKeeps == ASSUME IInv, GotDirectory PROVE IInv'
<1>. DEFINE p == Len(current) + 1
            kind == Head(getting).kind
            n == Head(getting).call
<1>1. TypeOK
  BY DEF IInv
<1>2. /\ getting \in Seq([kind : Kinds, call : Nat]) /\ getting # << >>
      /\ getting' = Tail(getting)
      /\ repository' = p /\ Open(p, kind, n)
      /\ current' = Append(current, Len(handles) + 1)
      /\ UNCHANGED <<outbox, status>>
  BY <1>1 DEF GotDirectory, TypeOK
<1>3. /\ Head(getting) \in [kind : Kinds, call : Nat]
      /\ getting' \in Seq([kind : Kinds, call : Nat])
  <2>. DEFINE Calls == [kind : Kinds, call : Nat]
  <2>1. getting \in Seq(Calls) /\ getting # << >> /\ getting' = Tail(getting)
    BY <1>2
  <2>. HIDE DEF Calls
  <2>2. Head(getting) \in Calls /\ getting' \in Seq(Calls)
    BY <2>1
  <2>. QED
    BY <2>2 DEF Calls
<1>4. kind \in Kinds /\ n \in Nat
  BY <1>3
<1>5. current \in Seq(Nat) /\ Len(handles) + 1 \in Nat /\ Len(current) \in Nat
      /\ status' \in Seq({"asked", "done", "failed"})
  BY <1>1, <1>2 DEF TypeOK
<1>. HIDE DEF kind, n
<1>6. /\ current' \in Seq(Nat) /\ Len(current') = p
      /\ current'[p] = Len(handles) + 1
      /\ \A q \in 1..Len(current') : q # p => q \in 1..Len(current) /\ current'[q] = current[q]
  BY <1>2, <1>5
<1>7. p \in 1..Len(current') /\ repository' \in 0..Len(current')
  BY <1>2, <1>5, <1>6
<1>. HIDE DEF p
<1>. QED
  BY <1>2, <1>3, <1>4, <1>5, <1>6, <1>7, OpenStep

LEMMA CallRepositoryKeeps ==
  ASSUME IInv, NEW kind \in Kinds, CallRepository(kind)
  PROVE  IInv'
<1>. DEFINE h == current[repository]
            n == Len(status) + 1
<1>1. TypeOK
  BY DEF IInv
<1>2. repository # None /\ UNCHANGED <<repository, getting, outbox>>
  BY DEF CallRepository
<1>3. /\ repository \in 1..Len(current) /\ n \in Nat /\ current \in Seq(Nat)
      /\ Len(handles) \in Nat /\ Len(current) \in Nat /\ status \in Seq({"asked", "done", "failed"})
      /\ repository \in 0..Len(current) /\ getting \in Seq([kind : Kinds, call : Nat])
  BY <1>1, <1>2 DEF TypeOK, None
<1>4. kind \in ProxyKinds /\ kind # "destroy"
  BY DEF ProxyKinds, Kinds
<1>5. status' \in Seq({"asked", "done", "failed"})
  <2>1. status' = Append(status, "asked") \/ status' = Append(status, "failed")
    BY DEF CallRepository
  <2>2. "asked" \in {"asked", "done", "failed"} /\ "failed" \in {"asked", "done", "failed"}
    OBVIOUS
  <2>. QED
    BY <1>3, <2>1, <2>2, SeqWith
<1>6. CASE h = None /\ Open(repository, kind, n)
           /\ current' = [current EXCEPT ![repository] = Len(handles) + 1]
  <2>1. /\ current' \in Seq(Nat) /\ Len(current') = Len(current)
        /\ current'[repository] = Len(handles) + 1
        /\ \A q \in 1..Len(current') :
             q # repository => q \in 1..Len(current) /\ current'[q] = current[q]
    BY <1>3, <1>6
  <2>2. repository \in 1..Len(current') /\ repository' \in 0..Len(current')
        /\ getting' \in Seq([kind : Kinds, call : Nat]) /\ UNCHANGED outbox
    BY <1>2, <1>3, <2>1
  <2>3. Open(repository, kind, n)
    BY <1>6
  <2>. HIDE DEF n
  <2>. QED
    BY <1>3, <1>5, <2>1, <2>2, <2>3, OpenStep
<1>7. CASE h # None /\ SendTo(h, kind, n) /\ UNCHANGED <<current, native>>
  <2>1. /\ h \in 1..Len(handles) /\ native[h] # "destroyed"
        /\ \A i \in 1..Len(inbox) : inbox[i].kind = "destroy" => inbox[i].handle # h
        /\ \A i \in 1..Len(handles[h].waiting) : handles[h].waiting[i].kind # "destroy"
    BY <1>2, <1>7, CurrentHandle
  <2>2. LeavesCurrent(h, kind)
    BY <1>3, <1>4, <1>7 DEF LeavesCurrent
  <2>. HIDE DEF h, n
  <2>3. CASE handles[h].state = "opening"
             /\ handles' = [handles EXCEPT ![h].waiting = Append(@, Message(kind, h, n))]
             /\ UNCHANGED inbox
    BY <1>2, <1>3, <1>4, <1>5, <1>7, <2>1, <2>2, <2>3, WaitStep
  <2>4. CASE handles[h].state = "open" /\ inbox' = Append(inbox, Message(kind, h, n))
             /\ UNCHANGED handles
    <3>1. native[h] = "alive"
      <4>1. native[h] \in {"unborn", "alive", "destroyed"}
        BY <1>1, <2>1 DEF TypeOK
      <4>2. native[h] # "unborn"
        BY <2>1, <2>4 DEF IInv, WaitsUntilOpen
      <4>. QED
        BY <2>1, <4>1, <4>2
    <3>. QED
      BY <1>2, <1>3, <1>4, <1>5, <1>7, <2>1, <2>2, <2>4, <3>1, SendStep
  <2>. QED
    BY <1>7, <2>3, <2>4 DEF SendTo
<1>8. CASE UNCHANGED <<current, handles, native, inbox>>
  <2>1. QuietInbox(0) /\ QuietOutbox(0)
    BY <1>1, <1>2, <1>8, Quiet
  <2>. QED
    BY <1>2, <1>3, <1>5, <1>8, <2>1, QuietStep
<1>. QED
  BY <1>6, <1>7, <1>8 DEF CallRepository

LEMMA PauseKeeps == ASSUME IInv, Pause PROVE IInv'
<1>. DEFINE h == current[repository]
<1>1. TypeOK
  BY DEF IInv
<1>2. /\ repository # None /\ h # None
      /\ current' = [current EXCEPT ![repository] = None]
      /\ SendTo(h, "destroy", None) \/ UNCHANGED <<handles, inbox>>
      /\ UNCHANGED <<repository, getting, native, outbox, status>>
  BY DEF Pause
<1>3. /\ repository \in 1..Len(current) /\ h \in 1..Len(handles) /\ native[h] # "destroyed"
      /\ \A p \in 1..Len(current) : current[p] = h => p = repository
      /\ \A i \in 1..Len(inbox) : inbox[i].kind = "destroy" => inbox[i].handle # h
      /\ \A i \in 1..Len(handles[h].waiting) : handles[h].waiting[i].kind # "destroy"
  BY <1>2, CurrentHandle
<1>4. LeavesCurrent(h, "destroy")
  <2>1. current \in Seq(Nat) /\ None \in Nat
    BY <1>1 DEF TypeOK, None
  <2>. QED
    BY <1>2, <1>3, <2>1 DEF LeavesCurrent
<1>5. "destroy" \in ProxyKinds /\ None \in Nat /\ status' \in Seq({"asked", "done", "failed"})
  BY <1>1, <1>2 DEF ProxyKinds, None, TypeOK
<1>. HIDE DEF h
<1>6. CASE handles[h].state = "opening"
           /\ handles' = [handles EXCEPT ![h].waiting = Append(@, Message("destroy", h, None))]
           /\ UNCHANGED inbox
  BY <1>2, <1>3, <1>4, <1>5, <1>6, WaitStep
<1>7. CASE handles[h].state = "open" /\ inbox' = Append(inbox, Message("destroy", h, None))
           /\ UNCHANGED handles
  <2>1. native[h] = "alive"
    <3>1. native[h] \in {"unborn", "alive", "destroyed"}
      BY <1>1, <1>3 DEF TypeOK
    <3>2. native[h] # "unborn"
      BY <1>3, <1>7 DEF IInv, WaitsUntilOpen
    <3>. QED
      BY <1>3, <3>1, <3>2
  <2>. QED
    BY <1>2, <1>3, <1>4, <1>5, <1>7, <2>1, SendStep
<1>8. CASE UNCHANGED <<handles, inbox>>
  BY <1>2, <1>4, <1>8, LoseHandle
<1>. QED
  BY <1>2, <1>6, <1>7, <1>8 DEF SendTo

LEMMA FromFileKeeps == ASSUME IInv, FromFile PROVE IInv'
<1>. DEFINE h == Head(inbox).handle
<1>1. Take("init") /\ UNCHANGED <<repository, getting, current, handles, status>>
  BY DEF FromFile, AppUnchanged
<1>2. CASE native' = [native EXCEPT ![h] = "alive"] /\ Answer("opened", TRUE)
  <2>1. native' = [native EXCEPT ![h] = IF TRUE THEN "alive" ELSE @]
    BY <1>2
  <2>. QED
    BY <1>1, <1>2, <2>1, OpenedStep
<1>3. CASE UNCHANGED native /\ Answer("opened", FALSE)
  <2>1. native' = [native EXCEPT ![h] = IF FALSE THEN "alive" ELSE @]
    BY <1>3 DEF IInv, TypeOK
  <2>. QED
    BY <1>1, <1>3, <2>1, OpenedStep
<1>. QED
  BY <1>2, <1>3 DEF FromFile

LEMMA OpenedKeeps == ASSUME IInv, Opened PROVE IInv'
<1>. DEFINE h == Head(outbox).handle
            m == handles[h].waiting
<1>1. Receive("opened") /\ UNCHANGED <<repository, getting, current, native>> /\ TypeOK
  BY Zenon DEF Opened, RestUnchanged, IInv
<1>2. h = Head(outbox).handle
  OBVIOUS
<1>3. CASE Head(outbox).ok /\ GetsTo(h, "open") /\ UNCHANGED status
  <2>1. status' \in Seq({"asked", "done", "failed"})
    BY <1>1, <1>3 DEF TypeOK
  <2>. HIDE DEF h
  <2>. QED
    BY <1>1, <1>2, <1>3, <2>1, EndOpening
<1>4. CASE /\ GetsTo(h, "failed")
           /\ status' = [n \in DOMAIN status |->
                           IF \E i \in DOMAIN m : m[i].call = n THEN "failed" ELSE status[n]]
  <2>1. status' \in Seq({"asked", "done", "failed"})
    <3>1. status \in Seq({"asked", "done", "failed"})
      BY <1>1 DEF TypeOK
    <3>2. DOMAIN status = 1..Len(status) /\ Len(status) \in Nat
      BY <3>1
    <3>3. status' \in [1..Len(status) -> {"asked", "done", "failed"}]
      BY <1>4, <3>1, <3>2
    <3>. QED
      BY <3>2, <3>3
  <2>. HIDE DEF h, m
  <2>. QED
    BY <1>1, <1>2, <1>4, <2>1, EndOpening
<1>. QED
  BY <1>3, <1>4, Zenon DEF Opened, GetsTo

LEMMA IsolateKeeps == ASSUME IInv, Isolate PROVE IInv'
<1>1. TypeOK
  BY DEF IInv
<1>2. ASSUME NEW kind, Take(kind), AppUnchanged, UNCHANGED native,
             \/ UNCHANGED outbox
             \/ \E a \in {"address", "client", "answer"}, ok \in BOOLEAN : Answer(a, ok)
      PROVE  IInv'
  <2>1. QuietInbox(1)
    BY <1>1, <1>2, TakeQuietly
  <2>2. QuietOutbox(0)
    BY <1>1, <1>2, Quiet, AnswerQuietly
  <2>3. /\ getting' \in Seq([kind : Kinds, call : Nat])
        /\ status' \in Seq({"asked", "done", "failed"})
        /\ UNCHANGED <<repository, current, handles, native>>
    BY <1>1, <1>2 DEF TypeOK, AppUnchanged
  <2>. QED
    BY <2>1, <2>2, <2>3, QuietStep
<1>3. CASE FromFile
  BY <1>3, FromFileKeeps
<1>4. CASE UseRepository
  BY <1>2, <1>4 DEF UseRepository
<1>5. CASE RepositoryAddress
  BY <1>2, <1>5 DEF RepositoryAddress
<1>6. CASE ClientAddress
  BY <1>2, <1>6 DEF ClientAddress
<1>7. CASE SyncRepository
  BY <1>2, <1>7 DEF SyncRepository
<1>8. CASE Destroy
  BY <1>8, DestroyStep
<1>. QED
  BY <1>3, <1>4, <1>5, <1>6, <1>7, <1>8 DEF Isolate

LEMMA AppKeeps == ASSUME IInv, App PROVE IInv'
<1>1. TypeOK
  BY DEF IInv
<1>2. ASSUME NEW kind, Receive(kind), RestUnchanged, UNCHANGED handles,
             QuietInbox(0), status' \in Seq({"asked", "done", "failed"})
      PROVE  IInv'
  <2>1. QuietOutbox(1)
    BY <1>1, <1>2, ReceiveQuietly
  <2>2. /\ getting' \in Seq([kind : Kinds, call : Nat])
        /\ UNCHANGED <<repository, current, handles, native>>
    BY <1>1, <1>2 DEF TypeOK, RestUnchanged
  <2>. QED
    BY <1>2, <2>1, <2>2, QuietStep
<1>3. CASE Opened
  BY <1>3, OpenedKeeps
<1>4. UNCHANGED status => status' \in Seq({"asked", "done", "failed"})
  BY <1>1 DEF TypeOK
<1>5. CASE GotRepositoryAddress
  <2>1. Receive("address") /\ QuietInbox(0)
    BY <1>5, SendQuietly DEF GotRepositoryAddress
  <2>. QED
    BY <1>2, <1>4, <1>5, <2>1 DEF GotRepositoryAddress
<1>6. CASE GotClientAddress
  <2>1. Receive("client") /\ QuietInbox(0)
    BY <1>6, SendQuietly DEF GotClientAddress
  <2>. QED
    BY <1>2, <1>4, <1>6, <2>1 DEF GotClientAddress
<1>7. CASE Answered
  <2>1. QuietInbox(0)
    BY <1>1, <1>7, Quiet DEF Answered
  <2>2. status' \in Seq({"asked", "done", "failed"})
    <3>1. status \in Seq({"asked", "done", "failed"})
      BY <1>1 DEF TypeOK
    <3>2. CASE status' = [status EXCEPT ![Head(outbox).call] = "done"]
      BY <3>1, <3>2, SeqWith
    <3>3. CASE status' = [status EXCEPT ![Head(outbox).call] = "failed"]
      BY <3>1, <3>3, SeqWith
    <3>. QED
      BY <1>7, <3>2, <3>3 DEF Answered
  <2>. QED
    BY <1>2, <1>7, <2>1, <2>2 DEF Answered
<1>. QED
  BY <1>3, <1>5, <1>6, <1>7 DEF App

LEMMA StepsWell == IInv /\ [Next]_vars => IInv'
<1>. SUFFICES ASSUME IInv, [Next]_vars PROVE IInv'
  OBVIOUS
<1>1. CASE GetDirectory
  BY <1>1, GetDirectoryKeeps
<1>2. CASE GotDirectory
  BY <1>2, GotDirectoryKeeps
<1>3. ASSUME NEW kind \in Kinds, CallRepository(kind) PROVE IInv'
  BY <1>3, CallRepositoryKeeps
<1>4. CASE Pause
  BY <1>4, PauseKeeps
<1>5. CASE Isolate
  BY <1>5, IsolateKeeps
<1>6. CASE App
  BY <1>6, AppKeeps
<1>7. CASE UNCHANGED vars
  <2>1. TypeOK /\ UNCHANGED <<inbox, outbox, repository, current, handles, native>>
    BY <1>7 DEF IInv, vars
  <2>2. QuietInbox(0) /\ QuietOutbox(0)
    BY <2>1, Quiet
  <2>3. /\ getting' \in Seq([kind : Kinds, call : Nat])
        /\ status' \in Seq({"asked", "done", "failed"})
    BY <1>7, <2>1 DEF TypeOK, vars
  <2>. QED
    BY <2>1, <2>2, <2>3, QuietStep
<1>. QED
  BY <1>1, <1>2, <1>3, <1>4, <1>5, <1>6, <1>7 DEF Next

-------------------------------------------------------------------------------
(* Who closes a repository, and when.                                        *)

\* Among messages or answers q there is one of that kind about handle h.
Among(q, kind, h) == \E i \in 1..Len(q) : q[i].kind = kind /\ q[i].handle = h

\* Among answers q there is an error for the opening of handle h.
Failing(q, h) ==
  \E i \in 1..Len(q) : q[i].kind = "opened" /\ q[i].handle = h /\ ~q[i].ok

\* Handle h is the one of a proxy.
Held(c, h) == \E p \in 1..Len(c) : c[p] = h

\* What waits for a handle ends with its closing.
Closing(m) == \E i \in 1..Len(m) : m[i].kind = "destroy"

\* Repositories are closed before one is opened.
InOrder(q) ==
  \A i, j \in 1..Len(q) : q[i].kind = "init" /\ q[j].kind = "destroy" => j < i

\* A handle that is being opened will be told how that ended.
Told ==
  \A h \in 1..Len(handles) : handles[h].state = "opening" =>
    Among(inbox, "init", h) \/ Among(outbox, "opened", h)

\* There is no repository before it was opened, and none if that failed.
NotYet ==
  \A h \in 1..Len(handles) :
    Among(inbox, "init", h) \/ Failing(outbox, h) \/ handles[h].state = "failed" =>
      native[h] = "unborn"

\* What is not closed yet belongs to a proxy or is about to be closed.
Cared ==
  \A h \in 1..Len(handles) : native[h] # "destroyed" /\ handles[h].state # "failed" =>
    \/ Held(current, h)
    \/ Among(inbox, "destroy", h)
    \/ Closing(handles[h].waiting)

\* With one proxy that is never closed too early, only its handle is being opened,
\* nothing waits to be closed, and what is closed is closed before that.
OneAtATime ==
  Len(current) <= 1 /\ ~hasty =>
    /\ \A h \in 1..Len(handles) : Among(inbox, "init", h) => Held(current, h)
    /\ \A h \in 1..Len(handles) : ~Closing(handles[h].waiting)
    /\ InOrder(inbox)

Owner == Told /\ NotYet /\ Cared /\ OneAtATime

\* Sequences.

LEMMA WithOneMore ==
  ASSUME NEW S, NEW q \in Seq(S), NEW m \in S
  PROVE  /\ \A kind, h : Among(Append(q, m), kind, h) <=>
                           Among(q, kind, h) \/ (m.kind = kind /\ m.handle = h)
         /\ \A h : Failing(Append(q, m), h) <=>
                     Failing(q, h) \/ (m.kind = "opened" /\ m.handle = h /\ ~m.ok)
         /\ Closing(Append(q, m)) <=> Closing(q) \/ m.kind = "destroy"
         /\ InOrder(q) /\ (m.kind = "destroy" => \A h : ~Among(q, "init", h))
              => InOrder(Append(q, m))
<1>. DEFINE r == Append(q, m)
            n == Len(q)
<1>1. /\ n \in Nat /\ Len(r) = n + 1 /\ r[n + 1] = m
      /\ \A i \in 1..n : r[i] = q[i]
  OBVIOUS
<1>2. /\ 1..(n + 1) = 1..n \cup {n + 1}
      /\ \A i \in 1..n : i < n + 1
  BY <1>1
<1>3. \A kind, h : Among(r, kind, h) <=> Among(q, kind, h) \/ (m.kind = kind /\ m.handle = h)
  BY <1>1, <1>2 DEF Among
<1>4. \A h : Failing(r, h) <=> Failing(q, h) \/ (m.kind = "opened" /\ m.handle = h /\ ~m.ok)
  BY <1>1, <1>2 DEF Failing
<1>5. Closing(r) <=> Closing(q) \/ m.kind = "destroy"
  BY <1>1, <1>2 DEF Closing
<1>6. ASSUME InOrder(q), m.kind = "destroy" => \A h : ~Among(q, "init", h)
      PROVE  InOrder(r)
  <2>. SUFFICES ASSUME NEW i \in 1..Len(r), NEW j \in 1..Len(r),
                       r[i].kind = "init", r[j].kind = "destroy"
                PROVE  j < i
    BY DEF InOrder
  <2>1. CASE j = n + 1
    <3>1. m.kind = "destroy"
      BY <1>1, <2>1
    <3>2. i \in 1..n
      BY <1>1, <1>2, <3>1
    <3>3. q[i].kind = "init"
      BY <1>1, <3>2
    <3>. QED
      BY <1>6, <3>1, <3>2, <3>3 DEF Among
  <2>2. CASE i = n + 1 /\ j \in 1..n
    BY <1>2, <2>2
  <2>3. CASE i \in 1..n /\ j \in 1..n
    BY <1>1, <1>6, <2>3 DEF InOrder
  <2>. QED
    BY <1>1, <1>2, <2>1, <2>2, <2>3
<1>. QED
  BY <1>3, <1>4, <1>5, <1>6

LEMMA WithoutTheFirst ==
  ASSUME NEW S, NEW q \in Seq(S), q # << >>
  PROVE  /\ \A kind, h : Among(q, kind, h) <=>
              Among(Tail(q), kind, h) \/ (Head(q).kind = kind /\ Head(q).handle = h)
         /\ \A h : Failing(q, h) <=>
              Failing(Tail(q), h) \/ (Head(q).kind = "opened" /\ Head(q).handle = h /\ ~Head(q).ok)
         /\ InOrder(q) => InOrder(Tail(q))
<1>. DEFINE r == Tail(q)
            m == Head(q)
            n == Len(r)
<1>1. /\ n \in Nat /\ Len(q) = n + 1 /\ q[1] = m
      /\ \A i \in 1..n : i + 1 \in 1..(n + 1) /\ q[i + 1] = r[i]
  OBVIOUS
<1>. HIDE DEF r, m
<1>2. /\ \A i \in 1..(n + 1) : i = 1 \/ (i - 1 \in 1..n /\ i = (i - 1) + 1)
      /\ 1 \in 1..(n + 1)
  BY <1>1
<1>3. \A i \in 1..Len(q) : (i = 1 /\ q[i] = m) \/ (i - 1 \in 1..n /\ q[i] = r[i - 1])
  BY <1>1, <1>2
<1>4. \A kind, h : Among(q, kind, h) <=> Among(r, kind, h) \/ (m.kind = kind /\ m.handle = h)
  <2>. TAKE kind, h
  <2>1. Among(q, kind, h) => Among(r, kind, h) \/ (m.kind = kind /\ m.handle = h)
    BY <1>3 DEF Among
  <2>2. Among(r, kind, h) => Among(q, kind, h)
    BY <1>1 DEF Among
  <2>3. m.kind = kind /\ m.handle = h => Among(q, kind, h)
    BY <1>1, <1>2 DEF Among
  <2>. QED
    BY <2>1, <2>2, <2>3
<1>5. \A h : Failing(q, h) <=> Failing(r, h) \/ (m.kind = "opened" /\ m.handle = h /\ ~m.ok)
  <2>. TAKE h
  <2>1. Failing(q, h) => Failing(r, h) \/ (m.kind = "opened" /\ m.handle = h /\ ~m.ok)
    BY <1>3 DEF Failing
  <2>2. Failing(r, h) => Failing(q, h)
    BY <1>1 DEF Failing
  <2>3. m.kind = "opened" /\ m.handle = h /\ ~m.ok => Failing(q, h)
    BY <1>1, <1>2 DEF Failing
  <2>. QED
    BY <2>1, <2>2, <2>3
<1>6. ASSUME InOrder(q) PROVE InOrder(r)
  <2>. SUFFICES ASSUME NEW i \in 1..n, NEW j \in 1..n,
                       r[i].kind = "init", r[j].kind = "destroy"
                PROVE  j < i
    BY DEF InOrder
  <2>1. j + 1 < i + 1
    BY <1>1, <1>6 DEF InOrder
  <2>. QED
    BY <2>1
<1>. QED
  BY <1>4, <1>5, <1>6 DEF r, m

LEMMA WithOthers ==
  ASSUME NEW S, NEW q \in Seq(S), NEW t \in Seq(S)
  PROVE  /\ \A kind, h : Among(q \o t, kind, h) <=> Among(q, kind, h) \/ Among(t, kind, h)
         /\ InOrder(q) /\ ~Closing(t) /\ (\A h : ~Among(t, "init", h)) => InOrder(q \o t)
<1>. DEFINE r == q \o t
            n == Len(q)
            m == Len(t)
<1>1. /\ n \in Nat /\ m \in Nat /\ Len(r) = n + m
      /\ \A i \in 1..n : i \in 1..(n + m) /\ r[i] = q[i]
      /\ \A i \in 1..m : n + i \in 1..(n + m) /\ r[n + i] = t[i]
  OBVIOUS
<1>. HIDE DEF r
<1>2. \A i \in 1..(n + m) : i \in 1..n \/ (i - n \in 1..m /\ i = n + (i - n))
  BY <1>1
<1>3. \A i \in 1..Len(r) : (i \in 1..n /\ r[i] = q[i]) \/ (i - n \in 1..m /\ r[i] = t[i - n])
  BY <1>1, <1>2
<1>4. \A kind, h : Among(r, kind, h) <=> Among(q, kind, h) \/ Among(t, kind, h)
  <2>. TAKE kind, h
  <2>1. Among(r, kind, h) => Among(q, kind, h) \/ Among(t, kind, h)
    BY <1>3 DEF Among
  <2>2. Among(q, kind, h) => Among(r, kind, h)
    BY <1>1 DEF Among
  <2>3. Among(t, kind, h) => Among(r, kind, h)
    <3>. SUFFICES ASSUME NEW i \in 1..m, t[i].kind = kind, t[i].handle = h
                  PROVE  Among(r, kind, h)
      BY DEF Among
    <3>. QED
      BY <1>1 DEF Among
  <2>. QED
    BY <2>1, <2>2, <2>3
<1>5. ASSUME InOrder(q), ~Closing(t), \A h : ~Among(t, "init", h)
      PROVE  InOrder(r)
  <2>1. \A i \in 1..m : t[i].kind # "destroy" /\ t[i].kind # "init"
    BY <1>5 DEF Closing, Among
  <2>. QED
    BY <1>3, <1>5, <2>1 DEF InOrder
<1>. QED
  BY <1>4, <1>5 DEF r

\* Steps.

\* What becomes of an opening or closing is not under discussion.
NothingSaid ==
  /\ \A h : Among(inbox', "init", h) <=> Among(inbox, "init", h)
  /\ \A h : Among(inbox', "destroy", h) <=> Among(inbox, "destroy", h)
  /\ \A h : Among(outbox', "opened", h) <=> Among(outbox, "opened", h)
  /\ \A h : Failing(outbox', h) <=> Failing(outbox, h)
  /\ InOrder(inbox) => InOrder(inbox')

LEMMA QuietOwner ==
  ASSUME Owner, NothingSaid, UNCHANGED <<current, handles, native, hasty>>
  PROVE  Owner'
<1>1. Told'
  BY DEF Owner, Told, NothingSaid
<1>2. NotYet'
  BY DEF Owner, NotYet, NothingSaid
<1>3. Cared'
  BY DEF Owner, Cared, NothingSaid
<1>4. OneAtATime'
  BY DEF Owner, OneAtATime, NothingSaid
<1>. QED
  BY <1>1, <1>2, <1>3, <1>4 DEF Owner

LEMMA OpenOwner ==
  ASSUME IInv, Owner, NEW p \in 1..Len(current'), NEW kind \in Kinds, NEW n \in Nat,
         Open(p, kind, n),
         current' \in Seq(Nat),
         current'[p] = Len(handles) + 1,
         \A q \in 1..Len(current) : current[q] # None =>
           q # p /\ q \in 1..Len(current') /\ current'[q] = current[q],
         Len(current) <= Len(current'),
         UNCHANGED <<outbox, hasty>>
  PROVE  Owner'
<1>. DEFINE new == Len(handles) + 1
            m == Message(kind, new, n)
            o == Message("init", new, n)
            x == [proxy |-> p, state |-> "opening", waiting |-> <<m>>]
<1>1. /\ Len(handles) \in Nat /\ Len(native) = Len(handles) /\ Len(current) \in Nat
      /\ Len(current') \in Nat /\ inbox \in Seq(Messages)
  BY DEF IInv, TypeOK
<1>2. /\ m \in Messages /\ m.kind # "destroy"
      /\ o \in Messages /\ o.kind = "init" /\ o.handle = new
  BY <1>1 DEF Message, Messages, Kinds, ProxyKinds
<1>3. handles' = Append(handles, x) /\ native' = Append(native, "unborn")
      /\ inbox' = Append(inbox, o)
  BY DEF Open
<1>. HIDE DEF m, o
<1>4. <<m>> \in Seq(Messages) /\ Len(<<m>>) = 1 /\ <<m>>[1] = m
  BY <1>2
<1>5. ~Closing(<<m>>)
  BY <1>2, <1>4 DEF Closing
<1>6. x \in Handles /\ x.state = "opening" /\ ~Closing(x.waiting)
  BY <1>1, <1>4, <1>5 DEF Handles
<1>. HIDE DEF x
<1>7. /\ Len(handles') = new /\ handles'[new] = x /\ native'[new] = "unborn"
      /\ \A g \in 1..Len(handles) : handles'[g] = handles[g] /\ native'[g] = native[g]
      /\ \A g \in 1..Len(handles') : g \in 1..Len(handles) \/ g = new
  <2>1. handles \in Seq(Handles) /\ native \in Seq({"unborn", "alive", "destroyed"})
    BY DEF IInv, TypeOK
  <2>2. /\ Len(handles') = new /\ handles'[new] = x
        /\ \A g \in 1..Len(handles) : handles'[g] = handles[g]
    BY <1>1, <1>3, <1>6, <2>1
  <2>3. native'[new] = "unborn" /\ \A g \in 1..Len(handles) : native'[g] = native[g]
    <3>1. native' = Append(native, "unborn") /\ Len(native) = Len(handles)
      BY <1>1, <1>3
    <3>. QED
      BY <2>1, <3>1
  <2>4. \A g \in 1..Len(handles') : g \in 1..Len(handles) \/ g = new
    <3>1. Len(handles) \in Nat /\ Len(handles') = Len(handles) + 1
      BY <1>1, <2>2
    <3>. QED
      BY <3>1
  <2>. HIDE DEF new
  <2>. QED
    BY <2>2, <2>3, <2>4
<1>8. \A g \in 1..Len(handles) : g # new
  BY <1>1
<1>9. /\ \A k, h : Among(inbox', k, h) <=> Among(inbox, k, h) \/ (k = "init" /\ h = new)
      /\ InOrder(inbox) => InOrder(inbox')
  BY <1>1, <1>2, <1>3, WithOneMore
<1>10. \A i \in 1..Len(outbox) : outbox[i].handle \in 1..Len(handles)
  BY DEF IInv, Addressed
<1>11. ~Failing(outbox, new)
  BY <1>8, <1>10 DEF Failing
<1>12. \A h : h # None /\ Held(current, h) => Held(current', h)
  BY DEF Held
<1>13. None \notin 1..Len(handles)
  BY <1>1 DEF None
<1>14. Held(current', new)
  BY DEF Held
<1>. HIDE DEF new
<1>15. Told'
  BY <1>7, <1>8, <1>9 DEF Owner, Told
<1>16. NotYet'
  BY <1>6, <1>7, <1>8, <1>9, <1>11 DEF Owner, NotYet
<1>17. Cared'
  BY <1>7, <1>8, <1>9, <1>12, <1>13, <1>14 DEF Owner, Cared
<1>18. OneAtATime'
  <2>. SUFFICES ASSUME Len(current') <= 1, ~hasty
                PROVE  /\ \A h \in 1..Len(handles') : Among(inbox', "init", h) => Held(current', h)
                       /\ \A h \in 1..Len(handles') : ~Closing(handles'[h].waiting)
                       /\ InOrder(inbox')
    BY DEF OneAtATime
  <2>1. Len(current) <= 1
    BY <1>1
  <2>. QED
    BY <1>6, <1>7, <1>8, <1>9, <1>12, <1>13, <1>14, <2>1 DEF Owner, OneAtATime
<1>. QED
  BY <1>15, <1>16, <1>17, <1>18 DEF Owner

\* Message m waits for handle h, with those that do already.
Waits(h, m) ==
  /\ Len(handles') = Len(handles)
  /\ \A g \in 1..Len(handles) :
       /\ handles'[g].state = handles[g].state
       /\ g # h => handles'[g].waiting = handles[g].waiting
  /\ handles'[h].waiting = Append(handles[h].waiting, m)

LEMMA HandleWaits ==
  ASSUME TypeOK, NEW h \in 1..Len(handles), NEW m,
         handles' = [handles EXCEPT ![h].waiting = Append(@, m)]
  PROVE  Waits(h, m)
<1>1. handles \in Seq(Handles) /\ handles[h] \in Handles
  BY HandleFields DEF TypeOK
<1>2. /\ Len(handles') = Len(handles)
      /\ \A g \in 1..Len(handles) :
           handles'[g] = IF g = h THEN [handles[h] EXCEPT !.waiting = Append(@, m)]
                                  ELSE handles[g]
  BY <1>1
<1>3. DOMAIN handles[h] = {"proxy", "state", "waiting"}
  BY <1>1 DEF Handles
<1>4. /\ handles'[h].state = handles[h].state
      /\ handles'[h].waiting = Append(handles[h].waiting, m)
  BY <1>2, <1>3
<1>. QED
  BY <1>2, <1>4 DEF Waits

\* A call is sent to handle h, or waits for it.
LEMMA CallOwner ==
  ASSUME IInv, Owner, NEW h \in 1..Len(handles), NEW kind \in Kinds, NEW n \in Nat,
         SendTo(h, kind, n), UNCHANGED <<current, native, outbox, hasty>>
  PROVE  Owner'
<1>. DEFINE m == Message(kind, h, n)
<1>1. /\ inbox \in Seq(Messages) /\ handles \in Seq(Handles) /\ TypeOK
      /\ handles[h].waiting \in Seq(Messages)
  BY HandleFields DEF IInv, TypeOK
<1>2. /\ m \in Messages /\ m.kind = kind /\ m.kind # "init" /\ m.kind # "destroy"
  BY <1>1 DEF Message, Messages, ProxyKinds, Kinds
<1>3. CASE /\ handles[h].state = "open"
           /\ inbox' = Append(inbox, m)
           /\ UNCHANGED handles
  <2>1. /\ \A k, g : Among(inbox', k, g) <=> Among(inbox, k, g) \/ (m.kind = k /\ m.handle = g)
        /\ InOrder(inbox) => InOrder(inbox')
    BY <1>1, <1>2, <1>3, WithOneMore
  <2>2. NothingSaid
    BY <1>2, <2>1 DEF NothingSaid
  <2>. QED
    BY <1>3, <2>2, QuietOwner
<1>4. CASE /\ handles[h].state = "opening"
           /\ handles' = [handles EXCEPT ![h].waiting = Append(@, m)]
           /\ UNCHANGED inbox
  <2>1. Waits(h, m)
    BY <1>1, <1>4, HandleWaits
  <2>2. Closing(handles'[h].waiting) <=> Closing(handles[h].waiting)
    BY <1>1, <1>2, <2>1, WithOneMore DEF Waits
  <2>3. \A g \in 1..Len(handles) : Closing(handles'[g].waiting) <=> Closing(handles[g].waiting)
    BY <2>1, <2>2 DEF Waits
  <2>4. Told' /\ NotYet'
    BY <1>4, <2>1 DEF Waits, Owner, Told, NotYet
  <2>5. Cared'
    BY <1>4, <2>1, <2>3 DEF Waits, Owner, Cared
  <2>6. OneAtATime'
    BY <1>4, <2>1, <2>3 DEF Waits, Owner, OneAtATime
  <2>. QED
    BY <2>4, <2>5, <2>6 DEF Owner
<1>. QED
  BY <1>3, <1>4 DEF SendTo

LEMMA PauseOwner == ASSUME IInv, Owner, Pause PROVE Owner'
<1>. DEFINE h == current[repository]
            m == Message("destroy", h, None)
<1>1. /\ repository # None /\ h # None
      /\ current' = [current EXCEPT ![repository] = None]
      /\ SendTo(h, "destroy", None) \/ (handles[h].state = "failed" /\ UNCHANGED <<handles, inbox>>)
      /\ hasty' = (hasty \/ handles[h].state = "opening")
      /\ UNCHANGED <<native, outbox>>
  BY DEF Pause
<1>2. repository \in 1..Len(current) /\ h \in 1..Len(handles)
  BY <1>1, CurrentHandle
<1>3. /\ inbox \in Seq(Messages) /\ handles \in Seq(Handles) /\ current \in Seq(Nat) /\ TypeOK
      /\ handles[h].waiting \in Seq(Messages) /\ Len(current) \in Nat /\ Len(handles) \in Nat
  BY <1>2, HandleFields DEF IInv, TypeOK
<1>4. m \in Messages /\ m.kind = "destroy" /\ m.handle = h
  BY <1>2, <1>3 DEF Message, Messages, ProxyKinds, None
<1>5. /\ Len(current') = Len(current)
      /\ \A g : g # h /\ Held(current, g) => Held(current', g)
  BY <1>1, <1>2, <1>3 DEF Held
<1>6. Len(current) <= 1 /\ ~hasty /\ handles[h].state # "opening" =>
        \A g \in 1..Len(handles) : ~Among(inbox, "init", g)
  <2>. SUFFICES ASSUME Len(current) <= 1, ~hasty, handles[h].state # "opening",
                       NEW g \in 1..Len(handles), Among(inbox, "init", g)
                PROVE  FALSE
    OBVIOUS
  <2>1. Held(current, g)
    BY DEF Owner, OneAtATime
  <2>2. g = h
    BY <1>2, <1>3, <2>1 DEF Held
  <2>3. handles[g].state = "opening"
    BY DEF IInv, OpenedOnce, Among
  <2>. QED
    BY <2>2, <2>3
<1>7. ~hasty' => ~hasty /\ handles[h].state # "opening"
  BY <1>1, Zenon
<1>8. CASE /\ handles[h].state = "opening"
           /\ handles' = [handles EXCEPT ![h].waiting = Append(@, m)]
           /\ UNCHANGED inbox
  <2>. HIDE DEF h
  <2>1. Waits(h, m)
    BY <1>2, <1>3, <1>8, HandleWaits
  <2>2. Closing(handles'[h].waiting)
    BY <1>3, <1>4, <2>1, WithOneMore DEF Waits
  <2>3. Told' /\ NotYet'
    BY <1>1, <1>8, <2>1 DEF Waits, Owner, Told, NotYet
  <2>4. Cared'
    BY <1>1, <1>5, <1>8, <2>1, <2>2 DEF Waits, Owner, Cared
  <2>5. OneAtATime'
    BY <1>7, <1>8 DEF OneAtATime
  <2>. QED
    BY <2>3, <2>4, <2>5 DEF Owner
<1>9. CASE /\ handles[h].state = "open"
           /\ inbox' = Append(inbox, m)
           /\ UNCHANGED handles
  <2>. HIDE DEF h
  <2>1. /\ \A k, g : Among(inbox', k, g) <=> Among(inbox, k, g) \/ (m.kind = k /\ m.handle = g)
        /\ InOrder(inbox) /\ (\A g : ~Among(inbox, "init", g)) => InOrder(inbox')
    BY <1>3, <1>4, <1>9, WithOneMore
  <2>2. Told' /\ NotYet'
    BY <1>1, <1>4, <1>9, <2>1 DEF Owner, Told, NotYet
  <2>3. Cared'
    BY <1>1, <1>4, <1>5, <1>9, <2>1 DEF Owner, Cared
  <2>4. OneAtATime'
    <3>. SUFFICES ASSUME Len(current') <= 1, ~hasty'
                  PROVE  /\ \A g \in 1..Len(handles) : ~Among(inbox', "init", g)
                         /\ \A g \in 1..Len(handles) : ~Closing(handles[g].waiting)
                         /\ InOrder(inbox')
      BY <1>9 DEF OneAtATime
    <3>1. Len(current) <= 1 /\ ~hasty /\ \A g \in 1..Len(handles) : ~Among(inbox, "init", g)
      BY <1>5, <1>6, <1>7
    <3>2. \A g : Among(inbox, "init", g) => g \in 1..Len(handles)
      BY DEF Among, IInv, Addressed
    <3>. QED
      BY <1>4, <2>1, <3>1, <3>2 DEF Owner, OneAtATime
  <2>. QED
    BY <2>2, <2>3, <2>4 DEF Owner
<1>10. CASE handles[h].state = "failed" /\ UNCHANGED <<handles, inbox>>
  <2>. HIDE DEF h
  <2>1. Told' /\ NotYet'
    BY <1>1, <1>10 DEF Owner, Told, NotYet
  <2>2. Cared'
    BY <1>1, <1>5, <1>10 DEF Owner, Cared
  <2>3. OneAtATime'
    BY <1>5, <1>6, <1>7, <1>10 DEF Owner, OneAtATime
  <2>. QED
    BY <2>1, <2>2, <2>3 DEF Owner
<1>. QED
  BY <1>1, <1>8, <1>9, <1>10 DEF SendTo

\* The head of the queue is the only message that opens its repository, and
\* nobody has answered it.
LEMMA FromFileOwner == ASSUME IInv, Owner, FromFile PROVE Owner'
<1>. DEFINE h == Head(inbox).handle
<1>1. PICK ok \in BOOLEAN :
        /\ Answer("opened", ok)
        /\ native' = [native EXCEPT ![h] = IF ok THEN "alive" ELSE @]
  <2>1. native = [native EXCEPT ![h] = native[h]]
    BY DEF IInv, TypeOK
  <2>. QED
    BY <2>1 DEF FromFile
<1>. DEFINE a == [kind |-> "opened", handle |-> h, call |-> Head(inbox).call, ok |-> ok]
<1>2. /\ TypeOK /\ Take("init") /\ inbox \in Seq(Messages) /\ outbox \in Seq(Answers)
      /\ outbox' = Append(outbox, a) /\ inbox # << >> /\ inbox' = Tail(inbox)
      /\ UNCHANGED <<current, handles, hasty>>
  BY <1>1 DEF FromFile, AppUnchanged, IInv, TypeOK, Take, Answer
<1>3. /\ 1 \in 1..Len(inbox) /\ inbox[1] = Head(inbox)
      /\ inbox[1].kind = "init" /\ inbox[1].call \in Nat /\ inbox[1].handle \in Nat
      /\ \A i \in 1..Len(inbox') : i + 1 \in 1..Len(inbox) /\ inbox'[i] = inbox[i + 1]
      /\ Len(inbox') \in Nat
  BY <1>2, TakeMessage
<1>4. /\ h = inbox[1].handle /\ h \in 1..Len(handles) /\ handles[h].state = "opening"
      /\ \A j \in 1..Len(outbox) : outbox[j].kind = "opened" => outbox[j].handle # h
      /\ \A j \in 1..Len(inbox) : inbox[j].kind = "init" /\ inbox[j].handle = h => j = 1
  BY <1>3 DEF IInv, Addressed, OpenedOnce
<1>5. /\ \A k, g : Among(inbox, k, g) <=> Among(inbox', k, g) \/ (k = "init" /\ g = h)
      /\ InOrder(inbox) => InOrder(inbox')
  BY <1>2, <1>3, <1>4, WithoutTheFirst
<1>6. ~Among(inbox', "init", h)
  BY <1>3, <1>4 DEF Among
<1>7. ~Failing(outbox, h)
  BY <1>4 DEF Failing
<1>8. a \in Answers /\ a.kind = "opened" /\ a.handle = h /\ a.ok = ok
  BY <1>3, <1>4 DEF Answers
<1>. HIDE DEF a
<1>9. /\ \A k, g : Among(outbox', k, g) <=> Among(outbox, k, g) \/ (k = "opened" /\ g = h)
      /\ \A g : Failing(outbox', g) <=> Failing(outbox, g) \/ (g = h /\ ~ok)
  BY <1>2, <1>8, WithOneMore
<1>10. native[h] = "unborn"
  BY <1>4, <1>5 DEF Owner, NotYet
<1>11. /\ \A g : g # h => native'[g] = native[g]
       /\ native'[h] = IF ok THEN "alive" ELSE native[h]
  BY <1>1, <1>2, <1>4 DEF TypeOK
<1>. HIDE DEF h
<1>12. Told'
  BY <1>2, <1>5, <1>9 DEF Owner, Told
<1>13. NotYet'
  BY <1>2, <1>4, <1>5, <1>6, <1>7, <1>9, <1>10, <1>11 DEF Owner, NotYet
<1>14. Cared'
  <2>1. \A g : Among(inbox, "destroy", g) => Among(inbox', "destroy", g)
    BY <1>5
  <2>2. \A g : native'[g] # "destroyed" => native[g] # "destroyed"
    BY <1>10, <1>11
  <2>. QED
    BY <1>2, <2>1, <2>2 DEF Owner, Cared
<1>15. OneAtATime'
  BY <1>2, <1>5 DEF Owner, OneAtATime
<1>. QED
  BY <1>12, <1>13, <1>14, <1>15 DEF Owner

LEMMA DestroyOwner == ASSUME IInv, Owner, Destroy PROVE Owner'
<1>. DEFINE h == Head(inbox).handle
<1>1. /\ TypeOK /\ Take("destroy") /\ inbox \in Seq(Messages)
      /\ inbox # << >> /\ inbox' = Tail(inbox) /\ Head(inbox).kind = "destroy"
      /\ native' = [native EXCEPT ![h] = "destroyed"]
      /\ UNCHANGED <<current, handles, outbox, hasty>>
  BY DEF Destroy, AppUnchanged, IInv, TypeOK, Take
<1>2. 1 \in 1..Len(inbox) /\ inbox[1] = Head(inbox) /\ inbox[1].kind = "destroy"
  BY <1>1, TakeMessage
<1>3. h \in 1..Len(handles) /\ native[h] = "alive"
  BY <1>2 DEF IInv, Addressed, Found, ProxyKinds
<1>4. /\ \A k, g : Among(inbox, k, g) <=> Among(inbox', k, g) \/ (k = "destroy" /\ g = h)
      /\ InOrder(inbox) => InOrder(inbox')
  BY <1>1, WithoutTheFirst
<1>5. native'[h] = "destroyed" /\ \A g : g # h => native'[g] = native[g]
  BY <1>1, <1>3 DEF TypeOK
<1>. HIDE DEF h
<1>6. Told'
  BY <1>1, <1>4 DEF Owner, Told
<1>7. NotYet'
  BY <1>1, <1>3, <1>4, <1>5 DEF Owner, NotYet
<1>8. Cared'
  BY <1>1, <1>4, <1>5 DEF Owner, Cared
<1>9. OneAtATime'
  BY <1>1, <1>4 DEF Owner, OneAtATime
<1>. QED
  BY <1>6, <1>7, <1>8, <1>9 DEF Owner

\* The app learns how the opening of handle h ended; what waited for it is sent,
\* or forgotten.
LEMMA OpenedOwner == ASSUME IInv, Owner, Opened PROVE Owner'
<1>. DEFINE h == Head(outbox).handle
            m == handles[h].waiting
<1>1. /\ TypeOK /\ Receive("opened") /\ outbox \in Seq(Answers) /\ outbox # << >>
      /\ outbox' = Tail(outbox) /\ Head(outbox).kind = "opened"
      /\ UNCHANGED <<current, native, hasty>>
  BY Zenon DEF Opened, RestUnchanged, Receive, IInv, TypeOK
<1>2. 1 \in 1..Len(outbox) /\ outbox[1] = Head(outbox) /\ outbox[1].kind = "opened"
  BY <1>1, ReceiveAnswer
<1>3. h \in 1..Len(handles)
  BY <1>2 DEF IInv, Addressed
<1>4. m \in Seq(Messages) /\ inbox \in Seq(Messages)
  BY <1>1, <1>3, HandleFields DEF TypeOK
<1>5. /\ \A k, g : Among(outbox, k, g) <=> Among(outbox', k, g) \/ (k = "opened" /\ g = h)
      /\ \A g : Failing(outbox, g) <=> Failing(outbox', g) \/ (g = h /\ ~Head(outbox).ok)
  BY <1>1, WithoutTheFirst
<1>6. \A i \in 1..Len(m) : m[i].handle = h /\ m[i].kind \in ProxyKinds
  BY <1>3 DEF IInv, Addressed
<1>7. \A g : ~Among(m, "init", g)
  BY <1>6 DEF Among, ProxyKinds, Kinds
<1>8. Closing(m) => Among(m, "destroy", h)
  BY <1>6 DEF Among, Closing
<1>9. ~Closing(<< >>)
  BY DEF Closing
<1>10. GetsTo(h, "open") \/ (GetsTo(h, "failed") /\ ~Head(outbox).ok)
  BY Zenon DEF Opened, GetsTo
<1>11. PICK s \in {"open", "failed"} : GetsTo(h, s) /\ (s = "failed" => ~Head(outbox).ok)
  BY <1>10
<1>12. /\ Len(handles') = Len(handles)
       /\ handles'[h].state = s /\ handles'[h].waiting = << >>
       /\ \A g \in 1..Len(handles) : g # h => handles'[g] = handles[g]
  <2>1. handles \in Seq(Handles)
    BY <1>1 DEF TypeOK
  <2>. HIDE DEF h
  <2>. QED
    BY <1>3, <1>11, <2>1, HandleFields DEF Handles, GetsTo
<1>13. /\ \A g : Among(inbox', "init", g) <=> Among(inbox, "init", g)
       /\ \A g : Among(inbox, "destroy", g) => Among(inbox', "destroy", g)
       /\ s = "open" /\ Closing(m) => Among(inbox', "destroy", h)
       /\ InOrder(inbox) /\ ~Closing(m) => InOrder(inbox')
  <2>1. CASE s = "failed"
    <3>1. inbox' = inbox
      BY <1>11, <2>1 DEF GetsTo
    <3>. QED
      BY <2>1, <3>1
  <2>2. CASE s = "open"
    <3>1. inbox' = inbox \o m
      BY <1>11, <2>2 DEF GetsTo
    <3>. HIDE DEF m, h
    <3>2. /\ \A k, g : Among(inbox', k, g) <=> Among(inbox, k, g) \/ Among(m, k, g)
          /\ InOrder(inbox) /\ ~Closing(m) /\ (\A g : ~Among(m, "init", g)) => InOrder(inbox')
      BY <1>4, <3>1, WithOthers
    <3>. QED
      BY <1>7, <1>8, <3>2
  <2>. QED
    BY <2>1, <2>2
<1>14. s = "failed" => native[h] = "unborn"
  BY <1>3, <1>5, <1>11 DEF Owner, NotYet
<1>15. m = handles[h].waiting
  OBVIOUS
<1>. HIDE DEF h, m
<1>16. Told'
  BY <1>5, <1>12, <1>13 DEF Owner, Told
<1>17. NotYet'
  BY <1>1, <1>5, <1>12, <1>13, <1>14 DEF Owner, NotYet
<1>18. Cared'
  <2>. SUFFICES ASSUME NEW g \in 1..Len(handles), native[g] # "destroyed",
                       handles'[g].state # "failed"
                PROVE  \/ Held(current, g)
                       \/ Among(inbox', "destroy", g)
                       \/ Closing(handles'[g].waiting)
    BY <1>1, <1>12 DEF Cared
  <2>1. CASE g = h
    <3>1. s = "open" /\ handles[h].state # "failed"
      <4>1. handles[h].state = "opening"
        BY <1>2, <1>3 DEF IInv, OpenedOnce, h
      <4>. QED
        BY <1>12, <2>1, <4>1
    <3>. QED
      BY <1>3, <1>13, <1>15, <2>1, <3>1 DEF Owner, Cared
  <2>2. CASE g # h
    BY <1>12, <1>13, <2>2 DEF Owner, Cared
  <2>. QED
    BY <2>1, <2>2
<1>19. OneAtATime'
  <2>. SUFFICES ASSUME Len(current) <= 1, ~hasty
                PROVE  /\ \A g \in 1..Len(handles') : Among(inbox', "init", g) => Held(current, g)
                       /\ \A g \in 1..Len(handles') : ~Closing(handles'[g].waiting)
                       /\ InOrder(inbox')
    BY <1>1 DEF OneAtATime
  <2>1. /\ \A g \in 1..Len(handles) : Among(inbox, "init", g) => Held(current, g)
        /\ \A g \in 1..Len(handles) : ~Closing(handles[g].waiting)
        /\ InOrder(inbox)
    BY DEF Owner, OneAtATime
  <2>. QED
    BY <1>3, <1>9, <1>12, <1>13, <1>15, <2>1
<1>. QED
  BY <1>16, <1>17, <1>18, <1>19 DEF Owner

\* Messages and answers that open and close nothing come and go.
LEMMA TakenQuietly ==
  ASSUME TypeOK, NEW kind, Take(kind), kind \notin {"init", "destroy"},
         \/ UNCHANGED outbox
         \/ \E a \in {"address", "client", "answer"}, ok \in BOOLEAN : Answer(a, ok)
  PROVE  NothingSaid
<1>1. /\ inbox \in Seq(Messages) /\ inbox # << >> /\ inbox' = Tail(inbox)
      /\ Head(inbox).kind = kind /\ outbox \in Seq(Answers)
  BY DEF TypeOK, Take
<1>2. /\ \A k, g : Among(inbox, k, g) <=>
           Among(inbox', k, g) \/ (kind = k /\ Head(inbox).handle = g)
      /\ InOrder(inbox) => InOrder(inbox')
  BY <1>1, WithoutTheFirst
<1>3. /\ \A h : Among(outbox', "opened", h) <=> Among(outbox, "opened", h)
      /\ \A h : Failing(outbox', h) <=> Failing(outbox, h)
  <2>1. CASE UNCHANGED outbox
    BY <2>1
  <2>2. ASSUME NEW a \in {"address", "client", "answer"}, NEW ok \in BOOLEAN, Answer(a, ok)
        PROVE  /\ \A h : Among(outbox', "opened", h) <=> Among(outbox, "opened", h)
               /\ \A h : Failing(outbox', h) <=> Failing(outbox, h)
    <3>. DEFINE m == [kind |-> a, handle |-> Head(inbox).handle, call |-> Head(inbox).call,
                      ok |-> ok]
    <3>1. Head(inbox) \in Messages
      BY <1>1
    <3>2. m \in Answers /\ m.kind # "opened" /\ outbox' = Append(outbox, m)
      BY <2>2, <3>1 DEF Answer, Answers, Messages
    <3>. HIDE DEF m
    <3>. QED
      BY <1>1, <3>2, WithOneMore
  <2>. QED
    BY <2>1, <2>2
<1>. QED
  BY <1>2, <1>3 DEF NothingSaid

LEMMA ReceivedQuietly ==
  ASSUME TypeOK, NEW kind, Receive(kind), kind # "opened",
         \/ UNCHANGED inbox
         \/ \E a \in {"client", "sync"} :
              inbox' = Append(inbox, Message(a, Head(outbox).handle, Head(outbox).call))
  PROVE  NothingSaid
<1>1. /\ outbox \in Seq(Answers) /\ outbox # << >> /\ outbox' = Tail(outbox)
      /\ Head(outbox).kind = kind /\ inbox \in Seq(Messages)
  BY DEF TypeOK, Receive
<1>2. /\ \A h : Among(outbox', "opened", h) <=> Among(outbox, "opened", h)
      /\ \A h : Failing(outbox', h) <=> Failing(outbox, h)
  BY <1>1, WithoutTheFirst
<1>3. /\ \A h : Among(inbox', "init", h) <=> Among(inbox, "init", h)
      /\ \A h : Among(inbox', "destroy", h) <=> Among(inbox, "destroy", h)
      /\ InOrder(inbox) => InOrder(inbox')
  <2>1. CASE UNCHANGED inbox
    BY <2>1
  <2>2. ASSUME NEW a \in {"client", "sync"},
               inbox' = Append(inbox, Message(a, Head(outbox).handle, Head(outbox).call))
        PROVE  /\ \A h : Among(inbox', "init", h) <=> Among(inbox, "init", h)
               /\ \A h : Among(inbox', "destroy", h) <=> Among(inbox, "destroy", h)
               /\ InOrder(inbox) => InOrder(inbox')
    <3>. DEFINE m == Message(a, Head(outbox).handle, Head(outbox).call)
    <3>1. Head(outbox) \in Answers
      BY <1>1
    <3>2. m \in Messages /\ m.kind # "init" /\ m.kind # "destroy"
      BY <2>2, <3>1 DEF Message, Answers, Messages
    <3>. HIDE DEF m
    <3>3. inbox' = Append(inbox, m)
      BY <2>2 DEF m
    <3>. QED
      BY <1>1, <3>2, <3>3, WithOneMore
  <2>. QED
    BY <2>1, <2>2
<1>. QED
  BY <1>2, <1>3 DEF NothingSaid

LEMMA OwnerStarts == Init => Owner
<1>. SUFFICES ASSUME Init PROVE Owner
  OBVIOUS
<1>1. Len(handles) = 0 /\ Len(inbox) = 0 /\ handles = << >>
  BY DEF Init
<1>. QED
  BY <1>1 DEF Owner, Told, NotYet, Cared, OneAtATime, InOrder

LEMMA GotDirectoryOwner == ASSUME IInv, Owner, GotDirectory PROVE Owner'
<1>. DEFINE p == Len(current) + 1
            kind == Head(getting).kind
            n == Head(getting).call
<1>1. /\ getting \in Seq([kind : Kinds, call : Nat]) /\ getting # << >>
      /\ Open(p, kind, n)
      /\ current' = Append(current, Len(handles) + 1)
      /\ UNCHANGED <<outbox, hasty>>
      /\ current \in Seq(Nat) /\ Len(handles) + 1 \in Nat /\ Len(current) \in Nat
  BY DEF GotDirectory, IInv, TypeOK
<1>2. kind \in Kinds /\ n \in Nat
  <2>. DEFINE Calls == [kind : Kinds, call : Nat]
  <2>1. getting \in Seq(Calls) /\ getting # << >>
    BY <1>1
  <2>. HIDE DEF Calls
  <2>2. Head(getting) \in Calls
    BY <2>1
  <2>. QED
    BY <2>2 DEF Calls
<1>. HIDE DEF kind, n
<1>3. /\ current' \in Seq(Nat) /\ Len(current') = p
      /\ current'[p] = Len(handles) + 1
      /\ \A q \in 1..Len(current) : current'[q] = current[q]
  BY <1>1
<1>4. /\ p \in 1..Len(current') /\ Len(current) <= Len(current')
      /\ \A q \in 1..Len(current) : current[q] # None =>
           q # p /\ q \in 1..Len(current') /\ current'[q] = current[q]
  BY <1>1, <1>3
<1>. HIDE DEF p
<1>. QED
  BY <1>1, <1>2, <1>3, <1>4, OpenOwner

LEMMA CallRepositoryOwner ==
  ASSUME IInv, Owner, NEW kind \in Kinds, CallRepository(kind)
  PROVE  Owner'
<1>. DEFINE h == current[repository]
            n == Len(status) + 1
<1>1. repository # None /\ UNCHANGED <<outbox, hasty>>
  BY DEF CallRepository
<1>2. /\ repository \in 1..Len(current) /\ n \in Nat /\ current \in Seq(Nat)
      /\ Len(handles) + 1 \in Nat /\ Len(current) \in Nat
  BY <1>1 DEF IInv, TypeOK, None
<1>3. CASE h = None /\ Open(repository, kind, n)
           /\ current' = [current EXCEPT ![repository] = Len(handles) + 1]
  <2>1. /\ current' \in Seq(Nat) /\ Len(current') = Len(current)
        /\ current'[repository] = Len(handles) + 1
        /\ \A q \in 1..Len(current) : q # repository => current'[q] = current[q]
    BY <1>2, <1>3
  <2>2. /\ repository \in 1..Len(current') /\ Len(current) <= Len(current')
        /\ \A q \in 1..Len(current) : current[q] # None =>
             q # repository /\ q \in 1..Len(current') /\ current'[q] = current[q]
    BY <1>2, <1>3, <2>1
  <2>3. Open(repository, kind, n)
    BY <1>3
  <2>. HIDE DEF n
  <2>. QED
    BY <1>1, <1>2, <2>1, <2>2, <2>3, OpenOwner
<1>4. CASE h # None /\ SendTo(h, kind, n) /\ UNCHANGED <<current, native>>
  <2>1. h \in 1..Len(handles)
    BY <1>1, <1>4, CurrentHandle
  <2>. HIDE DEF h, n
  <2>. QED
    BY <1>1, <1>2, <1>4, <2>1, CallOwner
<1>5. CASE UNCHANGED <<current, handles, native, inbox>>
  <2>1. NothingSaid
    BY <1>1, <1>5 DEF NothingSaid
  <2>. QED
    BY <1>1, <1>5, <2>1, QuietOwner
<1>. QED
  BY <1>3, <1>4, <1>5 DEF CallRepository

LEMMA IsolateOwner == ASSUME IInv, Owner, Isolate PROVE Owner'
<1>1. TypeOK
  BY DEF IInv
<1>2. ASSUME NEW kind, Take(kind), kind \notin {"init", "destroy"}, AppUnchanged,
             UNCHANGED native,
             \/ UNCHANGED outbox
             \/ \E a \in {"address", "client", "answer"}, ok \in BOOLEAN : Answer(a, ok)
      PROVE  Owner'
  <2>1. NothingSaid
    BY <1>1, <1>2, TakenQuietly
  <2>. QED
    BY <1>2, <2>1, QuietOwner DEF AppUnchanged
<1>3. CASE FromFile
  BY <1>3, FromFileOwner
<1>4. CASE UseRepository
  BY <1>2, <1>4 DEF UseRepository
<1>5. CASE RepositoryAddress
  BY <1>2, <1>5 DEF RepositoryAddress
<1>6. CASE ClientAddress
  BY <1>2, <1>6 DEF ClientAddress
<1>7. CASE SyncRepository
  BY <1>2, <1>7 DEF SyncRepository
<1>8. CASE Destroy
  BY <1>8, DestroyOwner
<1>. QED
  BY <1>3, <1>4, <1>5, <1>6, <1>7, <1>8 DEF Isolate

LEMMA AppOwner == ASSUME IInv, Owner, App PROVE Owner'
<1>1. TypeOK
  BY DEF IInv
<1>2. ASSUME NEW kind, Receive(kind), kind # "opened", RestUnchanged, UNCHANGED handles,
             \/ UNCHANGED inbox
             \/ \E a \in {"client", "sync"} :
                  inbox' = Append(inbox, Message(a, Head(outbox).handle, Head(outbox).call))
      PROVE  Owner'
  <2>1. NothingSaid
    BY <1>1, <1>2, ReceivedQuietly
  <2>. QED
    BY <1>2, <2>1, QuietOwner DEF RestUnchanged
<1>3. CASE Opened
  BY <1>3, OpenedOwner
<1>4. CASE GotRepositoryAddress
  BY <1>2, <1>4 DEF GotRepositoryAddress
<1>5. CASE GotClientAddress
  BY <1>2, <1>5 DEF GotClientAddress
<1>6. CASE Answered
  BY <1>2, <1>6 DEF Answered
<1>. QED
  BY <1>3, <1>4, <1>5, <1>6 DEF App

LEMMA OwnerSteps == IInv /\ Owner /\ [Next]_vars => Owner'
<1>. SUFFICES ASSUME IInv, Owner, [Next]_vars PROVE Owner'
  OBVIOUS
<1>1. CASE GetDirectory
  BY <1>1, QuietOwner DEF GetDirectory, NothingSaid
<1>2. CASE GotDirectory
  BY <1>2, GotDirectoryOwner
<1>3. ASSUME NEW kind \in Kinds, CallRepository(kind) PROVE Owner'
  BY <1>3, CallRepositoryOwner
<1>4. CASE Pause
  BY <1>4, PauseOwner
<1>5. CASE Isolate
  BY <1>5, IsolateOwner
<1>6. CASE App
  BY <1>6, AppOwner
<1>7. CASE UNCHANGED vars
  BY <1>7, QuietOwner DEF vars, NothingSaid
<1>. QED
  BY <1>1, <1>2, <1>3, <1>4, <1>5, <1>6, <1>7 DEF Next

-------------------------------------------------------------------------------
(* The addresses that sync() is given.                                       *)

\* An address under way is that of a repository that was opened once.
Located ==
  /\ \A i \in 1..Len(inbox) :
       inbox[i].kind \in {"client", "sync"} => native[inbox[i].handle] # "unborn"
  /\ \A i \in 1..Len(outbox) :
       outbox[i].kind \in {"address", "client"} => native[outbox[i].handle] # "unborn"

\* What was opened stays so, and a new address is that of such a repository.
LEMMA LocatedStep ==
  ASSUME IInv, IInv', Located,
         \A h \in 1..Len(native) :
           h \in 1..Len(native') /\ (native[h] # "unborn" => native'[h] # "unborn"),
         \A i \in 1..Len(inbox') : inbox'[i].kind \in {"client", "sync"} =>
           \/ \E j \in 1..Len(inbox) : inbox'[i] = inbox[j]
           \/ /\ inbox'[i].handle \in 1..Len(native)
              /\ native[inbox'[i].handle] # "unborn",
         \A i \in 1..Len(outbox') : outbox'[i].kind \in {"address", "client"} =>
           \/ \E j \in 1..Len(outbox) : outbox'[i] = outbox[j]
           \/ /\ outbox'[i].handle \in 1..Len(native)
              /\ native[outbox'[i].handle] # "unborn"
  PROVE  Located'
<1>1. /\ \A i \in 1..Len(inbox) : inbox[i].handle \in 1..Len(native)
      /\ \A i \in 1..Len(outbox) : outbox[i].handle \in 1..Len(native)
  BY DEF IInv, Addressed, TypeOK
<1>2. ASSUME NEW i \in 1..Len(inbox'), inbox'[i].kind \in {"client", "sync"}
      PROVE  native'[inbox'[i].handle] # "unborn"
  BY <1>1, <1>2 DEF Located
<1>3. ASSUME NEW i \in 1..Len(outbox'), outbox'[i].kind \in {"address", "client"}
      PROVE  native'[outbox'[i].handle] # "unborn"
  BY <1>1, <1>3 DEF Located
<1>. QED
  BY <1>2, <1>3 DEF Located

\* Messages q' hold no address that q did not.
NoAddress(q, new, kinds) ==
  \A i \in 1..Len(new) : new[i].kind \in kinds => \E j \in 1..Len(q) : new[i] = q[j]

LEMMA Appended ==
  ASSUME NEW S, NEW q \in Seq(S), NEW e \in S, NEW kinds, e.kind \notin kinds
  PROVE  NoAddress(q, Append(q, e), kinds)
  BY DEF NoAddress

LEMMA Joins ==
  ASSUME NEW S, NEW q \in Seq(S), NEW w \in Seq(S), NEW kinds,
         \A i \in 1..Len(w) : w[i].kind \notin kinds
  PROVE  NoAddress(q, q \o w, kinds)
<1>1. Len(q \o w) = Len(q) + Len(w) /\ Len(q) \in Nat /\ Len(w) \in Nat
  OBVIOUS
<1>2. \A i \in 1..Len(q \o w) :
        \/ i \in 1..Len(q) /\ (q \o w)[i] = q[i]
        \/ i - Len(q) \in 1..Len(w) /\ (q \o w)[i] = w[i - Len(q)]
  BY <1>1
<1>. QED
  BY <1>2 DEF NoAddress

LEMMA TailOf ==
  ASSUME NEW S, NEW q \in Seq(S), q # << >>, NEW kinds
  PROVE  NoAddress(q, Tail(q), kinds)
  BY DEF NoAddress

LEMMA SameMessages ==
  ASSUME NEW q, NEW kinds
  PROVE  NoAddress(q, q, kinds)
  BY DEF NoAddress

LEMMA OpenLocates ==
  ASSUME IInv, IInv', Located, NEW p, NEW kind, NEW n \in Nat, Open(p, kind, n), UNCHANGED outbox
  PROVE  Located'
<1>. DEFINE m == Message("init", Len(handles) + 1, n)
<1>1. m \in Messages /\ m.kind = "init"
  BY DEF Message, Messages, IInv, TypeOK
<1>2. inbox \in Seq(Messages) /\ inbox' = Append(inbox, m)
  BY DEF Open, IInv, TypeOK
<1>. HIDE DEF m
<1>3. NoAddress(inbox, inbox', {"client", "sync"})
  BY <1>1, <1>2, Appended
<1>4. NoAddress(outbox, outbox', {"address", "client"})
  BY SameMessages
<1>5. \A h \in 1..Len(native) : h \in 1..Len(native') /\ native'[h] = native[h]
  BY DEF Open, IInv, TypeOK
<1>. QED
  BY <1>3, <1>4, <1>5, LocatedStep DEF NoAddress

\* A message through a proxy carries no address.
LEMMA SendLocates ==
  ASSUME IInv, IInv', Located, NEW h, NEW kind \in ProxyKinds, NEW n \in Nat,
         h \in Nat, SendTo(h, kind, n), UNCHANGED <<native, outbox>>
  PROVE  Located'
<1>1. NoAddress(outbox, outbox', {"address", "client"})
  BY SameMessages
<1>2. NoAddress(inbox, inbox', {"client", "sync"})
  <2>1. CASE UNCHANGED inbox
    BY <2>1, SameMessages
  <2>. DEFINE m == Message(kind, h, n)
  <2>2. CASE inbox' = Append(inbox, m)
    <3>1. m \in Messages /\ m.kind \notin {"client", "sync"}
      BY DEF Message, Messages, ProxyKinds, Kinds
    <3>2. inbox \in Seq(Messages)
      BY DEF IInv, TypeOK
    <3>. HIDE DEF m
    <3>. QED
      BY <2>2, <3>1, <3>2, Appended
  <2>. QED
    BY <2>1, <2>2 DEF SendTo
<1>. QED
  BY <1>1, <1>2, LocatedStep DEF NoAddress

LEMMA IsolateLocates == ASSUME IInv, IInv', Located, Isolate PROVE Located'
<1>1. TypeOK /\ Addressed
  BY DEF IInv
<1>2. inbox \in Seq(Messages) /\ inbox # << >> /\ inbox' = Tail(inbox) /\ outbox \in Seq(Answers)
  BY <1>1 DEF TypeOK, Isolate, FromFile, UseRepository, RepositoryAddress, ClientAddress,
              SyncRepository, Destroy, Take
<1>3. NoAddress(inbox, inbox', {"client", "sync"})
  BY <1>2, TailOf
<1>. DEFINE h == Head(inbox).handle
<1>4. /\ 1 \in 1..Len(inbox) /\ inbox[1] = Head(inbox)
      /\ h \in 1..Len(native) /\ Head(inbox).call \in Nat /\ h \in Nat
  <2>1. 1 \in 1..Len(inbox) /\ inbox[1] = Head(inbox) /\ Head(inbox) \in Messages
    BY <1>2
  <2>. QED
    BY <1>1, <2>1 DEF Addressed, TypeOK, Messages
<1>5. \A g \in 1..Len(native) :
        g \in 1..Len(native') /\ (native[g] # "unborn" => native'[g] # "unborn")
  <2>1. \/ native' = native
        \/ native' = [native EXCEPT ![h] = "alive"]
        \/ native' = [native EXCEPT ![h] = "destroyed"]
    BY Zenon DEF Isolate, FromFile, UseRepository, RepositoryAddress, ClientAddress,
                 SyncRepository, Destroy
  <2>2. native \in Seq({"unborn", "alive", "destroyed"})
    BY <1>1 DEF TypeOK
  <2>. HIDE DEF h
  <2>. QED
    BY <2>1, <2>2
<1>6. ASSUME NEW kind \in {"opened", "address", "client", "answer"}, NEW ok \in BOOLEAN,
             Answer(kind, ok),
             kind \in {"address", "client"} => native[h] # "unborn"
      PROVE  Located'
  <2>. DEFINE m == [kind |-> kind, handle |-> h, call |-> Head(inbox).call, ok |-> ok]
  <2>1. m \in Answers /\ m.kind = kind /\ m.handle = h
    BY <1>4 DEF Answers
  <2>2. outbox' = Append(outbox, m)
    BY <1>6 DEF Answer
  <2>. HIDE DEF m
  <2>3. \A i \in 1..Len(outbox') :
          outbox'[i] = m \/ \E j \in 1..Len(outbox) : outbox'[i] = outbox[j]
    BY <1>2, <2>1, <2>2
  <2>4. m.kind \in {"address", "client"} =>
          m.handle \in 1..Len(native) /\ native[m.handle] # "unborn"
    BY <1>4, <1>6, <2>1
  <2>5. \A i \in 1..Len(inbox') : inbox'[i].kind \in {"client", "sync"} =>
          \E j \in 1..Len(inbox) : inbox'[i] = inbox[j]
    BY <1>3 DEF NoAddress
  <2>6. \A i \in 1..Len(outbox') : outbox'[i].kind \in {"address", "client"} =>
          \/ \E j \in 1..Len(outbox) : outbox'[i] = outbox[j]
          \/ /\ outbox'[i].handle \in 1..Len(native)
             /\ native[outbox'[i].handle] # "unborn"
    BY <2>3, <2>4
  <2>. HIDE DEF h
  <2>. QED
    BY <1>5, <2>5, <2>6, LocatedStep
<1>7. CASE UNCHANGED outbox
  <2>1. NoAddress(outbox, outbox', {"address", "client"})
    BY <1>7, SameMessages
  <2>. QED
    BY <1>3, <1>5, <2>1, LocatedStep DEF NoAddress
<1>8. CASE FromFile
  BY <1>6, <1>8 DEF FromFile
<1>9. CASE UseRepository
  BY <1>6, <1>7, <1>9 DEF UseRepository
<1>10. CASE RepositoryAddress
  BY <1>6, <1>7, <1>10 DEF RepositoryAddress
<1>11. CASE ClientAddress
  <2>1. native[h] # "unborn"
    BY <1>4, <1>11 DEF ClientAddress, Take, Located
  <2>. QED
    BY <1>6, <1>11, <2>1 DEF ClientAddress
<1>12. CASE SyncRepository
  BY <1>6, <1>7, <1>12 DEF SyncRepository
<1>13. CASE Destroy
  BY <1>7, <1>13 DEF Destroy
<1>. QED
  BY <1>8, <1>9, <1>10, <1>11, <1>12, <1>13 DEF Isolate

LEMMA AppLocates == ASSUME IInv, IInv', Located, App PROVE Located'
<1>1. /\ TypeOK /\ Addressed /\ inbox \in Seq(Messages) /\ outbox \in Seq(Answers)
      /\ outbox # << >> /\ outbox' = Tail(outbox) /\ UNCHANGED native
  BY DEF IInv, TypeOK, App, Opened, GotRepositoryAddress, GotClientAddress, Answered,
         Receive, RestUnchanged
<1>2. NoAddress(outbox, outbox', {"address", "client"})
  BY <1>1, TailOf
<1>. DEFINE h == Head(outbox).handle
<1>3. 1 \in 1..Len(outbox) /\ outbox[1] = Head(outbox) /\ h \in 1..Len(native)
      /\ Head(outbox).call \in Nat /\ h \in 1..Len(handles) /\ h \in Nat
  <2>1. 1 \in 1..Len(outbox) /\ outbox[1] = Head(outbox) /\ Head(outbox) \in Answers
    BY <1>1
  <2>. QED
    BY <1>1, <2>1 DEF Addressed, TypeOK, Answers
<1>4. ASSUME NEW a \in {"client", "sync"}, Head(outbox).kind \in {"address", "client"},
             inbox' = Append(inbox, Message(a, h, Head(outbox).call))
      PROVE  Located'
  <2>1. native[h] # "unborn"
    BY <1>3, <1>4 DEF Located
  <2>. DEFINE m == Message(a, h, Head(outbox).call)
  <2>2. m \in Messages /\ m.handle = h
    BY <1>3 DEF Message, Messages
  <2>3. inbox' = Append(inbox, m)
    BY <1>4
  <2>. HIDE DEF m
  <2>4. \A i \in 1..Len(inbox') :
          inbox'[i] = m \/ \E j \in 1..Len(inbox) : inbox'[i] = inbox[j]
    BY <1>1, <2>2, <2>3
  <2>. HIDE DEF h
  <2>. QED
    BY <1>1, <1>2, <1>3, <2>1, <2>2, <2>4, LocatedStep DEF NoAddress
<1>5. ASSUME NoAddress(inbox, inbox', {"client", "sync"}) PROVE Located'
  BY <1>1, <1>2, <1>5, LocatedStep DEF NoAddress
<1>6. CASE Opened
  <2>1. CASE UNCHANGED inbox
    BY <1>5, <2>1, SameMessages
  <2>2. CASE inbox' = inbox \o handles[h].waiting
    <3>1. handles[h].waiting \in Seq(Messages)
      BY <1>1, <1>3, HandleFields
    <3>2. \A i \in 1..Len(handles[h].waiting) :
            handles[h].waiting[i].kind \notin {"client", "sync"}
      BY <1>1, <1>3 DEF Addressed, ProxyKinds, Kinds
    <3>. QED
      BY <1>1, <1>5, <2>2, <3>1, <3>2, Joins
  <2>. QED
    BY <1>6, <2>1, <2>2 DEF Opened
<1>7. CASE GotRepositoryAddress
  BY <1>4, <1>7 DEF GotRepositoryAddress, Receive
<1>8. CASE GotClientAddress
  BY <1>4, <1>8 DEF GotClientAddress, Receive
<1>9. CASE Answered
  BY <1>5, <1>9, SameMessages DEF Answered
<1>. QED
  BY <1>6, <1>7, <1>8, <1>9 DEF App

LEMMA LocatedStarts == Init => Located
  BY DEF Init, Located

LEMMA LocatedSteps == IInv /\ IInv' /\ Located /\ [Next]_vars => Located'
<1>. SUFFICES ASSUME IInv, IInv', Located, [Next]_vars PROVE Located'
  OBVIOUS
<1>1. ASSUME UNCHANGED <<inbox, outbox, native>> PROVE Located'
  BY <1>1 DEF Located
<1>2. CASE GetDirectory
  BY <1>1, <1>2 DEF GetDirectory
<1>3. CASE GotDirectory
  <2>1. Head(getting).call \in Nat
    <3>1. getting \in Seq([kind : Kinds, call : Nat]) /\ getting # << >>
      BY <1>3 DEF GotDirectory, IInv, TypeOK
    <3>2. \A S : getting \in Seq(S) /\ getting # << >> => Head(getting) \in S
      OBVIOUS
    <3>3. Head(getting) \in [kind : Kinds, call : Nat]
      BY <3>1, <3>2, Zenon
    <3>. QED
      BY <3>3
  <2>. QED
    BY <1>3, <2>1, OpenLocates DEF GotDirectory
<1>4. ASSUME NEW kind \in Kinds, CallRepository(kind) PROVE Located'
  <2>1. Len(status) + 1 \in Nat /\ (repository # None => current[repository] \in Nat)
    BY DEF IInv, TypeOK, None
  <2>. QED
    BY <1>1, <1>4, <2>1, OpenLocates, SendLocates DEF CallRepository, ProxyKinds
<1>5. CASE Pause
  <2>1. current[repository] \in Nat /\ None \in Nat /\ "destroy" \in ProxyKinds
    BY <1>5 DEF Pause, IInv, TypeOK, None, ProxyKinds
  <2>2. \/ SendTo(current[repository], "destroy", None)
        \/ UNCHANGED inbox
    BY <1>5 DEF Pause
  <2>. QED
    BY <1>1, <1>5, <2>1, <2>2, SendLocates DEF Pause
<1>6. CASE Isolate
  BY <1>6, IsolateLocates
<1>7. CASE App
  BY <1>7, AppLocates
<1>8. CASE UNCHANGED vars
  BY <1>1, <1>8 DEF vars
<1>. QED
  BY <1>2, <1>3, <1>4, <1>5, <1>6, <1>7, <1>8 DEF Next

-------------------------------------------------------------------------------
(* The results.                                                              *)

\* However calls and pauses interleave, a message that goes through a proxy finds
\* its repository open: the isolate never uses or destroys one that
\* flouze_sled_repository_destroy has freed (ClosableHandle.close,
\* IsolateProxy.call).  sync(), which is handed an address that was asked for earlier,
\* finds it too unless a pause has closed it in between (Sync._sync).
THEOREM CallsFind == Spec => []CallsFindRepository
<1>1. IInv /\ Located => CallsFindRepository
  <2>. SUFFICES ASSUME IInv, Located, inbox # << >>,
                       \/ Head(inbox).kind \in {"call", "address", "destroy"}
                       \/ Head(inbox).kind = "sync" /\ Head(inbox).handle \in Range(current)
                PROVE  native[Head(inbox).handle] = "alive"
    BY DEF CallsFindRepository
  <2>. DEFINE h == Head(inbox).handle
  <2>1. 1 \in 1..Len(inbox) /\ Head(inbox) = inbox[1] /\ h \in 1..Len(handles)
    BY DEF IInv, TypeOK, Addressed
  <2>2. CASE Head(inbox).kind \in {"call", "address", "destroy"}
    BY <2>1, <2>2 DEF IInv, Found, ProxyKinds, Kinds
  <2>3. CASE Head(inbox).kind = "sync" /\ h \in Range(current)
    <3>1. native[h] \in {"unborn", "alive", "destroyed"}
      BY <2>1 DEF IInv, TypeOK
    <3>2. native[h] # "unborn"
      BY <2>1, <2>3 DEF Located
    <3>3. PICK p \in 1..Len(current) : current[p] = h
      <4>1. current \in Seq(Nat) /\ DOMAIN current = 1..Len(current)
        BY DEF IInv, TypeOK
      <4>2. h \in Range(current)
        BY <2>3
      <4>. HIDE DEF h
      <4>. QED
        BY <4>1, <4>2, Zenon DEF Range
    <3>4. native[h] # "destroyed"
      BY <2>1, <3>3 DEF IInv, DestroyIsLast, None
    <3>. QED
      BY <3>1, <3>2, <3>4
  <2>. QED
    BY <2>2, <2>3
<1>. QED
  BY <1>1, StartsWell, StepsWell, LocatedStarts, LocatedSteps, PTL DEF Spec

\* As long as getRepository has made one proxy, and no pause closed its repository
\* while it was being opened, the isolate never opens a file that is still open:
\* closeRepository is through with it first.
THEOREM OpenedOneAtATime == Spec => []NeverOpenTwice
<1>1. IInv /\ Owner => NeverOpenTwice
  <2>. SUFFICES ASSUME IInv, Owner, Len(current) <= 1, ~hasty, inbox # << >>,
                       Head(inbox).kind = "init",
                       NEW g \in Alive
                PROVE  FALSE
    BY DEF NeverOpenTwice
  <2>. DEFINE h == Head(inbox).handle
  <2>1. 1 \in 1..Len(inbox) /\ Head(inbox) = inbox[1] /\ inbox[1].kind = "init"
    BY DEF IInv, TypeOK
  <2>2. g \in 1..Len(handles) /\ native[g] = "alive" /\ Len(current) \in Nat
    BY DEF Alive, IInv, TypeOK
  <2>3. h \in 1..Len(handles) /\ Among(inbox, "init", h)
    BY <2>1 DEF IInv, Addressed, Among
  <2>4. native[h] = "unborn" /\ Held(current, h) /\ InOrder(inbox)
    BY <2>3 DEF Owner, NotYet, OneAtATime
  <2>5. handles[g].state # "failed"
    BY <2>2 DEF Owner, NotYet
  <2>6. ~Among(inbox, "destroy", g)
    BY <2>1, <2>4 DEF Among, InOrder
  <2>7. Held(current, g)
    BY <2>2, <2>5, <2>6 DEF Owner, Cared, OneAtATime
  <2>8. g = h
    BY <2>2, <2>4, <2>7 DEF Held
  <2>. QED
    BY <2>2, <2>4, <2>8
<1>. QED
  BY <1>1, StartsWell, StepsWell, OwnerStarts, OwnerSteps, PTL DEF Spec

\* Once nothing is under way, every repository that is open is the one of a proxy's
\* present handle: ClosableHandle.close closes a repository for good, also one that was
\* still being opened and one whose calls were waiting.  (Of two proxies made by two
\* first calls, only the second one's handle is ever closed.)
THEOREM PausedIsClosed == Spec => []PauseCloses
<1>1. IInv /\ Owner => PauseCloses
  <2>. SUFFICES ASSUME IInv, Owner, inbox = << >>, outbox = << >>, NEW h \in Alive
                PROVE  h \in Range(current)
    BY DEF PauseCloses
  <2>1. h \in 1..Len(handles) /\ native[h] = "alive" /\ current \in Seq(Nat)
    BY DEF Alive, IInv, TypeOK
  <2>2. \A k, g : ~Among(inbox, k, g) /\ ~Among(outbox, k, g)
    BY DEF Among
  <2>3. handles[h].state # "failed" /\ handles[h].state # "opening"
    BY <2>1, <2>2 DEF Owner, NotYet, Told
  <2>4. ~Closing(handles[h].waiting)
    BY <2>1, <2>3 DEF IInv, WaitsUntilOpen, Closing
  <2>5. Held(current, h)
    BY <2>1, <2>2, <2>3, <2>4 DEF Owner, Cared
  <2>. QED
    BY <2>1, <2>5 DEF Held, Range
<1>. QED
  BY <1>1, StartsWell, StepsWell, OwnerStarts, OwnerSteps, PTL DEF Spec
===============================================================================
