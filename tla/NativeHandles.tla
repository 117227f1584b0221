----------------------------- MODULE NativeHandles ----------------------------
(* How the phone opens, calls and closes its repository: getRepository and    *)
(* closeRepository (mobile/lib/utils/services.dart), ClosableHandle and       *)
(* IsolateProxy (flouze_flutter/lib), and the native functions behind them    *)
(* (flouze_flutter/rust).                                                     *)
(*                                                                            *)
(* One isolate takes all messages in turn.  A proxy opens its repository when *)
(* it is called, and again when it is called after it was closed; calls wait  *)
(* for that.  sync() takes the address of the repository, asks for the one of *)
(* the client and then sends both: it does not go through the proxy.          *)
EXTENDS Naturals, Sequences, SequencesExt

CONSTANTS
  Locks,       \* TRUE: sled refuses to open a file that is open (it depends on the OS)
  MaxCalls,    \* bound: calls that the app makes
  MaxPauses,   \* bound: times the app is paused
  MaxFailures  \* bound: times the file cannot be opened for another reason

ASSUME ConstantsAssumption ==
  /\ Locks \in BOOLEAN
  /\ {MaxCalls, MaxPauses, MaxFailures} \subseteq Nat

\* None of a kind: no proxy, no handle.
None == 0

VARIABLES
  repository, \* _repository, the last proxy that getRepository has made
  getting,    \* calls that wait for the documents directory, in order
  current,    \* current[p]: the handle of proxy p
  handles,    \* every handle: its proxy, how far it is, the messages waiting for it
  native,     \* native[h]: the repository behind handle h
  inbox,      \* messages to the isolate
  outbox,     \* its answers
  status,     \* status[n]: what has become of the n-th call of the app
  pauses,
  failures,
  hasty,      \* history: a repository was closed while it was being opened
  lost        \* a use of freed memory has hung the isolate or crashed the app

vars == <<repository, getting, current, handles, native, inbox, outbox, status,
          pauses, failures, hasty, lost>>

Init ==
  /\ repository = None
  /\ getting = << >>
  /\ current = << >>
  /\ handles = << >>
  /\ native = << >>
  /\ inbox = << >>
  /\ outbox = << >>
  /\ status = << >>
  /\ pauses = 0
  /\ failures = 0
  /\ hasty = FALSE
  /\ lost = FALSE

\* A message about handle h, for the n-th call of the app.
Message(kind, h, n) == [kind |-> kind, handle |-> h, call |-> n]

-------------------------------------------------------------------------------
(* The app.                                                                  *)

\* ClosableHandle.ptr: proxy p has no handle, so one is made.  The message for it
\* waits until it is open.
Open(p, kind, n) ==
  LET h == Len(handles) + 1
  IN  /\ handles' = Append(handles, [proxy |-> p, state |-> "opening",
                                     waiting |-> <<Message(kind, h, n)>>])
      /\ native' = Append(native, "unborn")
      /\ inbox' = Append(inbox, Message("init", h, n))

\* Mutant: a message to a handle that is not open yet is forgotten.
SendTo_Forgotten(h, kind, n) ==
  \/ /\ handles[h].state = "opening"
     /\ UNCHANGED <<handles, inbox>>
  \/ /\ handles[h].state = "open"
     /\ inbox' = Append(inbox, Message(kind, h, n))
     /\ UNCHANGED handles

\* The port of handle h is there, or will be.
SendTo(h, kind, n) ==
  \/ /\ handles[h].state = "opening"
     /\ handles' = [handles EXCEPT ![h].waiting = Append(@, Message(kind, h, n))]
     /\ UNCHANGED inbox
  \/ /\ handles[h].state = "open"
     /\ inbox' = Append(inbox, Message(kind, h, n))
     /\ UNCHANGED handles

\* What the app asks for first: a call of the repository, or its address.
Kinds == {"call", "address"}

\* The first calls find no proxy and ask where the documents are.
GetDirectory ==
  /\ Len(status) < MaxCalls
  /\ repository = None
  /\ status' = Append(status, "asked")
  /\ \E kind \in Kinds :
       getting' = Append(getting, [kind |-> kind, call |-> Len(status) + 1])
  /\ UNCHANGED <<repository, current, handles, native, inbox, outbox, pauses, failures,
                 hasty, lost>>

\* getRepository has waited: it makes a proxy, also when there is one by now.
GotDirectory ==
  /\ getting # << >>
  /\ getting' = Tail(getting)
  /\ repository' = Len(current) + 1
  /\ current' = Append(current, Len(handles) + 1)
  /\ Open(repository', Head(getting).kind, Head(getting).call)
  /\ UNCHANGED <<outbox, status, pauses, failures, hasty, lost>>

\* A call through the proxy that getRepository has made.
CallRepository(kind) ==
  LET h == current[repository]
      n == Len(status) + 1
  IN  /\ n <= MaxCalls
      /\ repository # None
      /\ \/ /\ h = None
            /\ Open(repository, kind, n)
            /\ current' = [current EXCEPT ![repository] = Len(handles) + 1]
            /\ status' = Append(status, "asked")
         \/ /\ h # None
            /\ SendTo(h, kind, n)
            /\ status' = Append(status, "asked")
            /\ UNCHANGED <<current, native>>
         \/ /\ h # None
            /\ handles[h].state = "failed"
            /\ status' = Append(status, "failed")
            /\ UNCHANGED <<current, handles, native, inbox>>
      /\ UNCHANGED <<repository, getting, outbox, pauses, failures, hasty, lost>>

\* Mutant: the native repository is left open.
Pause_LeavesOpen ==
  /\ pauses < MaxPauses
  /\ pauses' = pauses + 1
  /\ repository # None
  /\ current[repository] # None
  /\ current' = [current EXCEPT ![repository] = None]
  /\ UNCHANGED <<repository, getting, handles, inbox, native, outbox, status, failures, hasty,
                 lost>>

\* The app is paused: closeRepository, ClosableHandle.close.  What is waiting or
\* under way goes on.
Pause ==
  LET h == current[repository]
  IN  /\ pauses < MaxPauses
      /\ pauses' = pauses + 1
      /\ repository # None
      /\ h # None
      /\ current' = [current EXCEPT ![repository] = None]
      /\ \/ SendTo(h, "destroy", None)
         \/ handles[h].state = "failed" /\ UNCHANGED <<handles, inbox>>
      /\ hasty' = (hasty \/ handles[h].state = "opening")
      /\ UNCHANGED <<repository, getting, native, outbox, status, failures, lost>>

-------------------------------------------------------------------------------
(* The isolate takes a message, if it still does.                            *)

Take(kind) ==
  /\ ~lost
  /\ inbox # << >>
  /\ Head(inbox).kind = kind
  /\ inbox' = Tail(inbox)

Answer(kind, ok) ==
  outbox' = Append(outbox, [kind |-> kind, handle |-> Head(inbox).handle,
                            call |-> Head(inbox).call, ok |-> ok])

AppUnchanged ==
  UNCHANGED <<repository, getting, current, handles, status, pauses, hasty>>

\* The repositories that are open.
Alive == {h \in DOMAIN native : native[h] = "alive"}

\* flouze_sled_repository_from_file: a pointer that nobody else has, or an error.
FromFile ==
  /\ Take("init")
  /\ \/ /\ Locks => Alive = {}
        /\ native' = [native EXCEPT ![Head(inbox).handle] = "alive"]
        /\ Answer("opened", TRUE)
        /\ UNCHANGED failures
     \/ /\ Locks /\ Alive # {}
        /\ Answer("opened", FALSE)
        /\ UNCHANGED <<native, failures>>
     \/ /\ failures < MaxFailures
        /\ failures' = failures + 1
        /\ Answer("opened", FALSE)
        /\ UNCHANGED native
  /\ UNCHANGED lost /\ AppUnchanged

\* The functions that use a repository succeed or forward an error.  A port that
\* was closed answers nothing.
UseRepository ==
  /\ Take("call")
  /\ IF native[Head(inbox).handle] = "alive"
       THEN \E ok \in BOOLEAN : Answer("answer", ok)
       ELSE UNCHANGED outbox
  /\ UNCHANGED <<native, failures, lost>> /\ AppUnchanged

\* getNativePointer of the repository.
RepositoryAddress ==
  /\ Take("address")
  /\ IF native[Head(inbox).handle] = "alive"
       THEN Answer("address", TRUE)
       ELSE UNCHANGED outbox
  /\ UNCHANGED <<native, failures, lost>> /\ AppUnchanged

\* getNativePointer of the client, which nobody closes.
ClientAddress ==
  /\ Take("client")
  /\ Answer("client", TRUE)
  /\ UNCHANGED <<native, failures, lost>> /\ AppUnchanged

\* flouze_sync_sync and flouze_sync_clone_remote use the address they are given.
\* Behind that of a repository destroyed since is freed memory: the call succeeds
\* or fails, or never answers.
SyncRepository ==
  /\ Take("sync")
  /\ \/ (\E ok \in BOOLEAN : Answer("answer", ok)) /\ UNCHANGED lost
     \/ /\ native[Head(inbox).handle] # "alive"
        /\ lost' = TRUE
        /\ UNCHANGED outbox
  /\ UNCHANGED <<native, failures>> /\ AppUnchanged

\* flouze_sled_repository_destroy; then the port is closed.
Destroy ==
  /\ Take("destroy")
  /\ native' = [native EXCEPT ![Head(inbox).handle] = "destroyed"]
  /\ UNCHANGED <<outbox, failures, lost>> /\ AppUnchanged

Isolate ==
  \/ FromFile
  \/ UseRepository
  \/ RepositoryAddress
  \/ ClientAddress
  \/ SyncRepository
  \/ Destroy

-------------------------------------------------------------------------------
(* The app takes an answer.                                                  *)

Receive(kind) ==
  /\ outbox # << >>
  /\ Head(outbox).kind = kind
  /\ outbox' = Tail(outbox)

RestUnchanged ==
  UNCHANGED <<repository, getting, current, native, pauses, failures, hasty, lost>>

\* Mutant: an error reaches nobody.
Opened_ErrorLost ==
  LET h == Head(outbox).handle
  IN  /\ Receive("opened")
      /\ handles' = [handles EXCEPT ![h].state = IF Head(outbox).ok THEN "open" ELSE "failed",
                                    ![h].waiting = << >>]
      /\ inbox' = IF Head(outbox).ok THEN inbox \o handles[h].waiting ELSE inbox
      /\ UNCHANGED status /\ RestUnchanged

\* Mutant: what waits is sent last come, first served.
Opened_LastFirst ==
  LET h == Head(outbox).handle
  IN  /\ Receive("opened")
      /\ Head(outbox).ok
      /\ handles' = [handles EXCEPT ![h].state = "open", ![h].waiting = << >>]
      /\ inbox' = inbox \o Reverse(handles[h].waiting)
      /\ UNCHANGED status /\ RestUnchanged

\* The future of handle h completes: what waits for it is sent, or fails.
Opened ==
  LET h == Head(outbox).handle
      m == handles[h].waiting
  IN  /\ Receive("opened")
      /\ \/ /\ Head(outbox).ok
            /\ handles' = [handles EXCEPT ![h].state = "open", ![h].waiting = << >>]
            /\ inbox' = inbox \o m
            /\ UNCHANGED status
         \/ /\ ~Head(outbox).ok
            /\ handles' = [handles EXCEPT ![h].state = "failed", ![h].waiting = << >>]
            /\ status' = [n \in DOMAIN status |->
                            IF \E i \in DOMAIN m : m[i].call = n THEN "failed" ELSE status[n]]
            /\ UNCHANGED inbox
      /\ RestUnchanged

\* _sync and _cloneRemote have one address and ask for the other.
GotRepositoryAddress ==
  /\ Receive("address")
  /\ inbox' = Append(inbox, Message("client", Head(outbox).handle, Head(outbox).call))
  /\ UNCHANGED <<handles, status>> /\ RestUnchanged

\* They have both and send them.
GotClientAddress ==
  /\ Receive("client")
  /\ inbox' = Append(inbox, Message("sync", Head(outbox).handle, Head(outbox).call))
  /\ UNCHANGED <<handles, status>> /\ RestUnchanged

Answered ==
  /\ Receive("answer")
  /\ status' = [status EXCEPT ![Head(outbox).call] =
                  IF Head(outbox).ok THEN "done" ELSE "failed"]
  /\ UNCHANGED <<handles, inbox>> /\ RestUnchanged

App == Opened \/ GotRepositoryAddress \/ GotClientAddress \/ Answered

-------------------------------------------------------------------------------

Next ==
  \/ GetDirectory
  \/ GotDirectory
  \/ \E kind \in Kinds : CallRepository(kind)
  \/ Pause
  \/ Isolate
  \/ App

Spec == Init /\ [][Next]_vars

\* The isolate goes on taking messages until it is lost, and the app taking answers.
Fairness == WF_vars(GotDirectory) /\ WF_vars(Isolate) /\ WF_vars(App)

FairSpec == Spec /\ Fairness

-------------------------------------------------------------------------------
(* Properties.                                                               *)

\* A message that goes through the proxy finds its repository open, and nobody
\* closes one twice: whatever is called before a pause arrives before the
\* repository is destroyed, whatever is called after it goes to another one.  The
\* address that sync() was given is that of an open repository as long as no pause
\* has taken the handle from its proxy, however many answers it waited for in
\* between.  (ClosableHandle.close, IsolateProxy.call, Sync._sync.)
CallsFindRepository ==
  inbox # << >> =>
    LET m == Head(inbox)
    IN  \/ m.kind \in {"call", "address", "destroy"}
        \/ m.kind = "sync" /\ m.handle \in Range(current)
        => native[m.handle] = "alive"

\* Nobody opens the file while it is open, unless the first two calls made a
\* proxy each or the app was paused while the file was being opened.
\* (getRepository, closeRepository.)
NeverOpenTwice ==
  Len(current) <= 1 /\ ~hasty =>
    (inbox # << >> /\ Head(inbox).kind = "init" => Alive = {})

\* Once everything under way has ended, only the repositories of present handles are
\* open: a pause closes one for good, also a pause while it was being opened.
\* (ClosableHandle.close.)
PauseCloses ==
  inbox = << >> /\ outbox = << >> =>
    Alive \subseteq Range(current)

\* Every call of the app ends, with an answer or an error, however the pauses fall,
\* unless a sync() that a pause has overtaken used freed memory and took the
\* isolate, and every call after it, with it.  (IsolateProxy.call, Sync._sync.)
CallsEnd ==
  \A n \in 1..MaxCalls :
    (n \in DOMAIN status /\ status[n] = "asked")
      ~> (n \in DOMAIN status /\ status[n] # "asked") \/ lost
===============================================================================
