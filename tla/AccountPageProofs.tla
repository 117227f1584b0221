--------------------------- MODULE AccountPageProofs --------------------------
(* Theorems about AccountPage, for any bounds: whatever the page, its user,   *)
(* the isolate and the other devices do, and however long it goes on.         *)
EXTENDS AccountPage, SyncCallProofs

-------------------------------------------------------------------------------
(* Queues of messages.                                                       *)

IsMessage(m) ==
  m = [op |-> m.op, tx |-> m.tx, txs |-> m.txs, ok |-> m.ok, mine |-> m.mine]

IsQueue(q) ==
  /\ q \in Seq(Range(q))
  /\ \A i \in 1..Len(q) : IsMessage(q[i])

\* Queue r is q without its first message, q with message m at its end, q when its
\* page has gone.
IsTail(q, r) ==
  /\ IsQueue(r)
  /\ Len(q) \in Nat /\ Len(q) > 0 /\ Len(r) = Len(q) - 1
  /\ \A i \in 1..Len(r) : i + 1 \in 1..Len(q) /\ r[i] = q[i + 1]

IsAppended(q, m, r) ==
  /\ IsQueue(r)
  /\ Len(q) \in Nat /\ Len(r) = Len(q) + 1
  /\ \A i \in 1..Len(q) : r[i] = q[i]
  /\ r[Len(q) + 1] = m

IsOrphaned(q, r) ==
  /\ IsQueue(r)
  /\ Len(q) \in Nat /\ Len(r) = Len(q)
  /\ \A i \in 1..Len(q) : r[i].op = q[i].op /\ r[i].tx = q[i].tx /\ ~r[i].mine

LEMMA QueueOf ==
  ASSUME NEW S, NEW q \in Seq(S), \A i \in 1..Len(q) : IsMessage(q[i])
  PROVE  IsQueue(q)
  BY SeqOfRange DEF IsQueue

LEMMA TailOf ==
  ASSUME NEW q, IsQueue(q), q # << >>
  PROVE  /\ IsTail(q, Tail(q)) /\ IsMessage(Head(q)) /\ Head(q) = q[1]
         /\ 1 \in 1..Len(q)
  <1> DEFINE S == Range(q)
             r == Tail(q)
  <1>1. q \in Seq(S) /\ \A i \in 1..Len(q) : IsMessage(q[i])
    BY DEF IsQueue
  <1> HIDE DEF S
  <1>2. /\ Len(q) \in Nat /\ Len(q) > 0 /\ Head(q) = q[1] /\ 1 \in 1..Len(q)
        /\ r \in Seq(S) /\ Len(r) = Len(q) - 1
        /\ \A i \in 1..Len(r) : i + 1 \in 1..Len(q) /\ r[i] = q[i + 1]
    BY <1>1
  <1> HIDE DEF r
  <1>3. IsQueue(r)
    BY <1>1, <1>2, QueueOf
  <1> QED BY <1>1, <1>2, <1>3 DEF IsTail, r

LEMMA AppendedTo ==
  ASSUME NEW q, IsQueue(q), NEW m, IsMessage(m)
  PROVE  IsAppended(q, m, Append(q, m))
  <1> DEFINE S == Range(q) \cup {m}
             r == Append(q, m)
  <1>1. q \in Seq(S) /\ \A i \in 1..Len(q) : IsMessage(q[i])
    <2>1. q \in Seq(Range(q)) /\ \A i \in 1..Len(q) : IsMessage(q[i])
      BY DEF IsQueue
    <2> QED BY <2>1, SeqMonotonic
  <1>2. m \in S
    OBVIOUS
  <1> HIDE DEF S
  <1>3. /\ Len(q) \in Nat /\ r \in Seq(S) /\ Len(r) = Len(q) + 1
        /\ \A i \in 1..Len(q) : r[i] = q[i]
        /\ r[Len(q) + 1] = m
    BY <1>1, <1>2
  <1> HIDE DEF r
  <1>4. \A i \in 1..Len(r) : i \in 1..Len(q) \/ i = Len(q) + 1
    BY <1>3
  <1>5. IsQueue(r)
    BY <1>1, <1>3, <1>4, QueueOf
  <1> QED BY <1>3, <1>5 DEF IsAppended, r

LEMMA OrphansOf ==
  ASSUME NEW q, IsQueue(q)
  PROVE  IsOrphaned(q, Orphans(q))
  <1> DEFINE r == Orphans(q)
  <1>1. /\ Len(q) \in Nat /\ DOMAIN q = 1..Len(q)
        /\ \A i \in 1..Len(q) : IsMessage(q[i])
    BY LenProperties DEF IsQueue
  <1>2. r = [i \in 1..Len(q) |-> [q[i] EXCEPT !.mine = FALSE]]
    BY <1>1 DEF Orphans
  <1>3. ASSUME NEW m, IsMessage(m), NEW n, n = [m EXCEPT !.mine = FALSE]
        PROVE  IsMessage(n) /\ n.op = m.op /\ n.tx = m.tx /\ n.mine = FALSE
    <2>1. n = [op |-> m.op, tx |-> m.tx, txs |-> m.txs, ok |-> m.ok, mine |-> FALSE]
      BY <1>3 DEF IsMessage
    <2> QED BY <2>1 DEF IsMessage
  <1> HIDE DEF r
  <1>4. ASSUME NEW i \in 1..Len(q)
        PROVE  IsMessage(r[i]) /\ r[i].op = q[i].op /\ r[i].tx = q[i].tx /\ r[i].mine = FALSE
    <2>1. r[i] = [q[i] EXCEPT !.mine = FALSE] /\ IsMessage(q[i])
      BY <1>1, <1>2
    <2> QED BY <1>3, <2>1
  <1>5. r \in Seq(Range(r)) /\ Len(r) = Len(q)
    <2>1. \A i \in 1..Len(q) : r[i] \in Range(r)
      BY <1>2 DEF Range
    <2>2. r = [i \in 1..Len(q) |-> r[i]]
      BY <1>2
    <2> QED BY <1>1, <2>1, <2>2, IsASeq, LenProperties
  <1> QED BY <1>1, <1>4, <1>5 DEF IsQueue, IsOrphaned, r

LEMMA AppendTwo ==
  ASSUME NEW q, IsQueue(q), NEW m, NEW n
  PROVE  q \o <<m, n>> = Append(Append(q, m), n)
  <1> DEFINE S == Range(q) \cup {m, n}
  <1>1. q \in Seq(S) /\ m \in S /\ n \in S
    <2>1. q \in Seq(Range(q))
      BY DEF IsQueue
    <2> QED BY <2>1, SeqMonotonic
  <1> HIDE DEF S
  <1> QED BY <1>1

-------------------------------------------------------------------------------
(* What is under way.                                                        *)

IsMine(m, op) == m.op = op /\ m.mine

\* The page waits for a call of this kind, in this queue.
Awaits(q, op) == \E i \in 1..Len(q) : IsMine(q[i], op)

\* The last of its kind in the queue is about transactions txs.
NewestIs(q, op, txs) ==
  \E i \in 1..Len(q) :
    /\ IsMine(q[i], op) /\ q[i].ok /\ q[i].txs = txs
    /\ \A j \in 1..Len(q) : j > i => ~IsMine(q[j], op)

LEMMA AwaitsAppended ==
  ASSUME NEW q, NEW m, NEW r, IsAppended(q, m, r), NEW op
  PROVE  Awaits(r, op) <=> Awaits(q, op) \/ IsMine(m, op)
  <1>1. /\ Len(q) \in Nat /\ Len(r) = Len(q) + 1
        /\ \A i \in 1..Len(q) : i \in 1..Len(r) /\ r[i] = q[i]
        /\ Len(q) + 1 \in 1..Len(r) /\ r[Len(q) + 1] = m
        /\ \A i \in 1..Len(r) : i \in 1..Len(q) \/ i = Len(q) + 1
    BY DEF IsAppended
  <1> QED BY <1>1 DEF Awaits

LEMMA NewestAppended ==
  ASSUME NEW q, NEW m, NEW r, IsAppended(q, m, r), NEW op, NEW txs
  PROVE  /\ IsMine(m, op) /\ m.ok /\ m.txs = txs => NewestIs(r, op, txs)
         /\ ~IsMine(m, op) /\ NewestIs(q, op, txs) => NewestIs(r, op, txs)
  <1>1. /\ Len(q) \in Nat /\ Len(r) = Len(q) + 1
        /\ \A i \in 1..Len(q) : i \in 1..Len(r) /\ r[i] = q[i]
        /\ Len(q) + 1 \in 1..Len(r) /\ r[Len(q) + 1] = m
        /\ \A i \in 1..Len(r) : i \in 1..Len(q) \/ i = Len(q) + 1
        /\ \A i \in 1..Len(r) : ~(i > Len(q) + 1)
    BY DEF IsAppended
  <1>2. IsMine(m, op) /\ m.ok /\ m.txs = txs => NewestIs(r, op, txs)
    BY <1>1 DEF NewestIs
  <1>3. ASSUME ~IsMine(m, op), NewestIs(q, op, txs) PROVE NewestIs(r, op, txs)
    <2>1. PICK i \in 1..Len(q) :
            /\ IsMine(q[i], op) /\ q[i].ok /\ q[i].txs = txs
            /\ \A j \in 1..Len(q) : j > i => ~IsMine(q[j], op)
      BY <1>3 DEF NewestIs
    <2>2. \A j \in 1..Len(r) : j > i => ~IsMine(r[j], op)
      BY <1>1, <1>3, <2>1
    <2> QED BY <1>1, <2>1, <2>2 DEF NewestIs
  <1> QED BY <1>2, <1>3

LEMMA AwaitsTail ==
  ASSUME NEW q, NEW r, IsTail(q, r), NEW op
  PROVE  /\ Awaits(q, op) <=> Awaits(r, op) \/ IsMine(q[1], op)
  <1>1. /\ Len(q) \in Nat /\ Len(q) > 0 /\ Len(r) = Len(q) - 1 /\ 1 \in 1..Len(q)
        /\ \A i \in 1..Len(r) : i + 1 \in 1..Len(q) /\ r[i] = q[i + 1]
    BY DEF IsTail
  <1>2. \A i \in 1..Len(q) : i = 1 \/ (i - 1 \in 1..Len(r) /\ r[i - 1] = q[i])
    BY <1>1
  <1> QED BY <1>1, <1>2 DEF Awaits

LEMMA NewestTail ==
  ASSUME NEW q, NEW r, IsTail(q, r), NEW op, NEW txs, NewestIs(q, op, txs)
  PROVE  \/ NewestIs(r, op, txs)
         \/ IsMine(q[1], op) /\ q[1].ok /\ q[1].txs = txs /\ ~Awaits(r, op)
  <1>1. /\ Len(q) \in Nat /\ Len(q) > 0 /\ Len(r) = Len(q) - 1 /\ 1 \in 1..Len(q)
        /\ \A i \in 1..Len(r) : i + 1 \in 1..Len(q) /\ r[i] = q[i + 1]
    BY DEF IsTail
  <1>2. PICK i \in 1..Len(q) :
          /\ IsMine(q[i], op) /\ q[i].ok /\ q[i].txs = txs
          /\ \A j \in 1..Len(q) : j > i => ~IsMine(q[j], op)
    BY DEF NewestIs
  <1>3. \A j \in 1..Len(r) : j > i - 1 => ~IsMine(r[j], op)
    BY <1>1, <1>2
  <1>4. CASE i = 1
    BY <1>1, <1>2, <1>3, <1>4 DEF Awaits
  <1>5. CASE i # 1
    <2>1. i - 1 \in 1..Len(r) /\ r[i - 1] = q[i]
      BY <1>1, <1>5
    <2> QED BY <1>2, <1>3, <2>1 DEF NewestIs
  <1> QED BY <1>4, <1>5

-------------------------------------------------------------------------------
(* The messages there are.                                                   *)

LEMMA MessageIs ==
  ASSUME NEW op
  PROVE  /\ IsMessage(Message(op))
         /\ Message(op).op = op /\ Message(op).ok /\ Message(op).mine
  BY DEF IsMessage, Message

LEMMA MessageOf ==
  ASSUME NEW m, IsMessage(m), NEW mine, NEW n, n = [m EXCEPT !.mine = mine]
  PROVE  /\ IsMessage(n) /\ n.op = m.op /\ n.tx = m.tx /\ n.txs = m.txs
         /\ n.ok = m.ok /\ n.mine = mine
  <1>1. n = [op |-> m.op, tx |-> m.tx, txs |-> m.txs, ok |-> m.ok, mine |-> mine]
    BY DEF IsMessage
  <1> QED BY <1>1 DEF IsMessage

AddMessage(tx) == [Message("add") EXCEPT !.tx = tx]

LEMMA MessageWithTx ==
  ASSUME NEW tx
  PROVE  /\ IsMessage(AddMessage(tx))
         /\ AddMessage(tx).op = "add" /\ AddMessage(tx).tx = tx
  <1> DEFINE m == Message("add")
             n == [m EXCEPT !.tx = tx]
  <1>1. IsMessage(m) /\ m.op = "add"
    BY MessageIs
  <1> HIDE DEF m
  <1>2. n = [op |-> m.op, tx |-> tx, txs |-> m.txs, ok |-> m.ok, mine |-> m.mine]
    BY <1>1 DEF IsMessage
  <1> HIDE DEF n
  <1>3. IsMessage(n) /\ n.op = "add" /\ n.tx = tx
    BY <1>1, <1>2 DEF IsMessage
  <1> QED BY <1>3 DEF AddMessage, m, n

LEMMA MessageWithOk ==
  ASSUME NEW m, IsMessage(m), NEW ok, NEW n, n = [m EXCEPT !.ok = ok]
  PROVE  IsMessage(n) /\ n.op = m.op /\ n.txs = m.txs /\ n.ok = ok
  <1>1. n = [op |-> m.op, tx |-> m.tx, txs |-> m.txs, ok |-> ok, mine |-> m.mine]
    BY DEF IsMessage
  <1> QED BY <1>1 DEF IsMessage

LEMMA FailedIs ==
  ASSUME NEW op
  PROVE  /\ IsMessage([Message(op) EXCEPT !.ok = FALSE])
         /\ [Message(op) EXCEPT !.ok = FALSE].op = op
         /\ ~[Message(op) EXCEPT !.ok = FALSE].ok
  <1> DEFINE m == Message(op)
             n == [m EXCEPT !.ok = FALSE]
  <1>1. IsMessage(m) /\ m.op = op
    BY MessageIs
  <1> HIDE DEF m
  <1>2. n = [m EXCEPT !.ok = FALSE]
    OBVIOUS
  <1> HIDE DEF n
  <1>3. IsMessage(n) /\ n.op = op /\ n.ok = FALSE
    BY <1>1, <1>2, MessageWithOk
  <1> QED BY <1>3 DEF m, n

LEMMA MessageWithTxs ==
  ASSUME NEW m, IsMessage(m), NEW txs, NEW n, n = [m EXCEPT !.txs = txs]
  PROVE  IsMessage(n) /\ n.op = m.op /\ n.txs = txs
  <1>1. n = [op |-> m.op, tx |-> m.tx, txs |-> txs, ok |-> m.ok, mine |-> m.mine]
    BY DEF IsMessage
  <1> QED BY <1>1 DEF IsMessage

LEMMA MessageAs ==
  ASSUME NEW m, IsMessage(m), NEW op, NEW n, n = [m EXCEPT !.op = op]
  PROVE  IsMessage(n) /\ n.op = op /\ n.txs = m.txs /\ n.ok = m.ok /\ n.mine = m.mine
  <1>1. n = [op |-> op, tx |-> m.tx, txs |-> m.txs, ok |-> m.ok, mine |-> m.mine]
    BY DEF IsMessage
  <1> QED BY <1>1 DEF IsMessage

\* The isolate answers the first call with message n.
IsAnswered(c, a, n, d, b) ==
  /\ IsTail(c, d) /\ IsAppended(a, n, b) /\ IsMessage(c[1])
  /\ n.mine = c[1].mine

LEMMA AnswerIs ==
  ASSUME IsQueue(calls), IsQueue(answers), calls # << >>, NEW m, IsMessage(m), Answer(m)
  PROVE  \E n : /\ IsAnswered(calls, answers, n, calls', answers')
                /\ Head(calls) = calls[1] /\ n.op = m.op /\ n.txs = m.txs /\ n.ok = m.ok
                /\ 1 \in 1..Len(calls)
  <1> DEFINE h == Head(calls).mine
             n == [m EXCEPT !.mine = h]
  <1>1. calls' = Tail(calls) /\ answers' = Append(answers, n)
    BY DEF Answer
  <1>2. /\ IsTail(calls, Tail(calls)) /\ IsMessage(Head(calls)) /\ Head(calls) = calls[1]
        /\ 1 \in 1..Len(calls)
    BY TailOf
  <1>3. h = calls[1].mine
    BY <1>2
  <1> HIDE DEF h
  <1>4. /\ IsMessage(n) /\ n.op = m.op /\ n.txs = m.txs
        /\ n.ok = m.ok /\ n.mine = h
    <2>1. n = [op |-> m.op, tx |-> m.tx, txs |-> m.txs, ok |-> m.ok, mine |-> h]
      BY DEF IsMessage
    <2> HIDE DEF n
    <2> QED BY <2>1 DEF IsMessage
  <1> HIDE DEF n
  <1>5. IsAppended(answers, n, answers')
    BY <1>1, <1>4, AppendedTo
  <1> QED BY <1>1, <1>2, <1>3, <1>4, <1>5 DEF IsAnswered

-------------------------------------------------------------------------------
(* The list that the page shows.                                             *)

\* A synchronization that goes well so far.
GoesWell(m) == (IsMine(m, "sync") \/ IsMine(m, "flush")) /\ m.ok

\* The page will read the list again, and has not asked for it yet.
Succeeds(q) == \E i \in 1..Len(q) : GoesWell(q[i])

WillRead(c, a) == Awaits(c, "list") \/ Awaits(c, "flush") \/ Succeeds(a)

\* What the page shows, or will show once everything is answered, is txs.
IsRead(c, a, p, s, txs) ==
  \/ NewestIs(a, "list", txs)
  \/ ~Awaits(a, "list") /\ NewestIs(c, "transfers", txs)
  \/ ~Awaits(a, "list") /\ ~Awaits(c, "transfers") /\ NewestIs(a, "transfers", txs)
  \/ /\ ~Awaits(a, "list") /\ ~Awaits(c, "transfers") /\ ~Awaits(a, "transfers")
     /\ p = "loaded" /\ s = txs

Syncs(c, a) ==
  \/ Awaits(c, "pointers") \/ Awaits(a, "pointers")
  \/ Awaits(c, "sync") \/ Awaits(a, "sync")
  \/ Awaits(c, "flush") \/ Awaits(a, "flush")

\* Whoever stores an expense reads the list after it.
AddsAreRead(q) ==
  \A i \in 1..Len(q) :
    q[i].op = "add" => \E j \in 1..Len(q) : j > i /\ IsMine(q[j], "list")

\* The page shows, or will show, what the file holds.
IsFresh(r, c, a, p, s) == CanShow(r) => IsRead(c, a, p, s, Chain(r))

\* An expense that waits to be stored has a list behind it, a page that synchronizes
\* waits for the end of it, and what is shown is right or will be read again.
PageInv ==
  /\ IsQueue(calls) /\ IsQueue(answers)
  /\ AddsAreRead(calls)
  /\ syncing => Syncs(calls, answers)
  /\ ~unnoticed => WillRead(calls, answers) \/ IsFresh(file, calls, answers, page, shown)

LEMMA SucceedsAppended ==
  ASSUME NEW q, NEW m, NEW r, IsAppended(q, m, r)
  PROVE  Succeeds(r) <=> Succeeds(q) \/ GoesWell(m)
  <1>1. /\ Len(q) \in Nat /\ Len(r) = Len(q) + 1
        /\ \A i \in 1..Len(q) : i \in 1..Len(r) /\ r[i] = q[i]
        /\ Len(q) + 1 \in 1..Len(r) /\ r[Len(q) + 1] = m
        /\ \A i \in 1..Len(r) : i \in 1..Len(q) \/ i = Len(q) + 1
    BY DEF IsAppended
  <1> QED BY <1>1 DEF Succeeds

LEMMA SucceedsTail ==
  ASSUME NEW q, NEW r, IsTail(q, r)
  PROVE  Succeeds(q) <=> Succeeds(r) \/ GoesWell(q[1])
  <1>1. /\ Len(q) \in Nat /\ Len(q) > 0 /\ Len(r) = Len(q) - 1 /\ 1 \in 1..Len(q)
        /\ \A i \in 1..Len(r) : i + 1 \in 1..Len(q) /\ r[i] = q[i + 1]
    BY DEF IsTail
  <1>2. \A i \in 1..Len(q) : i = 1 \/ (i - 1 \in 1..Len(r) /\ r[i - 1] = q[i])
    BY <1>1
  <1> QED BY <1>1, <1>2 DEF Succeeds

LEMMA ReadTail ==
  ASSUME NEW q, NEW r, IsTail(q, r), AddsAreRead(q)
  PROVE  AddsAreRead(r) /\ (q[1].op = "add" => Awaits(r, "list"))
  <1>1. /\ Len(q) \in Nat /\ Len(q) > 0 /\ Len(r) = Len(q) - 1 /\ 1 \in 1..Len(q)
        /\ \A i \in 1..Len(r) : i + 1 \in 1..Len(q) /\ r[i] = q[i + 1]
    BY DEF IsTail
  <1>2. \A i \in 1..Len(q) : i = 1 \/ (i - 1 \in 1..Len(r) /\ r[i - 1] = q[i])
    BY <1>1
  <1>3. ASSUME NEW i \in 1..Len(r), r[i].op = "add"
        PROVE  \E j \in 1..Len(r) : j > i /\ IsMine(r[j], "list")
    <2>1. PICK j \in 1..Len(q) : j > i + 1 /\ IsMine(q[j], "list")
      BY <1>1, <1>3 DEF AddsAreRead
    <2>2. j - 1 \in 1..Len(r) /\ r[j - 1] = q[j] /\ j - 1 > i
      BY <1>1, <1>2, <2>1
    <2> QED BY <2>1, <2>2
  <1>4. ASSUME q[1].op = "add" PROVE Awaits(r, "list")
    <2>1. PICK j \in 1..Len(q) : j > 1 /\ IsMine(q[j], "list")
      BY <1>1, <1>4 DEF AddsAreRead
    <2>2. j - 1 \in 1..Len(r) /\ r[j - 1] = q[j]
      BY <1>1, <1>2, <2>1
    <2> QED BY <2>1, <2>2 DEF Awaits
  <1> QED BY <1>3, <1>4 DEF AddsAreRead

LEMMA ReadAppended ==
  ASSUME NEW q, NEW m, NEW r, IsAppended(q, m, r)
  PROVE  /\ m.op # "add" /\ AddsAreRead(q) => AddsAreRead(r)
         /\ IsMine(m, "list") => AddsAreRead(r)
  <1>1. /\ Len(q) \in Nat /\ Len(r) = Len(q) + 1
        /\ \A i \in 1..Len(q) : i \in 1..Len(r) /\ r[i] = q[i]
        /\ Len(q) + 1 \in 1..Len(r) /\ r[Len(q) + 1] = m
        /\ \A i \in 1..Len(r) : i \in 1..Len(q) \/ i = Len(q) + 1
        /\ \A i \in 1..Len(q) : Len(q) + 1 > i
    BY DEF IsAppended
  <1>2. ASSUME m.op # "add", AddsAreRead(q) PROVE AddsAreRead(r)
    <2> SUFFICES ASSUME NEW i \in 1..Len(r), r[i].op = "add"
                 PROVE  \E j \in 1..Len(r) : j > i /\ IsMine(r[j], "list")
      BY DEF AddsAreRead
    <2>1. i \in 1..Len(q) /\ q[i].op = "add"
      BY <1>1, <1>2
    <2>2. PICK j \in 1..Len(q) : j > i /\ IsMine(q[j], "list")
      BY <1>2, <2>1 DEF AddsAreRead
    <2> QED BY <1>1, <2>2
  <1>3. ASSUME IsMine(m, "list") PROVE AddsAreRead(r)
    <2> SUFFICES ASSUME NEW i \in 1..Len(r), r[i].op = "add"
                 PROVE  \E j \in 1..Len(r) : j > i /\ IsMine(r[j], "list")
      BY DEF AddsAreRead
    <2>1. i \in 1..Len(q)
      BY <1>1, <1>3 DEF IsMine
    <2> QED BY <1>1, <1>3, <2>1
  <1> QED BY <1>2, <1>3

\* A call that is not about the list.
LEMMA CallKeepsRead ==
  ASSUME NEW c, NEW a, NEW p, NEW s, NEW txs, IsRead(c, a, p, s, txs),
         NEW m, ~IsMine(m, "transfers"), NEW d, IsAppended(c, m, d)
  PROVE  IsRead(d, a, p, s, txs)
  <1>1. Awaits(d, "transfers") <=> Awaits(c, "transfers")
    BY AwaitsAppended
  <1>2. NewestIs(c, "transfers", txs) => NewestIs(d, "transfers", txs)
    BY NewestAppended
  <1> QED BY <1>1, <1>2 DEF IsRead

\* An answer that is not the list itself.
LEMMA AnswerKeepsRead ==
  ASSUME NEW c, NEW a, NEW p, NEW s, NEW txs, IsRead(c, a, p, s, txs),
         NEW n, NEW d, NEW b, IsAnswered(c, a, n, d, b), ~IsMine(n, "list"),
         IsMine(n, "transfers") <=> IsMine(c[1], "transfers"),
         IsMine(n, "transfers") => n.ok = c[1].ok /\ n.txs = c[1].txs
  PROVE  IsRead(d, b, p, s, txs)
  <1>1. IsTail(c, d) /\ IsAppended(a, n, b)
    BY DEF IsAnswered
  <1>2. Awaits(b, "list") <=> Awaits(a, "list")
    BY <1>1, AwaitsAppended
  <1>3. Awaits(b, "transfers") <=> Awaits(a, "transfers") \/ IsMine(n, "transfers")
    BY <1>1, AwaitsAppended
  <1>4. Awaits(c, "transfers") <=> Awaits(d, "transfers") \/ IsMine(c[1], "transfers")
    BY <1>1, AwaitsTail
  <1>5. NewestIs(a, "list", txs) => NewestIs(b, "list", txs)
    BY <1>1, NewestAppended
  <1>6. ~IsMine(n, "transfers") /\ NewestIs(a, "transfers", txs)
          => NewestIs(b, "transfers", txs)
    BY <1>1, NewestAppended
  <1>7. ASSUME ~Awaits(a, "list"), NewestIs(c, "transfers", txs)
        PROVE  IsRead(d, b, p, s, txs)
    <2>1. CASE NewestIs(d, "transfers", txs)
      BY <1>2, <1>7, <2>1 DEF IsRead
    <2>2. CASE /\ IsMine(c[1], "transfers") /\ c[1].ok /\ c[1].txs = txs
               /\ ~Awaits(d, "transfers")
      <3>1. NewestIs(b, "transfers", txs)
        BY <1>1, <2>2, NewestAppended
      <3> QED BY <1>2, <1>7, <2>2, <3>1 DEF IsRead
    <2> QED BY <1>1, <1>7, <2>1, <2>2, NewestTail
  <1> QED BY <1>2, <1>3, <1>4, <1>5, <1>6, <1>7 DEF IsRead

\* The page takes an answer that is not about the list.
LEMMA TakingKeepsRead ==
  ASSUME NEW c, NEW a, NEW p, NEW s, NEW txs, IsRead(c, a, p, s, txs),
         NEW b, IsTail(a, b), ~IsMine(a[1], "list"), ~IsMine(a[1], "transfers")
  PROVE  IsRead(c, b, p, s, txs)
  <1>1. Awaits(b, "list") <=> Awaits(a, "list")
    BY AwaitsTail
  <1>2. Awaits(b, "transfers") <=> Awaits(a, "transfers")
    BY AwaitsTail
  <1>3. NewestIs(a, "list", txs) => NewestIs(b, "list", txs)
    BY NewestTail
  <1>4. NewestIs(a, "transfers", txs) => NewestIs(b, "transfers", txs)
    BY NewestTail
  <1> QED BY <1>1, <1>2, <1>3, <1>4 DEF IsRead

\* loadTransactions goes on with the transfers.
LEMMA ListTaken ==
  ASSUME NEW c, NEW a, NEW p, NEW s, NEW txs, IsRead(c, a, p, s, txs),
         NEW b, IsTail(a, b), IsMine(a[1], "list"),
         NEW m, IsMine(m, "transfers"), a[1].ok => m.ok, m.txs = a[1].txs,
         NEW d, IF a[1].ok THEN IsAppended(c, m, d) ELSE d = c, NEW q
  PROVE  IsRead(d, b, q, s, txs)
  <1>1. Awaits(a, "list")
    BY AwaitsTail
  <1>2. NewestIs(a, "list", txs)
    BY <1>1 DEF IsRead
  <1>3. CASE NewestIs(b, "list", txs)
    BY <1>3 DEF IsRead
  <1>4. CASE a[1].ok /\ a[1].txs = txs /\ ~Awaits(b, "list")
    <2>1. NewestIs(d, "transfers", txs)
      BY <1>4, NewestAppended
    <2> QED BY <1>4, <2>1 DEF IsRead
  <1> QED BY <1>2, <1>3, <1>4, NewestTail

\* loadTransactions ends.
LEMMA TransfersTaken ==
  ASSUME NEW c, NEW a, NEW p, NEW s, NEW txs, IsRead(c, a, p, s, txs),
         NEW b, IsTail(a, b), IsMine(a[1], "transfers")
  PROVE  IsRead(c, b, "loaded", a[1].txs, txs)
  <1>1. Awaits(b, "list") <=> Awaits(a, "list")
    BY AwaitsTail DEF IsMine
  <1>2. Awaits(a, "transfers")
    BY AwaitsTail
  <1>3. NewestIs(a, "list", txs) => NewestIs(b, "list", txs)
    BY NewestTail DEF IsMine
  <1>4. NewestIs(a, "transfers", txs) =>
          \/ NewestIs(b, "transfers", txs)
          \/ a[1].txs = txs /\ ~Awaits(b, "transfers")
    BY NewestTail
  <1> QED BY <1>1, <1>2, <1>3, <1>4 DEF IsRead

-------------------------------------------------------------------------------

LEMMA OneList ==
  ASSUME NEW q, q = <<Message("list")>>
  PROVE  /\ IsQueue(q) /\ IsQueue(<< >>) /\ AddsAreRead(q) /\ Awaits(q, "list")
         /\ \A i \in 1..Len(q) : q[i].op = "list"
         /\ Len(q) \in Nat
  <1> DEFINE m == Message("list")
  <1>1. IsMessage(m) /\ IsMine(m, "list")
    BY MessageIs DEF IsMine
  <1>2. q = <<m>>
    OBVIOUS
  <1> HIDE DEF m
  <1>3. q \in Seq({m}) /\ Len(q) = 1 /\ q[1] = m
    BY <1>2
  <1>4. \A i \in 1..Len(q) : i = 1
    BY <1>3
  <1>5. IsQueue(q)
    BY <1>1, <1>3, <1>4, QueueOf
  <1>6. /\ AddsAreRead(q) /\ Awaits(q, "list")
        /\ \A i \in 1..Len(q) : q[i].op = "list"
    BY <1>1, <1>3, <1>4 DEF AddsAreRead, Awaits, IsMine
  <1>7. IsQueue(<< >>)
    <2>1. << >> \in Seq({})
      OBVIOUS
    <2>2. \A i \in 1..Len(<< >>) : IsMessage(<< >>[i])
      OBVIOUS
    <2> QED BY <2>1, <2>2, QueueOf
  <1> QED BY <1>3, <1>5, <1>6, <1>7

LEMMA PageStarts ==
  Init => PageInv
  BY OneList DEF Init, PageInv, WillRead

LEMMA RestartPage ==
  ASSUME Restart
  PROVE  PageInv'
  BY OneList DEF Restart, PageInv, WillRead

LEMMA SaveTransactionPage ==
  ASSUME PageInv, SaveTransaction
  PROVE  PageInv'
  <1>1. PICK tx : calls' = calls \o <<AddMessage(tx), Message("list")>>
    BY DEF SaveTransaction, AddMessage
  <1>2. UNCHANGED <<answers, syncing>>
    BY DEF SaveTransaction
  <1> DEFINE m == AddMessage(tx)
             n == Message("list")
             r == Append(calls, m)
  <1>3. IsMessage(m) /\ m.op = "add" /\ IsMessage(n) /\ IsMine(n, "list")
    BY MessageWithTx, MessageIs DEF IsMine
  <1>4. IsQueue(calls) /\ IsQueue(answers) /\ AddsAreRead(calls)
        /\ (syncing => Syncs(calls, answers))
    BY DEF PageInv
  <1>5. calls' = Append(r, n)
    BY <1>1, <1>4, AppendTwo
  <1> HIDE DEF m, n
  <1>6. IsAppended(calls, m, r)
    BY <1>3, <1>4, AppendedTo
  <1> HIDE DEF r
  <1>7. IsAppended(r, n, calls')
    <2>1. IsQueue(r)
      BY <1>6 DEF IsAppended
    <2> QED BY <1>3, <1>5, <2>1, AppendedTo
  <1>8. AddsAreRead(calls') /\ IsQueue(calls')
    BY <1>3, <1>7, ReadAppended DEF IsAppended
  <1>9. Awaits(calls', "list")
    BY <1>3, <1>7, AwaitsAppended
  <1>10. \A op : Awaits(calls, op) => Awaits(calls', op)
    BY <1>6, <1>7, AwaitsAppended
  <1> QED BY <1>2, <1>4, <1>8, <1>9, <1>10 DEF PageInv, WillRead, Syncs

LEMMA SynchronizePage ==
  ASSUME PageInv, Synchronize
  PROVE  PageInv'
  <1> DEFINE m == Message("pointers")
  <1>1. /\ calls' = Append(calls, m)
        /\ UNCHANGED <<file, page, shown, answers, unnoticed>>
    BY DEF Synchronize, StoresUnchanged, HistoryUnchanged
  <1>2. IsMessage(m) /\ IsMine(m, "pointers")
    BY MessageIs DEF IsMine
  <1> HIDE DEF m
  <1>3. IsQueue(calls) /\ IsQueue(answers) /\ AddsAreRead(calls)
    BY DEF PageInv
  <1>4. IsAppended(calls, m, calls')
    BY <1>1, <1>2, <1>3, AppendedTo
  <1>5. AddsAreRead(calls') /\ IsQueue(calls')
    BY <1>2, <1>3, <1>4, ReadAppended DEF IsAppended, IsMine
  <1>6. Syncs(calls', answers')
    BY <1>2, <1>4, AwaitsAppended DEF Syncs
  <1>7. \A op : Awaits(calls, op) => Awaits(calls', op)
    BY <1>4, AwaitsAppended
  <1>8. \A txs : IsRead(calls, answers, page, shown, txs)
                   => IsRead(calls', answers, page, shown, txs)
    BY <1>2, <1>4, CallKeepsRead DEF IsMine
  <1> QED BY <1>1, <1>3, <1>5, <1>6, <1>7, <1>8 DEF PageInv, WillRead, IsFresh

LEMMA ReopenPage ==
  ASSUME PageInv, Reopen
  PROVE  PageInv'
  <1> DEFINE m == Message("list")
             r == Orphans(calls)
  <1>1. calls' = Append(r, m) /\ answers' = Orphans(answers) /\ syncing' = FALSE
    BY DEF Reopen
  <1>2. IsMessage(m) /\ IsMine(m, "list")
    BY MessageIs DEF IsMine
  <1> HIDE DEF m
  <1>3. IsQueue(r) /\ IsQueue(answers')
    BY <1>1, OrphansOf DEF PageInv, IsOrphaned
  <1> HIDE DEF r
  <1>4. IsAppended(r, m, calls')
    BY <1>1, <1>2, <1>3, AppendedTo
  <1>5. AddsAreRead(calls') /\ IsQueue(calls') /\ Awaits(calls', "list")
    BY <1>2, <1>4, ReadAppended, AwaitsAppended DEF IsAppended
  <1> QED BY <1>1, <1>3, <1>5 DEF PageInv, WillRead

LEMMA ServeListPage ==
  ASSUME PageInv, ServeList
  PROVE  PageInv'
  <1> DEFINE m == [Message("list") EXCEPT !.txs = Chain(file), !.ok = CanShow(file)]
  <1>1. /\ calls # << >> /\ Head(calls).op = "list" /\ Answer(m)
        /\ unnoticed' = (unnoticed /\ ~Head(calls).mine)
        /\ UNCHANGED <<file, page, shown, syncing>>
    BY DEF ServeList, Take, PageUnchanged, StoresUnchanged
  <1>2. /\ IsMessage(m) /\ m.op = "list" /\ m.txs = Chain(file)
        /\ m.ok = CanShow(file)
    <2> DEFINE one == [Message("list") EXCEPT !.txs = Chain(file)]
    <2>1. one = [Message("list") EXCEPT !.txs = Chain(file)]
      OBVIOUS
    <2>2. m = [one EXCEPT !.ok = CanShow(file)]
      OBVIOUS
    <2> HIDE DEF one, m
    <2>3. IsMessage(one) /\ one.op = "list" /\ one.txs = Chain(file)
      BY <2>1, MessageIs, MessageWithTxs
    <2>4. m = [op |-> one.op, tx |-> one.tx, txs |-> one.txs, ok |-> CanShow(file),
               mine |-> one.mine]
      BY <2>2, <2>3 DEF IsMessage
    <2> QED BY <2>3, <2>4 DEF IsMessage
  <1> HIDE DEF m
  <1>3. IsQueue(calls) /\ IsQueue(answers) /\ AddsAreRead(calls)
    BY DEF PageInv
  <1>4. PICK n : /\ IsAnswered(calls, answers, n, calls', answers')
                 /\ Head(calls) = calls[1] /\ n.op = "list" /\ n.txs = Chain(file)
                 /\ n.ok = CanShow(file)
    BY <1>1, <1>2, <1>3, AnswerIs
  <1>5. /\ IsTail(calls, calls') /\ IsAppended(answers, n, answers')
        /\ n.mine = calls[1].mine /\ calls[1].op = "list"
    BY <1>1, <1>4 DEF IsAnswered
  <1>6. IsQueue(calls') /\ IsQueue(answers') /\ AddsAreRead(calls')
    BY <1>3, <1>5, ReadTail DEF IsTail, IsAppended
  <1>7. Syncs(calls, answers) => Syncs(calls', answers')
    BY <1>5, AwaitsTail, AwaitsAppended DEF Syncs, IsMine
  <1>8. ASSUME ~unnoticed'
        PROVE  \/ WillRead(calls', answers')
               \/ IsFresh(file, calls', answers', page, shown)
    <2>1. CASE n.mine
      <3>1. CanShow(file) => NewestIs(answers', "list", Chain(file))
        BY <1>4, <1>5, <2>1, NewestAppended DEF IsMine
      <3> QED BY <3>1 DEF IsFresh, IsRead
    <2>2. CASE ~n.mine
      <3>1. ~unnoticed
        BY <1>1, <1>4, <1>5, <1>8, <2>2
      <3>2. /\ Awaits(calls, "list") => Awaits(calls', "list")
            /\ Awaits(calls, "flush") => Awaits(calls', "flush")
        BY <1>5, <2>2, AwaitsTail DEF IsMine
      <3>3. Succeeds(answers) => Succeeds(answers')
        BY <1>5, SucceedsAppended
      <3>4. ~IsMine(n, "list") /\ ~IsMine(n, "transfers") /\ ~IsMine(calls[1], "transfers")
        BY <1>5, <2>2 DEF IsMine
      <3>5. \A txs : IsRead(calls, answers, page, shown, txs)
                       => IsRead(calls', answers', page, shown, txs)
        BY <1>4, <3>4, AnswerKeepsRead
      <3> QED BY <3>1, <3>2, <3>3, <3>5 DEF PageInv, WillRead, IsFresh
    <2> QED BY <2>1, <2>2
  <1> QED BY <1>1, <1>6, <1>7, <1>8 DEF PageInv

LEMMA ServeWithoutFilePage ==
  ASSUME PageInv, ServeWithoutFile
  PROVE  PageInv'
  <1> DEFINE m == Head(calls)
  <1>1. /\ calls # << >> /\ m.op \in {"transfers", "pointers"} /\ Answer(m)
        /\ UNCHANGED <<file, page, shown, syncing, unnoticed>>
    BY DEF ServeWithoutFile, Take, PageUnchanged, StoresUnchanged, HistoryUnchanged
  <1>2. IsQueue(calls) /\ IsQueue(answers) /\ AddsAreRead(calls)
    BY DEF PageInv
  <1>3. IsMessage(m)
    BY <1>1, <1>2, TailOf
  <1> HIDE DEF m
  <1>4. PICK n : /\ IsAnswered(calls, answers, n, calls', answers')
                 /\ m = calls[1] /\ n.op = m.op /\ n.txs = m.txs /\ n.ok = m.ok
    BY <1>1, <1>2, <1>3, AnswerIs DEF m
  <1>5. /\ IsTail(calls, calls') /\ IsAppended(answers, n, answers')
        /\ n.mine = calls[1].mine /\ n.op = calls[1].op /\ n.txs = calls[1].txs
        /\ n.ok = calls[1].ok /\ n.op # "list" /\ n.op # "sync" /\ n.op # "add"
    BY <1>1, <1>4 DEF IsAnswered
  <1>6. IsQueue(calls') /\ IsQueue(answers') /\ AddsAreRead(calls')
    BY <1>2, <1>5, ReadTail DEF IsTail, IsAppended
  <1>7. Syncs(calls, answers) => Syncs(calls', answers')
    <2>1. \A op : IsMine(calls[1], op) <=> IsMine(n, op)
      BY <1>5 DEF IsMine
    <2> QED BY <1>5, <2>1, AwaitsTail, AwaitsAppended DEF Syncs
  <1>8. WillRead(calls, answers) => WillRead(calls', answers')
    <2>1. ~IsMine(calls[1], "list") /\ ~IsMine(calls[1], "flush")
      BY <1>1, <1>4 DEF IsMine
    <2> QED BY <1>5, <2>1, AwaitsTail, SucceedsAppended DEF WillRead
  <1>9. \A txs : IsRead(calls, answers, page, shown, txs)
                   => IsRead(calls', answers', page, shown, txs)
    <2>1. /\ ~IsMine(n, "list") /\ IsMine(n, "transfers") <=> IsMine(calls[1], "transfers")
      BY <1>5 DEF IsMine
    <2> QED BY <1>4, <1>5, <2>1, AnswerKeepsRead DEF IsMine
  <1> QED BY <1>1, <1>6, <1>7, <1>8, <1>9 DEF PageInv, IsFresh

\* The answer to a call that is about no list.
LEMMA ServedPage ==
  ASSUME PageInv, calls # << >>, NEW m, IsMessage(m), m.op = Head(calls).op,
         m.op \in {"add", "sync", "flush"}, Answer(m)
  PROVE  /\ IsTail(calls, calls') /\ Head(calls) = calls[1]
         /\ IsQueue(calls') /\ IsQueue(answers') /\ AddsAreRead(calls')
         /\ Syncs(calls, answers) => Syncs(calls', answers')
         /\ Head(calls).mine /\ m.op # "add" /\ m.ok => Succeeds(answers')
         /\ WillRead(calls, answers) /\ ~(IsMine(Head(calls), "flush") /\ ~m.ok)
              => WillRead(calls', answers')
         /\ \A p, s, txs : IsRead(calls, answers, p, s, txs)
                             => IsRead(calls', answers', p, s, txs)
  <1>1. IsQueue(calls) /\ IsQueue(answers) /\ AddsAreRead(calls)
    BY DEF PageInv
  <1>2. PICK n : /\ IsAnswered(calls, answers, n, calls', answers')
                 /\ Head(calls) = calls[1] /\ n.op = m.op /\ n.ok = m.ok
    BY <1>1, AnswerIs
  <1>3. /\ IsTail(calls, calls') /\ IsAppended(answers, n, answers')
        /\ n.mine = calls[1].mine /\ n.op = calls[1].op
        /\ calls[1].op \in {"add", "sync", "flush"}
    BY <1>2 DEF IsAnswered
  <1>4. IsQueue(calls') /\ IsQueue(answers') /\ AddsAreRead(calls')
    BY <1>1, <1>3, ReadTail DEF IsTail, IsAppended
  <1>5. Syncs(calls, answers) => Syncs(calls', answers')
    <2>1. \A op : IsMine(calls[1], op) <=> IsMine(n, op)
      BY <1>3 DEF IsMine
    <2> QED BY <1>3, <2>1, AwaitsTail, AwaitsAppended DEF Syncs
  <1>6. Head(calls).mine /\ m.op # "add" /\ m.ok => Succeeds(answers')
    <2>1. ASSUME Head(calls).mine, m.op # "add", m.ok PROVE GoesWell(n)
      BY <1>2, <1>3, <2>1 DEF GoesWell, IsMine
    <2> QED BY <1>3, <2>1, SucceedsAppended
  <1>7. ASSUME WillRead(calls, answers), ~(IsMine(Head(calls), "flush") /\ ~m.ok)
        PROVE  WillRead(calls', answers')
    <2>1. Awaits(calls, "list") => Awaits(calls', "list")
      BY <1>3, AwaitsTail DEF IsMine
    <2>2. Succeeds(answers) => Succeeds(answers')
      BY <1>3, SucceedsAppended
    <2>3. ASSUME Awaits(calls, "flush") PROVE WillRead(calls', answers')
      <3>1. CASE Awaits(calls', "flush")
        BY <3>1 DEF WillRead
      <3>2. CASE IsMine(calls[1], "flush")
        <4>1. Head(calls).mine /\ m.op # "add" /\ m.ok
          BY <1>2, <1>3, <1>7, <3>2 DEF IsMine
        <4> QED BY <1>6, <4>1 DEF WillRead
      <3> QED BY <1>3, <2>3, <3>1, <3>2, AwaitsTail
    <2> QED BY <1>7, <2>1, <2>2, <2>3 DEF WillRead
  <1>8. ASSUME NEW p, NEW s, NEW txs, IsRead(calls, answers, p, s, txs)
        PROVE  IsRead(calls', answers', p, s, txs)
    <2>1. ~IsMine(n, "list") /\ ~IsMine(n, "transfers") /\ ~IsMine(calls[1], "transfers")
      BY <1>3 DEF IsMine
    <2> QED BY <1>2, <1>8, <2>1, AnswerKeepsRead
  <1> QED BY <1>2, <1>3, <1>4, <1>5, <1>6, <1>7, <1>8

LEMMA ServeAddPage ==
  ASSUME PageInv, ServeAdd
  PROVE  PageInv'
  <1>1. /\ calls # << >> /\ Head(calls).op = "add"
        /\ UNCHANGED <<syncing, unnoticed>>
    BY DEF ServeAdd, Take, PageUnchanged
  <1>2. PICK m : IsMessage(m) /\ m.op = "add" /\ Answer(m)
    BY MessageIs, FailedIs DEF ServeAdd
  <1>3. /\ IsTail(calls, calls') /\ Head(calls) = calls[1]
        /\ IsQueue(calls') /\ IsQueue(answers') /\ AddsAreRead(calls')
        /\ Syncs(calls, answers) => Syncs(calls', answers')
    BY <1>1, <1>2, ServedPage
  <1>4. Awaits(calls', "list")
    BY <1>1, <1>3, ReadTail DEF PageInv
  <1> QED BY <1>1, <1>3, <1>4 DEF PageInv, WillRead

LEMMA ServeFlushPage ==
  ASSUME PageInv, ServeFlush
  PROVE  PageInv'
  <1>1. /\ calls # << >> /\ Head(calls).op = "flush"
        /\ UNCHANGED <<file, page, shown, syncing>>
    BY DEF ServeFlush, Take, PageUnchanged
  <1>2. PICK m : /\ IsMessage(m) /\ m.op = "flush" /\ Answer(m)
                 /\ \/ unnoticed' = unnoticed /\ m.ok
                    \/ unnoticed' = (unnoticed \/ Head(calls).mine)
    BY MessageIs, FailedIs DEF ServeFlush
  <1>3. /\ IsQueue(calls') /\ IsQueue(answers') /\ AddsAreRead(calls')
        /\ Syncs(calls, answers) => Syncs(calls', answers')
        /\ WillRead(calls, answers) /\ ~(IsMine(Head(calls), "flush") /\ ~m.ok)
             => WillRead(calls', answers')
        /\ \A p, s, txs : IsRead(calls, answers, p, s, txs)
                            => IsRead(calls', answers', p, s, txs)
    BY <1>1, <1>2, ServedPage
  <1>4. ASSUME ~unnoticed'
        PROVE  \/ WillRead(calls', answers')
               \/ IsFresh(file, calls', answers', page, shown)
    <2>1. ~unnoticed /\ ~(Head(calls).mine /\ ~m.ok)
      <3>1. CASE unnoticed' = unnoticed /\ m.ok
        BY <1>4, <3>1
      <3>2. CASE unnoticed' = (unnoticed \/ Head(calls).mine)
        BY <1>4, <3>2
      <3> QED BY <1>2, <3>1, <3>2
    <2>2. ~(IsMine(Head(calls), "flush") /\ ~m.ok)
      BY <2>1 DEF IsMine
    <2> QED BY <1>3, <2>1, <2>2 DEF PageInv, IsFresh
  <1> QED BY <1>1, <1>3, <1>4 DEF PageInv

LEMMA EndSyncPage ==
  ASSUME PageInv, NEW local, NEW remote, NEW ok, Take("sync"),
         EndSync(local, remote, ok), PageUnchanged
  PROVE  PageInv'
  <1> DEFINE m == [Message("sync") EXCEPT !.ok = ok]
  <1>1. /\ calls # << >> /\ Head(calls).op = "sync" /\ Answer(m)
        /\ unnoticed' = (unnoticed \/ (local # file /\ ~(ok /\ Head(calls).mine)))
        /\ file' = local
        /\ UNCHANGED <<page, shown, syncing>>
    BY DEF EndSync, Take, PageUnchanged
  <1>2. IsMessage(m) /\ m.op = "sync" /\ m.ok = ok
    <2> DEFINE one == Message("sync")
    <2>1. m = [one EXCEPT !.ok = ok]
      OBVIOUS
    <2>2. IsMessage(one) /\ one.op = "sync"
      BY MessageIs
    <2> HIDE DEF one, m
    <2> QED BY <2>1, <2>2, MessageWithOk
  <1> HIDE DEF m
  <1>3. /\ IsQueue(calls') /\ IsQueue(answers') /\ AddsAreRead(calls')
        /\ Syncs(calls, answers) => Syncs(calls', answers')
        /\ Head(calls).mine /\ m.op # "add" /\ m.ok => Succeeds(answers')
        /\ WillRead(calls, answers) /\ ~(IsMine(Head(calls), "flush") /\ ~m.ok)
             => WillRead(calls', answers')
        /\ \A p, s, txs : IsRead(calls, answers, p, s, txs)
                            => IsRead(calls', answers', p, s, txs)
    BY <1>1, <1>2, ServedPage
  <1>4. ASSUME ~unnoticed'
        PROVE  \/ WillRead(calls', answers')
               \/ IsFresh(file', calls', answers', page, shown)
    <2>1. CASE local = file
      <3>1. WillRead(calls, answers) => WillRead(calls', answers')
        BY <1>1, <1>3 DEF IsMine
      <3> QED BY <1>1, <1>3, <1>4, <2>1, <3>1 DEF PageInv, IsFresh
    <2>2. CASE ok /\ Head(calls).mine
      BY <1>2, <1>3, <2>2 DEF WillRead
    <2> QED BY <1>1, <1>4, <2>1, <2>2
  <1> QED BY <1>1, <1>3, <1>4 DEF PageInv

LEMMA ServeSyncPage ==
  ASSUME PageInv, ServeSync
  PROVE  PageInv'
  <1>1. \E local, remote, ok : EndSync(local, remote, ok)
    BY DEF ServeSync
  <1>2. Take("sync") /\ PageUnchanged
    BY DEF ServeSync
  <1> QED BY <1>1, <1>2, EndSyncPage

LEMMA ReceiveListPage ==
  ASSUME PageInv, ReceiveList
  PROVE  PageInv'
  <1> DEFINE m == [Head(answers) EXCEPT !.op = "transfers"]
  <1>1. /\ answers # << >> /\ Head(answers).op = "list" /\ answers' = Tail(answers)
        /\ UNCHANGED <<file, shown, syncing, unnoticed>>
    BY DEF ReceiveList, Receive, RestUnchanged, StoresUnchanged, HistoryUnchanged
  <1>2. /\ Head(answers).ok => calls' = Append(calls, m) /\ page' = page
        /\ ~Head(answers).ok =>
             /\ calls' = calls
             /\ ~Head(answers).mine => page' = page
    BY DEF ReceiveList
  <1>3. IsQueue(calls) /\ IsQueue(answers) /\ AddsAreRead(calls)
    BY DEF PageInv
  <1>4. /\ IsTail(answers, answers') /\ Head(answers) = answers[1] /\ IsMessage(answers[1])
    BY <1>1, <1>3, TailOf
  <1>5. m = [answers[1] EXCEPT !.op = "transfers"]
    BY <1>4
  <1> HIDE DEF m
  <1>6. /\ IsMessage(m) /\ m.op = "transfers" /\ m.txs = answers[1].txs
        /\ m.ok = answers[1].ok /\ m.mine = answers[1].mine
    BY <1>4, <1>5, MessageAs
  <1>7. IF answers[1].ok THEN IsAppended(calls, m, calls') ELSE calls' = calls
    BY <1>2, <1>3, <1>4, <1>6, AppendedTo
  <1>8. IsQueue(calls') /\ IsQueue(answers') /\ AddsAreRead(calls')
    BY <1>3, <1>4, <1>6, <1>7, ReadAppended DEF IsTail, IsAppended
  <1>9. \A op : Awaits(calls, op) => Awaits(calls', op)
    BY <1>7, AwaitsAppended
  <1>10. Syncs(calls, answers) => Syncs(calls', answers')
    BY <1>1, <1>4, <1>9, AwaitsTail DEF Syncs, IsMine
  <1>11. WillRead(calls, answers) => WillRead(calls', answers')
    BY <1>1, <1>4, <1>9, SucceedsTail DEF IsMine, GoesWell, WillRead
  <1>12. ASSUME NEW txs, IsRead(calls, answers, page, shown, txs)
         PROVE  IsRead(calls', answers', page', shown, txs)
    <2>1. CASE answers[1].mine
      <3>1. IsMine(answers[1], "list") /\ IsMine(m, "transfers")
        BY <1>1, <1>4, <1>6, <2>1 DEF IsMine
      <3> QED BY <1>4, <1>6, <1>7, <1>12, <3>1, ListTaken
    <2>2. CASE ~answers[1].mine
      <3>1. IsRead(calls, answers', page, shown, txs)
        BY <1>4, <1>12, <2>2, TakingKeepsRead DEF IsMine
      <3>2. page' = page
        BY <1>2, <1>4, <2>2
      <3>3. ~IsMine(m, "transfers")
        BY <1>6, <2>2 DEF IsMine
      <3> QED BY <1>7, <3>1, <3>2, <3>3, CallKeepsRead
    <2> QED BY <2>1, <2>2
  <1> QED BY <1>1, <1>8, <1>10, <1>11, <1>12 DEF PageInv, IsFresh

LEMMA ReceiveTransfersPage ==
  ASSUME PageInv, ReceiveTransfers
  PROVE  PageInv'
  <1>1. /\ answers # << >> /\ Head(answers).op = "transfers" /\ answers' = Tail(answers)
        /\ UNCHANGED <<file, calls, syncing, unnoticed>>
    BY DEF ReceiveTransfers, Receive, RestUnchanged, StoresUnchanged, HistoryUnchanged
  <1>2. /\ Head(answers).mine => page' = "loaded" /\ shown' = Head(answers).txs
        /\ ~Head(answers).mine => page' = page /\ shown' = shown
    BY DEF ReceiveTransfers
  <1>3. IsQueue(calls) /\ IsQueue(answers) /\ AddsAreRead(calls)
    BY DEF PageInv
  <1>4. IsTail(answers, answers') /\ Head(answers) = answers[1]
    BY <1>1, <1>3, TailOf
  <1>5. IsQueue(answers')
    BY <1>4 DEF IsTail
  <1>6. Syncs(calls, answers) => Syncs(calls, answers')
    BY <1>1, <1>4, AwaitsTail DEF Syncs, IsMine
  <1>7. WillRead(calls, answers) => WillRead(calls, answers')
    BY <1>1, <1>4, SucceedsTail DEF IsMine, GoesWell, WillRead
  <1>8. ASSUME NEW txs, IsRead(calls, answers, page, shown, txs)
        PROVE  IsRead(calls, answers', page', shown', txs)
    <2>1. CASE answers[1].mine
      <3>1. IsMine(answers[1], "transfers") /\ page' = "loaded" /\ shown' = answers[1].txs
        BY <1>1, <1>2, <1>4, <2>1 DEF IsMine
      <3> QED BY <1>4, <1>8, <3>1, TransfersTaken
    <2>2. CASE ~answers[1].mine
      <3>1. page' = page /\ shown' = shown
        BY <1>2, <1>4, <2>2
      <3> QED BY <1>4, <1>8, <2>2, <3>1, TakingKeepsRead DEF IsMine
    <2> QED BY <2>1, <2>2
  <1> QED BY <1>1, <1>3, <1>5, <1>6, <1>7, <1>8 DEF PageInv, IsFresh

LEMMA ReceivePointersPage ==
  ASSUME PageInv, ReceivePointers
  PROVE  PageInv'
  <1> DEFINE m == [Message("sync") EXCEPT !.mine = Head(answers).mine]
  <1>1. /\ answers # << >> /\ Head(answers).op = "pointers" /\ answers' = Tail(answers)
        /\ calls' = Append(calls, m)
        /\ UNCHANGED <<file, page, shown, syncing, unnoticed>>
    BY DEF ReceivePointers, Receive, RestUnchanged, StoresUnchanged, HistoryUnchanged
  <1>2. IsQueue(calls) /\ IsQueue(answers) /\ AddsAreRead(calls)
    BY DEF PageInv
  <1>3. IsTail(answers, answers') /\ Head(answers) = answers[1]
    BY <1>1, <1>2, TailOf
  <1>4. IsMessage(m) /\ m.op = "sync" /\ m.mine = answers[1].mine
    BY <1>3, MessageIs, MessageOf
  <1> HIDE DEF m
  <1>5. IsAppended(calls, m, calls')
    BY <1>1, <1>2, <1>4, AppendedTo
  <1>6. IsQueue(calls') /\ IsQueue(answers') /\ AddsAreRead(calls')
    BY <1>2, <1>3, <1>4, <1>5, ReadAppended DEF IsTail, IsAppended
  <1>7. Syncs(calls, answers) => Syncs(calls', answers')
    BY <1>1, <1>3, <1>4, <1>5, AwaitsTail, AwaitsAppended DEF Syncs, IsMine
  <1>8. WillRead(calls, answers) => WillRead(calls', answers')
    BY <1>1, <1>3, <1>5, AwaitsAppended, SucceedsTail DEF IsMine, GoesWell, WillRead
  <1>9. ASSUME NEW txs, IsRead(calls, answers, page, shown, txs)
        PROVE  IsRead(calls', answers', page, shown, txs)
    <2>1. IsRead(calls', answers, page, shown, txs)
      BY <1>4, <1>5, <1>9, CallKeepsRead DEF IsMine
    <2> QED BY <1>1, <1>3, <2>1, TakingKeepsRead DEF IsMine
  <1> QED BY <1>1, <1>6, <1>7, <1>8, <1>9 DEF PageInv, IsFresh

\* The page takes an answer that is about no list, and makes a call that is about no
\* list, or none.
LEMMA TakenPage ==
  ASSUME PageInv, NEW op \in {"add", "sync", "flush"}, Receive(op),
         NEW m, IsMessage(m), m.op = "flush",
         calls' = Append(calls, m) \/ calls' = calls
  PROVE  /\ IsTail(answers, answers') /\ Head(answers) = answers[1]
         /\ answers[1].op = op
         /\ IsQueue(calls') /\ IsQueue(answers') /\ AddsAreRead(calls')
         /\ calls' = Append(calls, m) => IsAppended(calls, m, calls')
         /\ \A o : Awaits(calls, o) => Awaits(calls', o)
         /\ Syncs(calls, answers) /\ ~IsMine(answers[1], op) => Syncs(calls', answers')
         /\ WillRead(calls, answers) /\ ~GoesWell(answers[1]) => WillRead(calls', answers')
         /\ \A p, s, txs : IsRead(calls, answers, p, s, txs)
                             => IsRead(calls', answers', p, s, txs)
  <1>1. answers # << >> /\ Head(answers).op = op /\ answers' = Tail(answers)
    BY DEF Receive
  <1>2. IsQueue(calls) /\ IsQueue(answers) /\ AddsAreRead(calls)
    BY DEF PageInv
  <1>3. IsTail(answers, answers') /\ Head(answers) = answers[1] /\ answers[1].op = op
    BY <1>1, <1>2, TailOf
  <1>4. calls' = Append(calls, m) => IsAppended(calls, m, calls')
    BY <1>2, AppendedTo
  <1>5. IsAppended(calls, m, calls') \/ calls' = calls
    BY <1>4
  <1>6. IsQueue(calls') /\ IsQueue(answers') /\ AddsAreRead(calls')
    BY <1>2, <1>3, <1>5, ReadAppended DEF IsTail, IsAppended
  <1>7. \A o : Awaits(calls, o) => Awaits(calls', o)
    BY <1>5, AwaitsAppended
  <1>8. Syncs(calls, answers) /\ ~IsMine(answers[1], op) => Syncs(calls', answers')
    <2>1. ASSUME ~IsMine(answers[1], op), NEW o
          PROVE  Awaits(answers, o) => Awaits(answers', o)
      BY <1>3, <2>1, AwaitsTail DEF IsMine
    <2> QED BY <1>7, <2>1 DEF Syncs
  <1>9. WillRead(calls, answers) /\ ~GoesWell(answers[1]) => WillRead(calls', answers')
    BY <1>3, <1>7, SucceedsTail DEF WillRead
  <1>10. ASSUME NEW p, NEW s, NEW txs, IsRead(calls, answers, p, s, txs)
         PROVE  IsRead(calls', answers', p, s, txs)
    <2>1. ~IsMine(m, "transfers")
      BY DEF IsMine
    <2>2. IsRead(calls', answers, p, s, txs)
      BY <1>5, <1>10, <2>1, CallKeepsRead
    <2> QED BY <1>3, <2>2, TakingKeepsRead DEF IsMine
  <1> QED BY <1>3, <1>4, <1>6, <1>7, <1>8, <1>9, <1>10

LEMMA ReceiveAddPage ==
  ASSUME PageInv, ReceiveAdd
  PROVE  PageInv'
  <1> DEFINE m == [Message("flush") EXCEPT !.mine = FALSE]
  <1>1. /\ Receive("add") /\ (calls' = Append(calls, m) \/ calls' = calls)
        /\ UNCHANGED <<file, page, shown, syncing, unnoticed>>
    BY DEF ReceiveAdd, RestUnchanged, StoresUnchanged, HistoryUnchanged
  <1>2. IsMessage(m) /\ m.op = "flush"
    BY MessageIs, MessageOf
  <1> HIDE DEF m
  <1>3. /\ answers[1].op = "add"
        /\ IsQueue(calls') /\ IsQueue(answers') /\ AddsAreRead(calls')
        /\ WillRead(calls, answers) /\ ~GoesWell(answers[1]) => WillRead(calls', answers')
        /\ \A p, s, txs : IsRead(calls, answers, p, s, txs)
                            => IsRead(calls', answers', p, s, txs)
        /\ IsTail(answers, answers') /\ \A o : Awaits(calls, o) => Awaits(calls', o)
    BY <1>1, <1>2, TakenPage
  <1>4. Syncs(calls, answers) => Syncs(calls', answers')
    BY <1>3, AwaitsTail DEF Syncs, IsMine
  <1>5. ~GoesWell(answers[1])
    BY <1>3 DEF GoesWell, IsMine
  <1> QED BY <1>1, <1>3, <1>4, <1>5 DEF PageInv, IsFresh

LEMMA ReceiveSyncPage ==
  ASSUME PageInv, ReceiveSync
  PROVE  PageInv'
  <1> DEFINE m == [Message("flush") EXCEPT !.mine = Head(answers).mine]
  <1>1. /\ Receive("sync")
        /\ UNCHANGED <<file, page, shown, unnoticed>>
        /\ \/ Head(answers).ok /\ calls' = Append(calls, m) /\ syncing' = syncing
           \/ /\ ~Head(answers).ok /\ calls' = calls
              /\ syncing' = IF Head(answers).mine THEN FALSE ELSE syncing
    BY DEF ReceiveSync, RestUnchanged, StoresUnchanged, HistoryUnchanged
  <1>2. IsMessage(m) /\ m.op = "flush" /\ m.mine = Head(answers).mine
    BY MessageIs, MessageOf
  <1> HIDE DEF m
  <1>3. /\ Head(answers) = answers[1] /\ answers[1].op = "sync"
        /\ IsQueue(calls') /\ IsQueue(answers') /\ AddsAreRead(calls')
        /\ calls' = Append(calls, m) => IsAppended(calls, m, calls')
        /\ Syncs(calls, answers) /\ ~IsMine(answers[1], "sync") => Syncs(calls', answers')
        /\ WillRead(calls, answers) /\ ~GoesWell(answers[1]) => WillRead(calls', answers')
        /\ \A p, s, txs : IsRead(calls, answers, p, s, txs)
                            => IsRead(calls', answers', p, s, txs)
    BY <1>1, <1>2, TakenPage
  <1>4. CASE answers[1].mine /\ answers[1].ok
    <2>1. IsMine(m, "flush") /\ IsAppended(calls, m, calls')
      BY <1>1, <1>2, <1>3, <1>4 DEF IsMine
    <2>2. Awaits(calls', "flush")
      BY <2>1, AwaitsAppended
    <2> QED BY <1>3, <2>2 DEF PageInv, WillRead, Syncs
  <1>5. CASE ~(answers[1].mine /\ answers[1].ok)
    <2>1. syncing' => syncing /\ ~IsMine(answers[1], "sync")
      BY <1>1, <1>3, <1>5 DEF IsMine
    <2>2. ~GoesWell(answers[1])
      BY <1>5 DEF GoesWell, IsMine
    <2> QED BY <1>1, <1>3, <2>1, <2>2 DEF PageInv, IsFresh
  <1> QED BY <1>4, <1>5

LEMMA ReceiveFlushPage ==
  ASSUME PageInv, ReceiveFlush
  PROVE  PageInv'
  <1> DEFINE m == Message("list")
             other == Message("flush")
  <1>1. /\ Receive("flush")
        /\ UNCHANGED <<file, shown, unnoticed>>
        /\ syncing' = IF Head(answers).mine THEN FALSE ELSE syncing
    BY DEF ReceiveFlush, RestUnchanged, StoresUnchanged, HistoryUnchanged
  <1>2. /\ Head(answers).mine /\ Head(answers).ok => calls' = Append(calls, m)
        /\ ~(Head(answers).mine /\ Head(answers).ok) => UNCHANGED <<calls, page>>
    BY DEF ReceiveFlush
  <1>3. IsMessage(m) /\ IsMine(m, "list") /\ IsMessage(other) /\ other.op = "flush"
    BY MessageIs DEF IsMine
  <1> HIDE DEF m, other
  <1>4. IsQueue(calls) /\ IsQueue(answers) /\ AddsAreRead(calls)
    BY DEF PageInv
  <1>5. IsTail(answers, answers') /\ Head(answers) = answers[1] /\ answers[1].op = "flush"
    BY <1>1, <1>4, TailOf DEF Receive
  <1>6. CASE answers[1].mine /\ answers[1].ok
    <2>1. IsAppended(calls, m, calls') /\ syncing' = FALSE
      BY <1>1, <1>2, <1>3, <1>4, <1>5, <1>6, AppendedTo
    <2>2. /\ IsQueue(calls') /\ IsQueue(answers') /\ AddsAreRead(calls')
          /\ Awaits(calls', "list")
      BY <1>3, <1>5, <2>1, ReadAppended, AwaitsAppended DEF IsTail, IsAppended
    <2> QED BY <2>1, <2>2 DEF PageInv, WillRead
  <1>7. CASE ~(answers[1].mine /\ answers[1].ok)
    <2>1. UNCHANGED <<calls, page>>
      BY <1>2, <1>5, <1>7
    <2>2. /\ IsQueue(answers')
          /\ Syncs(calls, answers) /\ ~IsMine(answers[1], "flush") => Syncs(calls', answers')
          /\ WillRead(calls, answers) /\ ~GoesWell(answers[1])
               => WillRead(calls', answers')
          /\ \A p, s, txs : IsRead(calls, answers, p, s, txs)
                              => IsRead(calls', answers', p, s, txs)
      BY <1>1, <1>3, <2>1, TakenPage
    <2>3. syncing' => syncing /\ ~IsMine(answers[1], "flush")
      BY <1>1, <1>5 DEF IsMine
    <2>4. ~GoesWell(answers[1])
      BY <1>7 DEF GoesWell, IsMine
    <2> QED BY <1>1, <1>4, <2>1, <2>2, <2>3, <2>4 DEF PageInv, IsFresh
  <1> QED BY <1>6, <1>7

LEMMA PageSteps ==
  PageInv /\ [Next]_vars => PageInv'
  <1> SUFFICES ASSUME PageInv, [Next]_vars PROVE PageInv'
    OBVIOUS
  <1>1. CASE OtherPushes \/ EditTransaction \/ LeaveEditor
    <2>1. UNCHANGED <<file, page, shown, syncing, calls, answers, unnoticed>>
      BY <1>1 DEF OtherPushes, EditTransaction, LeaveEditor, PageUnchanged,
                  StoresUnchanged, HistoryUnchanged
    <2> QED BY <2>1 DEF PageInv
  <1>2. CASE Serve
    BY <1>2, ServeListPage, ServeWithoutFilePage, ServeFlushPage, ServeAddPage,
       ServeSyncPage DEF Serve
  <1>3. CASE ReceiveAnswer
    BY <1>3, ReceiveListPage, ReceiveTransfersPage, ReceivePointersPage, ReceiveAddPage,
       ReceiveSyncPage, ReceiveFlushPage DEF ReceiveAnswer
  <1>4. CASE UNCHANGED vars
    BY <1>4 DEF vars, PageInv
  <1> QED BY <1>1, <1>2, <1>3, <1>4, SaveTransactionPage, SynchronizePage, ReopenPage,
             RestartPage DEF Next

LEMMA SettledIsRight ==
  PageInv => SettledPageIsRight
  <1> SUFFICES ASSUME PageInv, calls = << >>, answers = << >>, ~unnoticed
               PROVE  ~syncing /\ (CanShow(file) => page = "loaded" /\ shown = Chain(file))
    BY DEF SettledPageIsRight
  <1>1. \A i \in 1..Len(<< >>) : FALSE
    OBVIOUS
  <1>2. ~Succeeds(<< >>) /\ \A op : ~Awaits(<< >>, op)
    BY <1>1 DEF Succeeds, Awaits
  <1>3. \A op, txs : ~NewestIs(<< >>, op, txs)
    BY <1>1 DEF NewestIs
  <1> QED BY <1>2, <1>3 DEF PageInv, WillRead, IsFresh, IsRead, Syncs

\* Whenever the page has settled it can synchronize again, and shows what the file
\* holds if the list and the balance can be computed, unless a sync() that changed
\* the file failed or outlived its page.  (loadTransactions, account.dart.)
THEOREM SettledIsRightAlways == Spec => []SettledPageIsRight
  <1>1. Init => PageInv
    BY PageStarts
  <1>2. PageInv /\ [Next]_vars => PageInv'
    BY PageSteps
  <1>3. PageInv => SettledPageIsRight
    BY SettledIsRight
  <1> QED BY <1>1, <1>2, <1>3, PTL DEF Spec

-------------------------------------------------------------------------------
(* The parents of the page's expenses.                                       *)

IsAdd(m) == m.op = "add"

NoAdds(q) == \A i \in 1..Len(q) : ~IsAdd(q[i])

\* Once the calls of queue q are taken, by a file whose latest transaction is l,
\* the latest transaction will be x.
EndsAt(q, l, x) ==
  \/ NoAdds(q) /\ x = l
  \/ \E i \in 1..Len(q) : /\ IsAdd(q[i]) /\ q[i].tx.uuid = x
                          /\ \A j \in 1..Len(q) : j > i => ~IsAdd(q[j])

StartsAt(q, l) ==
  \A i \in 1..Len(q) :
    IsAdd(q[i]) /\ (\A j \in 1..Len(q) : j < i => ~IsAdd(q[j])) => q[i].tx.parent = l

\* Each expense that waits to be stored sits on the one that waits before it.
Linked(q) ==
  \A i, j \in 1..Len(q) :
    /\ IsAdd(q[i]) /\ IsAdd(q[j]) /\ i < j
    /\ \A k \in 1..Len(q) : i < k /\ k < j => ~IsAdd(q[k])
    => q[j].tx.parent = q[i].tx.uuid

InTurn(q, l, x) == EndsAt(q, l, x) /\ StartsAt(q, l) /\ Linked(q)

LEMMA NoAddsInTurn ==
  ASSUME NEW q, NoAdds(q), NEW l
  PROVE  InTurn(q, l, l)
  BY DEF NoAdds, InTurn, EndsAt, StartsAt, Linked

\* A call that stores nothing.
LEMMA CallInTurn ==
  ASSUME NEW q, NEW l, NEW x, InTurn(q, l, x), NEW m, ~IsAdd(m),
         NEW r, IsAppended(q, m, r)
  PROVE  InTurn(r, l, x)
  <1>1. /\ Len(q) \in Nat /\ Len(r) = Len(q) + 1
        /\ \A i \in 1..Len(q) : i \in 1..Len(r) /\ r[i] = q[i]
        /\ \A i \in 1..Len(r) : IsAdd(r[i]) => i \in 1..Len(q)
    <2>1. /\ Len(q) \in Nat /\ Len(r) = Len(q) + 1
          /\ \A i \in 1..Len(q) : i \in 1..Len(r) /\ r[i] = q[i]
          /\ \A i \in 1..Len(r) : i \in 1..Len(q) \/ r[i] = m
      BY DEF IsAppended
    <2> QED BY <2>1
  <1>2. EndsAt(r, l, x)
    BY <1>1 DEF InTurn, EndsAt, NoAdds
  <1>3. StartsAt(r, l)
    BY <1>1 DEF InTurn, StartsAt
  <1>4. Linked(r)
    BY <1>1 DEF InTurn, Linked
  <1> QED BY <1>2, <1>3, <1>4 DEF InTurn

\* An expense on top of the transaction where the queue ends.
LEMMA AddInTurn ==
  ASSUME NEW q, NEW l, NEW x, InTurn(q, l, x), NEW m, IsAdd(m), m.tx.parent = x,
         NEW r, IsAppended(q, m, r)
  PROVE  InTurn(r, l, m.tx.uuid)
  <1> DEFINE e == Len(q) + 1
  <1>1. /\ Len(q) \in Nat /\ Len(r) = e /\ e \in 1..Len(r) /\ r[e] = m
        /\ \A i \in 1..Len(q) : i \in 1..Len(r) /\ r[i] = q[i] /\ i < e
        /\ \A i \in 1..Len(r) : i \in 1..Len(q) \/ i = e
        /\ \A i \in 1..Len(r) : ~(i > e)
    BY DEF IsAppended
  <1> HIDE DEF e
  <1>2. EndsAt(r, l, m.tx.uuid)
    BY <1>1 DEF EndsAt
  <1>3. StartsAt(r, l)
    <2> SUFFICES ASSUME NEW i \in 1..Len(r), IsAdd(r[i]),
                        \A j \in 1..Len(r) : j < i => ~IsAdd(r[j])
                 PROVE  r[i].tx.parent = l
      BY DEF StartsAt
    <2>1. CASE i \in 1..Len(q)
      BY <1>1, <2>1 DEF InTurn, StartsAt
    <2>2. CASE i = e
      <3>1. NoAdds(q)
        BY <1>1, <2>2 DEF NoAdds
      <3>2. x = l
        BY <3>1 DEF InTurn, EndsAt, NoAdds
      <3> QED BY <1>1, <2>2, <3>2
    <2> QED BY <1>1, <2>1, <2>2
  <1>4. Linked(r)
    <2> SUFFICES ASSUME NEW i \in 1..Len(r), NEW j \in 1..Len(r),
                        IsAdd(r[i]), IsAdd(r[j]), i < j,
                        \A k \in 1..Len(r) : i < k /\ k < j => ~IsAdd(r[k])
                 PROVE  r[j].tx.parent = r[i].tx.uuid
      BY DEF Linked
    <2>1. i \in 1..Len(q)
      BY <1>1
    <2>2. CASE j \in 1..Len(q)
      BY <1>1, <2>1, <2>2 DEF InTurn, Linked
    <2>3. CASE j = e
      <3>1. ~NoAdds(q)
        BY <1>1, <2>1 DEF NoAdds
      <3>2. PICK k \in 1..Len(q) : /\ IsAdd(q[k]) /\ q[k].tx.uuid = x
                                   /\ \A h \in 1..Len(q) : h > k => ~IsAdd(q[h])
        BY <3>1 DEF InTurn, EndsAt
      <3>3. k = i
        BY <1>1, <2>1, <2>3, <3>2
      <3> QED BY <1>1, <2>1, <2>3, <3>2, <3>3
    <2> QED BY <1>1, <2>2, <2>3
  <1> QED BY <1>2, <1>3, <1>4 DEF InTurn

\* The isolate takes a call that stores nothing.
LEMMA TakenInTurn ==
  ASSUME NEW q, NEW l, NEW x, InTurn(q, l, x), NEW r, IsTail(q, r), ~IsAdd(q[1])
  PROVE  InTurn(r, l, x)
  <1>1. /\ Len(q) \in Nat /\ Len(r) = Len(q) - 1
        /\ \A i \in 1..Len(r) : i + 1 \in 1..Len(q) /\ r[i] = q[i + 1]
    BY DEF IsTail
  <1>2. \A i \in 1..Len(q) : IsAdd(q[i]) => i - 1 \in 1..Len(r) /\ r[i - 1] = q[i]
    <2>1. \A i \in 1..Len(q) : i = 1 \/ (i - 1 \in 1..Len(r) /\ r[i - 1] = q[i])
      BY <1>1
    <2> QED BY <2>1
  <1>3. EndsAt(r, l, x)
    <2>1. CASE NoAdds(q) /\ x = l
      BY <1>1, <2>1 DEF NoAdds, EndsAt
    <2>2. CASE ~(NoAdds(q) /\ x = l)
      <3>1. PICK i \in 1..Len(q) : /\ IsAdd(q[i]) /\ q[i].tx.uuid = x
                                   /\ \A j \in 1..Len(q) : j > i => ~IsAdd(q[j])
        BY <2>2 DEF InTurn, EndsAt
      <3>2. i - 1 \in 1..Len(r) /\ r[i - 1] = q[i]
        BY <1>2, <3>1
      <3>3. \A j \in 1..Len(r) : j > i - 1 => ~IsAdd(r[j])
        BY <1>1, <3>1
      <3> QED BY <3>1, <3>2, <3>3 DEF EndsAt
    <2> QED BY <2>1, <2>2
  <1>4. StartsAt(r, l)
    <2> SUFFICES ASSUME NEW i \in 1..Len(r), IsAdd(r[i]),
                        \A j \in 1..Len(r) : j < i => ~IsAdd(r[j])
                 PROVE  r[i].tx.parent = l
      BY DEF StartsAt
    <2>1. i + 1 \in 1..Len(q) /\ r[i] = q[i + 1]
      BY <1>1
    <2>2. \A j \in 1..Len(q) : j < i + 1 => ~IsAdd(q[j])
      <3> SUFFICES ASSUME NEW j \in 1..Len(q), j < i + 1, IsAdd(q[j]) PROVE FALSE
        OBVIOUS
      <3>1. j - 1 \in 1..Len(r) /\ r[j - 1] = q[j]
        BY <1>2
      <3> QED BY <1>1, <3>1
    <2> QED BY <2>1, <2>2 DEF InTurn, StartsAt
  <1>5. Linked(r)
    <2> SUFFICES ASSUME NEW i \in 1..Len(r), NEW j \in 1..Len(r),
                        IsAdd(r[i]), IsAdd(r[j]), i < j,
                        \A k \in 1..Len(r) : i < k /\ k < j => ~IsAdd(r[k])
                 PROVE  r[j].tx.parent = r[i].tx.uuid
      BY DEF Linked
    <2>1. /\ i + 1 \in 1..Len(q) /\ r[i] = q[i + 1] /\ j + 1 \in 1..Len(q) /\ r[j] = q[j + 1]
          /\ i + 1 < j + 1
      BY <1>1
    <2>2. \A k \in 1..Len(q) : i + 1 < k /\ k < j + 1 => ~IsAdd(q[k])
      <3> SUFFICES ASSUME NEW k \in 1..Len(q), i + 1 < k, k < j + 1, IsAdd(q[k]) PROVE FALSE
        OBVIOUS
      <3>1. k - 1 \in 1..Len(r) /\ r[k - 1] = q[k]
        BY <1>2
      <3>2. i < k - 1 /\ k - 1 < j
        BY <1>1
      <3> QED BY <3>1, <3>2
    <2> QED BY <2>1, <2>2 DEF InTurn, Linked
  <1> QED BY <1>3, <1>4, <1>5 DEF InTurn

\* The isolate stores an expense.
LEMMA StoredInTurn ==
  ASSUME NEW q, NEW l, NEW x, InTurn(q, l, x), NEW r, IsTail(q, r), IsAdd(q[1])
  PROVE  InTurn(r, q[1].tx.uuid, x) /\ q[1].tx.parent = l
  <1> DEFINE u == q[1].tx.uuid
  <1>1. /\ Len(q) \in Nat /\ Len(r) = Len(q) - 1 /\ 1 \in 1..Len(q)
        /\ \A i \in 1..Len(r) : i + 1 \in 1..Len(q) /\ r[i] = q[i + 1]
        /\ \A i \in 1..Len(q) : i = 1 \/ (i - 1 \in 1..Len(r) /\ r[i - 1] = q[i])
    BY DEF IsTail
  <1>2. q[1].tx.parent = l
    <2>1. \A j \in 1..Len(q) : ~(j < 1)
      OBVIOUS
    <2> QED BY <1>1, <2>1 DEF InTurn, StartsAt
  <1>3. EndsAt(r, u, x)
    <2>1. PICK i \in 1..Len(q) : /\ IsAdd(q[i]) /\ q[i].tx.uuid = x
                                 /\ \A j \in 1..Len(q) : j > i => ~IsAdd(q[j])
      BY <1>1 DEF InTurn, EndsAt, NoAdds
    <2>2. \A j \in 1..Len(r) : j > i - 1 => ~IsAdd(r[j])
      BY <1>1, <2>1
    <2>3. CASE i = 1
      <3>1. NoAdds(r) /\ x = u
        BY <1>1, <2>1, <2>2, <2>3 DEF NoAdds
      <3> QED BY <3>1 DEF EndsAt
    <2>4. CASE i # 1
      <3>1. i - 1 \in 1..Len(r) /\ r[i - 1] = q[i]
        BY <1>1, <2>4
      <3> QED BY <2>1, <2>2, <3>1 DEF EndsAt
    <2> QED BY <2>3, <2>4
  <1>4. StartsAt(r, u)
    <2> SUFFICES ASSUME NEW i \in 1..Len(r), IsAdd(r[i]),
                        \A j \in 1..Len(r) : j < i => ~IsAdd(r[j])
                 PROVE  r[i].tx.parent = u
      BY DEF StartsAt
    <2>1. i + 1 \in 1..Len(q) /\ r[i] = q[i + 1] /\ 1 < i + 1
      BY <1>1
    <2>2. \A k \in 1..Len(q) : 1 < k /\ k < i + 1 => ~IsAdd(q[k])
      <3> SUFFICES ASSUME NEW k \in 1..Len(q), 1 < k, k < i + 1, IsAdd(q[k]) PROVE FALSE
        OBVIOUS
      <3>1. k - 1 \in 1..Len(r) /\ r[k - 1] = q[k] /\ k - 1 < i
        BY <1>1
      <3> QED BY <3>1
    <2> QED BY <1>1, <2>1, <2>2 DEF InTurn, Linked
  <1>5. Linked(r)
    <2> SUFFICES ASSUME NEW i \in 1..Len(r), NEW j \in 1..Len(r),
                        IsAdd(r[i]), IsAdd(r[j]), i < j,
                        \A k \in 1..Len(r) : i < k /\ k < j => ~IsAdd(r[k])
                 PROVE  r[j].tx.parent = r[i].tx.uuid
      BY DEF Linked
    <2>1. /\ i + 1 \in 1..Len(q) /\ r[i] = q[i + 1] /\ j + 1 \in 1..Len(q) /\ r[j] = q[j + 1]
          /\ i + 1 < j + 1
      BY <1>1
    <2>2. \A k \in 1..Len(q) : i + 1 < k /\ k < j + 1 => ~IsAdd(q[k])
      <3> SUFFICES ASSUME NEW k \in 1..Len(q), i + 1 < k, k < j + 1, IsAdd(q[k]) PROVE FALSE
        OBVIOUS
      <3>1. k - 1 \in 1..Len(r) /\ r[k - 1] = q[k] /\ i < k - 1 /\ k - 1 < j
        BY <1>1
      <3> QED BY <3>1
    <2> QED BY <2>1, <2>2 DEF InTurn, Linked
  <1> QED BY <1>2, <1>3, <1>4, <1>5 DEF InTurn

\* The page has gone, and its calls go on.
LEMMA OrphansInTurn ==
  ASSUME NEW q, NEW l, NEW x, InTurn(q, l, x), NEW r, IsOrphaned(q, r)
  PROVE  InTurn(r, l, x)
  <1>1. /\ Len(r) = Len(q)
        /\ \A i \in 1..Len(q) : r[i].op = q[i].op /\ r[i].tx = q[i].tx
    BY DEF IsOrphaned
  <1>2. /\ Len(r) = Len(q)
        /\ \A i \in 1..Len(q) : (IsAdd(r[i]) <=> IsAdd(q[i])) /\ r[i].tx = q[i].tx
    BY <1>1 DEF IsAdd
  <1>3. EndsAt(r, l, x)
    BY <1>2 DEF InTurn, EndsAt, NoAdds
  <1>4. StartsAt(r, l)
    BY <1>2 DEF InTurn, StartsAt
  <1>5. Linked(r)
    BY <1>2 DEF InTurn, Linked
  <1> QED BY <1>3, <1>4, <1>5 DEF InTurn

-------------------------------------------------------------------------------

\* While the account object is up to date, the expenses that wait are in turn: each
\* sits on the one before, the first on the file's latest, and `latest` is the last.
TurnInv ==
  /\ IsQueue(calls) /\ IsRecord(file) /\ IsRecord(disk)
  /\ ~stale => InTurn(calls, file.latest, latest)

\* The file has a latest transaction, whatever is written to it.
LEMMA StoringIsRecord ==
  ASSUME NEW r, IsRecord(r), NEW tx
  PROVE  IsRecord(WithTransaction(r, tx)) /\ WithTransaction(r, tx).latest = tx.uuid
  <1> DEFINE a == AddTransaction(r, tx)
             q == WithTransaction(r, tx)
  <1>1. a = [txs |-> a.txs, latest |-> r.latest, synced |-> r.synced]
    BY DEF IsRecord, AddTransaction
  <1>2. q = SetLatestTransaction(a, tx.uuid)
    BY DEF WithTransaction
  <1> HIDE DEF a, q
  <1>3. q = [txs |-> a.txs, latest |-> tx.uuid, synced |-> r.synced]
    BY <1>1, <1>2 DEF SetLatestTransaction
  <1>4. IsRecord(q) /\ q.latest = tx.uuid
    BY <1>3 DEF IsRecord
  <1> QED BY <1>4 DEF q

LEMMA SyncIsRecord ==
  ASSUME NEW r, IsRecord(r), NEW remote, NEW n, NEW f, f = Fetch(r, remote, n)
  PROVE  IsRecord(f) /\ IsRecord(MarkPushed(f))
  <1>1. IsRecord(f)
    BY DEF Fetch, RebaseLocalTransactions, IsRecord
  <1>2. IsRecord([f EXCEPT !.synced = f.latest])
    <2> DEFINE g == [f EXCEPT !.synced = f.latest]
    <2>1. g = [txs |-> f.txs, latest |-> f.latest, synced |-> f.latest]
      BY <1>1 DEF IsRecord
    <2> QED BY <2>1 DEF IsRecord
  <1> QED BY <1>1, <1>2 DEF MarkPushed, SetLatestSynchronizedTransaction

LEMMA TurnStarts ==
  Init => TurnInv
  <1> SUFFICES ASSUME Init PROVE TurnInv
    OBVIOUS
  <1>1. calls = <<Message("list")>> /\ file = EmptyRepo /\ latest = NoId
    BY DEF Init
  <1>2. IsQueue(calls) /\ NoAdds(calls)
    BY <1>1, OneList DEF NoAdds, IsAdd
  <1>3. IsRecord(file) /\ file.latest = NoId
    BY <1>1 DEF EmptyRepo, IsRecord
  <1>4. disk = file
    BY DEF Init
  <1> QED BY <1>1, <1>2, <1>3, <1>4, NoAddsInTurn DEF TurnInv

LEMMA SaveTransactionTurn ==
  ASSUME TurnInv, SaveTransaction
  PROVE  TurnInv'
  <1>1. PICK deleted : /\ calls' = calls \o <<AddMessage(Saved(deleted)), Message("list")>>
                       /\ latest' = nextId /\ UNCHANGED <<file, disk, stale>>
    BY DEF SaveTransaction, AddMessage, StoresUnchanged, HistoryUnchanged
  <1> DEFINE tx == Saved(deleted)
             m  == AddMessage(tx)
             n  == Message("list")
             r  == Append(calls, m)
  <1>2. /\ calls' = calls \o <<m, n>> /\ latest' = tx.uuid /\ UNCHANGED <<file, disk, stale>>
        /\ tx.parent = latest
    BY <1>1 DEF Saved, NewTransaction
  <1> HIDE DEF tx
  <1>3. IsMessage(m) /\ IsAdd(m) /\ m.tx = tx /\ IsMessage(n) /\ ~IsAdd(n)
    BY MessageWithTx, MessageIs DEF IsAdd
  <1> HIDE DEF m, n
  <1>4. IsQueue(calls) /\ IsRecord(file) /\ IsRecord(disk)
    BY DEF TurnInv
  <1>5. calls' = Append(r, n)
    BY <1>2, <1>4, AppendTwo
  <1>6. IsAppended(calls, m, r)
    BY <1>3, <1>4, AppendedTo
  <1> HIDE DEF r
  <1>7. IsAppended(r, n, calls') /\ IsQueue(calls')
    <2>1. IsQueue(r)
      BY <1>6 DEF IsAppended
    <2>2. IsAppended(r, n, calls')
      BY <1>3, <1>5, <2>1, AppendedTo
    <2> QED BY <2>2 DEF IsAppended
  <1>8. ASSUME ~stale PROVE InTurn(calls', file.latest, tx.uuid)
    <2>1. InTurn(calls, file.latest, latest)
      BY <1>8 DEF TurnInv
    <2>2. InTurn(r, file.latest, tx.uuid)
      BY <1>2, <1>3, <1>6, <2>1, AddInTurn
    <2> QED BY <1>3, <1>7, <2>2, CallInTurn
  <1> QED BY <1>2, <1>4, <1>7, <1>8 DEF TurnInv

\* A step that stores nothing.  It may call with message m, and flush the file.
Calls(m) ==
  /\ IsMessage(m) /\ ~IsAdd(m)
  /\ \/ UNCHANGED calls
     \/ calls' = Append(calls, m)
     \/ calls' = Append(Orphans(calls), m)
     \/ calls # << >> /\ Head(calls).op # "add" /\ calls' = Tail(calls)
  /\ disk' \in {disk, file}
  /\ UNCHANGED <<file, server, nextId, stored, forked, latest, stale, rewound>>

\* What the steps of the page that take an answer leave alone.
LEMMA ReceivingStoresNothing ==
  ASSUME RestUnchanged
  PROVE  UNCHANGED <<file, disk, server, nextId, stored, forked, latest, stale, rewound>>
  BY DEF RestUnchanged, StoresUnchanged, HistoryUnchanged

LEMMA TakingStoresNothing ==
  ASSUME PageInv, ReceiveAnswer
  PROVE  \E m : Calls(m)
  <1>1. RestUnchanged
    BY DEF ReceiveAnswer, ReceiveList, ReceiveTransfers, ReceivePointers, ReceiveAdd,
           ReceiveSync, ReceiveFlush
  <1>2. UNCHANGED <<file, disk, server, nextId, stored, forked, latest, stale, rewound>>
    BY <1>1, ReceivingStoresNothing
  <1>3. /\ IsMessage(Message("list")) /\ ~IsAdd(Message("list"))
        /\ \A n : LET m == [Message("flush") EXCEPT !.mine = n]
                  IN  IsMessage(m) /\ ~IsAdd(m)
        /\ \A n : LET m == [Message("sync") EXCEPT !.mine = n]
                  IN  IsMessage(m) /\ ~IsAdd(m)
    BY MessageIs, MessageOf DEF IsAdd
  <1>4. CASE ReceiveList
    <2> DEFINE m == [Head(answers) EXCEPT !.op = "transfers"]
    <2>1. /\ answers # << >> /\ IsQueue(answers)
          /\ calls' = Append(calls, m) \/ UNCHANGED calls
      BY <1>4 DEF ReceiveList, Receive, PageInv
    <2>2. IsMessage(Head(answers))
      BY <2>1, TailOf
    <2>3. IsMessage(m) /\ ~IsAdd(m)
      BY <2>2, MessageAs DEF IsAdd
    <2> HIDE DEF m
    <2> QED BY <1>2, <2>1, <2>3 DEF Calls
  <1>5. CASE ReceivePointers
    BY <1>2, <1>3, <1>5 DEF ReceivePointers, Calls
  <1>6. CASE ReceiveSync \/ ReceiveAdd
    <2>1. \E n : LET m == [Message("flush") EXCEPT !.mine = n]
                 IN  calls' = Append(calls, m) \/ UNCHANGED calls
      BY <1>6 DEF ReceiveSync, ReceiveAdd
    <2> QED BY <1>2, <1>3, <2>1 DEF Calls
  <1>7. CASE ReceiveTransfers \/ ReceiveFlush
    BY <1>2, <1>3, <1>7 DEF ReceiveTransfers, ReceiveFlush, Calls
  <1> QED BY <1>4, <1>5, <1>6, <1>7 DEF ReceiveAnswer

LEMMA StoresNothing ==
  ASSUME PageInv,
         \/ EditTransaction \/ LeaveEditor \/ Synchronize \/ Reopen
         \/ ServeList \/ ServeWithoutFile \/ ServeFlush \/ ReceiveAnswer
  PROVE  \E m : Calls(m)
  <1>1. /\ IsMessage(Message("list")) /\ ~IsAdd(Message("list"))
        /\ IsMessage(Message("pointers")) /\ ~IsAdd(Message("pointers"))
    BY MessageIs DEF IsAdd
  <1>2. CASE EditTransaction \/ LeaveEditor
    BY <1>1, <1>2 DEF EditTransaction, LeaveEditor, StoresUnchanged, HistoryUnchanged, Calls
  <1>3. CASE Synchronize
    BY <1>1, <1>3 DEF Synchronize, StoresUnchanged, HistoryUnchanged, Calls
  <1>4. CASE Reopen
    BY <1>1, <1>4 DEF Reopen, StoresUnchanged, HistoryUnchanged, Calls
  <1>5. CASE ServeList \/ ServeWithoutFile
    BY <1>1, <1>5
       DEF ServeList, ServeWithoutFile, Answer, Take, PageUnchanged, StoresUnchanged,
           HistoryUnchanged, Calls
  <1>6. CASE ServeFlush
    BY <1>1, <1>6 DEF ServeFlush, Answer, Take, PageUnchanged, Calls
  <1> QED BY <1>2, <1>3, <1>4, <1>5, <1>6, TakingStoresNothing

LEMMA CallTurn ==
  ASSUME TurnInv, NEW m, IsMessage(m), ~IsAdd(m),
         calls' = Append(calls, m) \/ UNCHANGED calls,
         disk' \in {disk, file}, UNCHANGED <<file, latest, stale>>
  PROVE  TurnInv'
  <1>1. CASE UNCHANGED calls
    BY <1>1 DEF TurnInv
  <1>2. CASE calls' = Append(calls, m)
    <2>1. IsAppended(calls, m, calls') /\ IsQueue(calls')
      BY <1>2, AppendedTo DEF TurnInv, IsAppended
    <2> QED BY <2>1, CallInTurn DEF TurnInv
  <1> QED BY <1>1, <1>2

LEMMA ReopenTurn ==
  ASSUME TurnInv, NEW m, IsMessage(m), ~IsAdd(m),
         calls' = Append(Orphans(calls), m),
         disk' \in {disk, file}, UNCHANGED <<file, latest, stale>>
  PROVE  TurnInv'
  <1> DEFINE r == Orphans(calls)
  <1>1. calls' = Append(r, m) /\ UNCHANGED <<file, latest, stale>>
    OBVIOUS
  <1>2. IsOrphaned(calls, r) /\ IsQueue(r)
    BY OrphansOf DEF TurnInv, IsOrphaned
  <1> HIDE DEF r
  <1>3. IsAppended(r, m, calls') /\ IsQueue(calls')
    BY <1>1, <1>2, AppendedTo DEF IsAppended
  <1>4. \A l, x : InTurn(calls, l, x) => InTurn(calls', l, x)
    BY <1>2, <1>3, OrphansInTurn, CallInTurn
  <1> QED BY <1>1, <1>3, <1>4 DEF TurnInv

LEMMA RestartTurn ==
  ASSUME TurnInv, Restart
  PROVE  TurnInv'
  <1>1. /\ calls' = <<Message("list")>> /\ file' = disk /\ latest' = disk.latest
        /\ UNCHANGED disk
    BY DEF Restart
  <1>2. IsQueue(calls') /\ NoAdds(calls')
    BY <1>1, OneList DEF NoAdds, IsAdd
  <1>3. InTurn(calls', file'.latest, latest')
    BY <1>1, <1>2, NoAddsInTurn
  <1> QED BY <1>1, <1>2, <1>3 DEF TurnInv

\* A step that answers a call, and moves the account only if that is noted.
LEMMA ServedTurn ==
  ASSUME TurnInv, calls # << >>, Head(calls).op # "add", calls' = Tail(calls),
         IsRecord(file'), disk' \in {disk, file'},
         ~stale' => ~stale /\ file'.latest = file.latest,
         UNCHANGED latest
  PROVE  TurnInv'
  <1>1. IsTail(calls, calls') /\ IsQueue(calls') /\ ~IsAdd(calls[1])
    BY TailOf DEF TurnInv, IsTail, IsAdd
  <1>2. ~stale' => InTurn(calls', file'.latest, latest)
    BY <1>1, TakenInTurn DEF TurnInv
  <1>3. IsRecord(disk')
    BY DEF TurnInv
  <1> QED BY <1>1, <1>2, <1>3 DEF TurnInv

LEMMA ServeAddTurn ==
  ASSUME TurnInv, ServeAdd
  PROVE  TurnInv'
  <1> DEFINE tx == Head(calls).tx
  <1>1. /\ calls # << >> /\ Head(calls).op = "add" /\ calls' = Tail(calls)
        /\ UNCHANGED latest /\ disk' \in {disk, file'}
        /\ \/ file' = WithTransaction(file, tx) /\ UNCHANGED stale
           \/ stale' = TRUE /\ UNCHANGED file
    BY DEF ServeAdd, Take, Answer, MaybeFlushed, PageUnchanged
  <1>2. IsTail(calls, calls') /\ IsQueue(calls') /\ IsAdd(calls[1]) /\ tx = calls[1].tx
    BY <1>1, TailOf DEF TurnInv, IsTail, IsAdd
  <1> HIDE DEF tx
  <1>3. CASE stale' = TRUE /\ UNCHANGED file
    BY <1>1, <1>2, <1>3 DEF TurnInv
  <1>4. CASE file' = WithTransaction(file, tx) /\ UNCHANGED stale
    <2>1. IsRecord(file') /\ file'.latest = tx.uuid
      BY <1>4, StoringIsRecord DEF TurnInv
    <2>2. ~stale => InTurn(calls', tx.uuid, latest)
      BY <1>2, StoredInTurn DEF TurnInv
    <2>3. IsRecord(disk')
      BY <1>1, <2>1 DEF TurnInv
    <2> QED BY <1>1, <1>2, <1>4, <2>1, <2>2, <2>3 DEF TurnInv
  <1> QED BY <1>1, <1>3, <1>4

\* The step that a sync() takes when it returns: its outcome, or nothing done.
LEMMA SyncEnds ==
  ASSUME ServeSync
  PROVE  \E local, remote, ok :
           /\ EndSync(local, remote, ok)
           /\ \/ local = file /\ remote = server /\ nextId' = nextId
              \/ /\ nextId' = IF CanFetch(file, server)
                                THEN nextId + IdsForFetch(file, server)
                                ELSE nextId
                 /\ \E o \in SyncOutcomes(file, server, nextId) :
                      local = o.local /\ remote = o.remote
  <1>1. CASE \E o \in SyncOutcomes(file, server, nextId) :
               EndSync(o.local, o.remote,
                       o.end = "returned" /\ CanSync(file, server, nextId))
             /\ nextId' = IF CanFetch(file, server)
                            THEN nextId + IdsForFetch(file, server)
                            ELSE nextId
    <2>1. PICK o \in SyncOutcomes(file, server, nextId) :
               EndSync(o.local, o.remote,
                       o.end = "returned" /\ CanSync(file, server, nextId))
      BY <1>1
    <2> DEFINE ok == o.end = "returned" /\ CanSync(file, server, nextId)
    <2>2. EndSync(o.local, o.remote, ok)
      BY <2>1
    <2> HIDE DEF ok
    <2> QED BY <1>1, <2>2
  <1>2. CASE EndSync(file, server, FALSE) /\ UNCHANGED nextId
    BY <1>2
  <1> QED BY <1>1, <1>2, Zenon DEF ServeSync

LEMMA ServeSyncTurn ==
  ASSUME TurnInv, ServeSync
  PROVE  TurnInv'
  <1>1. PICK local, remote, ok :
          /\ EndSync(local, remote, ok)
          /\ \/ local = file
             \/ \E o \in SyncOutcomes(file, server, nextId) : local = o.local
    BY SyncEnds
  <1>2. \/ local = file
        \/ local = Fetch(file, server, nextId)
        \/ local = MarkPushed(Fetch(file, server, nextId))
    <2>1. \A o \in SyncOutcomes(file, server, nextId) :
            \/ o.local = Fetch(file, server, nextId)
            \/ o.local = LocalAfterSync(file, server, nextId)
      BY FetchedOutcomes
    <2>2. LocalAfterSync(file, server, nextId)
            \in {file, Fetch(file, server, nextId),
                 MarkPushed(Fetch(file, server, nextId))}
      BY DEF LocalAfterSync
    <2> QED BY <1>1, <2>1, <2>2
  <1>3. IsRecord(local)
    BY <1>2, SyncIsRecord DEF TurnInv
  <1>4. /\ calls # << >> /\ Head(calls).op = "sync" /\ calls' = Tail(calls)
        /\ file' = local /\ stale' = (stale \/ local.latest # file.latest)
        /\ disk' \in {disk, file'} /\ UNCHANGED latest
    BY <1>1 DEF ServeSync, EndSync, Answer, Take, MaybeFlushed, PageUnchanged
  <1> QED BY <1>3, <1>4, ServedTurn

LEMMA CallsTurn ==
  ASSUME TurnInv, NEW m, Calls(m)
  PROVE  TurnInv'
  <1>1. CASE calls' = Append(calls, m) \/ UNCHANGED calls
    BY <1>1, CallTurn DEF Calls
  <1>2. CASE calls' = Append(Orphans(calls), m)
    BY <1>2, ReopenTurn DEF Calls
  <1>3. CASE calls # << >> /\ Head(calls).op # "add" /\ calls' = Tail(calls)
    BY <1>3, ServedTurn DEF Calls, TurnInv
  <1> QED BY <1>1, <1>2, <1>3 DEF Calls

LEMMA TurnSteps ==
  TurnInv /\ PageInv /\ [Next]_vars => TurnInv'
  <1> SUFFICES ASSUME TurnInv, PageInv, [Next]_vars PROVE TurnInv'
    OBVIOUS
  <1>1. CASE \/ EditTransaction \/ LeaveEditor \/ Synchronize \/ Reopen
             \/ ServeList \/ ServeWithoutFile \/ ServeFlush \/ ReceiveAnswer
    <2>1. PICK m : Calls(m)
      BY <1>1, StoresNothing
    <2> QED BY <2>1, CallsTurn
  <1>2. CASE OtherPushes \/ UNCHANGED vars
    BY <1>2 DEF OtherPushes, PageUnchanged, HistoryUnchanged, vars, TurnInv
  <1> QED BY <1>1, <1>2, SaveTransactionTurn, ServeAddTurn, ServeSyncTurn, RestartTurn
          DEF Next, Serve

LEMMA InTurnIsLatest ==
  TurnInv => ParentIsLatest
  <1> SUFFICES ASSUME TurnInv, ~stale
               PROVE  latest = IF Adds(calls) = {} THEN file.latest
                                                   ELSE calls[Max(Adds(calls))].tx.uuid
    BY DEF ParentIsLatest
  <1>1. EndsAt(calls, file.latest, latest)
    BY DEF TurnInv, InTurn
  <1>2. DOMAIN calls = 1..Len(calls) /\ Len(calls) \in Nat
    BY LenProperties DEF TurnInv, IsQueue
  <1>3. Adds(calls) = {i \in 1..Len(calls) : IsAdd(calls[i])}
    BY <1>2 DEF Adds, IsAdd
  <1>4. CASE NoAdds(calls) /\ latest = file.latest
    BY <1>3, <1>4 DEF NoAdds
  <1>5. CASE ~(NoAdds(calls) /\ latest = file.latest)
    <2>1. PICK i \in 1..Len(calls) :
            /\ IsAdd(calls[i]) /\ calls[i].tx.uuid = latest
            /\ \A j \in 1..Len(calls) : j > i => ~IsAdd(calls[j])
      BY <1>1, <1>5 DEF EndsAt
    <2>2. i \in Adds(calls) /\ \A j \in Adds(calls) : i >= j
      BY <1>2, <1>3, <2>1
    <2>3. \A k \in Adds(calls) : (\A j \in Adds(calls) : k >= j) => k = i
      BY <1>2, <1>3, <2>2
    <2>4. Max(Adds(calls)) = i
      BY <2>2, <2>3 DEF Max
    <2> QED BY <2>1, <2>2, <2>4
  <1> QED BY <1>4, <1>5

\* While the account object is not out of date, the next expense will sit on the
\* latest transaction: the one the file will have once every call made so far
\* has been taken.  (saveTransaction.)
THEOREM ParentIsLatestAlways == Spec => []ParentIsLatest
  <1>1. Init => PageInv /\ TurnInv
    BY PageStarts, TurnStarts
  <1>2. PageInv /\ TurnInv /\ [Next]_vars => (PageInv /\ TurnInv)'
    BY PageSteps, TurnSteps
  <1>3. TurnInv => ParentIsLatest
    BY InTurnIsLatest
  <1> QED BY <1>1, <1>2, <1>3, PTL DEF Spec

-------------------------------------------------------------------------------
(* The phone's expenses in a list.  OfPhone is a recursive function on        *)
(* positions; induction is by the least counterexample, as for ChainSince.    *)

\* What OfPhone's function g has at position n, from what it has before it.
Counted(g, txs, n) ==
  IF n = 0 THEN << >>
  ELSE IF txs[n].body.by = "phone" THEN Append(g[n - 1], txs[n].body.nth)
                                   ELSE g[n - 1]

\* Function g lists the phone's expenses among the first n, and fewer, of txs.
IsCount(g, txs, n) == g = [i \in 0..n |-> Counted(g, txs, i)]

Numbers(txs) == {txs[i].body.nth : i \in 1..Len(txs)}

LEMMA CountUnique ==
  ASSUME NEW txs, NEW n \in Nat, NEW g, IsCount(g, txs, n), NEW h, IsCount(h, txs, n)
  PROVE  g = h
  <1> DEFINE D == {i \in 0..n : g[i] # h[i]}
  <1>1. /\ \A i \in 0..n : g[i] = Counted(g, txs, i) /\ h[i] = Counted(h, txs, i)
        /\ g = [i \in 0..n |-> g[i]] /\ h = [i \in 0..n |-> h[i]]
    <2>1. /\ \A i \in 0..n : g[i] = Counted(g, txs, i)
          /\ g = [i \in 0..n |-> g[i]]
      BY DEF IsCount
    <2>2. /\ \A i \in 0..n : h[i] = Counted(h, txs, i)
          /\ h = [i \in 0..n |-> h[i]]
      BY DEF IsCount
    <2> QED BY <2>1, <2>2
  <1>2. ASSUME D # {} PROVE FALSE
    <2>1. PICK i \in D : \A k \in D : i <= k
      <3>1. D \in SUBSET Nat
        OBVIOUS
      <3> HIDE DEF D
      <3> QED BY <1>2, <3>1, LeastElement
    <2>2. CASE i = 0
      BY <1>1, <2>1, <2>2 DEF Counted
    <2>3. CASE i # 0
      <3>1. i - 1 \in 0..n /\ i - 1 \notin D
        BY <2>1, <2>3
      <3>2. g[i - 1] = h[i - 1]
        BY <3>1
      <3> QED BY <1>1, <2>1, <2>3, <3>2 DEF Counted
    <2> QED BY <2>2, <2>3
  <1>3. \A i \in 0..n : g[i] = h[i]
    BY <1>2
  <1> HIDE DEF D
  <1> QED BY <1>1, <1>3

LEMMA CountExists ==
  ASSUME NEW S, NEW txs \in Seq(S), NEW n \in 0..Len(txs)
  PROVE  \E g : IsCount(g, txs, n) /\ \A i \in 0..n : g[i] \in Seq(Numbers(txs))
  <1> DEFINE V == Numbers(txs)
             Good(g, m) == IsCount(g, txs, m) /\ \A i \in 0..m : g[i] \in Seq(V)
             D == {m \in 0..Len(txs) : ~ \E g : Good(g, m)}
  <1>0. Len(txs) \in Nat
    BY LenProperties
  <1>1. SUFFICES ASSUME D # {} PROVE FALSE
    BY <1>1
  <1>2. PICK m \in D : \A k \in D : m <= k
    <2>1. D \in SUBSET Nat
      BY <1>0
    <2> HIDE DEF D
    <2> QED BY <1>1, <2>1, LeastElement
  <1>3. CASE m = 0
    <2> DEFINE g == [i \in 0..0 |-> << >>]
    <2>1. \A i \in 0..0 : i = 0 /\ g[i] = << >> /\ Counted(g, txs, i) = << >>
      BY DEF Counted
    <2>2. g = [i \in 0..0 |-> g[i]]
      OBVIOUS
    <2>3. << >> \in Seq(V)
      BY EmptySeq
    <2> HIDE DEF g
    <2>4. IsCount(g, txs, 0)
      BY <2>1, <2>2 DEF IsCount
    <2> QED BY <1>2, <1>3, <2>1, <2>3, <2>4
  <1>4. CASE m # 0
    <2>1. m - 1 \in 0..Len(txs) /\ m - 1 \notin D /\ m \in 1..Len(txs)
      BY <1>0, <1>2, <1>4
    <2>2. PICK h : Good(h, m - 1)
      BY <2>1
    <2> DEFINE g == [i \in 0..m |-> IF i = m THEN Counted(h, txs, m) ELSE h[i]]
    <2>3. \A i \in 0..(m - 1) : h[i] = Counted(h, txs, i) /\ h[i] \in Seq(V)
      BY <2>2 DEF IsCount
    <2>4. /\ \A i \in 0..(m - 1) : g[i] = h[i] /\ i \in 0..m
          /\ g[m] = Counted(h, txs, m) /\ m \in 0..m
          /\ g = [i \in 0..m |-> g[i]]
      BY <2>1
    <2> HIDE DEF g
    <2>5. ASSUME NEW i \in 0..m PROVE g[i] = Counted(g, txs, i)
      <3>1. g[i] = Counted(h, txs, i)
        <4>1. i = m \/ i \in 0..(m - 1)
          BY <2>1
        <4> QED BY <2>3, <2>4, <4>1
      <3>2. Counted(g, txs, i) = Counted(h, txs, i)
        <4>1. i = 0 \/ i - 1 \in 0..(m - 1)
          BY <2>1
        <4> QED BY <2>4, <4>1 DEF Counted
      <3> QED BY <3>1, <3>2
    <2>6. IsCount(g, txs, m)
      BY <2>4, <2>5 DEF IsCount
    <2>7. g[m] \in Seq(V)
      <3>1. m - 1 \in 0..(m - 1) /\ m # 0
        BY <2>1
      <3>2. h[m - 1] \in Seq(V)
        BY <2>3, <3>1
      <3>3. txs[m].body.nth \in V
        BY <2>1 DEF Numbers
      <3> HIDE DEF V
      <3>4. Append(h[m - 1], txs[m].body.nth) \in Seq(V)
        BY <3>2, <3>3, AppendProperties
      <3> QED BY <2>4, <3>1, <3>2, <3>4 DEF Counted
    <2>8. \A i \in 0..m : g[i] \in Seq(V)
      <3>1. \A i \in 0..m : i = m \/ i \in 0..(m - 1)
        BY <2>1
      <3> QED BY <2>3, <2>4, <2>7, <3>1
    <2> QED BY <1>2, <2>6, <2>8
  <1> QED BY <1>3, <1>4

LEMMA OfPhoneIs ==
  ASSUME NEW S, NEW txs \in Seq(S), NEW g, IsCount(g, txs, Len(txs))
  PROVE  OfPhone(txs) = g[Len(txs)] /\ OfPhone(txs) \in Seq(Numbers(txs))
  <1> DEFINE upTo == CHOOSE f : f = [n \in 0..Len(txs) |->
                       IF n = 0 THEN << >>
                       ELSE IF txs[n].body.by = "phone"
                              THEN Append(f[n - 1], txs[n].body.nth)
                              ELSE f[n - 1]]
  <1>1. Len(txs) \in Nat /\ Len(txs) \in 0..Len(txs)
    BY LenProperties
  <1>2. upTo = CHOOSE f : IsCount(f, txs, Len(txs))
    BY DEF IsCount, Counted
  <1>3. OfPhone(txs) = upTo[Len(txs)]
    BY DEF OfPhone
  <1> HIDE DEF upTo
  <1>4. IsCount(upTo, txs, Len(txs))
    BY <1>2
  <1>5. upTo = g
    BY <1>1, <1>4, CountUnique
  <1>6. PICK h : IsCount(h, txs, Len(txs)) /\ \A i \in 0..Len(txs) : h[i] \in Seq(Numbers(txs))
    BY <1>1, CountExists
  <1>7. h = g
    BY <1>1, <1>6, CountUnique
  <1> QED BY <1>1, <1>3, <1>5, <1>6, <1>7

\* The concatenation of two lists.
LEMMA OfPhoneConcat ==
  ASSUME NEW S, NEW s \in Seq(S), NEW t \in Seq(S)
  PROVE  /\ OfPhone(s \o t) = OfPhone(s) \o OfPhone(t)
         /\ \E V : OfPhone(s) \in Seq(V) /\ OfPhone(t) \in Seq(V)
  <1> DEFINE st == s \o t
             V  == Numbers(s) \cup Numbers(t)
  <1>1. /\ Len(s) \in Nat /\ Len(t) \in Nat /\ Len(st) = Len(s) + Len(t) /\ st \in Seq(S)
        /\ \A i \in 1..(Len(s) + Len(t)) : st[i] = IF i <= Len(s) THEN s[i] ELSE t[i - Len(s)]
    BY ConcatProperties, LenProperties
  <1>2. PICK g : IsCount(g, s, Len(s)) /\ \A i \in 0..Len(s) : g[i] \in Seq(Numbers(s))
    <2>1. Len(s) \in 0..Len(s)
      BY <1>1
    <2> QED BY <2>1, CountExists
  <1>3. PICK h : IsCount(h, t, Len(t)) /\ \A i \in 0..Len(t) : h[i] \in Seq(Numbers(t))
    <2>1. Len(t) \in 0..Len(t)
      BY <1>1
    <2> QED BY <2>1, CountExists
  <1>4. /\ \A i \in 0..Len(s) : g[i] = Counted(g, s, i) /\ g[i] \in Seq(V)
        /\ \A i \in 0..Len(t) : h[i] = Counted(h, t, i) /\ h[i] \in Seq(V)
    <2>1. /\ \A i \in 0..Len(s) : g[i] = Counted(g, s, i)
          /\ \A i \in 0..Len(t) : h[i] = Counted(h, t, i)
      BY <1>2, <1>3 DEF IsCount
    <2>2. Numbers(s) \subseteq V /\ Numbers(t) \subseteq V
      OBVIOUS
    <2> HIDE DEF V
    <2> QED BY <1>2, <1>3, <2>1, <2>2, SeqMonotonic
  <1> DEFINE e == g[Len(s)]
             k == [i \in 0..(Len(s) + Len(t)) |->
                     IF i <= Len(s) THEN g[i] ELSE e \o h[i - Len(s)]]
  <1>5. e \in Seq(V) /\ h[0] = << >>
    <2>1. Len(s) \in 0..Len(s) /\ 0 \in 0..Len(t)
      BY <1>1
    <2> HIDE DEF V
    <2> QED BY <1>4, <2>1 DEF Counted
  <1>6. \A i \in 1..Len(t) : t[i].body.nth \in V
    BY DEF Numbers
  <1> HIDE DEF V, st
  <1>7. /\ \A i \in 0..Len(s) : k[i] = g[i]
        /\ \A i \in 0..Len(t) : k[Len(s) + i] = e \o h[i]
        /\ k = [i \in 0..(Len(s) + Len(t)) |-> k[i]]
    <2>1. \A i \in 0..Len(s) : i \in 0..(Len(s) + Len(t)) /\ i <= Len(s)
      BY <1>1
    <2>2. \A i \in 0..(Len(s) + Len(t)) :
            k[i] = IF i <= Len(s) THEN g[i] ELSE e \o h[i - Len(s)]
      OBVIOUS
    <2>3. e \o << >> = e
      BY <1>5, ConcatEmptySeq
    <2>4. k = [i \in 0..(Len(s) + Len(t)) |-> k[i]]
      OBVIOUS
    <2>5. e = g[Len(s)] /\ Len(s) \in 0..Len(s)
      BY <1>1
    <2> HIDE DEF k, e
    <2>6. ASSUME NEW i \in 0..Len(t) PROVE k[Len(s) + i] = e \o h[i]
      <3>1. CASE i = 0
        <4>1. Len(s) + i = Len(s)
          BY <1>1, <3>1
        <4> QED BY <1>5, <2>1, <2>2, <2>3, <2>5, <3>1, <4>1
      <3>2. CASE i # 0
        <4>1. /\ Len(s) + i \in 0..(Len(s) + Len(t)) /\ ~(Len(s) + i <= Len(s))
              /\ (Len(s) + i) - Len(s) = i
          BY <1>1, <3>2
        <4> QED BY <2>2, <4>1
      <3> QED BY <3>1, <3>2
    <2> QED BY <2>1, <2>2, <2>4, <2>6
  <1> HIDE DEF k, e
  <1>8. \A i \in 0..Len(s) : k[i] = Counted(k, st, i)
    <2> SUFFICES ASSUME NEW i \in 0..Len(s) PROVE k[i] = Counted(k, st, i)
      OBVIOUS
    <2>1. CASE i = 0
      BY <1>4, <1>7, <2>1 DEF Counted
    <2>2. CASE i # 0
      <3>1. i - 1 \in 0..Len(s) /\ i \in 1..(Len(s) + Len(t)) /\ i <= Len(s)
        BY <1>1, <2>2
      <3>2. st[i] = s[i] /\ k[i - 1] = g[i - 1] /\ k[i] = g[i]
        BY <1>1, <1>7, <3>1
      <3> QED BY <1>4, <2>2, <3>2 DEF Counted
    <2> QED BY <2>1, <2>2
  <1>9. \A i \in 1..Len(t) : k[Len(s) + i] = Counted(k, st, Len(s) + i)
    <2> SUFFICES ASSUME NEW i \in 1..Len(t)
                 PROVE  k[Len(s) + i] = Counted(k, st, Len(s) + i)
      OBVIOUS
    <2> DEFINE j == Len(s) + i
    <2>1. /\ j \in 1..(Len(s) + Len(t)) /\ ~(j <= Len(s)) /\ j - Len(s) = i /\ j # 0
          /\ i \in 0..Len(t) /\ i - 1 \in 0..Len(t) /\ j - 1 = Len(s) + (i - 1) /\ i # 0
      BY <1>1
    <2>2. st[j] = t[i]
      BY <1>1, <2>1
    <2>3. k[j] = e \o h[i]
      BY <1>7, <2>1
    <2>4. k[j - 1] = e \o h[i - 1]
      <3>1. k[Len(s) + (i - 1)] = e \o h[i - 1]
        BY <1>7, <2>1
      <3> QED BY <2>1, <3>1
    <2>5. h[i] = Counted(h, t, i) /\ h[i - 1] \in Seq(V)
      BY <1>4, <2>1
    <2> HIDE DEF j
    <2>6. e \o Append(h[i - 1], t[i].body.nth) = Append(e \o h[i - 1], t[i].body.nth)
      BY <1>5, <1>6, <2>5
    <2>7. k[j] = Counted(k, st, j)
      BY <2>1, <2>2, <2>3, <2>4, <2>5, <2>6 DEF Counted
    <2> QED BY <2>7 DEF j
  <1>10. IsCount(k, st, Len(st))
    <2>1. ASSUME NEW i \in 0..(Len(s) + Len(t)) PROVE k[i] = Counted(k, st, i)
      <3>1. CASE i \in 0..Len(s)
        BY <1>8, <3>1
      <3>2. CASE ~(i \in 0..Len(s))
        <4>1. i - Len(s) \in 1..Len(t) /\ Len(s) + (i - Len(s)) = i
          BY <1>1, <3>2
        <4> QED BY <1>9, <4>1
      <3> QED BY <3>1, <3>2
    <2> QED BY <1>1, <1>7, <2>1 DEF IsCount
  <1>11. OfPhone(st) = k[Len(st)]
    BY <1>1, <1>10, OfPhoneIs
  <1>12. OfPhone(s) = e /\ OfPhone(t) = h[Len(t)]
    BY <1>2, <1>3, OfPhoneIs DEF e
  <1>13. Len(t) \in 0..Len(t)
    BY <1>1
  <1>14. OfPhone(st) = OfPhone(s) \o OfPhone(t)
    BY <1>1, <1>7, <1>11, <1>12, <1>13
  <1>15. OfPhone(s) \in Seq(V) /\ OfPhone(t) \in Seq(V)
    BY <1>4, <1>5, <1>12, <1>13
  <1> QED BY <1>14, <1>15 DEF st

\* A list of other devices' expenses.
LEMMA NoneOfPhone ==
  ASSUME NEW S, NEW txs \in Seq(S), \A i \in 1..Len(txs) : txs[i].body.by # "phone"
  PROVE  OfPhone(txs) = << >>
  <1> DEFINE g == [i \in 0..Len(txs) |-> << >>]
  <1>1. Len(txs) \in Nat /\ Len(txs) \in 0..Len(txs)
    BY LenProperties
  <1>2. /\ \A i \in 0..Len(txs) : g[i] = << >>
        /\ g = [i \in 0..Len(txs) |-> g[i]]
    OBVIOUS
  <1> HIDE DEF g
  <1>3. ASSUME NEW i \in 0..Len(txs) PROVE g[i] = Counted(g, txs, i)
    <2>1. i = 0 \/ (i \in 1..Len(txs) /\ i - 1 \in 0..Len(txs))
      BY <1>1
    <2> QED BY <1>2, <2>1 DEF Counted
  <1>4. IsCount(g, txs, Len(txs))
    BY <1>2, <1>3 DEF IsCount
  <1> QED BY <1>1, <1>2, <1>4, OfPhoneIs

LEMMA OneOfPhone ==
  ASSUME NEW tx, tx.body.by = "phone"
  PROVE  OfPhone(<<tx>>) = <<tx.body.nth>>
  <1> DEFINE txs == <<tx>>
             nth == tx.body.nth
             g   == [i \in 0..1 |-> IF i = 0 THEN << >> ELSE <<nth>>]
  <1>1. txs \in Seq({tx}) /\ Len(txs) = 1 /\ txs[1] = tx
    OBVIOUS
  <1>2. g[0] = << >> /\ g[1] = <<nth>> /\ g = [i \in 0..1 |-> g[i]]
    OBVIOUS
  <1>3. \A i \in 0..1 : i = 0 \/ (i = 1 /\ i # 0 /\ i - 1 = 0)
    OBVIOUS
  <1>4. Append(<< >>, nth) = <<nth>>
    OBVIOUS
  <1> HIDE DEF g, txs
  <1>5. \A i \in 0..1 : g[i] = Counted(g, txs, i)
    BY <1>1, <1>2, <1>3, <1>4 DEF Counted
  <1>6. IsCount(g, txs, Len(txs))
    BY <1>1, <1>2, <1>5 DEF IsCount
  <1>7. OfPhone(txs) = g[1]
    BY <1>1, <1>6, OfPhoneIs
  <1> QED BY <1>2, <1>7 DEF txs

\* A rebase moves the expenses of a list, and leaves their order.
LEMMA SameOfPhone ==
  ASSUME NEW S, NEW s \in Seq(S), NEW t \in Seq(S), SameBodies(s, t)
  PROVE  OfPhone(s) = OfPhone(t)
  <1>1. Len(t) \in Nat /\ Len(t) \in 0..Len(t) /\ Len(s) = Len(t)
    BY LenProperties DEF SameBodies
  <1>2. PICK g : IsCount(g, t, Len(t))
    BY <1>1, CountExists
  <1>3. /\ \A i \in 0..Len(t) : g[i] = Counted(g, t, i)
        /\ g = [i \in 0..Len(t) |-> g[i]]
    BY <1>2 DEF IsCount
  <1>4. ASSUME NEW i \in 0..Len(t) PROVE Counted(g, t, i) = Counted(g, s, i)
    <2>1. i = 0 \/ i \in 1..Len(t)
      BY <1>1
    <2> QED BY <2>1 DEF Counted, SameBodies
  <1>5. IsCount(g, s, Len(s))
    BY <1>1, <1>3, <1>4 DEF IsCount
  <1> QED BY <1>1, <1>2, <1>5, OfPhoneIs

-------------------------------------------------------------------------------
(* The phone's file and the server's.                                        *)

\* The two are paired, what the phone takes for synchronized is the beginning of the
\* server's log, the rest of the log is not the phone's, and the expenses of the
\* phone are those with these numbers, in that order.
IsKept(local, remote, n, numbers) ==
  /\ Paired(local, remote, n)
  /\ Chain(remote) = SyncedPart(local) \o News(local, remote)
  /\ \A i \in 1..Len(News(local, remote)) : News(local, remote)[i].body.by # "phone"
  /\ OfPhone(Chain(local)) = numbers

LEMMA KeptStays ==
  ASSUME NEW l, NEW r, NEW n, NEW numbers, IsKept(l, r, n, numbers), NEW m \in Nat, n <= m
  PROVE  IsKept(l, r, m, numbers)
  BY StaysSound DEF IsKept, Paired

\* How the two chains are made up.
IsMadeUp(l, r, S, p, old, news) ==
  /\ p \in Seq(S) /\ old \in Seq(S) /\ news \in Seq(S)
  /\ Stored(l) \subseteq S /\ Stored(r) \subseteq S
  /\ Chain(l) = p \o old /\ Chain(r) = p \o news /\ OfPhone(news) = << >>
  /\ Path(news, l.synced, r.latest)

LEMMA KeptIs ==
  ASSUME NEW l, NEW r, NEW n, NEW numbers, IsKept(l, r, n, numbers)
  PROVE  IsMadeUp(l, r, Stored(l) \cup Stored(r), SyncedPart(l), Unsynchronized(l), News(l, r))
  <1> DEFINE p    == SyncedPart(l)
             old  == Unsynchronized(l)
             news == News(l, r)
             S    == Stored(l) \cup Stored(r)
  <1>1. Paired(l, r, n) /\ Chain(r) = p \o news
        /\ \A i \in 1..Len(news) : news[i].body.by # "phone"
    BY DEF IsKept
  <1>2. PICK q : IsFork(l, r, p, old, q, news)
    BY <1>1, ForkIs
  <1>3. /\ p \in Seq(Stored(l)) /\ old \in Seq(Stored(l)) /\ Chain(l) = p \o old
        /\ news \in Seq(Stored(r)) /\ Path(news, l.synced, r.latest)
    BY <1>2 DEF IsFork, Cuts
  <1> HIDE DEF p, old, news
  <1>4. OfPhone(news) = << >>
    BY <1>1, <1>3, NoneOfPhone
  <1>5. p \in Seq(S) /\ old \in Seq(S) /\ news \in Seq(S)
    BY <1>3, SeqMonotonic
  <1> QED BY <1>1, <1>3, <1>4, <1>5 DEF IsMadeUp, p, old, news

\* The history of a file that is kept is complete.
LEMMA KeptIsComplete ==
  ASSUME NEW l, NEW r, NEW n, NEW numbers, IsKept(l, r, n, numbers)
  PROVE  IsPrefix(OfPhone(Chain(r)), numbers)
  <1>1. PICK S, p, old, news : IsMadeUp(l, r, S, p, old, news)
    BY KeptIs
  <1>2. /\ OfPhone(Chain(l)) = OfPhone(p) \o OfPhone(old)
        /\ OfPhone(Chain(r)) = OfPhone(p) \o << >>
    BY <1>1, OfPhoneConcat DEF IsMadeUp
  <1>3. PICK V : OfPhone(p) \in Seq(V) /\ OfPhone(old) \in Seq(V)
    BY <1>1, OfPhoneConcat DEF IsMadeUp
  <1>4. OfPhone(Chain(r)) = OfPhone(p)
    BY <1>2, <1>3, ConcatEmptySeq
  <1>5. IsPrefix(OfPhone(p), OfPhone(p) \o OfPhone(old))
    BY <1>3, PrefixOfConcat
  <1> QED BY <1>2, <1>4, <1>5 DEF IsKept

\* A push was stored and its answer lost: the phone cannot synchronize any more, and
\* the server has got a beginning of the phone's expenses.
IsStranded(local, remote, n, numbers) ==
  /\ Blocked(local, remote, n)
  /\ OfPhone(Chain(local)) = numbers
  /\ IsPrefix(OfPhone(Chain(remote)), numbers)

IsHeld(local, remote, n, numbers) ==
  IsKept(local, remote, n, numbers) \/ IsStranded(local, remote, n, numbers)

LEMMA HeldStays ==
  ASSUME NEW l, NEW r, NEW n, NEW numbers, IsHeld(l, r, n, numbers), NEW m \in Nat, n <= m
  PROVE  IsHeld(l, r, m, numbers)
  <1>1. CASE IsKept(l, r, n, numbers)
    BY <1>1, KeptStays DEF IsHeld
  <1>2. CASE IsStranded(l, r, n, numbers)
    <2>1. Sound(l, m) /\ Sound(r, m)
      BY <1>2, StaysSound DEF IsStranded, Blocked
    <2> QED BY <1>2, <2>1 DEF IsStranded, Blocked, IsHeld
  <1> QED BY <1>1, <1>2 DEF IsHeld

LEMMA HeldIsSound ==
  ASSUME NEW l, NEW r, NEW n, NEW numbers, IsHeld(l, r, n, numbers)
  PROVE  n \in Nat /\ Sound(l, n) /\ Sound(r, n) /\ OfPhone(Chain(l)) = numbers
  BY DEF IsHeld, IsKept, IsStranded, Paired, Blocked

\* The history is complete.
LEMMA HeldIsComplete ==
  ASSUME NEW l, NEW r, NEW n, NEW numbers, IsHeld(l, r, n, numbers)
  PROVE  /\ IsReadable(l) /\ OfPhone(Chain(l)) = numbers
         /\ IsPrefix(OfPhone(Chain(r)), numbers)
  BY HeldIsSound, KeptIsComplete DEF IsHeld, IsStranded, Sound

\* The numbers of a chain are a sequence.
LEMMA NumbersOf ==
  ASSUME NEW r, NEW n, Sound(r, n)
  PROVE  /\ Chain(r) \in Seq(Stored(r)) /\ Len(OfPhone(Chain(r))) \in Nat
         /\ \E V : OfPhone(Chain(r)) \in Seq(V)
  <1>1. Chain(r) \in Seq(Stored(r))
    BY ReadableChain DEF Sound
  <1>2. PICK V : OfPhone(Chain(r)) \in Seq(V)
    BY <1>1, OfPhoneConcat
  <1>3. Len(OfPhone(Chain(r))) \in Nat
    BY <1>2, LenProperties
  <1> QED BY <1>1, <1>2, <1>3

LEMMA PrefixOfAppended ==
  ASSUME NEW V, NEW t \in Seq(V), NEW s, Len(s) \in Nat, IsPrefix(s, t), NEW x
  PROVE  IsPrefix(s, Append(t, x))
  <1>1. t \in Seq(V \cup {x}) /\ x \in V \cup {x}
    <2>1. V \subseteq V \cup {x}
      OBVIOUS
    <2> QED BY <2>1, SeqMonotonic
  <1>2. /\ Append(t, x) \in Seq(V \cup {x}) /\ Len(Append(t, x)) = Len(t) + 1
        /\ \A i \in 1..Len(t) : Append(t, x)[i] = t[i]
        /\ Len(t) \in Nat
    BY <1>1, AppendProperties, LenProperties
  <1>3. Len(s) <= Len(t) /\ SubSeq(s, 1, Len(s)) = SubSeq(t, 1, Len(s))
    BY DEF IsPrefix
  <1>4. SubSeq(t, 1, Len(s)) = SubSeq(Append(t, x), 1, Len(s))
    BY <1>2, <1>3
  <1> QED BY <1>2, <1>3, <1>4 DEF IsPrefix

\* The phone stores an expense on top of its latest transaction.
IsStoredBy(l, r, n, numbers, tx, q) ==
  /\ IsHeld(q, r, n, Append(numbers, tx.body.nth))
  /\ Keeps(Chain(l), Chain(q)) /\ DOMAIN q.txs = DOMAIN l.txs \cup {tx.uuid}

\* An expense that waits to be stored.
IsPending(tx, l, r, n) ==
  /\ IsTransaction(tx)
  /\ tx.uuid \in Nat /\ tx.uuid < n /\ tx.parent \in Nat /\ tx.parent < tx.uuid
  /\ tx.uuid \notin DOMAIN l.txs /\ tx.uuid \notin DOMAIN r.txs
  /\ tx.body.by = "phone"

LEMMA StoreKeeps ==
  ASSUME NEW l, NEW r, NEW n, NEW numbers, IsHeld(l, r, n, numbers),
         NEW tx, IsPending(tx, l, r, n), tx.parent = l.latest
  PROVE  IsStoredBy(l, r, n, numbers, tx, WithTransaction(l, tx))
  <1> DEFINE q == WithTransaction(l, tx)
             t == <<tx>>
             c == Chain(l)
  <1>1. /\ n \in Nat /\ Sound(l, n) /\ Sound(r, n)
        /\ OfPhone(Chain(l)) = numbers
    BY HeldIsSound
  <1>2. RecordsOnTop(l, tx, q, n)
    BY <1>1, RecordCall DEF IsPending, WithTransaction
  <1> HIDE DEF q
  <1>4. /\ c \in Seq(Stored(q)) /\ t \in Seq(Stored(q)) /\ Chain(q) = c \o t
    BY <1>2 DEF RecordsOnTop
  <1>5. OfPhone(t) = <<tx.body.nth>>
    BY OneOfPhone DEF IsPending
  <1> HIDE DEF t, c
  <1>6. OfPhone(Chain(q)) = OfPhone(c) \o OfPhone(t)
    BY <1>4, OfPhoneConcat
  <1>7. PICK V : OfPhone(c) \in Seq(V) /\ OfPhone(t) \in Seq(V)
    BY <1>4, OfPhoneConcat
  <1>8. OfPhone(Chain(q)) = Append(numbers, tx.body.nth) /\ numbers \in Seq(V)
    <2> DEFINE x == tx.body.nth
    <2>1. OfPhone(c) = numbers
      BY <1>1 DEF c
    <2>2. numbers \in Seq(V \cup {x}) /\ x \in V \cup {x}
      <3>1. numbers \in Seq(V) /\ V \subseteq V \cup {x}
        BY <1>7, <2>1
      <3> QED BY <3>1, SeqMonotonic
    <2> HIDE DEF x
    <2>3. numbers \o <<x>> = Append(numbers, x)
      BY <2>2
    <2> QED BY <1>5, <1>6, <1>7, <2>1, <2>3 DEF x
  <1>9. IsHeld(q, r, n, Append(numbers, tx.body.nth))
    <2>1. CASE IsKept(l, r, n, numbers)
      <3>1. Paired(l, r, n)
        BY <2>1 DEF IsKept
      <3>2. n <= n
        BY <1>1
      <3>3. IsOneMore(l, r, tx, q, n)
        BY <1>1, <1>2, <3>1, <3>2, RecordedIsPaired DEF IsPending
      <3> QED BY <1>8, <2>1, <3>3 DEF IsOneMore, IsKept, IsHeld
    <2>2. CASE IsStranded(l, r, n, numbers)
      <3>1. /\ Blocked(l, r, n) /\ l.synced \in Known(l) /\ l.synced \in Known(r)
            /\ IsPrefix(OfPhone(Chain(r)), numbers)
        BY <2>2 DEF IsStranded, Blocked
      <3>2. /\ Sound(q, n) /\ q.synced = l.synced
            /\ DOMAIN l.txs \subseteq DOMAIN q.txs
        BY <1>2 DEF RecordsOnTop
      <3>3. q.synced \in Known(q)
        <4>1. Uuids(Chain(q)) = Uuids(c) \cup Uuids(t)
          BY <1>4, ConcatRange
        <4> QED BY <3>1, <3>2, <4>1 DEF Known, c
      <3>4. q.synced <= l.synced
        <4>1. l.synced \in Nat
          BY <1>1, <3>1, SoundIds
        <4> QED BY <3>2, <4>1
      <3>5. Blocked(q, r, n)
        BY <1>1, <3>1, <3>2, <3>3, <3>4, StaysBlocked
      <3>6. Len(OfPhone(Chain(r))) \in Nat
        BY <1>1, NumbersOf
      <3>7. IsPrefix(OfPhone(Chain(r)), Append(numbers, tx.body.nth))
        BY <1>8, <3>1, <3>6, PrefixOfAppended
      <3> QED BY <1>8, <3>5, <3>7 DEF IsStranded, IsHeld
    <2> QED BY <2>1, <2>2 DEF IsHeld
  <1>10. Keeps(Chain(l), Chain(q)) /\ DOMAIN q.txs = DOMAIN l.txs \cup {tx.uuid}
    BY <1>2, RecordedKeeps DEF RecordsOnTop
  <1> QED BY <1>9, <1>10 DEF IsStoredBy, q

\* What sync() has fetched.
IsFetchedBy(l, r, n, numbers, f, m) ==
  /\ m \in Nat /\ n <= m
  /\ IsKept(f, r, m, numbers) /\ UpToDate(f, r)
  /\ Keeps(Chain(l), Chain(f))
  /\ \A id \in DOMAIN f.txs : id \in DOMAIN l.txs \/ id \in DOMAIN r.txs \/ n <= id

LEMMA FetchKeepsAll ==
  ASSUME NEW l, NEW r, NEW n, NEW numbers, IsKept(l, r, n, numbers), CanFetch(l, r)
  PROVE  IsFetchedBy(l, r, n, numbers, Fetch(l, r, n), n + IdsForFetch(l, r))
  <1> DEFINE f == Fetch(l, r, n)
             m == n + IdsForFetch(l, r)
  <1>1. Paired(l, r, n)
    BY DEF IsKept
  <1>2. PICK own : IsFetched(l, r, n, m, f, own)
    BY <1>1, FetchCall
  <1> HIDE DEF f, m
  <1>3. Paired(f, r, m) /\ UpToDate(f, r) /\ Keeps(Chain(l), Chain(f))
    BY <1>1, <1>2, FetchedIsPaired, FetchKeeps
  <1>4. PICK S, p, old, news :
          /\ IsMadeUp(l, r, S, p, old, news) /\ S = Stored(l) \cup Stored(r)
          /\ p = SyncedPart(l) /\ old = Unsynchronized(l) /\ news = News(l, r)
    BY KeptIs
  <1>5. /\ SyncedPart(f) = p \o news /\ Unsynchronized(f) = own /\ SameBodies(own, old)
        /\ m \in Nat /\ n <= m
        /\ \A id \in DOMAIN f.txs : id \in DOMAIN l.txs \/ id \in Uuids(news) \/ id \in Uuids(own)
        /\ \A id \in Uuids(own) : id \in Uuids(old) \/ n <= id
    BY <1>2, <1>4 DEF IsFetched
  <1>6. PICK q : IsFork(f, r, SyncedPart(f), own, q, News(f, r))
    BY <1>3, <1>5, ForkIs
  <1>7. own \in Seq(Stored(f)) /\ p \o news \in Seq(Stored(f)) /\ Chain(f) = (p \o news) \o own
    BY <1>5, <1>6 DEF IsFork, Cuts
  <1>8. News(f, r) = << >>
    BY <1>3, FetchNothing
  <1>9. /\ p \in Seq(S) /\ news \in Seq(S) /\ old \in Seq(S) /\ p \o news \in Seq(S)
        /\ Chain(l) = p \o old /\ Chain(r) = p \o news /\ OfPhone(news) = << >>
    BY <1>4, ConcatProperties DEF IsMadeUp
  <1>10. OfPhone(Chain(f)) = numbers
    <2> DEFINE U == S \cup Stored(f)
    <2>1. own \in Seq(U) /\ old \in Seq(U)
      BY <1>7, <1>9, SeqMonotonic
    <2> HIDE DEF U
    <2>2. OfPhone(own) = OfPhone(old)
      BY <1>5, <2>1, SameOfPhone
    <2>3. OfPhone(Chain(f)) = OfPhone(p \o news) \o OfPhone(own)
      BY <1>7, OfPhoneConcat
    <2>4. OfPhone(p \o news) = OfPhone(p) \o << >>
      BY <1>9, OfPhoneConcat
    <2>5. OfPhone(p) \o << >> = OfPhone(p)
      BY <1>9, OfPhoneConcat, ConcatEmptySeq
    <2>6. OfPhone(Chain(l)) = OfPhone(p) \o OfPhone(old)
      BY <1>9, OfPhoneConcat
    <2> QED BY <2>2, <2>3, <2>4, <2>5, <2>6 DEF IsKept
  <1>11. Chain(r) = SyncedPart(f) \o News(f, r)
    BY <1>5, <1>8, <1>9, ConcatEmptySeq
  <1>12. \A i \in 1..Len(News(f, r)) : News(f, r)[i].body.by # "phone"
    <2>1. \A i \in 1..Len(<< >>) : FALSE
      OBVIOUS
    <2> QED BY <1>8, <2>1
  <1>13. IsKept(f, r, m, numbers)
    BY <1>3, <1>10, <1>11, <1>12 DEF IsKept
  <1>14. Uuids(news) \subseteq DOMAIN r.txs /\ Uuids(old) \subseteq DOMAIN l.txs
    <2>1. Sound(l, n) /\ Sound(r, n)
      BY <1>1 DEF Paired
    <2>2. Uuids(Chain(l)) \subseteq DOMAIN l.txs /\ Uuids(Chain(r)) \subseteq DOMAIN r.txs
      BY <2>1, SoundIds
    <2>3. Uuids(Chain(l)) = Uuids(p) \cup Uuids(old) /\ Uuids(Chain(r)) = Uuids(p) \cup Uuids(news)
      BY <1>9, ConcatRange
    <2> QED BY <2>2, <2>3
  <1>15. \A id \in DOMAIN f.txs : id \in DOMAIN l.txs \/ id \in DOMAIN r.txs \/ n <= id
    BY <1>5, <1>14
  <1> QED BY <1>3, <1>5, <1>13, <1>15 DEF IsFetchedBy, f, m

\* What sync() leaves once it has pushed.
IsPushedBy(f, r, m, numbers, l, s) ==
  /\ IsKept(l, s, m, numbers) /\ Chain(l) = Chain(f) /\ DOMAIN l.txs = DOMAIN f.txs
  /\ DOMAIN s.txs \subseteq DOMAIN r.txs \cup DOMAIN f.txs

LEMMA PushKeepsAll ==
  ASSUME NEW f, NEW r, NEW m, NEW numbers, IsKept(f, r, m, numbers), UpToDate(f, r)
  PROVE  IsPushedBy(f, r, m, numbers, MarkPushed(f),
                    ReceiveTransactions(r, Unsynchronized(f)))
  <1> DEFINE l   == MarkPushed(f)
             s   == ReceiveTransactions(r, Unsynchronized(f))
             own == Unsynchronized(f)
  <1>1. Paired(f, r, m) /\ m \in Nat /\ Sound(f, m)
    BY DEF IsKept, Paired
  <1>2. PushesAll(f, r, m, l, s)
    BY <1>1, PushCall
  <1> HIDE DEF l, s
  <1>3. IsMadeUp(f, r, Stored(f) \cup Stored(r), SyncedPart(f), own, News(f, r))
    BY KeptIs
  <1>4. News(f, r) = << >>
    BY <1>1, FetchNothing
  <1>5. /\ Chain(f) = SyncedPart(f) \o own /\ Chain(r) = SyncedPart(f)
    BY <1>3, <1>4, ConcatEmptySeq DEF IsMadeUp
  <1> HIDE DEF own
  <1>6. /\ Sound(l, m) /\ Sound(s, m) /\ Chain(l) = Chain(f) /\ DOMAIN l.txs = DOMAIN f.txs
        /\ l.latest = f.latest /\ l.synced = f.latest /\ l.synced \in Known(l)
        /\ Unsynchronized(l) = << >> /\ SyncedPart(l) = Chain(f)
        /\ Chain(s) = Chain(r) \o own
        /\ DOMAIN s.txs = DOMAIN r.txs \cup Uuids(own)
        /\ s.latest = f.latest /\ s.latest \in Known(s)
    BY <1>2 DEF PushesAll, own
  <1>7. Paired(l, s, m)
    <2>1. Uuids(<< >>) = {}
      BY DEF Uuids
    <2> QED BY <1>1, <1>6, <2>1 DEF Paired
  <1>8. News(l, s) = << >>
    BY <1>6, <1>7, FetchNothing DEF UpToDate
  <1>9. Chain(s) = SyncedPart(l) \o News(l, s)
    <2>1. Chain(f) \in Seq(Stored(f))
      BY <1>1, ReadableChain DEF Sound
    <2>2. Chain(f) \o << >> = Chain(f)
      BY <2>1, ConcatEmptySeq
    <2> QED BY <1>5, <1>6, <1>8, <2>2
  <1>10. \A i \in 1..Len(News(l, s)) : News(l, s)[i].body.by # "phone"
    <2>1. \A i \in 1..Len(<< >>) : FALSE
      OBVIOUS
    <2> QED BY <1>8, <2>1
  <1>11. IsKept(l, s, m, numbers)
    BY <1>6, <1>7, <1>9, <1>10 DEF IsKept
  <1>12. Uuids(own) \subseteq DOMAIN f.txs
    <2>1. Uuids(Chain(f)) = Uuids(SyncedPart(f)) \cup Uuids(own)
      BY <1>3, <1>5, ConcatRange DEF IsMadeUp
    <2> QED BY <1>1, <2>1, SoundIds
  <1> QED BY <1>6, <1>11, <1>12 DEF IsPushedBy, l, s

\* What it leaves if the server has stored the push and the answer is lost.
LEMMA PushStrands ==
  ASSUME NEW f, NEW r, NEW m, NEW numbers, IsKept(f, r, m, numbers), UpToDate(f, r),
         Unsynchronized(f) # << >>
  PROVE  IsStranded(f, ReceiveTransactions(r, Unsynchronized(f)), m, numbers)
  <1> DEFINE s   == ReceiveTransactions(r, Unsynchronized(f))
             own == Unsynchronized(f)
  <1>1. Paired(f, r, m) /\ Sound(f, m) /\ OfPhone(Chain(f)) = numbers
    BY DEF IsKept, Paired
  <1>2. PushesAll(f, r, m, MarkPushed(f), s)
    BY <1>1, PushCall
  <1> HIDE DEF s
  <1>3. Blocked(f, s, m)
    BY <1>1, <1>2, UnansweredIsBlocked
  <1>4. IsMadeUp(f, r, Stored(f) \cup Stored(r), SyncedPart(f), own, News(f, r))
    BY KeptIs
  <1>5. News(f, r) = << >>
    BY <1>1, FetchNothing
  <1>6. Chain(f) = SyncedPart(f) \o own /\ Chain(r) = SyncedPart(f)
    BY <1>4, <1>5, ConcatEmptySeq DEF IsMadeUp
  <1>7. Chain(s) = Chain(f)
    BY <1>2, <1>6 DEF PushesAll
  <1>8. Len(numbers) \in Nat
    BY <1>1, NumbersOf
  <1>9. IsPrefix(OfPhone(Chain(s)), numbers)
    BY <1>1, <1>7, <1>8 DEF IsPrefix
  <1> QED BY <1>1, <1>3, <1>9 DEF IsStranded, s

\* The server's log gets one transaction more.
IsExtended(r, tx, m, t, s) ==
  /\ Sound(s, m) /\ Chain(s) = Chain(r) \o t
  /\ Chain(r) \in Seq(Stored(s)) /\ t \in Seq(Stored(s))
  /\ Uuids(Chain(s)) = Uuids(Chain(r)) \cup {tx.uuid}
  /\ DOMAIN s.txs = DOMAIN r.txs \cup {tx.uuid}
  /\ s.latest = tx.uuid /\ Path(t, r.latest, tx.uuid)
  /\ Len(t) = 1 /\ t[1] = tx

\* What may be put on top of the log.
IsNext(r, tx, m) ==
  /\ IsTransaction(tx) /\ tx.uuid \in Nat /\ tx.uuid < m /\ tx.uuid \notin DOMAIN r.txs
  /\ tx.parent = r.latest /\ tx.parent < tx.uuid

LEMMA PushOne ==
  ASSUME NEW r, NEW m, Sound(r, m), NEW tx, IsNext(r, tx, m),
         NEW t \in Seq({tx}), Len(t) = 1, t[1] = tx,
         NEW s, s = ReceiveTransactions(r, t)
  PROVE  IsExtended(r, tx, m, t, s)
  <1> DEFINE T == {tx}
  <1>1. /\ t \in Seq(T) /\ Len(t) = 1 /\ t[1] = tx /\ t # << >> /\ DOMAIN t = {1}
    BY EmptySeq, LenProperties
  <1>2. Uuids(t) = {tx.uuid} /\ Path(t, r.latest, tx.uuid)
    BY <1>1 DEF Uuids, Path, CheckChainConsistency, IsNext
  <1>3. MayPush(r, m, T, t, tx.uuid)
    <2>1. IsOrdered(T) /\ \A one \in T : IsTransaction(one) /\ one.uuid < m
      BY DEF IsOrdered, Sound, IsNext
    <2>2. \A id \in Uuids(t) : id \notin DOMAIN r.txs
      BY <1>2 DEF IsNext
    <2> QED BY <1>1, <1>2, <2>1, <2>2 DEF MayPush
  <1> HIDE DEF T
  <1>4. /\ Sound(s, m) /\ Chain(s) = Chain(r) \o t
        /\ Chain(r) \in Seq(Stored(s)) /\ t \in Seq(Stored(s))
        /\ Uuids(Chain(s)) = Uuids(Chain(r)) \cup Uuids(t)
        /\ DOMAIN s.txs = DOMAIN r.txs \cup Uuids(t)
        /\ s.latest = tx.uuid
    BY <1>3, PushServer
  <1> QED BY <1>1, <1>2, <1>4 DEF IsExtended

\* Another device pushes a transaction.
LEMMA OtherExtends ==
  ASSUME NEW r, NEW n, n > 0, n \in Nat, Sound(r, n),
         NEW tx, IsTransaction(tx), tx.uuid = n, tx.parent = r.latest,
         NEW s, s = ReceiveTransactions(r, <<tx>>)
  PROVE  IsExtended(r, tx, n + 1, <<tx>>, s)
  <1> DEFINE t == <<tx>>
             m == n + 1
  <1>1. IsReadable(r) /\ r.latest \in Nat
    BY DEF Sound
  <1>2. m \in Nat /\ n <= m /\ n < m
    OBVIOUS
  <1>3. /\ \A id \in DOMAIN r.txs : id \in Nat /\ id < n
        /\ Uuids(Chain(r)) \subseteq DOMAIN r.txs
    BY SoundIds
  <1>4. r.latest < n
    <2>1. r.latest = 0 \/ r.latest \in Uuids(Chain(r))
      BY <1>1, LatestOnChain DEF NoId
    <2> QED BY <1>1, <1>3, <2>1
  <1>5. /\ s = ReceiveTransactions(r, t) /\ t \in Seq({tx}) /\ Len(t) = 1 /\ t[1] = tx
    OBVIOUS
  <1>6. Sound(r, m)
    BY <1>2, StaysSound
  <1>7. n \notin DOMAIN r.txs
    BY <1>3
  <1> HIDE DEF t, m
  <1>8. IsNext(r, tx, m)
    BY <1>1, <1>2, <1>4, <1>7 DEF IsNext
  <1>9. IsExtended(r, tx, m, t, s)
    BY <1>5, <1>6, <1>8, PushOne
  <1> QED BY <1>9 DEF t, m

LEMMA OtherKeeps ==
  ASSUME NEW l, NEW r, NEW n, NEW numbers, IsKept(l, r, n, numbers), n > 0,
         NEW tx, tx.uuid = n, tx.body.by # "phone",
         NEW s, IsExtended(r, tx, n + 1, <<tx>>, s)
  PROVE  IsKept(l, s, n + 1, numbers)
  <1> DEFINE t    == <<tx>>
             m    == n + 1
             news == News(l, r)
             p    == SyncedPart(l)
             S    == Stored(l) \cup Stored(r)
  <1>1. /\ Paired(l, r, n) /\ n \in Nat /\ Sound(l, n) /\ Sound(r, n) /\ IsReadable(r)
        /\ l.synced \in Known(l) /\ l.synced \in Known(r) /\ r.latest \in Nat
        /\ Uuids(Unsynchronized(l)) \cap DOMAIN r.txs = {}
    BY DEF IsKept, Paired, Sound
  <1>2. m \in Nat /\ n <= m /\ n < m
    BY <1>1
  <1>3. /\ \A id \in DOMAIN r.txs : id \in Nat /\ id < n
        /\ \A id \in DOMAIN l.txs : id \in Nat /\ id < n
        /\ Uuids(Chain(r)) \subseteq DOMAIN r.txs /\ Uuids(Chain(l)) \subseteq DOMAIN l.txs
        /\ l.synced \in Nat
    BY <1>1, SoundIds
  <1>5. t \in Seq({tx})
    OBVIOUS
  <1>8. IsExtended(r, tx, m, t, s)
    OBVIOUS
  <1> HIDE DEF t, m
  <1>17. /\ Sound(s, m) /\ Chain(s) = Chain(r) \o t
         /\ Chain(r) \in Seq(Stored(s)) /\ t \in Seq(Stored(s))
         /\ Uuids(Chain(s)) = Uuids(Chain(r)) \cup {n}
         /\ DOMAIN s.txs = DOMAIN r.txs \cup {n}
         /\ s.latest = n /\ Path(t, r.latest, n)
         /\ Len(t) = 1 /\ t[1] = tx
    BY <1>8 DEF IsExtended
  <1>9. IsMadeUp(l, r, S, p, Unsynchronized(l), news)
    BY KeptIs
  <1>10. /\ p \in Seq(S) /\ news \in Seq(S) /\ Chain(r) = p \o news
         /\ Path(news, l.synced, r.latest) /\ Chain(l) = p \o Unsynchronized(l)
         /\ Unsynchronized(l) \in Seq(S)
    BY <1>9 DEF IsMadeUp
  <1> HIDE DEF p, news
  <1>11. news \in Seq(Stored(s))
    <2>1. Range(Chain(r)) = Range(p) \cup Range(news) /\ news \in Seq(Range(news))
      BY <1>10, ConcatRange, SeqOfRange
    <2>2. Range(Chain(r)) \subseteq Stored(s)
      BY <1>17, RangeOfSeq
    <2> QED BY <2>1, <2>2, SeqMonotonic
  <1>12. News(l, s) = news \o t
    <2>1. Path(news \o t, l.synced, s.latest) /\ news \o t \in Seq(Stored(s))
      BY <1>17, <1>10, <1>11, PathConcat
    <2>2. IsFiled(s) /\ s.latest \in Nat
      BY <1>17 DEF Sound
    <2> QED BY <1>3, <2>1, <2>2, SinceOfPaths DEF News, ChildTransactions
  <1>13. Chain(s) = p \o (news \o t)
    <2> DEFINE U == S \cup {tx}
    <2>1. p \in Seq(U) /\ news \in Seq(U) /\ t \in Seq(U)
      BY <1>5, <1>10, SeqMonotonic
    <2> HIDE DEF U
    <2>2. (p \o news) \o t = p \o (news \o t)
      BY <2>1, ConcatAssociative
    <2> QED BY <1>17, <1>10, <2>2
  <1>14. ASSUME NEW i \in 1..Len(news \o t) PROVE (news \o t)[i].body.by # "phone"
    <2>1. /\ Len(news) \in Nat /\ Len(news \o t) = Len(news) + Len(t)
          /\ \A j \in 1..(Len(news) + Len(t)) :
               (news \o t)[j] = IF j <= Len(news) THEN news[j] ELSE t[j - Len(news)]
      <3>1. t \in Seq(Stored(s))
        BY <1>17
      <3> QED BY <1>11, <3>1, ConcatProperties, LenProperties
    <2>2. \A j \in 1..Len(news) : news[j].body.by # "phone"
      BY DEF IsKept, news
    <2>3. i \in 1..Len(news) \/ (~(i <= Len(news)) /\ i - Len(news) = 1)
      BY <1>17, <2>1
    <2>4. (news \o t)[i] = IF i <= Len(news) THEN news[i] ELSE t[i - Len(news)]
      BY <2>1
    <2>5. CASE i \in 1..Len(news)
      <3>1. (news \o t)[i] = news[i]
        BY <2>1, <2>4, <2>5
      <3> QED BY <2>2, <2>5, <3>1
    <2>6. CASE ~(i <= Len(news)) /\ i - Len(news) = 1
      BY <1>17, <2>4, <2>6
    <2> QED BY <2>3, <2>5, <2>6
  <1>15. Paired(l, s, m)
    <2>1. Sound(l, m)
      BY <1>1, <1>2, StaysSound
    <2>2. l.synced \in Known(s)
      BY <1>1, <1>17 DEF Known
    <2>3. Uuids(Unsynchronized(l)) \subseteq DOMAIN l.txs
      <3>1. Uuids(Chain(l)) = Uuids(p) \cup Uuids(Unsynchronized(l))
        BY <1>10, ConcatRange
      <3> QED BY <1>3, <3>1
    <2>4. n \notin Uuids(Unsynchronized(l))
      BY <1>1, <1>3, <2>3
    <2>5. DOMAIN s.txs = DOMAIN r.txs \cup {n}
      BY <1>17
    <2>6. Uuids(Unsynchronized(l)) \cap DOMAIN s.txs = {}
      BY <1>1, <2>4, <2>5
    <2> QED BY <1>1, <1>2, <1>17, <2>1, <2>2, <2>6 DEF Paired
  <1>16. IsKept(l, s, m, numbers)
    BY <1>12, <1>13, <1>14, <1>15 DEF IsKept, p
  <1> QED BY <1>16 DEF m

LEMMA OtherStrands ==
  ASSUME NEW l, NEW r, NEW n, NEW numbers, IsStranded(l, r, n, numbers), n > 0,
         NEW tx, tx.uuid = n, tx.body.by # "phone",
         NEW s, IsExtended(r, tx, n + 1, <<tx>>, s)
  PROVE  IsStranded(l, s, n + 1, numbers)
  <1> DEFINE t == <<tx>>
             m == n + 1
  <1>1. /\ Blocked(l, r, n) /\ n \in Nat /\ Sound(l, n) /\ Sound(r, n)
        /\ l.synced \in Known(l) /\ l.synced \in Known(r)
        /\ OfPhone(Chain(l)) = numbers /\ IsPrefix(OfPhone(Chain(r)), numbers)
    BY DEF IsStranded, Blocked
  <1>2. m \in Nat /\ n <= m
    BY <1>1
  <1>3. IsExtended(r, tx, m, t, s)
    OBVIOUS
  <1>4. t \in Seq({tx}) /\ Len(t) = 1 /\ t[1] = tx
    OBVIOUS
  <1> HIDE DEF t, m
  <1>5. /\ Sound(s, m) /\ Chain(s) = Chain(r) \o t
        /\ Chain(r) \in Seq(Stored(s)) /\ t \in Seq(Stored(s))
        /\ Known(r) \subseteq Known(s)
    BY <1>3 DEF IsExtended, Known
  <1>6. Sound(l, m) /\ l.synced \in Nat
    BY <1>1, <1>2, StaysSound, SoundIds
  <1>7. Blocked(l, s, m)
    <2>1. l.synced <= l.synced /\ l.synced \in Known(s) /\ DOMAIN l.txs \subseteq DOMAIN l.txs
      BY <1>1, <1>5, <1>6
    <2> QED BY <1>1, <1>2, <1>5, <1>6, <2>1, StaysBlocked
  <1>8. OfPhone(Chain(s)) = OfPhone(Chain(r))
    <2>1. \A i \in 1..Len(t) : t[i].body.by # "phone"
      BY <1>4
    <2>2. OfPhone(t) = << >>
      BY <1>4, <2>1, NoneOfPhone
    <2>3. OfPhone(Chain(s)) = OfPhone(Chain(r)) \o << >>
      BY <1>5, <2>2, OfPhoneConcat
    <2>4. PICK V : OfPhone(Chain(r)) \in Seq(V)
      BY <1>1, NumbersOf
    <2> QED BY <2>3, <2>4, ConcatEmptySeq
  <1>9. IsStranded(l, s, m, numbers)
    BY <1>1, <1>7, <1>8 DEF IsStranded
  <1> QED BY <1>9 DEF m

LEMMA OtherHolds ==
  ASSUME NEW l, NEW r, NEW n, NEW numbers, IsHeld(l, r, n, numbers), n > 0,
         NEW tx, IsTransaction(tx), tx.uuid = n, tx.parent = r.latest,
         tx.body.by # "phone", NEW s, s = ReceiveTransactions(r, <<tx>>)
  PROVE  IsHeld(l, s, n + 1, numbers) /\ DOMAIN s.txs = DOMAIN r.txs \cup {n}
  <1>1. n \in Nat /\ Sound(r, n)
    BY HeldIsSound
  <1>2. IsExtended(r, tx, n + 1, <<tx>>, s)
    BY <1>1, OtherExtends
  <1>3. DOMAIN s.txs = DOMAIN r.txs \cup {n}
    BY <1>2 DEF IsExtended
  <1> QED BY <1>2, <1>3, OtherKeeps, OtherStrands DEF IsHeld

-------------------------------------------------------------------------------
(* The history of the phone.                                                 *)

IsPlanned(q, l, r, n) ==
  /\ \A i \in 1..Len(q) : IsAdd(q[i]) => IsPending(q[i].tx, l, r, n)
  /\ \A i, j \in 1..Len(q) :
       IsAdd(q[i]) /\ IsAdd(q[j]) /\ i # j => q[i].tx.uuid # q[j].tx.uuid

\* What the phone has stored and the server, and the expenses that wait in queue q.
InStep(l, r, n, numbers, q, x) ==
  /\ n > 0 /\ IsHeld(l, r, n, numbers) /\ IsPlanned(q, l, r, n)
  /\ x \in Nat /\ x < n

\* As long as no expense was misplaced, and nothing was taken back.
KeptInv == ~forked /\ ~rewound => InStep(file, server, nextId, stored, calls, latest)

\* A repository that has got nothing that waits to be stored.
Spares(l, r, n, new) ==
  \A id \in DOMAIN new.txs : id \in DOMAIN l.txs \/ id \in DOMAIN r.txs \/ n <= id

LEMMA PlannedStays ==
  ASSUME NEW q, NEW l, NEW r, NEW n \in Nat, IsPlanned(q, l, r, n),
         NEW k, Spares(l, r, n, k), NEW s, Spares(l, r, n, s), NEW m \in Nat, n <= m
  PROVE  IsPlanned(q, k, s, m)
  <1>1. ASSUME NEW tx, IsPending(tx, l, r, n) PROVE IsPending(tx, k, s, m)
    BY <1>1 DEF IsPending, Spares
  <1> QED BY <1>1 DEF IsPlanned

LEMMA PlannedTail ==
  ASSUME NEW q, NEW l, NEW r, NEW n, IsPlanned(q, l, r, n), NEW t, IsTail(q, t)
  PROVE  IsPlanned(t, l, r, n)
  <1>1. \A i \in 1..Len(t) : i + 1 \in 1..Len(q) /\ t[i] = q[i + 1]
    BY DEF IsTail
  <1>2. \A i, j \in 1..Len(t) : i # j => i + 1 # j + 1
    OBVIOUS
  <1> QED BY <1>1, <1>2 DEF IsPlanned

LEMMA PlannedAppended ==
  ASSUME NEW q, NEW l, NEW r, NEW n, IsPlanned(q, l, r, n), NEW m, NEW t, IsAppended(q, m, t),
         IsAdd(m) => /\ IsPending(m.tx, l, r, n)
                     /\ \A i \in 1..Len(q) : IsAdd(q[i]) => q[i].tx.uuid # m.tx.uuid
  PROVE  IsPlanned(t, l, r, n)
  <1>1. /\ Len(q) \in Nat /\ t[Len(q) + 1] = m
        /\ \A i \in 1..Len(q) : t[i] = q[i]
        /\ \A i \in 1..Len(t) : i \in 1..Len(q) \/ i = Len(q) + 1
    BY DEF IsAppended
  <1>2. \A i \in 1..Len(t) : IsAdd(t[i]) => IsPending(t[i].tx, l, r, n)
    BY <1>1 DEF IsPlanned
  <1>3. ASSUME NEW i \in 1..Len(t), NEW j \in 1..Len(t), IsAdd(t[i]), IsAdd(t[j]), i # j
        PROVE  t[i].tx.uuid # t[j].tx.uuid
    <2>1. CASE i \in 1..Len(q) /\ j \in 1..Len(q)
      BY <1>1, <1>3, <2>1 DEF IsPlanned
    <2>2. CASE i \in 1..Len(q) /\ j = Len(q) + 1
      BY <1>1, <1>3, <2>2
    <2>3. CASE j \in 1..Len(q) /\ i = Len(q) + 1
      BY <1>1, <1>3, <2>3
    <2> QED BY <1>1, <1>3, <2>1, <2>2, <2>3
  <1> QED BY <1>2, <1>3 DEF IsPlanned

LEMMA PlannedOrphans ==
  ASSUME NEW q, NEW l, NEW r, NEW n, IsPlanned(q, l, r, n), NEW t, IsOrphaned(q, t)
  PROVE  IsPlanned(t, l, r, n)
  BY DEF IsOrphaned, IsPlanned, IsAdd

LEMMA NonePlanned ==
  ASSUME NEW q, NoAdds(q), NEW l, NEW r, NEW n
  PROVE  IsPlanned(q, l, r, n)
  BY DEF NoAdds, IsPlanned

\* The ids of what is stored have been generated.
LEMMA HeldIds ==
  ASSUME NEW l, NEW r, NEW n, n > 0, NEW numbers, IsHeld(l, r, n, numbers)
  PROVE  /\ n \in Nat /\ l.latest \in Nat /\ r.latest \in Nat
         /\ l.latest < n /\ r.latest < n
         /\ \A id \in DOMAIN l.txs : id \in Nat /\ id < n
         /\ \A id \in DOMAIN r.txs : id \in Nat /\ id < n
  <1>1. /\ Sound(l, n) /\ Sound(r, n) /\ n \in Nat /\ IsReadable(l) /\ IsReadable(r)
        /\ l.latest \in Nat /\ r.latest \in Nat
    BY HeldIsSound DEF Sound
  <1>2. /\ \A id \in DOMAIN l.txs : id \in Nat /\ id < n
        /\ \A id \in DOMAIN r.txs : id \in Nat /\ id < n
        /\ Uuids(Chain(l)) \subseteq DOMAIN l.txs /\ Uuids(Chain(r)) \subseteq DOMAIN r.txs
    BY <1>1, SoundIds
  <1>3. /\ l.latest = 0 \/ l.latest \in Uuids(Chain(l))
        /\ r.latest = 0 \/ r.latest \in Uuids(Chain(r))
    BY <1>1, LatestOnChain DEF NoId
  <1> QED BY <1>1, <1>2, <1>3

LEMMA ExpenseIs ==
  ASSUME NEW who, NEW nth, NEW parent, NEW replaces, NEW deleted,
         NEW tx, tx = NewTransaction(who, nth, parent, replaces, deleted)
  PROVE  /\ IsTransaction(tx) /\ tx.uuid = nextId /\ tx.parent = parent
         /\ tx.body.by = who
  BY DEF NewTransaction, IsTransaction

LEMMA KeptStarts ==
  Init => KeptInv
  <1> SUFFICES ASSUME Init PROVE InStep(file, server, nextId, stored, calls, latest)
    BY DEF KeptInv
  <1>1. /\ file = EmptyRepo /\ server = EmptyRepo /\ nextId = 1 /\ stored = << >>
        /\ latest = 0 /\ calls = <<Message("list")>>
    BY DEF Init, NoId
  <1>2. /\ Sound(EmptyRepo, 1) /\ Chain(EmptyRepo) = << >> /\ NoId \in Known(EmptyRepo)
        /\ EmptyRepo.synced = NoId /\ EmptyRepo.latest = NoId
        /\ DOMAIN EmptyRepo.txs = {}
    BY EmptyRepoSound DEF EmptyRepo
  <1>3. /\ Unsynchronized(EmptyRepo) = << >> /\ News(EmptyRepo, EmptyRepo) = << >>
    BY <1>2 DEF Unsynchronized, News, ChildTransactions, Chain
  <1>4. \A i \in 1..Len(<< >>) : FALSE
    OBVIOUS
  <1>5. SyncedPart(EmptyRepo) = << >>
    BY <1>2, <1>3 DEF SyncedPart
  <1>6. OfPhone(<< >>) = << >>
    <2>1. << >> \in Seq({})
      BY EmptySeq
    <2> QED BY <1>4, <2>1, NoneOfPhone
  <1>7. Paired(EmptyRepo, EmptyRepo, 1)
    BY <1>2 DEF Paired
  <1>8. << >> \o << >> = << >>
    OBVIOUS
  <1>9. IsKept(EmptyRepo, EmptyRepo, 1, << >>)
    BY <1>2, <1>3, <1>4, <1>5, <1>6, <1>7, <1>8 DEF IsKept
  <1>11. IsHeld(EmptyRepo, EmptyRepo, 1, << >>)
    BY <1>9 DEF IsHeld
  <1>10. IsPlanned(calls, file, server, nextId)
    <2>1. NoAdds(calls)
      BY <1>1, OneList DEF NoAdds, IsAdd
    <2> QED BY <2>1, NonePlanned
  <1> QED BY <1>1, <1>10, <1>11 DEF InStep

LEMMA SaveTransactionKept ==
  ASSUME PageInv, KeptInv, SaveTransaction
  PROVE  KeptInv'
  <1>0. PICK deleted : /\ calls' = calls \o <<AddMessage(Saved(deleted)), Message("list")>>
                       /\ latest' = nextId /\ nextId' = nextId + 1
                       /\ UNCHANGED <<file, server, stored, forked, rewound>>
    BY DEF SaveTransaction, AddMessage, StoresUnchanged, HistoryUnchanged
  <1> DEFINE tx == Saved(deleted)
             m  == AddMessage(tx)
             n  == Message("list")
             r  == Append(calls, m)
  <1>1. /\ calls' = calls \o <<m, n>> /\ latest' = nextId /\ nextId' = nextId + 1
        /\ UNCHANGED <<file, server, stored, forked, rewound>>
    BY <1>0
  <1> SUFFICES ASSUME ~forked, ~rewound
               PROVE  InStep(file, server, nextId + 1, stored, calls', nextId)
    BY <1>1 DEF KeptInv
  <1>2. /\ nextId > 0 /\ IsHeld(file, server, nextId, stored)
        /\ IsPlanned(calls, file, server, nextId) /\ latest \in Nat /\ latest < nextId
    BY DEF KeptInv, InStep
  <1>3. /\ IsTransaction(tx) /\ tx.uuid = nextId /\ tx.parent = latest
        /\ tx.body.by = "phone"
    BY ExpenseIs DEF Saved
  <1> HIDE DEF tx
  <1>4. IsMessage(m) /\ IsAdd(m) /\ m.tx = tx /\ IsMessage(n) /\ ~IsAdd(n)
    BY MessageWithTx, MessageIs DEF IsAdd
  <1> HIDE DEF m, n
  <1>5. IsQueue(calls)
    BY DEF PageInv
  <1>6. calls' = Append(r, n) /\ IsAppended(calls, m, r)
    BY <1>1, <1>4, <1>5, AppendTwo, AppendedTo
  <1> HIDE DEF r
  <1>7. IsAppended(r, n, calls')
    BY <1>4, <1>6, AppendedTo DEF IsAppended
  <1>8. /\ nextId \in Nat /\ \A id \in DOMAIN file.txs : id \in Nat /\ id < nextId
        /\ \A id \in DOMAIN server.txs : id \in Nat /\ id < nextId
    BY <1>2, HeldIds
  <1>9. nextId + 1 \in Nat /\ nextId <= nextId + 1 /\ nextId < nextId + 1 /\ nextId + 1 > 0
    BY <1>8
  <1>10. IsHeld(file, server, nextId + 1, stored)
    BY <1>2, <1>9, HeldStays
  <1>11. IsPlanned(calls, file, server, nextId + 1)
    BY <1>2, <1>8, <1>9, PlannedStays DEF Spares
  <1>12. IsPending(tx, file, server, nextId + 1)
    BY <1>2, <1>3, <1>8, <1>9 DEF IsPending
  <1>13. \A i \in 1..Len(calls) : IsAdd(calls[i]) => calls[i].tx.uuid # tx.uuid
    BY <1>2, <1>3, <1>8 DEF IsPlanned, IsPending
  <1>14. IsPlanned(r, file, server, nextId + 1)
    BY <1>4, <1>6, <1>11, <1>12, <1>13, PlannedAppended
  <1>15. IsPlanned(calls', file, server, nextId + 1)
    BY <1>4, <1>7, <1>14, PlannedAppended
  <1> QED BY <1>8, <1>9, <1>10, <1>15 DEF InStep

\* A step that stores nothing, and plans nothing.
LEMMA PlansNothing ==
  ASSUME PageInv, KeptInv, NEW m, IsMessage(m), ~IsAdd(m),
         \/ UNCHANGED calls
         \/ calls' = Append(calls, m)
         \/ calls' = Append(Orphans(calls), m)
         \/ calls # << >> /\ calls' = Tail(calls),
         UNCHANGED <<file, server, nextId, stored, forked, rewound, latest>>
  PROVE  KeptInv'
  <1> SUFFICES ASSUME ~forked, ~rewound PROVE IsPlanned(calls', file, server, nextId)
    BY DEF KeptInv, InStep
  <1>1. IsPlanned(calls, file, server, nextId) /\ IsQueue(calls)
    BY DEF KeptInv, InStep, PageInv
  <1>2. CASE calls' = Append(calls, m)
    BY <1>1, <1>2, AppendedTo, PlannedAppended
  <1>3. CASE calls' = Append(Orphans(calls), m)
    <2> DEFINE r == Orphans(calls)
    <2>1. IsOrphaned(calls, r) /\ IsQueue(r)
      BY <1>1, OrphansOf DEF IsOrphaned
    <2>2. calls' = Append(r, m)
      BY <1>3
    <2> HIDE DEF r
    <2>3. IsPlanned(r, file, server, nextId) /\ IsAppended(r, m, calls')
      BY <1>1, <2>1, <2>2, PlannedOrphans, AppendedTo
    <2> QED BY <2>3, PlannedAppended
  <1>4. CASE calls # << >> /\ calls' = Tail(calls)
    BY <1>1, <1>4, TailOf, PlannedTail
  <1> QED BY <1>1, <1>2, <1>3, <1>4

LEMMA RestartKept ==
  ASSUME KeptInv, Restart
  PROVE  KeptInv'
  <1>1. /\ calls' = <<Message("list")>> /\ file' = disk /\ latest' = disk.latest
        /\ rewound' = (rewound \/ disk # file)
        /\ UNCHANGED <<server, nextId, stored, forked>>
    BY DEF Restart
  <1> SUFFICES ASSUME ~forked, ~rewound'
               PROVE  InStep(file', server, nextId, stored, calls', latest')
    BY <1>1 DEF KeptInv
  <1>2. ~rewound /\ disk = file
    BY <1>1
  <1>3. NoAdds(calls')
    BY <1>1, OneList DEF NoAdds, IsAdd
  <1>4. /\ nextId > 0 /\ IsHeld(file, server, nextId, stored)
    BY <1>2 DEF KeptInv, InStep
  <1>5. file.latest \in Nat /\ file.latest < nextId
    BY <1>4, HeldIds
  <1> QED BY <1>1, <1>2, <1>3, <1>4, <1>5, NonePlanned DEF InStep

\* What storing the next expense leaves, when it sits on the latest transaction.
LEMMA ServeAddKept ==
  ASSUME PageInv, KeptInv, ServeAdd, ~forked, ~rewound
  PROVE  /\ ~forked' => InStep(file', server, nextId, stored', calls', latest)
         /\ Head(calls).tx.parent = file.latest => Keeps(Chain(file), Chain(file'))
  <1> DEFINE tx == Head(calls).tx
  <1>1. /\ calls # << >> /\ Head(calls).op = "add" /\ calls' = Tail(calls)
        /\ UNCHANGED <<server, nextId, latest>>
        /\ \/ /\ file' = WithTransaction(file, tx)
              /\ stored' = Append(stored, tx.body.nth)
              /\ forked' = (forked \/ tx.parent # file.latest)
           \/ UNCHANGED <<file, stored, forked>>
    BY DEF ServeAdd, Take, Answer, PageUnchanged
  <1>2. InStep(file, server, nextId, stored, calls, latest) /\ IsQueue(calls)
    BY DEF KeptInv, PageInv
  <1>3. /\ nextId > 0 /\ IsHeld(file, server, nextId, stored)
        /\ IsPlanned(calls, file, server, nextId) /\ latest \in Nat /\ latest < nextId
    BY <1>2 DEF InStep
  <1>4. /\ IsTail(calls, calls') /\ IsAdd(calls[1]) /\ tx = calls[1].tx
        /\ 1 \in 1..Len(calls)
    <2>1. IsTail(calls, calls') /\ Head(calls) = calls[1] /\ 1 \in 1..Len(calls)
      BY <1>1, <1>2, TailOf
    <2> QED BY <1>1, <2>1 DEF IsAdd
  <1> HIDE DEF tx
  <1>5. IsPending(tx, file, server, nextId) /\ IsPlanned(calls', file, server, nextId)
    <2>1. IsPending(tx, file, server, nextId)
      BY <1>3, <1>4 DEF IsPlanned
    <2> QED BY <1>3, <1>4, <2>1, PlannedTail
  <1>6. CASE UNCHANGED <<file, stored, forked>>
    <2>1. Keeps(Chain(file), Chain(file'))
      BY <1>6 DEF Keeps
    <2> QED BY <1>1, <1>3, <1>5, <1>6, <2>1 DEF InStep
  <1>7. CASE /\ file' = WithTransaction(file, tx)
             /\ stored' = Append(stored, tx.body.nth)
             /\ forked' = (forked \/ tx.parent # file.latest)
    <2> SUFFICES ASSUME tx.parent = file.latest
                 PROVE  /\ InStep(file', server, nextId, stored', calls', latest)
                        /\ Keeps(Chain(file), Chain(file'))
      BY <1>7 DEF tx
    <2>1. IsStoredBy(file, server, nextId, stored, tx, WithTransaction(file, tx))
      BY <1>3, <1>5, StoreKeeps
    <2>2. /\ IsHeld(file', server, nextId, stored') /\ Keeps(Chain(file), Chain(file'))
          /\ DOMAIN file'.txs = DOMAIN file.txs \cup {tx.uuid}
      BY <1>7, <2>1 DEF IsStoredBy
    <2>3. \A i \in 1..Len(calls') : IsAdd(calls'[i]) => calls'[i].tx.uuid # tx.uuid
      <3>1. \A i \in 1..Len(calls') : i + 1 \in 1..Len(calls) /\ calls'[i] = calls[i + 1]
                                      /\ i + 1 # 1
        BY <1>4 DEF IsTail
      <3> QED BY <1>3, <1>4, <3>1 DEF IsPlanned
    <2>4. IsPlanned(calls', file', server, nextId)
      BY <1>5, <2>2, <2>3 DEF IsPlanned, IsPending
    <2> QED BY <1>3, <2>2, <2>4 DEF InStep
  <1> QED BY <1>1, <1>6, <1>7

\* What a sync() leaves, however it ends.
IsEnd(l, r, n, numbers, k, s, m) ==
  /\ m \in Nat /\ n <= m /\ IsHeld(k, s, m, numbers) /\ Keeps(Chain(l), Chain(k))
  /\ Spares(l, r, n, k) /\ Spares(l, r, n, s)

LEMMA NothingDoneIsEnd ==
  ASSUME NEW l, NEW r, NEW n, NEW numbers, IsHeld(l, r, n, numbers)
  PROVE  IsEnd(l, r, n, numbers, l, r, n)
  <1>1. n \in Nat /\ n <= n
    BY HeldIsSound
  <1>2. Keeps(Chain(l), Chain(l)) /\ Spares(l, r, n, l) /\ Spares(l, r, n, r)
    BY DEF Keeps, Spares
  <1> QED BY <1>1, <1>2 DEF IsEnd

LEMMA OutcomeIsEnd ==
  ASSUME NEW l, NEW r, NEW n, NEW numbers, IsHeld(l, r, n, numbers),
         NEW o \in SyncOutcomes(l, r, n),
         NEW m, m = IF CanFetch(l, r) THEN n + IdsForFetch(l, r) ELSE n
  PROVE  IsEnd(l, r, n, numbers, o.local, o.remote, m)
  <1>1. CASE ~CanFetch(l, r)
    <2>1. o.local = l /\ o.remote = r /\ m = n
      BY <1>1, RefusedOutcome
    <2> QED BY <2>1, NothingDoneIsEnd
  <1>2. CASE CanFetch(l, r)
    <2> DEFINE f == Fetch(l, r, n)
               k == MarkPushed(f)
               s == ReceiveTransactions(r, Unsynchronized(f))
    <2>1. IsKept(l, r, n, numbers)
      BY <1>2, BlockedCannotFetch DEF IsHeld, IsStranded
    <2>2. IsFetchedBy(l, r, n, numbers, f, m)
      BY <1>2, <2>1, FetchKeepsAll
    <2>3. /\ m \in Nat /\ n <= m /\ IsKept(f, r, m, numbers) /\ UpToDate(f, r)
          /\ Keeps(Chain(l), Chain(f)) /\ Spares(l, r, n, f) /\ Spares(l, r, n, r)
      BY <2>2 DEF IsFetchedBy, Spares
    <2>4. CanPush(f, r)
      BY <2>3, PushCall DEF IsKept
    <2>5. LocalAfterSync(l, r, n) = k /\ RemoteAfterSync(l, r, n) = s
      BY <1>2, <2>4 DEF LocalAfterSync, RemoteAfterSync, CanSync
    <2>6. \/ o.local = k /\ o.remote = s
          \/ o.local = f /\ o.remote = r
          \/ o.local = f /\ o.remote = s /\ Unsynchronized(f) # << >>
      BY <2>5, FetchedOutcomes
    <2>7. IsPushedBy(f, r, m, numbers, k, s)
      BY <2>3, PushKeepsAll
    <2>8. Unsynchronized(f) # << >> => IsStranded(f, s, m, numbers)
      BY <2>3, PushStrands
    <2> HIDE DEF f, k, s
    <2>9. /\ IsKept(k, s, m, numbers) /\ Keeps(Chain(l), Chain(k))
          /\ Spares(l, r, n, k) /\ Spares(l, r, n, s)
      BY <2>3, <2>7 DEF IsPushedBy, Spares
    <2> QED BY <2>3, <2>6, <2>8, <2>9 DEF IsEnd, IsHeld
  <1> QED BY <1>1, <1>2

LEMMA ServeSyncKept ==
  ASSUME PageInv, KeptInv, ServeSync, ~forked, ~rewound
  PROVE  /\ InStep(file', server', nextId', stored, calls', latest)
         /\ Keeps(Chain(file), Chain(file'))
  <1>1. PICK local, remote, ok :
          /\ EndSync(local, remote, ok)
          /\ \/ local = file /\ remote = server /\ nextId' = nextId
             \/ /\ nextId' = IF CanFetch(file, server)
                               THEN nextId + IdsForFetch(file, server)
                               ELSE nextId
                /\ \E o \in SyncOutcomes(file, server, nextId) :
                     local = o.local /\ remote = o.remote
    BY SyncEnds
  <1>2. /\ calls # << >> /\ calls' = Tail(calls) /\ file' = local /\ server' = remote
    BY <1>1 DEF ServeSync, EndSync, Answer, Take
  <1>3. /\ InStep(file, server, nextId, stored, calls, latest) /\ IsQueue(calls)
        /\ nextId > 0 /\ IsHeld(file, server, nextId, stored)
        /\ IsPlanned(calls, file, server, nextId) /\ latest \in Nat /\ latest < nextId
    BY DEF KeptInv, InStep, PageInv
  <1>4. IsEnd(file, server, nextId, stored, local, remote, nextId')
    BY <1>1, <1>3, NothingDoneIsEnd, OutcomeIsEnd
  <1>5. /\ nextId' \in Nat /\ nextId <= nextId' /\ IsHeld(local, remote, nextId', stored)
        /\ Keeps(Chain(file), Chain(local))
        /\ Spares(file, server, nextId, local) /\ Spares(file, server, nextId, remote)
    BY <1>4 DEF IsEnd
  <1>6. nextId \in Nat
    BY <1>3, HeldIds
  <1>7. IsPlanned(calls', file, server, nextId)
    BY <1>2, <1>3, TailOf, PlannedTail
  <1>8. IsPlanned(calls', local, remote, nextId')
    BY <1>5, <1>6, <1>7, PlannedStays
  <1>9. nextId' > 0 /\ latest < nextId'
    BY <1>3, <1>5, <1>6
  <1> QED BY <1>2, <1>3, <1>5, <1>8, <1>9 DEF InStep

LEMMA OtherPushesKept ==
  ASSUME KeptInv, OtherPushes
  PROVE  KeptInv'
  <1>0. PICK replaces, deleted :
          /\ server' = ReceiveTransactions(server,
               <<NewTransaction("other", counts'.others, server.latest, replaces, deleted)>>)
          /\ nextId' = nextId + 1
          /\ UNCHANGED <<file, calls, stored, forked, rewound, latest>>
    BY DEF OtherPushes, PageUnchanged, HistoryUnchanged
  <1> DEFINE tx == NewTransaction("other", counts'.others, server.latest, replaces, deleted)
             s  == ReceiveTransactions(server, <<tx>>)
  <1>1. /\ server' = s /\ nextId' = nextId + 1
        /\ UNCHANGED <<file, calls, stored, forked, rewound, latest>>
    BY <1>0
  <1> SUFFICES ASSUME ~forked, ~rewound
               PROVE  InStep(file, s, nextId + 1, stored, calls, latest)
    BY <1>1 DEF KeptInv
  <1>2. /\ nextId > 0 /\ IsHeld(file, server, nextId, stored)
        /\ IsPlanned(calls, file, server, nextId) /\ latest \in Nat /\ latest < nextId
    BY DEF KeptInv, InStep
  <1>3. /\ IsTransaction(tx) /\ tx.uuid = nextId /\ tx.parent = server.latest
        /\ tx.body.by # "phone"
    BY ExpenseIs
  <1> HIDE DEF tx
  <1>4. IsHeld(file, s, nextId + 1, stored) /\ DOMAIN s.txs = DOMAIN server.txs \cup {nextId}
    BY <1>2, <1>3, OtherHolds
  <1> HIDE DEF s
  <1>5. nextId \in Nat
    BY <1>2, HeldIds
  <1>6. nextId + 1 \in Nat /\ nextId <= nextId + 1 /\ latest < nextId + 1 /\ nextId + 1 > 0
    BY <1>2, <1>5
  <1>7. Spares(file, server, nextId, file) /\ Spares(file, server, nextId, s)
    BY <1>4, <1>5 DEF Spares
  <1>8. IsPlanned(calls, file, s, nextId + 1)
    BY <1>2, <1>5, <1>6, <1>7, PlannedStays
  <1> QED BY <1>2, <1>4, <1>6, <1>8 DEF InStep

-------------------------------------------------------------------------------
(* The theorems about the history.                                           *)

LEMMA KeptSteps ==
  PageInv /\ KeptInv /\ [Next]_vars => KeptInv'
  <1> SUFFICES ASSUME PageInv, KeptInv, [Next]_vars PROVE KeptInv'
    OBVIOUS
  <1>1. CASE \/ EditTransaction \/ LeaveEditor \/ Synchronize \/ Reopen
             \/ ServeList \/ ServeWithoutFile \/ ServeFlush \/ ReceiveAnswer
    <2>1. PICK m : Calls(m)
      BY <1>1, StoresNothing
    <2> QED BY <2>1, PlansNothing DEF Calls
  <1>2. CASE ServeAdd
    <2>1. forked => forked'
      BY <1>2 DEF ServeAdd
    <2>2. UNCHANGED <<server, nextId, latest, rewound>>
      BY <1>2 DEF ServeAdd, PageUnchanged
    <2> QED BY <1>2, <2>1, <2>2, ServeAddKept DEF KeptInv
  <1>3. CASE ServeSync
    <2>1. UNCHANGED <<stored, forked, rewound, latest>>
      BY <1>3 DEF ServeSync, PageUnchanged
    <2> QED BY <1>3, <2>1, ServeSyncKept DEF KeptInv
  <1>4. CASE UNCHANGED vars
    BY <1>4 DEF vars, KeptInv
  <1> QED BY <1>1, <1>2, <1>3, <1>4, SaveTransactionKept, RestartKept, OtherPushesKept
          DEF Next, Serve

\* Unless an expense was stored on the wrong parent or a killed app lost what it had
\* not flushed, the account can be read, its history holds all that was stored,
\* once and in that order, and the server gets it in that order, each once, also
\* when a push or its answer is lost.  (add_transaction, sync.)
THEOREM HistoryIsComplete == Spec => []HistoryComplete
  <1>1. Init => PageInv /\ KeptInv
    BY PageStarts, KeptStarts
  <1>2. PageInv /\ KeptInv /\ [Next]_vars => (PageInv /\ KeptInv)'
    BY PageSteps, KeptSteps
  <1>3. KeptInv => HistoryComplete
    BY HeldIsComplete DEF KeptInv, InStep, HistoryComplete
  <1> QED BY <1>1, <1>2, <1>3, PTL DEF Spec

\* An expense on the account object that is up to date sits on the latest transaction.
LEMMA NextIsOnLatest ==
  ASSUME TurnInv, ~stale, calls # << >>, Head(calls).op = "add"
  PROVE  Head(calls).tx.parent = file.latest
  <1>1. IsTail(calls, Tail(calls)) /\ IsAdd(calls[1]) /\ Head(calls) = calls[1]
    BY TailOf DEF TurnInv, IsAdd
  <1>2. InTurn(calls, file.latest, latest)
    BY DEF TurnInv
  <1> QED BY <1>1, <1>2, StoredInTurn

LEMMA KeptUnlessStale ==
  ASSUME PageInv, TurnInv, KeptInv, [Next]_vars, ~stale, ~forked, ~rewound'
  PROVE  Keeps(Chain(file), Chain(file'))
  <1>1. CASE ServeAdd
    <2>1. calls # << >> /\ Head(calls).op = "add" /\ ~rewound
      BY <1>1 DEF ServeAdd, Take
    <2> QED BY <1>1, <2>1, NextIsOnLatest, ServeAddKept
  <1>2. CASE ServeSync
    <2>1. ~rewound
      BY <1>2 DEF ServeSync
    <2> QED BY <1>2, <2>1, ServeSyncKept
  <1>3. CASE UNCHANGED file
    BY <1>3 DEF Keeps
  <1>4. CASE \/ EditTransaction \/ LeaveEditor \/ Synchronize \/ Reopen
             \/ ServeList \/ ServeWithoutFile \/ ServeFlush \/ ReceiveAnswer
    <2>1. PICK m : Calls(m)
      BY <1>4, StoresNothing
    <2> QED BY <1>3, <2>1 DEF Calls
  <1>5. CASE Restart
    BY <1>3, <1>5 DEF Restart
  <1>6. CASE SaveTransaction \/ OtherPushes \/ UNCHANGED vars
    BY <1>3, <1>6 DEF SaveTransaction, StoresUnchanged, OtherPushes, vars
  <1> QED BY <1>1, <1>2, <1>4, <1>5, <1>6 DEF Next, Serve

LEMMA KeepsBodies ==
  ASSUME NEW old, NEW new, Keeps(old, new)
  PROVE  Bodies(old) \subseteq Bodies(new)
  BY DEF Keeps, Bodies

\* Nothing leaves the history of the phone, unless the account object was out of
\* date, an expense sits on the wrong parent already, or a killed app lost what it
\* had not flushed.  (saveTransaction.)
THEOREM HistoryIsKeptUnlessStale == Spec => HistoryKeptUnlessStale
  <1>1. Init => PageInv /\ TurnInv /\ KeptInv
    BY PageStarts, TurnStarts, KeptStarts
  <1>2. PageInv /\ TurnInv /\ KeptInv /\ [Next]_vars => (PageInv /\ TurnInv /\ KeptInv)'
    BY PageSteps, TurnSteps, KeptSteps
  <1>3. PageInv /\ TurnInv /\ KeptInv /\ [Next]_vars
        => [~stale /\ ~forked /\ ~rewound' =>
              Bodies(Chain(file)) \subseteq Bodies(Chain(file'))]_file
    BY KeptUnlessStale, KeepsBodies
  <1> QED BY <1>1, <1>2, <1>3, PTL DEF Spec, HistoryKeptUnlessStale
===============================================================================
