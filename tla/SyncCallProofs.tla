---------------------------- MODULE SyncCallProofs -----------------------------
(* Lemmas about the chains of a repository: what get_transaction_chain yields *)
(* (Repository.tla, ChainSince), for every repository whose transactions are  *)
(* older than those that sit on them; and about what one call of sync()       *)
(* leaves on the device and on the server (SyncCall.tla), for all             *)
(* repositories that are in order.                                            *)
(*                                                                            *)
(* ChainSince is a recursive function on transaction ids.  Induction is by    *)
(* the least counterexample (LeastElement): a set of naturals, not a          *)
(* predicate, so no lemma takes an operator as a parameter.                   *)
EXTENDS SyncCall, SequencesExt, SequenceTheorems, WellFoundedInduction, TLAPS

\* A set of naturals has a least element.
LEMMA LeastElement ==
  ASSUME NEW T \in SUBSET Nat, T # {}
  PROVE  \E m \in T : \A k \in T : m <= k
  <1>1. PICK m \in T : \A k \in T : ~ (<<k, m>> \in OpToRel(<, Nat))
    BY NatLessThanWellFounded, WFMin
  <1>2. \A k \in T : ~ (k < m)
    BY <1>1 DEF OpToRel
  <1> QED BY <1>2

\* A set of positions has a greatest element.
LEMMA GreatestElement ==
  ASSUME NEW n \in Nat, NEW T \in SUBSET (1..n), T # {}
  PROVE  \E m \in T : \A k \in T : k <= m
  <1> DEFINE D == {n - k : k \in T}
  <1>1. PICK d \in D : \A k \in D : d <= k
    BY LeastElement, D \in SUBSET Nat, D # {}
  <1>2. PICK m \in T : d = n - m
    OBVIOUS
  <1>3. ASSUME NEW k \in T PROVE k <= m
    BY <1>1, <1>2, n - k \in D
  <1> QED BY <1>3

\* The elements of a batch are its first one and those of the rest: what a loop
\* over a Vec<Transaction> has stored, and has still to store.
LEMMA HeadTailRange ==
  ASSUME NEW S, NEW txs \in Seq(S), txs # << >>
  PROVE  /\ Head(txs) \in S /\ Tail(txs) \in Seq(S)
         /\ Range(txs) = {Head(txs)} \cup Range(Tail(txs))
         /\ Uuids(txs) = {Head(txs).uuid} \cup Uuids(Tail(txs))
  <1>1. /\ Len(txs) \in Nat \ {0} /\ DOMAIN txs = 1..Len(txs)
        /\ Tail(txs) \in Seq(S) /\ Head(txs) \in S /\ Head(txs) = txs[1]
        /\ DOMAIN Tail(txs) = 1..(Len(txs) - 1)
    BY HeadTailProperties, LenProperties, EmptySeq
  <1>2. \A i \in DOMAIN Tail(txs) : Tail(txs)[i] = txs[i + 1] /\ i + 1 \in DOMAIN txs
    BY <1>1, HeadTailProperties, LenProperties
  <1>3. \A i \in DOMAIN txs : i = 1 \/ (i - 1 \in DOMAIN Tail(txs) /\ Tail(txs)[i - 1] = txs[i])
    BY <1>1, <1>2
  <1>4. 1 \in DOMAIN txs
    BY <1>1
  <1> DEFINE tail == Tail(txs)
             head == Head(txs)
  <1>5. /\ head = txs[1] /\ 1 \in DOMAIN txs
        /\ \A i \in DOMAIN tail : \E k \in DOMAIN txs : tail[i] = txs[k]
        /\ \A k \in DOMAIN txs : txs[k] = head \/ \E i \in DOMAIN tail : tail[i] = txs[k]
    BY <1>1, <1>2, <1>3, <1>4
  <1> HIDE DEF tail, head
  <1>6. Range(txs) = {head} \cup Range(tail)
    <2>1. Range(txs) \subseteq {head} \cup Range(tail)
      BY <1>5 DEF Range
    <2>2. {head} \cup Range(tail) \subseteq Range(txs)
      BY <1>5 DEF Range
    <2> QED BY <2>1, <2>2
  <1>7. Uuids(txs) = {head.uuid} \cup Uuids(tail)
    <2>1. Uuids(txs) \subseteq {head.uuid} \cup Uuids(tail)
      BY <1>5 DEF Uuids
    <2>2. {head.uuid} \cup Uuids(tail) \subseteq Uuids(txs)
      BY <1>5 DEF Uuids
    <2> QED BY <2>1, <2>2
  <1> QED BY <1>1, <1>6, <1>7 DEF tail, head

\* The elements of two lists joined (Vec::append) are those of both.
LEMMA ConcatRange ==
  ASSUME NEW S, NEW s \in Seq(S), NEW t \in Seq(S)
  PROVE  /\ s \o t \in Seq(S) /\ Range(s \o t) = Range(s) \cup Range(t)
         /\ Uuids(s \o t) = Uuids(s) \cup Uuids(t)
  <1> DEFINE st == s \o t
  <1>1. /\ Len(s) \in Nat /\ DOMAIN s = 1..Len(s) /\ Len(t) \in Nat /\ DOMAIN t = 1..Len(t)
        /\ st \in Seq(S) /\ Len(st) = Len(s) + Len(t) /\ DOMAIN st = 1..Len(st)
        /\ \A i \in 1..(Len(s) + Len(t)) : st[i] = IF i <= Len(s) THEN s[i] ELSE t[i - Len(s)]
    BY ConcatProperties, LenProperties
  <1> HIDE DEF st
  <1>2. /\ \A i \in DOMAIN s : i \in DOMAIN st /\ st[i] = s[i]
        /\ \A i \in DOMAIN t : i + Len(s) \in DOMAIN st /\ st[i + Len(s)] = t[i]
        /\ \A i \in DOMAIN st : \/ i \in DOMAIN s /\ st[i] = s[i]
                                \/ i - Len(s) \in DOMAIN t /\ st[i] = t[i - Len(s)]
    BY <1>1
  <1>3. Range(st) \subseteq Range(s) \cup Range(t) /\ Range(s) \cup Range(t) \subseteq Range(st)
    BY <1>2 DEF Range
  <1>4. Uuids(st) \subseteq Uuids(s) \cup Uuids(t) /\ Uuids(s) \cup Uuids(t) \subseteq Uuids(st)
    BY <1>2 DEF Uuids
  <1> QED BY <1>1, <1>3, <1>4 DEF st

-------------------------------------------------------------------------------
(* Paths: lists of transactions, each on top of the one before it.           *)

\* Transactions are older than those that sit on them.
IsOrdered(T) == \A tx \in T : tx.uuid \in Nat /\ tx.parent \in Nat /\ tx.parent < tx.uuid

\* A uuid names one transaction.
Agree(T) == \A tx, other \in T : tx.uuid = other.uuid => tx = other

\* txs leads from the transaction `from` (not included) up to `to`.
Path(txs, from, to) ==
  /\ CheckChainConsistency(txs)
  /\ txs = << >> => from = to
  /\ txs # << >> => txs[1].parent = from /\ txs[Len(txs)].uuid = to

\* Uuids increase along a path.
LEMMA PathIncreases ==
  ASSUME NEW T, IsOrdered(T), NEW s \in Seq(T), CheckChainConsistency(s),
         NEW i \in 1..Len(s), NEW j \in 1..Len(s), i < j
  PROVE  s[i].uuid < s[j].uuid
  <1> DEFINE D == {k \in 1..Len(s) : i < k /\ ~(s[i].uuid < s[k].uuid)}
  <1>0. /\ Len(s) \in Nat
        /\ \A k \in 1..Len(s) : s[k].uuid \in Nat /\ s[k].parent \in Nat
                                /\ s[k].parent < s[k].uuid
    BY ElementOfSeq, LenProperties DEF IsOrdered
  <1>1. SUFFICES ASSUME D # {} PROVE FALSE
    BY <1>1
  <1>2. PICK k \in D : \A l \in D : k <= l
    <2>1. D \in SUBSET Nat
      BY <1>0
    <2> HIDE DEF D
    <2> QED BY <1>1, <2>1, LeastElement
  <1>3. k \in 2..Len(s) /\ k - 1 \in 1..Len(s) /\ i <= k - 1 /\ k - 1 \notin D
    BY <1>0, <1>2
  <1>4. s[k].parent = s[k - 1].uuid
    BY <1>3 DEF CheckChainConsistency
  <1>5. s[i].uuid <= s[k - 1].uuid
    BY <1>0, <1>3
  <1>6. s[i].uuid < s[k].uuid
    BY <1>0, <1>2, <1>3, <1>4, <1>5
  <1> QED BY <1>2, <1>6

\* The uuids of a path lie between its ends.
LEMMA PathBounds ==
  ASSUME NEW T, IsOrdered(T), NEW s \in Seq(T), NEW from \in Nat, NEW to, Path(s, from, to),
         NEW i \in 1..Len(s)
  PROVE  from < s[i].uuid /\ s[i].uuid <= to /\ from < to
  <1>0. /\ Len(s) \in Nat /\ s # << >> /\ 1 \in 1..Len(s) /\ Len(s) \in 1..Len(s)
        /\ \A k \in 1..Len(s) : s[k].uuid \in Nat /\ s[k].parent \in Nat
                                /\ s[k].parent < s[k].uuid
    BY ElementOfSeq, LenProperties DEF IsOrdered
  <1>1. from < s[1].uuid /\ to = s[Len(s)].uuid
    BY <1>0 DEF Path
  <1>2. s[1].uuid <= s[i].uuid
    <2>1. CASE i = 1
      BY <1>0, <2>1
    <2>2. CASE i # 1
      BY <1>0, <2>2, PathIncreases DEF Path
    <2> QED BY <2>1, <2>2
  <1>3. s[i].uuid <= s[Len(s)].uuid
    <2>1. CASE i = Len(s)
      BY <1>0, <2>1
    <2>2. CASE i # Len(s)
      BY <1>0, <2>2, PathIncreases DEF Path
    <2> QED BY <2>1, <2>2
  <1> QED BY <1>0, <1>1, <1>2, <1>3

\* In list x, transaction tx is on top of list y.
IsTop(tx, y, x) ==
  /\ CheckChainConsistency(y)
  /\ x # << >> /\ x[Len(x)] = tx
  /\ y = << >> => x[1] = tx
  /\ y # << >> => x[1] = y[1] /\ tx.parent = y[Len(y)].uuid
  /\ \A i \in 1..Len(y) : i \in 1..Len(x) /\ x[i] = y[i]

\* The transactions below the last one of a consistent list.
LEMMA FrontOfChain ==
  ASSUME NEW S, NEW y \in Seq(S), NEW tx \in S, CheckChainConsistency(Append(y, tx))
  PROVE  IsTop(tx, y, Append(y, tx))
  <1> DEFINE x == Append(y, tx)
  <1>0. CheckChainConsistency(x)
    OBVIOUS
  <1>1. /\ Len(y) \in Nat /\ (y = << >> <=> Len(y) = 0) /\ Len(x) = Len(y) + 1
        /\ \A i \in 1..Len(y) : x[i] = y[i]
        /\ x[Len(y) + 1] = tx /\ x # << >>
    BY AppendProperties, LenProperties, EmptySeq
  <1> HIDE DEF x
  <1>2. ASSUME NEW i \in 2..Len(y) PROVE y[i].parent = y[i - 1].uuid
    <2>1. i \in 2..Len(x) /\ x[i] = y[i] /\ x[i - 1] = y[i - 1]
      BY <1>1
    <2> QED BY <1>0, <2>1 DEF CheckChainConsistency
  <1>3. CheckChainConsistency(y)
    BY <1>2 DEF CheckChainConsistency
  <1>4. CASE y # << >>
    <2>1. /\ Len(x) \in 2..Len(x) /\ x[Len(x)] = tx /\ x[Len(x) - 1] = y[Len(y)]
          /\ x[1] = y[1]
      BY <1>1, <1>4
    <2>2. tx.parent = y[Len(y)].uuid
      BY <1>0, <2>1 DEF CheckChainConsistency
    <2> QED BY <1>1, <1>3, <1>4, <2>1, <2>2 DEF IsTop
  <1>5. CASE y = << >>
    BY <1>1, <1>3, <1>5 DEF IsTop
  <1> QED BY <1>4, <1>5 DEF x

\* Two paths, one from the end of the other, make one.
LEMMA PathConcat ==
  ASSUME NEW S, NEW s \in Seq(S), NEW t \in Seq(S), NEW a, NEW b, NEW c,
         Path(s, a, b), Path(t, b, c)
  PROVE  s \o t \in Seq(S) /\ Path(s \o t, a, c)
  <1> DEFINE st == s \o t
  <1>1. /\ Len(s) \in Nat /\ Len(t) \in Nat /\ Len(st) = Len(s) + Len(t)
        /\ st \in Seq(S)
        /\ \A i \in 1..(Len(s) + Len(t)) : st[i] = IF i <= Len(s) THEN s[i] ELSE t[i - Len(s)]
        /\ s = << >> <=> Len(s) = 0
        /\ t = << >> <=> Len(t) = 0
        /\ st = << >> <=> Len(st) = 0
    BY ConcatProperties, LenProperties, EmptySeq
  <1>2. CASE s = << >>
    <2>1. st = t
      BY <1>2, ConcatEmptySeq
    <2> QED BY <1>1, <1>2, <2>1 DEF Path
  <1>3. CASE t = << >>
    <2>1. st = s
      BY <1>3, ConcatEmptySeq
    <2> QED BY <1>1, <1>3, <2>1 DEF Path
  <1>4. CASE s # << >> /\ t # << >>
    <2> HIDE DEF st
    <2>1. st # << >> /\ st[1] = s[1] /\ st[Len(st)] = t[Len(t)]
      BY <1>1, <1>4
    <2>2. ASSUME NEW i \in 2..Len(st) PROVE st[i].parent = st[i - 1].uuid
      <3>1. CASE i <= Len(s)
        <4>1. i \in 2..Len(s) /\ st[i] = s[i] /\ st[i - 1] = s[i - 1]
          BY <1>1, <3>1
        <4> QED BY <4>1 DEF Path, CheckChainConsistency
      <3>2. CASE i = Len(s) + 1
        <4>1. st[i] = t[1] /\ st[i - 1] = s[Len(s)]
          BY <1>1, <1>4, <3>2
        <4> QED BY <1>4, <4>1 DEF Path
      <3>3. CASE i > Len(s) + 1
        <4> DEFINE m == i - Len(s)
        <4>0. i \in 1..(Len(s) + Len(t)) /\ i - 1 \in 1..(Len(s) + Len(t))
          BY <1>1, <3>3
        <4>1. m \in 2..Len(t) /\ (i - 1) - Len(s) = m - 1 /\ ~(i <= Len(s)) /\ ~(i - 1 <= Len(s))
          BY <1>1, <3>3
        <4>2. st[i] = t[m] /\ st[i - 1] = t[m - 1]
          <5>1. st[i] = t[i - Len(s)] /\ st[i - 1] = t[(i - 1) - Len(s)]
            BY <1>1, <4>0, <4>1
          <5> QED BY <4>1, <5>1
        <4> HIDE DEF m
        <4> QED BY <4>1, <4>2 DEF Path, CheckChainConsistency
      <3> QED BY <1>1, <3>1, <3>2, <3>3
    <2>3. CheckChainConsistency(st)
      BY <2>2 DEF CheckChainConsistency
    <2> QED BY <1>1, <1>4, <2>1, <2>3 DEF Path, st
  <1> QED BY <1>2, <1>3, <1>4

\* Where the first k transactions of a path lead.
Reached(s, from, k) == IF k = 0 THEN from ELSE s[k].uuid

\* Its first k transactions, p, and the rest, q, are what path s is cut into.
IsCut(S, s, a, c, k, p, q) ==
  /\ p \in Seq(S) /\ Len(p) = k /\ \A i \in 1..k : p[i] = s[i]
  /\ q \in Seq(S) /\ Len(q) = Len(s) - k /\ \A i \in 1..(Len(s) - k) : q[i] = s[k + i]
  /\ Path(p, a, Reached(s, a, k)) /\ Path(q, Reached(s, a, k), c)
  /\ s = p \o q

\* A path can be cut in two anywhere.
LEMMA PathSplit ==
  ASSUME NEW S, NEW s \in Seq(S), NEW a, NEW c, Path(s, a, c), NEW k \in 0..Len(s)
  PROVE  IsCut(S, s, a, c, k, SubSeq(s, 1, k), SubSeq(s, k + 1, Len(s)))
  <1> DEFINE p == SubSeq(s, 1, k)
             q == SubSeq(s, k + 1, Len(s))
  <1>0. Len(s) \in Nat /\ k \in Nat /\ k <= Len(s) /\ \A i \in 1..Len(s) : s[i] \in S
    BY ElementOfSeq, LenProperties
  <1>1. p \in Seq(S) /\ Len(p) = k /\ \A i \in 1..k : p[i] = s[i]
    <2>1. \A i \in 1..k : s[i] \in S
      BY <1>0
    <2> QED BY <1>0, <2>1, SubSeqProperties
  <1>2. q \in Seq(S) /\ Len(q) = Len(s) - k /\ \A i \in 1..(Len(s) - k) : q[i] = s[k + i]
    <2>1. \A i \in (k + 1)..Len(s) : s[i] \in S
      BY <1>0
    <2>2. k + 1 \in Int /\ Len(s) \in Int
      BY <1>0
    <2>3. /\ q \in Seq(S) /\ Len(q) = IF k + 1 <= Len(s) THEN Len(s) - (k + 1) + 1 ELSE 0
          /\ \A i \in 1..(Len(s) - (k + 1) + 1) : q[i] = s[(k + 1) + i - 1]
      BY <2>1, <2>2, SubSeqProperties
    <2> HIDE DEF q
    <2> QED BY <1>0, <2>3
  <1>3. s = p \o q
    <2>1. 1 \in 1..(Len(s) + 1) /\ k \in (1 - 1)..Len(s) /\ Len(s) \in k..Len(s)
      BY <1>0
    <2>2. SubSeq(s, 1, k) \o SubSeq(s, k + 1, Len(s)) = SubSeq(s, 1, Len(s))
      BY <2>1, ConcatAdjacentSubSeq
    <2> QED BY <2>2, SubSeqFull
  <1> HIDE DEF p, q
  <1>4. p = << >> <=> k = 0
    BY <1>0, <1>1, EmptySeq
  <1>5. q = << >> <=> k = Len(s)
    BY <1>0, <1>2, EmptySeq
  <1>6. s = << >> <=> Len(s) = 0
    BY <1>0, EmptySeq
  <1>7. Path(p, a, Reached(s, a, k))
    <2>1. CheckChainConsistency(p)
      BY <1>0, <1>1 DEF CheckChainConsistency, Path
    <2>2. k # 0 => s[1].parent = a
      BY <1>0, <1>6 DEF Path
    <2> QED BY <1>0, <1>1, <1>4, <2>1, <2>2 DEF Path, Reached
  <1>8. Path(q, Reached(s, a, k), c)
    <2>1. ASSUME NEW i \in 2..Len(q) PROVE q[i].parent = q[i - 1].uuid
      <3>1. /\ i \in 1..(Len(s) - k) /\ i - 1 \in 1..(Len(s) - k) /\ k + i \in 2..Len(s)
            /\ k + (i - 1) = (k + i) - 1
        BY <1>0, <1>2
      <3> QED BY <1>2, <3>1 DEF Path, CheckChainConsistency
    <2>2. CheckChainConsistency(q)
      BY <2>1 DEF CheckChainConsistency
    <2>3. CASE k = Len(s)
      BY <1>0, <1>5, <1>6, <2>2, <2>3 DEF Path, Reached
    <2>4. CASE k # Len(s)
      <3>1. q[1] = s[k + 1] /\ q[Len(q)] = s[Len(s)] /\ s # << >>
        <4>1. 1 \in 1..(Len(s) - k) /\ Len(q) \in 1..(Len(s) - k) /\ k + Len(q) = Len(s)
          BY <1>0, <1>2, <2>4
        <4>2. q[1] = s[k + 1] /\ q[Len(q)] = s[k + Len(q)]
          BY <1>2, <4>1
        <4>3. Len(s) # 0
          BY <1>0, <2>4
        <4> QED BY <1>6, <4>1, <4>2, <4>3
      <3>2. s[k + 1].parent = Reached(s, a, k)
        BY <1>0, <2>4, <3>1 DEF Path, CheckChainConsistency, Reached
      <3> QED BY <1>5, <2>2, <2>4, <3>1, <3>2 DEF Path
    <2> QED BY <2>3, <2>4
  <1> QED BY <1>1, <1>2, <1>3, <1>7, <1>8 DEF p, q, IsCut

-------------------------------------------------------------------------------
(* What ChainSince computes.                                                 *)

\* A transaction is filed under its uuid, and is older than those on top of it.
IsFiled(r) ==
  /\ \A id \in DOMAIN r.txs : r.txs[id].uuid = id
  /\ IsOrdered(Stored(r))

\* txs is what is met going down from transaction id to base, or to a transaction
\* that is not stored, oldest first.
IsRun(r, base, id, txs) ==
  /\ txs \in Seq(Stored(r))
  /\ CheckChainConsistency(txs)
  /\ \A i \in 1..Len(txs) : txs[i].uuid # base
  /\ txs = << >> => id \notin DOMAIN r.txs \/ id = base
  /\ txs # << >> => /\ txs[Len(txs)].uuid = id
                    /\ txs[1].parent \notin DOMAIN r.txs \/ txs[1].parent = base

\* What is stored is what is filed under some id.
LEMMA StoredTransaction ==
  ASSUME NEW r, IsFiled(r)
  PROVE  /\ \A id \in DOMAIN r.txs :
              /\ r.txs[id] \in Stored(r) /\ r.txs[id].uuid = id /\ id \in Nat
              /\ r.txs[id].parent \in Nat /\ r.txs[id].parent < id
         /\ \A tx \in Stored(r) : tx.uuid \in DOMAIN r.txs /\ tx = r.txs[tx.uuid]
  BY DEF IsFiled, IsOrdered, Stored, Range

\* A run grows by the transaction on top of it.
LEMMA RunExtends ==
  ASSUME NEW r, IsFiled(r), NEW base, NEW id \in DOMAIN r.txs, id # base,
         NEW t, IsRun(r, base, r.txs[id].parent, t)
  PROVE  IsRun(r, base, id, Append(t, r.txs[id]))
  <1> DEFINE tx == r.txs[id]
             s  == Append(t, tx)
  <1>1. tx \in Stored(r) /\ tx.uuid = id
    BY StoredTransaction
  <1>2. /\ t \in Seq(Stored(r)) /\ Len(t) \in Nat /\ (t = << >> <=> Len(t) = 0)
        /\ s \in Seq(Stored(r)) /\ s # << >> /\ Len(s) = Len(t) + 1
        /\ \A i \in 1..Len(t) : s[i] = t[i]
        /\ s[Len(t) + 1] = tx
    BY <1>1, AppendProperties, LenProperties, EmptySeq DEF IsRun
  <1> HIDE DEF s
  <1>3. ASSUME NEW i \in 2..Len(s) PROVE s[i].parent = s[i - 1].uuid
    <2>1. CASE i <= Len(t)
      <3>1. i \in 2..Len(t) /\ s[i] = t[i] /\ s[i - 1] = t[i - 1]
        BY <1>2, <2>1
      <3> QED BY <3>1 DEF IsRun, CheckChainConsistency
    <2>2. CASE i = Len(t) + 1
      <3>1. s[i] = tx /\ s[i - 1] = t[Len(t)] /\ t # << >>
        BY <1>2, <2>2
      <3> QED BY <3>1 DEF IsRun
    <2> QED BY <1>2, <2>1, <2>2
  <1>4. \A i \in 1..Len(s) : s[i].uuid # base
    BY <1>1, <1>2 DEF IsRun
  <1>5. s[Len(s)].uuid = id
    BY <1>1, <1>2
  <1>6. s[1].parent \notin DOMAIN r.txs \/ s[1].parent = base
    <2>1. CASE t = << >>
      BY <1>2, <2>1 DEF IsRun
    <2>2. CASE t # << >>
      BY <1>2, <2>2 DEF IsRun
    <2> QED BY <2>1, <2>2
  <1>7. CheckChainConsistency(s)
    BY <1>3 DEF CheckChainConsistency
  <1> QED BY <1>2, <1>4, <1>5, <1>6, <1>7 DEF IsRun, s

\* A run ends with the transaction it is a run for, and what is below is a run.
LEMMA RunShrinks ==
  ASSUME NEW r, IsFiled(r), NEW base, NEW id \in DOMAIN r.txs, id # base,
         NEW s, IsRun(r, base, id, s)
  PROVE  \E t : IsRun(r, base, r.txs[id].parent, t) /\ s = Append(t, r.txs[id])
  <1>0. s \in Seq(Stored(r)) /\ s # << >>
    BY DEF IsRun
  <1>1. PICK t \in Seq(Stored(r)), tx \in Stored(r) : s = Append(t, tx)
    BY <1>0, SequenceEmptyOrAppend
  <1>2. IsTop(tx, t, s)
    <2>1. CheckChainConsistency(Append(t, tx))
      BY <1>1 DEF IsRun
    <2> QED BY <1>1, <2>1, FrontOfChain, Zenon
  <1>3. tx = r.txs[id]
    <2>1. tx.uuid = id
      BY <1>0, <1>2 DEF IsRun, IsTop
    <2> QED BY <2>1, StoredTransaction
  <1>4. \A i \in 1..Len(t) : t[i].uuid # base
    BY <1>2 DEF IsRun, IsTop
  <1>5. IsRun(r, base, tx.parent, t)
    <2>1. CASE t = << >>
      BY <1>0, <1>2, <1>4, <2>1 DEF IsRun, IsTop
    <2>2. CASE t # << >>
      BY <1>0, <1>2, <1>4, <2>2 DEF IsRun, IsTop
    <2> QED BY <2>1, <2>2
  <1> QED BY <1>1, <1>3, <1>5

\* There is a run for every id,
LEMMA RunExists ==
  ASSUME NEW r, IsFiled(r), NEW base, NEW id \in Nat
  PROVE  \E s : IsRun(r, base, id, s)
  <1> DEFINE D == {n \in Nat : ~ \E s : IsRun(r, base, n, s)}
  <1>1. SUFFICES ASSUME D # {} PROVE FALSE
    BY <1>1
  <1>2. PICK n \in D : \A k \in D : n <= k
    <2>1. D \in SUBSET Nat
      OBVIOUS
    <2> HIDE DEF D
    <2> QED BY <1>1, <2>1, LeastElement
  <1>3. CASE n \in DOMAIN r.txs /\ n # base
    <2>1. r.txs[n].parent \in Nat /\ r.txs[n].parent < n
      BY <1>3, StoredTransaction
    <2>2. r.txs[n].parent \notin D
      BY <1>2, <2>1
    <2>3. PICK t : IsRun(r, base, r.txs[n].parent, t)
      BY <2>1, <2>2
    <2>4. IsRun(r, base, n, Append(t, r.txs[n]))
      BY <1>3, <2>3, RunExtends
    <2> QED BY <1>2, <2>4
  <1>4. CASE ~(n \in DOMAIN r.txs /\ n # base)
    <2>1. /\ << >> \in Seq(Stored(r)) /\ Len(<< >>) = 0
          /\ CheckChainConsistency(<< >>)
      BY EmptySeq DEF CheckChainConsistency
    <2>2. IsRun(r, base, n, << >>)
      BY <1>4, <2>1 DEF IsRun
    <2> QED BY <1>2, <2>2
  <1> QED BY <1>3, <1>4

\* and only one.
LEMMA RunUnique ==
  ASSUME NEW r, IsFiled(r), NEW base, NEW id \in Nat,
         NEW s, IsRun(r, base, id, s), NEW t, IsRun(r, base, id, t)
  PROVE  s = t
  <1> DEFINE D == {n \in Nat : \E u, v : /\ IsRun(r, base, n, u) /\ IsRun(r, base, n, v)
                                        /\ u # v}
  <1>1. SUFFICES ASSUME D # {} PROVE FALSE
    BY <1>1
  <1>2. PICK n \in D : \A k \in D : n <= k
    <2>1. D \in SUBSET Nat
      OBVIOUS
    <2> HIDE DEF D
    <2> QED BY <1>1, <2>1, LeastElement
  <1>3. PICK u, v : IsRun(r, base, n, u) /\ IsRun(r, base, n, v) /\ u # v
    BY <1>2
  <1>4. CASE n \in DOMAIN r.txs /\ n # base
    <2>1. r.txs[n].parent \in Nat /\ r.txs[n].parent < n
      BY <1>4, StoredTransaction
    <2>2. r.txs[n].parent \notin D
      BY <1>2, <2>1
    <2> HIDE DEF D
    <2>6. \A w : IsRun(r, base, n, w) =>
            \E x : IsRun(r, base, r.txs[n].parent, x) /\ w = Append(x, r.txs[n])
      BY <1>4, RunShrinks
    <2>3. PICK x : IsRun(r, base, r.txs[n].parent, x) /\ u = Append(x, r.txs[n])
      BY <1>3, <2>6
    <2>4. PICK y : IsRun(r, base, r.txs[n].parent, y) /\ v = Append(y, r.txs[n])
      BY <1>3, <2>6
    <2> USE DEF D
    <2>5. x = y
      BY <2>1, <2>2, <2>3, <2>4
    <2> QED BY <1>3, <2>3, <2>4, <2>5
  <1>5. CASE ~(n \in DOMAIN r.txs /\ n # base)
    <2>1. ASSUME NEW x, IsRun(r, base, n, x) PROVE x = << >>
      <3>1. SUFFICES ASSUME x # << >> PROVE FALSE
        BY <3>1
      <3>2. x \in Seq(Stored(r)) /\ x[Len(x)].uuid = n
        BY <2>1, <3>1 DEF IsRun
      <3>4. Len(x) \in 1..Len(x)
        BY <3>1, <3>2, LenProperties, EmptySeq
      <3>5. n # base
        BY <2>1, <3>2, <3>4 DEF IsRun
      <3>3. n \in DOMAIN r.txs
        BY <3>2, <3>4, StoredTransaction, ElementOfSeq
      <3> QED BY <1>5, <3>3, <3>5
    <2> QED BY <1>3, <2>1
  <1> QED BY <1>4, <1>5

\* ChainSince yields the run for the latest transaction: the recursive function it
\* is defined by exists, and computes the run for every id.
LEMMA ChainSinceIsRun ==
  ASSUME NEW r, IsFiled(r), r.latest \in Nat, NEW base
  PROVE  IsRun(r, base, r.latest, ChainSince(r, base))
  <1> DEFINE Link(f, id) == IF ~HasTransaction(r, id) \/ id = base
                              THEN << >>
                              ELSE Append(f[r.txs[id].parent], r.txs[id])
             run   == [id \in Nat |-> CHOOSE s : IsRun(r, base, id, s)]
             since == CHOOSE f : f = [id \in Nat |-> Link(f, id)]
  <1>1. \A id \in Nat : IsRun(r, base, id, run[id])
    BY RunExists
  <1>2. run = [id \in Nat |-> Link(run, id)]
    <2>1. ASSUME NEW id \in Nat PROVE run[id] = Link(run, id)
      <3>1. CASE id \in DOMAIN r.txs /\ id # base
        <4>1. r.txs[id].parent \in Nat
          BY <3>1, StoredTransaction
        <4>2. IsRun(r, base, r.txs[id].parent, run[r.txs[id].parent])
          BY <1>1, <4>1
        <4> HIDE DEF run
        <4>3. IsRun(r, base, id, Append(run[r.txs[id].parent], r.txs[id]))
          BY <3>1, <4>2, RunExtends
        <4>4. run[id] = Append(run[r.txs[id].parent], r.txs[id])
          <5>1. IsRun(r, base, id, run[id])
            BY <1>1
          <5> QED BY <4>3, <5>1, RunUnique
        <4> QED BY <3>1, <4>4 DEF HasTransaction
      <3>2. CASE ~(id \in DOMAIN r.txs /\ id # base)
        <4>1. Link(run, id) = << >>
          BY <3>2 DEF HasTransaction
        <4>2. IsRun(r, base, id, << >>)
          <5>1. /\ << >> \in Seq(Stored(r)) /\ Len(<< >>) = 0
                /\ CheckChainConsistency(<< >>)
            BY EmptySeq DEF CheckChainConsistency
          <5> QED BY <3>2, <5>1 DEF IsRun
        <4> HIDE DEF run, Link
        <4> QED BY <1>1, <4>1, <4>2, RunUnique
      <3> QED BY <3>1, <3>2
    <2>2. run = [id \in Nat |-> run[id]]
      OBVIOUS
    <2> HIDE DEF run, Link
    <2> QED BY <2>1, <2>2
  <1>3. since = [id \in Nat |-> Link(since, id)]
    <2> HIDE DEF run, Link
    <2> QED BY <1>2
  <1>4. ChainSince(r, base) = since[r.latest]
    BY DEF ChainSince
  <1> HIDE DEF since
  <1>5. \A id \in Nat : IsRun(r, base, id, since[id])
    <2> DEFINE D == {n \in Nat : ~IsRun(r, base, n, since[n])}
    <2>1. SUFFICES ASSUME D # {} PROVE FALSE
      BY <2>1
    <2>2. PICK n \in D : \A k \in D : n <= k
      <3>1. D \in SUBSET Nat
        OBVIOUS
      <3> HIDE DEF D
      <3> QED BY <2>1, <3>1, LeastElement
    <2>3. since[n] = Link(since, n)
      <3> HIDE DEF Link
      <3> QED BY <1>3, <2>2
    <2>4. CASE n \in DOMAIN r.txs /\ n # base
      <3>1. r.txs[n].parent \in Nat /\ r.txs[n].parent < n
        BY <2>4, StoredTransaction
      <3>2. IsRun(r, base, r.txs[n].parent, since[r.txs[n].parent])
        BY <2>2, <3>1
      <3>3. since[n] = Append(since[r.txs[n].parent], r.txs[n])
        BY <2>3, <2>4 DEF HasTransaction
      <3>4. IsRun(r, base, n, since[n])
        BY <2>4, <3>2, <3>3, RunExtends
      <3> QED BY <2>2, <3>4
    <2>5. CASE ~(n \in DOMAIN r.txs /\ n # base)
      <3>1. since[n] = << >>
        BY <2>3, <2>5 DEF HasTransaction
      <3>2. /\ << >> \in Seq(Stored(r)) /\ Len(<< >>) = 0
            /\ CheckChainConsistency(<< >>)
        BY EmptySeq DEF CheckChainConsistency
      <3>3. IsRun(r, base, n, since[n])
        BY <2>5, <3>1, <3>2 DEF IsRun
      <3> QED BY <2>2, <3>3
    <2> QED BY <2>4, <2>5
  <1> QED BY <1>4, <1>5

\* Nothing is filed under NoId.
LEMMA NoIdNotStored ==
  ASSUME NEW r, IsFiled(r)
  PROVE  NoId \notin DOMAIN r.txs
  BY StoredTransaction DEF NoId

\* A path of stored transactions that starts where get_transaction_chain stops and
\* ends with the latest one is what it yields.
LEMMA ChainSinceIs ==
  ASSUME NEW r, IsFiled(r), r.latest \in Nat, NEW base, NEW from, NEW s \in Seq(Stored(r)),
         Path(s, from, r.latest), from \notin DOMAIN r.txs \/ from = base,
         \A i \in 1..Len(s) : s[i].uuid # base
  PROVE  ChainSince(r, base) = s
  <1>1. IsRun(r, base, r.latest, s)
    BY DEF IsRun, Path
  <1> QED BY <1>1, ChainSinceIsRun, RunUnique

\* The chain of an account is the path of stored transactions from the root to the
\* latest one, if there is one; then it can be read,
LEMMA ChainIs ==
  ASSUME NEW r, IsFiled(r), r.latest \in Nat, NEW s \in Seq(Stored(r)),
         Path(s, NoId, r.latest)
  PROVE  Chain(r) = s /\ IsReadable(r)
  <1>1. NoId \notin DOMAIN r.txs
    BY NoIdNotStored
  <1>2. \A i \in 1..Len(s) : s[i].uuid # NoId
    <2>1. \A i \in 1..Len(s) : s[i] \in Stored(r)
      BY ElementOfSeq
    <2> QED BY <1>1, <2>1, StoredTransaction
  <1>3. Chain(r) = s
    BY <1>2, ChainSinceIs DEF Chain
  <1>4. IsChainSince(r, NoId, s)
    BY DEF IsChainSince, Path
  <1> QED BY <1>3, <1>4 DEF IsReadable

\* and only then.
LEMMA ReadableChain ==
  ASSUME NEW r, IsReadable(r)
  PROVE  Chain(r) \in Seq(Stored(r)) /\ Path(Chain(r), NoId, r.latest)
  BY DEF IsReadable, IsChainSince, Path

\* A file that stores all of a chain and points to its end has that chain, whatever
\* else is added to the file or deleted from it.
LEMMA ChainKept ==
  ASSUME NEW r, IsReadable(r), NEW q, IsFiled(q), q.latest \in Nat, q.latest = r.latest,
         Range(Chain(r)) \subseteq Stored(q)
  PROVE  IsReadable(q) /\ Chain(q) = Chain(r)
  <1>1. Chain(r) \in Seq(Stored(r)) /\ Path(Chain(r), NoId, q.latest)
    BY ReadableChain
  <1>2. Chain(r) \in Seq(Stored(q))
    BY <1>1, SeqOfRange, SeqMonotonic
  <1> QED BY <1>1, <1>2, ChainIs

\* An id on a path from the root is where some beginning of the path leads.
LEMMA PathReaches ==
  ASSUME NEW S, NEW s \in Seq(S), NEW id \in {NoId} \cup Uuids(s)
  PROVE  \E k \in 0..Len(s) : Reached(s, NoId, k) = id
  <1>0. Len(s) \in Nat /\ DOMAIN s = 1..Len(s)
    BY LenProperties
  <1>1. CASE id = NoId
    <2>1. 0 \in 0..Len(s) /\ Reached(s, NoId, 0) = id
      BY <1>0, <1>1 DEF Reached
    <2> QED BY <2>1
  <1>2. CASE id \in Uuids(s)
    <2>1. PICK i \in 1..Len(s) : s[i].uuid = id
      BY <1>0, <1>2 DEF Uuids
    <2>2. i \in 0..Len(s) /\ Reached(s, NoId, i) = id
      BY <1>0, <2>1 DEF Reached
    <2> QED BY <2>2
  <1> QED BY <1>1, <1>2

\* p and u are the chain of r, up to transaction `base` and from there on.
Cuts(r, base, p, u) ==
  /\ u \in Seq(Stored(r)) /\ p \in Seq(Stored(r))
  /\ Path(p, NoId, base) /\ Path(u, base, r.latest)
  /\ Chain(r) = p \o u
  /\ Len(p) \in 0..Len(Chain(r))

\* Transaction `base` of a readable chain (or the root) cuts it in two: what
\* ChainSince yields is what sits on it.
LEMMA ChainSinceCuts ==
  ASSUME NEW r, IsFiled(r), r.latest \in Nat, IsReadable(r),
         NEW base \in {NoId} \cup Uuids(Chain(r))
  PROVE  Cuts(r, base, SubSeq(Chain(r), 1, Len(Chain(r)) - Len(ChainSince(r, base))),
              ChainSince(r, base))
  <1> DEFINE s == Chain(r)
  <1>1. s \in Seq(Stored(r)) /\ Path(s, NoId, r.latest) /\ Len(s) \in Nat
    BY ReadableChain, LenProperties
  <1> HIDE DEF s
  <1>2. base \in {NoId} \cup Uuids(s)
    BY DEF s
  <1>3. PICK k \in 0..Len(s) : Reached(s, NoId, k) = base
    BY <1>1, <1>2, PathReaches
  <1> DEFINE p == SubSeq(s, 1, k)
             u == SubSeq(s, k + 1, Len(s))
  <1>4. /\ p \in Seq(Stored(r)) /\ Len(p) = k
        /\ u \in Seq(Stored(r)) /\ Len(u) = Len(s) - k
        /\ Path(p, NoId, base) /\ Path(u, base, r.latest)
        /\ s = p \o u
    <2>1. IsCut(Stored(r), s, NoId, r.latest, k, p, u)
      BY <1>1, PathSplit, Zenon
    <2> HIDE DEF p, u
    <2> QED BY <1>3, <2>1 DEF IsCut
  <1>5. ChainSince(r, base) = u
    <2> HIDE DEF u, p
    <2>1. IsOrdered(Stored(r))
      BY DEF IsFiled
    <2>2. base \in Nat
      <3>1. CASE base = NoId
        BY <3>1 DEF NoId
      <3>2. CASE base \in Uuids(s)
        <4>1. PICK i \in DOMAIN s : base = s[i].uuid
          BY <3>2 DEF Uuids
        <4>2. s[i] \in Stored(r)
          BY <1>1, <4>1, LenProperties, ElementOfSeq
        <4> QED BY <2>1, <4>1, <4>2 DEF IsOrdered
      <3> QED BY <1>2, <3>1, <3>2
    <2>3. \A i \in 1..Len(u) : base < u[i].uuid /\ u[i].uuid \in Nat
      <3>1. \A i \in 1..Len(u) : u[i].uuid \in Nat
        BY <1>4, <2>1, ElementOfSeq DEF IsOrdered
      <3> QED BY <1>4, <2>1, <2>2, <3>1, PathBounds
    <2>4. \A i \in 1..Len(u) : u[i].uuid # base
      BY <2>2, <2>3
    <2> QED BY <1>4, <2>4, ChainSinceIs
  <1>6. Len(s) - Len(u) = k
    BY <1>1, <1>4
  <1> HIDE DEF u
  <1> QED BY <1>1, <1>4, <1>5, <1>6 DEF s, p, Cuts

\* When base is not on the chain, ChainSince yields all of it.
LEMMA ChainSinceWhole ==
  ASSUME NEW r, IsFiled(r), r.latest \in Nat, IsReadable(r),
         NEW base, base \notin Uuids(Chain(r))
  PROVE  ChainSince(r, base) = Chain(r)
  <1>1. Chain(r) \in Seq(Stored(r)) /\ Path(Chain(r), NoId, r.latest)
    BY ReadableChain
  <1>2. \A i \in 1..Len(Chain(r)) : Chain(r)[i].uuid # base
    BY <1>1, LenProperties DEF Uuids
  <1> QED BY <1>1, <1>2, NoIdNotStored, ChainSinceIs

\* Between two ids there is one path at most, since a uuid names one transaction.
LEMMA PathUnique ==
  ASSUME NEW T, IsOrdered(T), Agree(T), NEW from \in Nat, NEW to \in Nat,
         NEW s \in Seq(T), Path(s, from, to), NEW t \in Seq(T), Path(t, from, to)
  PROVE  s = t
  <1> DEFINE Two(n) == \E u, v \in Seq(T) : Path(u, from, n) /\ Path(v, from, n) /\ u # v
             D == {n \in Nat : Two(n)}
  <1>1. SUFFICES ASSUME D # {} PROVE FALSE
    BY <1>1
  <1>2. PICK n \in D : \A k \in D : n <= k
    <2>1. D \in SUBSET Nat
      OBVIOUS
    <2> HIDE DEF D
    <2> QED BY <1>1, <2>1, LeastElement
  <1>3. PICK u \in Seq(T), v \in Seq(T) : Path(u, from, n) /\ Path(v, from, n) /\ u # v
    BY <1>2
  <1>12. n \in Nat
    BY <1>2
  <1> HIDE DEF D, Two
  <1>4. u # << >> /\ v # << >>
    <2>1. ASSUME NEW x \in Seq(T), Path(x, from, n), n = from PROVE x = << >>
      <3>1. SUFFICES ASSUME x # << >> PROVE FALSE
        BY <3>1
      <3>2. 1 \in 1..Len(x)
        BY <3>1, LenProperties, EmptySeq
      <3>3. from < n
        BY <2>1, <3>2, PathBounds
      <3> QED BY <2>1, <3>3
    <2> QED BY <1>3, <2>1 DEF Path
  <1>5. ASSUME NEW x \in Seq(T), x # << >>, Path(x, from, n)
        PROVE  \E y \in Seq(T), tx \in T : /\ x = Append(y, tx) /\ tx.uuid = n
                                           /\ Path(y, from, tx.parent)
    <2>1. PICK y \in Seq(T), tx \in T : x = Append(y, tx)
      BY <1>5, SequenceEmptyOrAppend
    <2>2. IsTop(tx, y, x)
      <3>1. CheckChainConsistency(Append(y, tx))
        BY <1>5, <2>1 DEF Path
      <3> QED BY <2>1, <3>1, FrontOfChain, Zenon
    <2>3. Path(y, from, tx.parent)
      BY <1>5, <2>2 DEF Path, IsTop
    <2>4. tx.uuid = n
      BY <1>5, <2>2 DEF Path, IsTop
    <2> QED BY <2>1, <2>3, <2>4
  <1>6. PICK p \in Seq(T), tx \in T : /\ u = Append(p, tx) /\ tx.uuid = n
                                     /\ Path(p, from, tx.parent)
    BY <1>3, <1>4, <1>5
  <1>7. PICK q \in Seq(T), ty \in T : /\ v = Append(q, ty) /\ ty.uuid = n
                                     /\ Path(q, from, ty.parent)
    BY <1>3, <1>4, <1>5
  <1>8. tx = ty
    BY <1>6, <1>7 DEF Agree
  <1>9. tx.parent \in Nat /\ tx.parent < n
    BY <1>6 DEF IsOrdered
  <1>10. tx.parent \notin D
    BY <1>2, <1>9, <1>12
  <1>11. p = q
    BY <1>6, <1>7, <1>8, <1>9, <1>10 DEF D, Two
  <1> QED BY <1>3, <1>6, <1>7, <1>8, <1>11

-------------------------------------------------------------------------------
(* Chains put together.                                                      *)

\* What follows a list does not change that the list is a prefix.
LEMMA PrefixOfConcat ==
  ASSUME NEW S, NEW s \in Seq(S), NEW t \in Seq(S)
  PROVE  IsPrefix(s, s \o t)
  <1>1. /\ Len(s) \in Nat /\ Len(t) \in Nat /\ s \o t \in Seq(S)
        /\ Len(s \o t) = Len(s) + Len(t)
        /\ \A i \in 1..Len(s) : (s \o t)[i] = s[i]
    BY ConcatProperties, LenProperties
  <1>2. SubSeq(s \o t, 1, Len(s)) = SubSeq(s, 1, Len(s))
    BY <1>1
  <1> QED BY <1>1, <1>2 DEF IsPrefix

\* A chain is made of two paths of stored transactions, the second on the first.
IsMadeOf(q, p, b) ==
  /\ Chain(q) = p \o b /\ IsReadable(q)
  /\ Uuids(Chain(q)) = Uuids(p) \cup Uuids(b)

LEMMA ChainOfPaths ==
  ASSUME NEW q, IsFiled(q), q.latest \in Nat,
         NEW p \in Seq(Stored(q)), NEW b \in Seq(Stored(q)), NEW mid,
         Path(p, NoId, mid), Path(b, mid, q.latest)
  PROVE  IsMadeOf(q, p, b)
  <1>1. p \o b \in Seq(Stored(q)) /\ Path(p \o b, NoId, q.latest)
    BY PathConcat
  <1>2. Chain(q) = p \o b /\ IsReadable(q)
    BY <1>1, ChainIs
  <1> QED BY <1>2, ConcatRange DEF IsMadeOf

\* The second of the two is then what ChainSince yields.
LEMMA SinceOfPaths ==
  ASSUME NEW q, IsFiled(q), q.latest \in Nat, NEW mid \in Nat,
         NEW b \in Seq(Stored(q)), Path(b, mid, q.latest)
  PROVE  ChainSince(q, mid) = b
  <1>1. IsOrdered(Stored(q))
    BY DEF IsFiled
  <1>2. ASSUME NEW i \in 1..Len(b) PROVE b[i].uuid # mid
    <2>1. mid < b[i].uuid
      BY <1>1, PathBounds
    <2>2. b[i] \in Stored(q)
      BY ElementOfSeq
    <2>3. b[i].uuid \in Nat
      BY <1>1, <2>2 DEF IsOrdered
    <2> QED BY <2>1, <2>3
  <1>3. mid \notin DOMAIN q.txs \/ mid = mid
    OBVIOUS
  <1> QED BY <1>2, <1>3, ChainSinceIs

\* Where an account ends: nowhere, or at a transaction of its chain.
LEMMA LatestOnChain ==
  ASSUME NEW r, IsReadable(r)
  PROVE  r.latest \in {NoId} \cup Uuids(Chain(r))
  <1>1. Chain(r) \in Seq(Stored(r)) /\ Path(Chain(r), NoId, r.latest)
    BY ReadableChain
  <1>2. Chain(r) # << >> => Len(Chain(r)) \in DOMAIN Chain(r)
    BY <1>1, LenProperties, EmptySeq
  <1> QED BY <1>1, <1>2 DEF Path, Uuids

\* set_latest_transaction to a transaction that sits on the latest one appends it.
LEMMA SetLatestChain ==
  ASSUME NEW r, IsFiled(r), IsReadable(r), NEW id \in DOMAIN r.txs,
         r.txs[id].parent = r.latest,
         NEW q, q.txs = r.txs, q.latest = id
  PROVE  /\ IsFiled(q) /\ IsReadable(q) /\ Chain(q) = Chain(r) \o <<r.txs[id]>>
         /\ <<r.txs[id]>> \in Seq(Stored(r)) /\ Chain(r) \in Seq(Stored(r))
         /\ Uuids(Chain(q)) = Uuids(Chain(r)) \cup {id}
  <1> DEFINE tx == r.txs[id]
             t  == <<tx>>
  <1>1. tx \in Stored(r) /\ tx.uuid = id /\ id \in Nat
    BY StoredTransaction
  <1>2. Stored(q) = Stored(r) /\ IsFiled(q)
    BY DEF Stored, IsFiled
  <1>3. /\ t \in Seq(Stored(r)) /\ Len(t) = 1 /\ t[1] = tx /\ t # << >> /\ DOMAIN t = {1}
    BY <1>1
  <1>4. Path(t, r.latest, id) /\ Uuids(t) = {id}
    BY <1>1, <1>3 DEF Path, CheckChainConsistency, Uuids
  <1>5. Chain(r) \in Seq(Stored(r)) /\ Path(Chain(r), NoId, r.latest)
    BY ReadableChain
  <1> HIDE DEF t, tx
  <1>6. Chain(r) \o t \in Seq(Stored(r)) /\ Path(Chain(r) \o t, NoId, id)
    BY <1>3, <1>4, <1>5, PathConcat
  <1>7. Chain(q) = Chain(r) \o t /\ IsReadable(q)
    BY <1>1, <1>2, <1>6, ChainIs
  <1>8. Uuids(Chain(q)) = Uuids(Chain(r)) \cup {id}
    BY <1>3, <1>4, <1>5, <1>7, ConcatRange
  <1> QED BY <1>2, <1>3, <1>5, <1>7, <1>8 DEF t, tx

-------------------------------------------------------------------------------
(* One call of sync().                                                       *)

\* A transaction has the fields of model::Transaction.
IsTransaction(tx) ==
  tx = [uuid |-> tx.uuid, parent |-> tx.parent, replaces |-> tx.replaces,
        deleted |-> tx.deleted, body |-> tx.body]

IsRecord(r) == r = [txs |-> r.txs, latest |-> r.latest, synced |-> r.synced]

\* A repository that is in order, and holds no transaction that was generated
\* when n was the next id, or later.
Sound(r, n) ==
  /\ IsRecord(r) /\ IsFiled(r) /\ IsReadable(r) /\ r.latest \in Nat
  /\ \A tx \in Stored(r) : IsTransaction(tx) /\ tx.uuid < n

\* Where synced may point to, as far as repository r is concerned.
Known(r) == {NoId} \cup Uuids(Chain(r))

\* The part of a device's chain that it takes for the server's.
SyncedPart(r) == SubSeq(Chain(r), 1, Len(Chain(r)) - Len(Unsynchronized(r)))

LEMMA EmptyRepoSound ==
  ASSUME NEW n
  PROVE  /\ Sound(EmptyRepo, n) /\ Chain(EmptyRepo) = << >>
         /\ DOMAIN EmptyRepo.txs = {} /\ NoId \in Known(EmptyRepo)
  <1>1. /\ IsRecord(EmptyRepo) /\ EmptyRepo.latest = NoId /\ NoId \in Nat
        /\ DOMAIN EmptyRepo.txs = {} /\ Stored(EmptyRepo) = {}
    BY DEF IsRecord, EmptyRepo, Stored, Range, NoId
  <1>2. IsFiled(EmptyRepo)
    BY <1>1 DEF IsFiled, IsOrdered
  <1>3. << >> \in Seq(Stored(EmptyRepo)) /\ Path(<< >>, NoId, NoId)
    BY EmptySeq DEF Path, CheckChainConsistency
  <1>4. Chain(EmptyRepo) = << >> /\ IsReadable(EmptyRepo)
    BY <1>1, <1>2, <1>3, ChainIs
  <1> QED BY <1>1, <1>2, <1>4 DEF Sound, Known

\* The ids of a repository in order are numbers, and those on its chain stored.
LEMMA SoundIds ==
  ASSUME NEW r, NEW n, Sound(r, n)
  PROVE  /\ \A id \in DOMAIN r.txs : id \in Nat /\ id < n /\ r.txs[id] \in Stored(r)
         /\ \A tx \in Stored(r) : tx.uuid \in DOMAIN r.txs /\ tx = r.txs[tx.uuid]
         /\ Uuids(Chain(r)) \subseteq DOMAIN r.txs
         /\ \A id \in Known(r) : id \in Nat
  <1>1. IsFiled(r) /\ IsReadable(r) /\ \A tx \in Stored(r) : tx.uuid < n
    BY DEF Sound
  <1>2. /\ \A id \in DOMAIN r.txs : id \in Nat /\ id < n /\ r.txs[id] \in Stored(r)
        /\ \A tx \in Stored(r) : tx.uuid \in DOMAIN r.txs /\ tx = r.txs[tx.uuid]
    BY <1>1, StoredTransaction
  <1>3. \A i \in DOMAIN Chain(r) : Chain(r)[i] \in Stored(r)
    BY <1>1, ReadableChain, ElementOfSeq, LenProperties
  <1>4. Uuids(Chain(r)) \subseteq DOMAIN r.txs
    BY <1>2, <1>3 DEF Uuids
  <1>5. NoId \in Nat
    BY DEF NoId
  <1> QED BY <1>2, <1>4, <1>5 DEF Known

\* Time passes.
LEMMA StaysSound ==
  ASSUME NEW r, NEW n \in Nat, Sound(r, n), NEW m \in Nat, n <= m
  PROVE  Sound(r, m)
  <1>1. \A tx \in Stored(r) : tx.uuid < n /\ tx.uuid \in Nat
    BY DEF Sound, IsFiled, IsOrdered
  <1>2. \A tx \in Stored(r) : tx.uuid < m
    BY <1>1
  <1> QED BY <1>2 DEF Sound

-------------------------------------------------------------------------------
(* Writing to a repository.                                                  *)

\* The uuids of an ordered list are all different, so the last one with a uuid is
\* the only one.
LEMMA LastIsOnly ==
  ASSUME NEW T, IsOrdered(T), NEW txs \in Seq(T), CheckChainConsistency(txs),
         NEW i \in DOMAIN txs
  PROVE  LastWithUuid(txs, txs[i].uuid) = i
  <1>1. DOMAIN txs = 1..Len(txs) /\ Len(txs) \in Nat
    BY LenProperties
  <1>2. \A k \in DOMAIN txs : txs[k].uuid \in Nat
    BY <1>1, ElementOfSeq DEF IsOrdered
  <1>3. ASSUME NEW j \in DOMAIN txs, txs[j].uuid = txs[i].uuid PROVE j = i
    <2>1. ~(j < i) /\ ~(i < j)
      BY <1>1, <1>2, <1>3, PathIncreases
    <2> QED BY <1>1, <2>1
  <1>4. \A j \in DOMAIN txs : j > i => txs[j].uuid # txs[i].uuid
    BY <1>1, <1>3
  <1> QED BY <1>3, <1>4 DEF LastWithUuid

\* Repository a is r with the new transactions txs.
IsAdded(r, txs, a) ==
  /\ IsRecord(a) /\ IsFiled(a)
  /\ a.latest = r.latest /\ a.synced = r.synced
  /\ DOMAIN a.txs = DOMAIN r.txs \cup Uuids(txs)
  /\ Stored(a) = Stored(r) \cup Range(txs)

LEMMA AddBatch ==
  ASSUME NEW r, IsRecord(r), IsFiled(r),
         NEW T, IsOrdered(T), NEW txs \in Seq(T), CheckChainConsistency(txs),
         \A i \in DOMAIN txs : txs[i].uuid \notin DOMAIN r.txs
  PROVE  IsAdded(r, txs, AddTransactions(r, txs))
  <1> DEFINE a == AddTransactions(r, txs)
             f == [id \in DOMAIN r.txs \cup Uuids(txs) |->
                     IF id \in Uuids(txs) THEN txs[LastWithUuid(txs, id)] ELSE r.txs[id]]
  <1>1. a = [txs |-> f, latest |-> r.latest, synced |-> r.synced]
    BY DEF AddTransactions, IsRecord
  <1>2. ASSUME NEW i \in DOMAIN txs
        PROVE  txs[i].uuid \in DOMAIN f /\ f[txs[i].uuid] = txs[i]
    <2>1. txs[i].uuid \in Uuids(txs) /\ LastWithUuid(txs, txs[i].uuid) = i
      BY LastIsOnly DEF Uuids
    <2> QED BY <2>1
  <1>3. \A id \in DOMAIN r.txs : id \in DOMAIN f /\ f[id] = r.txs[id]
    BY DEF Uuids
  <1>4. \A id \in DOMAIN f : \/ id \in DOMAIN r.txs /\ f[id] = r.txs[id]
                             \/ \E i \in DOMAIN txs : id = txs[i].uuid /\ f[id] = txs[i]
    <2>1. \A id \in DOMAIN f : id \in DOMAIN r.txs \/ id \in Uuids(txs)
      OBVIOUS
    <2>2. \A id \in Uuids(txs) : \E i \in DOMAIN txs : id = txs[i].uuid
      BY DEF Uuids
    <2> HIDE DEF f
    <2> QED BY <1>2, <1>3, <2>1, <2>2
  <1>5. a.txs = f /\ a.latest = r.latest /\ a.synced = r.synced /\ IsRecord(a)
    BY <1>1 DEF IsRecord
  <1>6. DOMAIN a.txs = DOMAIN r.txs \cup Uuids(txs)
    BY <1>5
  <1> HIDE DEF f, a
  <1>7. Stored(a) \subseteq Stored(r) \cup Range(txs)
    BY <1>4, <1>5 DEF Stored, Range
  <1>8. Stored(r) \cup Range(txs) \subseteq Stored(a)
    BY <1>2, <1>3, <1>5 DEF Stored, Range
  <1>9. IsFiled(a)
    <2>1. \A id \in DOMAIN a.txs : a.txs[id].uuid = id
      BY <1>4, <1>5 DEF IsFiled
    <2>2. Range(txs) \subseteq T
      BY RangeOfSeq
    <2>3. IsOrdered(Stored(r) \cup Range(txs))
      BY <2>2 DEF IsFiled, IsOrdered
    <2> QED BY <1>7, <2>1, <2>3 DEF IsFiled, IsOrdered
  <1> QED BY <1>5, <1>6, <1>7, <1>8, <1>9 DEF IsAdded, a

\* Recording a transaction on top of the latest one appends it to the chain.
RecordsOnTop(r, tx, q, n) ==
  /\ Sound(q, n) /\ q.latest = tx.uuid /\ q.synced = r.synced
  /\ DOMAIN q.txs = DOMAIN r.txs \cup {tx.uuid}
  /\ <<tx>> \in Seq(Stored(q)) /\ Chain(r) \in Seq(Stored(q))
  /\ Chain(q) = Chain(r) \o <<tx>>
  /\ Path(<<tx>>, r.latest, q.latest)

LEMMA RecordCall ==
  ASSUME NEW r, NEW n \in Nat, Sound(r, n), NEW tx, IsTransaction(tx),
         tx.uuid \in Nat, tx.uuid < n, tx.uuid \notin DOMAIN r.txs,
         tx.parent = r.latest, tx.parent < tx.uuid,
         NEW q, q = SetLatestTransaction(AddTransaction(r, tx), tx.uuid)
  PROVE  RecordsOnTop(r, tx, q, n)
  <1> DEFINE f == [id \in DOMAIN r.txs \cup {tx.uuid} |->
                     IF id = tx.uuid THEN tx ELSE r.txs[id]]
  <1>0. IsRecord(r) /\ IsFiled(r) /\ IsReadable(r) /\ r.latest \in Nat
    BY DEF Sound
  <1>1. q = [txs |-> f, latest |-> tx.uuid, synced |-> r.synced]
    BY <1>0 DEF SetLatestTransaction, AddTransaction, IsRecord
  <1>2. /\ q.txs = f /\ q.latest = tx.uuid /\ q.synced = r.synced /\ IsRecord(q)
        /\ DOMAIN f = DOMAIN r.txs \cup {tx.uuid} /\ f[tx.uuid] = tx
        /\ \A id \in DOMAIN r.txs : f[id] = r.txs[id]
    BY <1>1 DEF IsRecord
  <1> HIDE DEF f
  <1>3. Stored(q) = Stored(r) \cup {tx}
    <2>1. Stored(q) \subseteq Stored(r) \cup {tx}
      BY <1>2 DEF Stored, Range
    <2>2. Stored(r) \cup {tx} \subseteq Stored(q)
      BY <1>2 DEF Stored, Range
    <2> QED BY <2>1, <2>2
  <1>4. IsFiled(q)
    BY <1>0, <1>2, <1>3 DEF IsFiled, IsOrdered
  <1>5. /\ <<tx>> \in Seq(Stored(q)) /\ Len(<<tx>>) = 1 /\ <<tx>>[1] = tx
        /\ <<tx>> # << >>
    BY <1>3
  <1>6. Path(<<tx>>, r.latest, q.latest)
    BY <1>2, <1>5 DEF Path, CheckChainConsistency
  <1>7. Chain(r) \in Seq(Stored(q)) /\ Path(Chain(r), NoId, r.latest)
    BY <1>0, <1>3, ReadableChain, SeqMonotonic
  <1>8. IsMadeOf(q, Chain(r), <<tx>>)
    BY <1>2, <1>4, <1>5, <1>6, <1>7, ChainOfPaths
  <1>9. Chain(q) = Chain(r) \o <<tx>> /\ IsReadable(q)
    BY <1>8 DEF IsMadeOf
  <1>10. Sound(q, n)
    BY <1>2, <1>3, <1>4, <1>9 DEF Sound
  <1> QED BY <1>2, <1>5, <1>6, <1>7, <1>9, <1>10 DEF RecordsOnTop

-------------------------------------------------------------------------------
(* The rebase.                                                               *)

SameBodies(s, t) == Len(s) = Len(t) /\ \A i \in 1..Len(t) : s[i].body = t[i].body

\* Transaction new is tx under another id and on top of another parent.
IsMoved(new, tx, id, parent) == new = [tx EXCEPT !.uuid = id, !.parent = parent]

LEMMA MovedIs ==
  ASSUME NEW tx, IsTransaction(tx), NEW id, NEW parent,
         NEW new, IsMoved(new, tx, id, parent)
  PROVE  /\ IsTransaction(new) /\ new.uuid = id /\ new.parent = parent
         /\ new.body = tx.body
  <1> DEFINE one == [tx EXCEPT !.uuid = id]
  <1>1. one = [uuid |-> id, parent |-> tx.parent, replaces |-> tx.replaces,
               deleted |-> tx.deleted, body |-> tx.body]
    BY DEF IsTransaction
  <1>2. new = [one EXCEPT !.parent = parent]
    BY DEF IsMoved
  <1> HIDE DEF one
  <1>3. new = [uuid |-> id, parent |-> parent, replaces |-> tx.replaces,
               deleted |-> tx.deleted, body |-> tx.body]
    BY <1>1, <1>2
  <1> QED BY <1>3 DEF IsTransaction

\* What rebase_transactions makes of a list: the same expenses in the same order,
\* under the ids from n on, on top of transaction newest.
IsRebase(old, newest, n, rebased) ==
  /\ SameBodies(rebased, old)
  /\ rebased \in Seq(Range(rebased)) /\ IsOrdered(Range(rebased))
  /\ \A tx \in Range(rebased) : IsTransaction(tx)
  /\ \A id \in Uuids(rebased) : id \in Nat /\ n <= id /\ id < n + Len(old)
  /\ Path(rebased, newest, IF old = << >> THEN newest ELSE rebased[Len(rebased)].uuid)

LEMMA RebaseIs ==
  ASSUME NEW T, \A tx \in T : IsTransaction(tx), NEW old \in Seq(T),
         NEW newest \in Nat, NEW n \in Nat, newest < n
  PROVE  IsRebase(old, newest, n, RebaseTransactions(old, newest, n))
  <1> DEFINE s == RebaseTransactions(old, newest, n)
             L == Len(old)
             e(i) == [old[i] EXCEPT !.uuid = n + i - 1,
                      !.parent = IF i = 1 THEN newest ELSE n + i - 2]
  <1>1. L \in Nat /\ DOMAIN old = 1..L /\ (old = << >> <=> L = 0)
    BY LenProperties, EmptySeq
  <1>2. ASSUME NEW i \in 1..L
        PROVE  /\ IsTransaction(e(i)) /\ e(i).uuid = n + i - 1 /\ e(i).body = old[i].body
               /\ e(i).parent = IF i = 1 THEN newest ELSE n + i - 2
    <2>1. IsTransaction(old[i])
      BY ElementOfSeq
    <2> DEFINE parent == IF i = 1 THEN newest ELSE n + i - 2
    <2>2. IsMoved(e(i), old[i], n + i - 1, parent)
      BY DEF IsMoved
    <2> HIDE DEF e, parent
    <2>3. /\ IsTransaction(e(i)) /\ e(i).uuid = n + i - 1 /\ e(i).parent = parent
          /\ e(i).body = old[i].body
      BY <2>1, <2>2, MovedIs
    <2> QED BY <2>3 DEF parent
  <1>3. s = [i \in 1..L |-> e(i)]
    BY <1>1 DEF RebaseTransactions
  <1> HIDE DEF e
  <1>4. /\ DOMAIN s = 1..L
        /\ \A i \in 1..L : /\ IsTransaction(s[i]) /\ s[i].uuid = n + i - 1
                           /\ s[i].body = old[i].body
                           /\ s[i].parent = IF i = 1 THEN newest ELSE n + i - 2
    BY <1>2, <1>3
  <1>5. s \in [1..L -> Range(s)]
    BY <1>3, <1>4 DEF Range
  <1> HIDE DEF s, L
  <1>6. s \in Seq(Range(s)) /\ Len(s) = L
    BY <1>1, <1>5, SeqDef, LenProperties
  <1>7. ASSUME NEW i \in 1..L
        PROVE  /\ s[i].uuid \in Nat /\ n <= s[i].uuid /\ s[i].uuid < n + L
               /\ s[i].parent \in Nat /\ s[i].parent < s[i].uuid
    <2>1. i \in Nat /\ 1 <= i /\ i <= L
      BY <1>1
    <2>2. s[i].uuid = n + i - 1
      BY <1>4
    <2>3. CASE i = 1
      BY <1>1, <1>4, <2>1, <2>2, <2>3
    <2>4. CASE i # 1
      <3>1. s[i].parent = n + i - 2
        BY <1>4, <2>4
      <3> QED BY <1>1, <2>1, <2>2, <2>4, <3>1
    <2> QED BY <2>3, <2>4
  <1>8. \A tx \in Range(s) : \E i \in 1..L : tx = s[i]
    BY <1>4 DEF Range
  <1>9. IsOrdered(Range(s)) /\ \A tx \in Range(s) : IsTransaction(tx)
    BY <1>4, <1>7, <1>8 DEF IsOrdered
  <1>10. \A id \in Uuids(s) : id \in Nat /\ n <= id /\ id < n + L
    BY <1>4, <1>7 DEF Uuids
  <1>11. ASSUME NEW i \in 2..Len(s) PROVE s[i].parent = s[i - 1].uuid
    <2>1. i \in 1..L /\ i - 1 \in 1..L /\ i # 1 /\ i \in Nat
      BY <1>1, <1>6
    <2>2. s[i].parent = n + i - 2 /\ s[i - 1].uuid = n + (i - 1) - 1
      BY <1>4, <2>1
    <2> QED BY <2>1, <2>2
  <1>12. s # << >> => s[1].parent = newest
    <2>1. s # << >> => 1 \in 1..L
      BY <1>1, <1>6, EmptySeq
    <2> QED BY <1>4, <2>1
  <1>13. old = << >> <=> s = << >>
    BY <1>1, <1>6, EmptySeq
  <1>14. Path(s, newest, IF old = << >> THEN newest ELSE s[Len(s)].uuid)
    BY <1>11, <1>12, <1>13 DEF Path, CheckChainConsistency
  <1> QED BY <1>4, <1>6, <1>9, <1>10, <1>14 DEF IsRebase, SameBodies, s, L

\* A device and the server: both repositories are in order, what the device takes
\* for synchronized is on both chains, and what it does not is not on the server.
Paired(local, remote, n) ==
  /\ n \in Nat
  /\ Sound(local, n) /\ Sound(remote, n)
  /\ local.synced \in Known(local) /\ local.synced \in Known(remote)
  /\ Uuids(Unsynchronized(local)) \cap DOMAIN remote.txs = {}

\* How the two chains fork.
IsFork(local, remote, p, old, q, news) ==
  /\ Cuts(local, local.synced, p, old) /\ Cuts(remote, local.synced, q, news)
  /\ Uuids(Chain(local)) = Uuids(p) \cup Uuids(old)
  /\ Uuids(Chain(remote)) = Uuids(q) \cup Uuids(news)
  /\ \A id \in Uuids(p) : id \in Nat /\ id <= local.synced
  /\ \A id \in Uuids(old) \cup Uuids(news) : id \in Nat /\ local.synced < id

LEMMA CutUuids ==
  ASSUME NEW r, IsFiled(r), NEW base \in Nat, NEW p, NEW u, Cuts(r, base, p, u)
  PROVE  /\ Uuids(Chain(r)) = Uuids(p) \cup Uuids(u)
         /\ \A id \in Uuids(p) : id \in Nat /\ id <= base
         /\ \A id \in Uuids(u) : id \in Nat /\ base < id
         /\ Uuids(p) \subseteq DOMAIN r.txs /\ Uuids(u) \subseteq DOMAIN r.txs
  <1>1. /\ u \in Seq(Stored(r)) /\ p \in Seq(Stored(r)) /\ Chain(r) = p \o u
        /\ Path(p, NoId, base) /\ Path(u, base, r.latest) /\ IsOrdered(Stored(r))
    BY DEF Cuts, IsFiled
  <1>2. Uuids(Chain(r)) = Uuids(p) \cup Uuids(u)
    BY <1>1, ConcatRange
  <1>3. NoId \in Nat
    BY DEF NoId
  <1>4. /\ DOMAIN p = 1..Len(p) /\ \A i \in 1..Len(p) : p[i] \in Stored(r)
        /\ DOMAIN u = 1..Len(u) /\ \A i \in 1..Len(u) : u[i] \in Stored(r)
    BY <1>1, LenProperties, ElementOfSeq
  <1>5. \A tx \in Stored(r) : tx.uuid \in Nat /\ tx.uuid \in DOMAIN r.txs
    BY <1>1, StoredTransaction DEF IsOrdered
  <1>6. \A i \in 1..Len(p) : p[i].uuid <= base
    BY <1>1, <1>3, PathBounds
  <1>7. \A i \in 1..Len(u) : base < u[i].uuid
    BY <1>1, PathBounds
  <1>8. \A id \in Uuids(p) : \E i \in 1..Len(p) : id = p[i].uuid
    BY <1>4 DEF Uuids
  <1>9. \A id \in Uuids(u) : \E i \in 1..Len(u) : id = u[i].uuid
    BY <1>4 DEF Uuids
  <1> QED BY <1>2, <1>4, <1>5, <1>6, <1>7, <1>8, <1>9

LEMMA ForkIs ==
  ASSUME NEW local, NEW remote, NEW n, Paired(local, remote, n)
  PROVE  \E q : IsFork(local, remote, SyncedPart(local), Unsynchronized(local),
                       q, News(local, remote))
  <1>1. /\ IsFiled(local) /\ IsReadable(local) /\ local.latest \in Nat
        /\ IsFiled(remote) /\ IsReadable(remote) /\ remote.latest \in Nat
        /\ local.synced \in {NoId} \cup Uuids(Chain(local))
        /\ local.synced \in {NoId} \cup Uuids(Chain(remote))
    BY DEF Paired, Sound, Known
  <1>2. local.synced \in Nat
    BY SoundIds DEF Paired
  <1>3. Cuts(local, local.synced, SyncedPart(local), Unsynchronized(local))
    BY <1>1, ChainSinceCuts DEF SyncedPart, Unsynchronized
  <1>4. PICK q : Cuts(remote, local.synced, q, News(local, remote))
    BY <1>1, ChainSinceCuts DEF News, ChildTransactions
  <1>5. /\ Uuids(Chain(local)) = Uuids(SyncedPart(local)) \cup Uuids(Unsynchronized(local))
        /\ \A id \in Uuids(SyncedPart(local)) : id \in Nat /\ id <= local.synced
        /\ \A id \in Uuids(Unsynchronized(local)) : id \in Nat /\ local.synced < id
    BY <1>1, <1>2, <1>3, CutUuids
  <1>6. /\ Uuids(Chain(remote)) = Uuids(q) \cup Uuids(News(local, remote))
        /\ \A id \in Uuids(News(local, remote)) : id \in Nat /\ local.synced < id
    BY <1>1, <1>2, <1>4, CutUuids
  <1>7. IsFork(local, remote, SyncedPart(local), Unsynchronized(local),
               q, News(local, remote))
    BY <1>3, <1>4, <1>5, <1>6 DEF IsFork
  <1> QED BY <1>7

\* What a device records adds to what it has still to push, and to nothing else.
IsOneMore(local, remote, tx, l, m) ==
  /\ Paired(l, remote, m)
  /\ News(l, remote) = News(local, remote) /\ SyncedPart(l) = SyncedPart(local)
  /\ Uuids(Unsynchronized(l)) = Uuids(Unsynchronized(local)) \cup {tx.uuid}
  /\ Uuids(Chain(l)) = Uuids(Chain(local)) \cup {tx.uuid}

LEMMA RecordedIsPaired ==
  ASSUME NEW local, NEW remote, NEW n, Paired(local, remote, n),
         NEW tx, tx.uuid \in Nat, tx.uuid \notin DOMAIN remote.txs,
         NEW m \in Nat, n <= m, NEW l, RecordsOnTop(local, tx, l, m)
  PROVE  IsOneMore(local, remote, tx, l, m)
  <1> DEFINE old == Unsynchronized(local)
             p   == SyncedPart(local)
             t   == <<tx>>
  <1>1. /\ Sound(local, n) /\ Sound(remote, n) /\ n \in Nat
        /\ local.synced \in Known(local) /\ local.synced \in Known(remote)
        /\ Uuids(old) \cap DOMAIN remote.txs = {}
    BY DEF Paired
  <1>2. Sound(remote, m) /\ local.synced \in Nat
    BY <1>1, StaysSound, SoundIds
  <1>3. PICK q : IsFork(local, remote, p, old, q, News(local, remote))
    BY ForkIs
  <1>4. /\ old \in Seq(Stored(local)) /\ Path(old, local.synced, local.latest)
        /\ p \in Seq(Stored(local)) /\ Path(p, NoId, local.synced)
        /\ Chain(local) = p \o old
    BY <1>3 DEF IsFork, Cuts
  <1> HIDE DEF old, p
  <1>5. /\ Sound(l, m) /\ l.latest = tx.uuid /\ l.synced = local.synced
        /\ DOMAIN l.txs = DOMAIN local.txs \cup {tx.uuid}
        /\ t \in Seq(Stored(l)) /\ Chain(local) \in Seq(Stored(l))
        /\ Chain(l) = Chain(local) \o t /\ Path(t, local.latest, l.latest)
    BY DEF RecordsOnTop
  <1>6. Uuids(t) = {tx.uuid}
    <2>1. DOMAIN t = {1} /\ t[1] = tx
      OBVIOUS
    <2> QED BY <2>1 DEF Uuids
  <1> HIDE DEF t
  <1>7. Uuids(Chain(l)) = Uuids(Chain(local)) \cup {tx.uuid}
    BY <1>5, <1>6, ConcatRange
  <1>8. old \in Seq(Stored(l)) /\ p \in Seq(Stored(l))
    <2>1. Range(Chain(local)) = Range(p) \cup Range(old)
      BY <1>4, ConcatRange
    <2>2. Range(Chain(local)) \subseteq Stored(l)
      BY <1>5, RangeOfSeq
    <2>3. p \in Seq(Range(p)) /\ old \in Seq(Range(old))
      BY <1>4, SeqOfRange
    <2> QED BY <2>1, <2>2, <2>3, SeqMonotonic
  <1>9. Path(old \o t, local.synced, l.latest) /\ old \o t \in Seq(Stored(l))
    BY <1>4, <1>5, <1>8, PathConcat
  <1>10. IsFiled(l) /\ IsReadable(l) /\ l.latest \in Nat
    BY <1>5 DEF Sound
  <1>11. Unsynchronized(l) = old \o t
    BY <1>2, <1>5, <1>9, <1>10, SinceOfPaths DEF Unsynchronized
  <1>12. Uuids(Unsynchronized(l)) = Uuids(old) \cup {tx.uuid}
    BY <1>5, <1>6, <1>8, <1>11, ConcatRange
  <1>13. l.synced \in Known(l)
    BY <1>1, <1>5, <1>7 DEF Known
  <1>14. Paired(l, remote, m)
    BY <1>1, <1>2, <1>5, <1>12, <1>13 DEF Paired
  <1>15. SyncedPart(l) = p
    <2>1. Cuts(l, l.synced, SyncedPart(l), old \o t)
      BY <1>10, <1>11, <1>13, ChainSinceCuts DEF Known, SyncedPart, Unsynchronized
    <2>2. SyncedPart(l) \in Seq(Stored(l)) /\ SyncedPart(l) \o (old \o t) = (p \o old) \o t
      BY <1>4, <1>5, <2>1 DEF Cuts
    <2>3. (p \o old) \o t = p \o (old \o t)
      <3>1. p \in Seq(Stored(l)) /\ old \in Seq(Stored(l)) /\ t \in Seq(Stored(l))
        BY <1>5, <1>8
      <3> QED BY ONLY <3>1, ConcatAssociative
    <2> QED BY <1>8, <1>9, <2>2, <2>3, ConcatSimplifications
  <1>16. News(l, remote) = News(local, remote)
    BY <1>5 DEF News
  <1> QED BY <1>7, <1>12, <1>14, <1>15, <1>16 DEF IsOneMore, p, old

\* What rebase_local_transactions leaves in the file, f: the news, and on top of
\* them what was the device's own, under ids up to m.
IsFetched(local, remote, n, m, f, own) ==
  /\ m \in Nat /\ n <= m
  /\ Sound(f, m) /\ f.synced = remote.latest /\ f.synced \in Known(f)
  /\ Unsynchronized(f) = own /\ SyncedPart(f) = SyncedPart(local) \o News(local, remote)
  /\ SameBodies(own, Unsynchronized(local))
  /\ Uuids(News(local, remote)) \cap DOMAIN local.txs = {}
  /\ \A id \in Uuids(own) : id \in Uuids(Unsynchronized(local)) \/ n <= id
  /\ DOMAIN f.txs = (DOMAIN local.txs \ Uuids(Unsynchronized(local)))
                      \cup Uuids(News(local, remote)) \cup Uuids(own)

\* A device that has nothing to fetch has got no news.
LEMMA FetchNothing ==
  ASSUME NEW local, NEW remote, NEW n, Paired(local, remote, n), UpToDate(local, remote)
  PROVE  /\ News(local, remote) = << >>
         /\ IsFetched(local, remote, n, n, local, Unsynchronized(local))
  <1> DEFINE old == Unsynchronized(local)
             p   == SyncedPart(local)
  <1>1. /\ IsFiled(remote) /\ remote.latest \in Nat /\ n \in Nat
        /\ local.synced = remote.latest /\ Sound(local, n) /\ local.synced \in Known(local)
    BY DEF Paired, Sound, UpToDate
  <1>2. News(local, remote) = << >>
    <2>1. << >> \in Seq(Stored(remote)) /\ Path(<< >>, remote.latest, remote.latest)
      BY EmptySeq DEF Path, CheckChainConsistency
    <2> QED BY <1>1, <2>1, SinceOfPaths DEF News, ChildTransactions
  <1>3. PICK q : IsFork(local, remote, p, old, q, News(local, remote))
    BY ForkIs
  <1>4. /\ old \in Seq(Stored(local)) /\ p \in Seq(Stored(local))
        /\ Uuids(Chain(local)) = Uuids(p) \cup Uuids(old)
    BY <1>3 DEF IsFork, Cuts
  <1> HIDE DEF old, p
  <1>5. Uuids(old) \subseteq DOMAIN local.txs
    BY <1>1, <1>4, SoundIds
  <1>6. Uuids(News(local, remote)) = {} /\ p \o News(local, remote) = p
    BY <1>2, <1>4, ConcatEmptySeq DEF Uuids
  <1>7. SameBodies(old, old)
    BY DEF SameBodies
  <1>8. DOMAIN local.txs = (DOMAIN local.txs \ Uuids(old))
                             \cup Uuids(News(local, remote)) \cup Uuids(old)
    BY <1>5, <1>6
  <1>9. n <= n
    BY <1>1
  <1> QED BY <1>1, <1>2, <1>6, <1>7, <1>8, <1>9 DEF IsFetched, old, p

\* The two lists that a rebase stores.
LEMMA RebasePlan ==
  ASSUME NEW local, NEW remote, NEW n, Paired(local, remote, n),
         News(local, remote) # << >>,
         NEW newest, newest = News(local, remote)[Len(News(local, remote))].uuid,
         NEW rebased, rebased = RebaseTransactions(Unsynchronized(local), newest, n)
  PROVE  /\ newest = remote.latest /\ newest \in Nat /\ newest < n
         /\ newest \in Uuids(News(local, remote))
         /\ IsRebase(Unsynchronized(local), newest, n, rebased)
  <1> DEFINE old  == Unsynchronized(local)
             news == News(local, remote)
  <1>1. PICK q : IsFork(local, remote, SyncedPart(local), old, q, news)
    BY ForkIs
  <1>2. /\ old \in Seq(Stored(local)) /\ news \in Seq(Stored(remote))
        /\ Path(news, local.synced, remote.latest)
    BY <1>1 DEF IsFork, Cuts
  <1>3. /\ \A tx \in Stored(local) : IsTransaction(tx)
        /\ \A tx \in Stored(remote) : tx.uuid < n
        /\ IsOrdered(Stored(remote)) /\ n \in Nat
    BY DEF Paired, Sound, IsFiled
  <1> HIDE DEF old, news
  <1>4. news # << >> /\ newest = news[Len(news)].uuid
    BY DEF news
  <1>5. Len(news) \in 1..Len(news) /\ Len(news) \in DOMAIN news
    BY <1>2, <1>4, EmptySeq, LenProperties
  <1>6. news[Len(news)] \in Stored(remote)
    BY <1>2, <1>5, ElementOfSeq
  <1>7. newest = remote.latest /\ newest \in Nat /\ newest < n /\ newest \in Uuids(news)
    BY <1>2, <1>3, <1>4, <1>5, <1>6 DEF Path, IsOrdered, Uuids
  <1>8. IsRebase(old, newest, n, rebased)
    BY <1>2, <1>3, <1>7, RebaseIs DEF old
  <1> QED BY <1>7, <1>8 DEF old, news

\* The file that a rebase leaves when it was stored, s, and the originals are gone.
IsCollected(s, old, f, latest, newest) ==
  /\ f.txs = Restrict(s.txs, DOMAIN s.txs \ Uuids(old))
  /\ f.latest = latest /\ f.synced = newest /\ IsRecord(f)

LEMMA CollectedIs ==
  ASSUME NEW s, IsFiled(s), NEW old, NEW f, NEW latest, NEW newest,
         IsCollected(s, old, f, latest, newest)
  PROVE  /\ IsFiled(f) /\ Stored(f) \subseteq Stored(s)
         /\ DOMAIN f.txs = DOMAIN s.txs \ Uuids(old)
         /\ \A tx \in Stored(s) : tx.uuid \notin Uuids(old) => tx \in Stored(f)
  <1>1. /\ DOMAIN f.txs = DOMAIN s.txs \ Uuids(old)
        /\ \A id \in DOMAIN f.txs : f.txs[id] = s.txs[id]
    BY DEF IsCollected, Restrict
  <1>2. Stored(f) \subseteq Stored(s)
    BY <1>1 DEF Stored, Range
  <1>3. IsFiled(f)
    BY <1>1, <1>2 DEF IsFiled, IsOrdered
  <1>4. ASSUME NEW tx \in Stored(s), tx.uuid \notin Uuids(old) PROVE tx \in Stored(f)
    <2>1. tx.uuid \in DOMAIN s.txs /\ tx = s.txs[tx.uuid]
      BY StoredTransaction
    <2>2. tx.uuid \in DOMAIN f.txs /\ f.txs[tx.uuid] = tx
      BY <1>1, <1>4, <2>1
    <2> QED BY <2>2 DEF Stored, Range
  <1> QED BY <1>1, <1>2, <1>3, <1>4

\* The end of the chain once the rebased transactions are on top of the news.
EndOf(own, newest) == IF own = << >> THEN newest ELSE own[Len(own)].uuid

\* What is stored of a rebase before the originals are deleted, s: the news and the
\* rebased transactions, none of them stored before, each on the one before it.
IsStored(local, remote, n, own, s) ==
  /\ IsAdded(local, News(local, remote) \o own, s)
  /\ Path(News(local, remote) \o own, local.synced, EndOf(own, remote.latest))
  /\ Range(News(local, remote) \o own) = Range(News(local, remote)) \cup Range(own)
  /\ Uuids(News(local, remote) \o own) = Uuids(News(local, remote)) \cup Uuids(own)
  /\ \A tx \in Stored(s) : IsTransaction(tx) /\ tx.uuid < n + Len(own)
  /\ Uuids(News(local, remote)) \cap DOMAIN local.txs = {}

LEMMA RebaseStores ==
  ASSUME NEW local, NEW remote, NEW n, Paired(local, remote, n), CanRebase(local, remote),
         NEW own, IsRebase(Unsynchronized(local), remote.latest, n, own)
  PROVE  IsStored(local, remote, n, own, AddTransactions(local, News(local, remote) \o own))
  <1> DEFINE old   == Unsynchronized(local)
             news  == News(local, remote)
             batch == news \o own
             U     == Stored(remote) \cup Range(own)
             end   == EndOf(own, remote.latest)
  <1>1. PICK q : IsFork(local, remote, SyncedPart(local), old, q, news)
    BY ForkIs
  <1>2. /\ old \in Seq(Stored(local)) /\ news \in Seq(Stored(remote))
        /\ Path(news, local.synced, remote.latest)
    BY <1>1 DEF IsFork, Cuts
  <1>3. /\ n \in Nat
        /\ IsOrdered(Stored(remote)) /\ IsFiled(local) /\ IsRecord(local)
        /\ \A tx \in Stored(local) \cup Stored(remote) : IsTransaction(tx) /\ tx.uuid < n
    BY DEF Paired, Sound, IsFiled
  <1>4. \A i \in DOMAIN news : news[i].uuid \notin DOMAIN local.txs
    BY DEF CanRebase, CheckTransactionIdUniqueness, HasTransaction
  <1>5. /\ own \in Seq(Range(own)) /\ IsOrdered(Range(own)) /\ Len(own) = Len(old)
        /\ \A tx \in Range(own) : IsTransaction(tx)
        /\ \A id \in Uuids(own) : id \in Nat /\ n <= id /\ id < n + Len(own)
        /\ Path(own, remote.latest, end)
    <2>1. /\ own \in Seq(Range(own)) /\ IsOrdered(Range(own)) /\ Len(own) = Len(old)
          /\ \A tx \in Range(own) : IsTransaction(tx)
          /\ \A id \in Uuids(own) : id \in Nat /\ n <= id /\ id < n + Len(own)
          /\ Path(own, remote.latest, IF old = << >> THEN remote.latest ELSE own[Len(own)].uuid)
      BY DEF IsRebase, SameBodies
    <2>2. old = << >> <=> own = << >>
      BY <1>2, <2>1, EmptySeq
    <2> QED BY <2>1, <2>2 DEF EndOf
  <1> HIDE DEF old, news, end
  <1>6. IsOrdered(U)
    BY <1>3, <1>5 DEF IsOrdered
  <1>7. news \in Seq(U) /\ own \in Seq(U)
    BY <1>2, <1>5, SeqMonotonic
  <1> HIDE DEF U
  <1>8. batch \in Seq(U) /\ Path(batch, local.synced, end)
    BY <1>2, <1>5, <1>7, PathConcat
  <1>9. Range(batch) = Range(news) \cup Range(own) /\ Uuids(batch) = Uuids(news) \cup Uuids(own)
    BY <1>7, ConcatRange
  <1> HIDE DEF batch
  <1>10. Uuids(news) \cap DOMAIN local.txs = {}
    BY <1>4 DEF Uuids
  <1>11. \A id \in DOMAIN local.txs : id \in Nat /\ id < n
    BY <1>3, StoredTransaction
  <1>12. \A id \in Uuids(batch) : id \notin DOMAIN local.txs
    <2>1. \A id \in Uuids(own) : id \notin DOMAIN local.txs
      BY <1>3, <1>5, <1>11
    <2> QED BY <1>9, <1>10, <2>1
  <1>13. \A i \in DOMAIN batch : batch[i].uuid \notin DOMAIN local.txs
    BY <1>12 DEF Uuids
  <1> DEFINE s == AddTransactions(local, batch)
  <1>14. IsAdded(local, batch, s)
    <2>1. CheckChainConsistency(batch)
      BY <1>8 DEF Path
    <2> QED BY <1>3, <1>6, <1>8, <1>13, <2>1, AddBatch
  <1> HIDE DEF s
  <1>15. ASSUME NEW tx \in Stored(s) PROVE IsTransaction(tx) /\ tx.uuid < n + Len(own)
    <2>1. Stored(s) = Stored(local) \cup Range(news) \cup Range(own)
      BY <1>9, <1>14 DEF IsAdded
    <2>2. Len(own) \in Nat
      BY <1>5, LenProperties
    <2>3. CASE tx \in Stored(local) \cup Range(news)
      <3>1. tx \in Stored(local) \cup Stored(remote)
        BY <1>2, <2>3, RangeOfSeq
      <3>2. IsTransaction(tx) /\ tx.uuid < n /\ tx.uuid \in Nat
        BY <1>3, <3>1 DEF IsOrdered, IsFiled
      <3> QED BY <1>3, <2>2, <3>2
    <2>4. CASE tx \in Range(own)
      <3>1. tx.uuid \in Uuids(own)
        BY <2>4 DEF Range, Uuids
      <3> QED BY <1>5, <2>4, <3>1
    <2> QED BY <2>1, <2>3, <2>4
  <1> QED BY <1>8, <1>9, <1>10, <1>14, <1>15 DEF IsStored, s, batch, news, end

LEMMA RebaseCall ==
  ASSUME NEW local, NEW remote, NEW n, Paired(local, remote, n), CanRebase(local, remote),
         NEW f, f = RebaseLocalTransactions(local, remote, n),
         NEW m, m = n + Len(Unsynchronized(local))
  PROVE  \E own : IsFetched(local, remote, n, m, f, own)
  <1> DEFINE old    == Unsynchronized(local)
             news   == News(local, remote)
             p      == SyncedPart(local)
             newest == news[Len(news)].uuid
             own    == RebaseTransactions(old, newest, n)
             s      == AddTransactions(local, news \o own)
  <1>1. PICK q : IsFork(local, remote, p, old, q, news)
    BY ForkIs
  <1>2. news # << >>
    BY DEF CanRebase
  <1>3. /\ newest = remote.latest /\ newest \in Nat /\ newest < n /\ newest \in Uuids(news)
        /\ IsRebase(old, newest, n, own)
    BY <1>2, RebasePlan
  <1>4. IsCollected(s, old, f, IF old = << >> THEN newest ELSE own[Len(own)].uuid, newest)
    BY DEF IsCollected, IsRecord, RebaseLocalTransactions
  <1> HIDE DEF newest, own
  <1>5. IsStored(local, remote, n, own, s)
    BY <1>3, RebaseStores
  <1>6. /\ SameBodies(own, old) /\ own \in Seq(Range(own)) /\ Len(own) = Len(old)
        /\ \A id \in Uuids(own) : id \in Nat /\ n <= id
        /\ Path(own, newest, IF old = << >> THEN newest ELSE own[Len(own)].uuid)
    BY <1>3 DEF IsRebase, SameBodies
  <1>7. /\ old \in Seq(Stored(local)) /\ news \in Seq(Stored(remote)) /\ p \in Seq(Stored(local))
        /\ Path(p, NoId, local.synced) /\ Path(news, local.synced, newest)
        /\ \A id \in Uuids(p) : id \in Nat /\ id <= local.synced
        /\ \A id \in Uuids(old) : id \in Nat /\ local.synced < id
        /\ Uuids(Chain(local)) = Uuids(p) \cup Uuids(old)
    BY <1>1, <1>3 DEF IsFork, Cuts
  <1>8. /\ n \in Nat /\ local.synced \in Nat /\ Sound(local, n) /\ Len(old) \in Nat
        /\ Uuids(old) \subseteq DOMAIN local.txs
        /\ \A id \in DOMAIN local.txs : id \in Nat /\ id < n
    BY <1>7, SoundIds, LenProperties DEF Paired
  <1> HIDE DEF s, old, p, news
  <1> DEFINE end == IF old = << >> THEN newest ELSE own[Len(own)].uuid
  <1>9. /\ IsFiled(s) /\ IsAdded(local, news \o own, s)
        /\ Range(news \o own) = Range(news) \cup Range(own)
        /\ Uuids(news \o own) = Uuids(news) \cup Uuids(own)
        /\ \A tx \in Stored(s) : IsTransaction(tx) /\ tx.uuid < n + Len(own)
        /\ Uuids(news) \cap DOMAIN local.txs = {}
    BY <1>5 DEF IsStored, IsAdded, news
  <1>10. /\ Stored(s) = Stored(local) \cup Range(news) \cup Range(own)
         /\ DOMAIN s.txs = DOMAIN local.txs \cup Uuids(news) \cup Uuids(own)
    BY <1>9 DEF IsAdded
  <1>11. /\ IsFiled(f) /\ Stored(f) \subseteq Stored(s)
         /\ DOMAIN f.txs = DOMAIN s.txs \ Uuids(old)
         /\ \A tx \in Stored(s) : tx.uuid \notin Uuids(old) => tx \in Stored(f)
    BY <1>4, <1>9, CollectedIs
  <1>12. f.latest = end /\ f.synced = newest /\ IsRecord(f)
    BY <1>4 DEF IsCollected
  <1> HIDE DEF end
  <1>13. /\ \A id \in Uuids(own) : id \notin Uuids(old)
         /\ \A id \in Uuids(news) : id \notin Uuids(old)
         /\ \A id \in Uuids(p) : id \notin Uuids(old)
    <2>1. \A id \in Uuids(own) : id \notin Uuids(old)
      BY <1>6, <1>8
    <2>2. \A id \in Uuids(news) : id \notin Uuids(old)
      BY <1>8, <1>9
    <2>3. \A id \in Uuids(p) : id \notin Uuids(old)
      BY <1>7, <1>8
    <2> QED BY <2>1, <2>2, <2>3
  <1>14. p \in Seq(Stored(f)) /\ news \in Seq(Stored(f)) /\ own \in Seq(Stored(f))
    <2>1. \A txs : \A tx \in Range(txs) : tx.uuid \in Uuids(txs)
      BY DEF Range, Uuids
    <2>2. Range(p) \subseteq Stored(f)
      BY <1>7, <1>10, <1>11, <1>13, <2>1, RangeOfSeq
    <2>3. Range(news) \subseteq Stored(f) /\ Range(own) \subseteq Stored(f)
      BY <1>10, <1>11, <1>13, <2>1
    <2>4. p \in Seq(Range(p)) /\ news \in Seq(Range(news))
      BY <1>7, SeqOfRange
    <2> QED BY <1>6, <2>2, <2>3, <2>4, SeqMonotonic
  <1>15. end \in Nat
    <2>1. CASE old = << >>
      BY <1>3, <2>1 DEF end
    <2>2. CASE old # << >>
      <3>1. Len(own) \in DOMAIN own
        BY <1>6, <1>7, <2>2, EmptySeq, LenProperties
      <3>2. own[Len(own)].uuid \in Uuids(own)
        BY <3>1 DEF Uuids
      <3> QED BY <1>6, <2>2, <3>2 DEF end
    <2> QED BY <2>1, <2>2
  <1>16. /\ p \o news \in Seq(Stored(f)) /\ Path(p \o news, NoId, newest)
         /\ Uuids(p \o news) = Uuids(p) \cup Uuids(news)
    BY <1>7, <1>14, PathConcat, ConcatRange
  <1>17. Path(own, newest, f.latest)
    BY <1>6, <1>12 DEF end
  <1>18. /\ Chain(f) = (p \o news) \o own /\ IsReadable(f)
         /\ Uuids(Chain(f)) = Uuids(p) \cup Uuids(news) \cup Uuids(own)
    <2>1. IsMadeOf(f, p \o news, own)
      BY <1>11, <1>12, <1>14, <1>15, <1>16, <1>17, ChainOfPaths
    <2> QED BY <1>16, <2>1 DEF IsMadeOf
  <1>19. Unsynchronized(f) = own
    BY <1>3, <1>11, <1>12, <1>14, <1>15, <1>17, SinceOfPaths DEF Unsynchronized
  <1>20. f.synced \in Known(f)
    BY <1>3, <1>12, <1>18 DEF Known
  <1>21. SyncedPart(f) = p \o news
    <2>1. Cuts(f, f.synced, SyncedPart(f), own)
      BY <1>11, <1>12, <1>15, <1>18, <1>19, <1>20, ChainSinceCuts
         DEF Known, SyncedPart, Unsynchronized
    <2>2. SyncedPart(f) \in Seq(Stored(f)) /\ SyncedPart(f) \o own = (p \o news) \o own
      BY <1>18, <2>1 DEF Cuts
    <2> QED BY <1>14, <1>16, <2>2, ConcatSimplifications
  <1>22. m = n + Len(own) /\ m \in Nat /\ n <= m
    BY <1>6, <1>8 DEF old
  <1>23. Sound(f, m)
    BY <1>9, <1>11, <1>12, <1>15, <1>18, <1>22 DEF Sound
  <1>24. DOMAIN f.txs = (DOMAIN local.txs \ Uuids(old)) \cup Uuids(news) \cup Uuids(own)
    BY <1>10, <1>11, <1>13
  <1>25. IsFetched(local, remote, n, m, f, own)
    BY <1>3, <1>6, <1>9, <1>12, <1>19, <1>20, <1>21, <1>22, <1>23, <1>24
       DEF IsFetched, old, news, p
  <1> QED BY <1>25

\* Whatever a device has, rebase_local_transactions leaves its file in order, if it
\* returns Ok, and ready to push what is its own.
LEMMA FetchCall ==
  ASSUME NEW local, NEW remote, NEW n, Paired(local, remote, n), CanFetch(local, remote),
         NEW f, f = Fetch(local, remote, n), NEW m, m = n + IdsForFetch(local, remote)
  PROVE  \E own : IsFetched(local, remote, n, m, f, own)
  <1>1. CASE UpToDate(local, remote)
    <2>1. m = n /\ f = local
      BY <1>1 DEF Paired, Fetch, IdsForFetch
    <2> QED BY <1>1, <2>1, FetchNothing
  <1>2. CASE ~UpToDate(local, remote)
    <2>1. /\ CanRebase(local, remote) /\ m = n + Len(Unsynchronized(local))
          /\ f = RebaseLocalTransactions(local, remote, n)
      BY <1>2 DEF CanFetch, Fetch, IdsForFetch
    <2> QED BY <2>1, RebaseCall
  <1> QED BY <1>1, <1>2

LEMMA FetchedIsPaired ==
  ASSUME NEW local, NEW remote, NEW n, Paired(local, remote, n),
         NEW m, NEW f, NEW own, IsFetched(local, remote, n, m, f, own)
  PROVE  /\ Paired(f, remote, m) /\ UpToDate(f, remote)
         /\ \A id \in Uuids(own) : id \notin DOMAIN remote.txs
  <1>1. /\ n \in Nat /\ m \in Nat /\ n <= m /\ Sound(f, m) /\ f.synced = remote.latest
        /\ f.synced \in Known(f) /\ Unsynchronized(f) = own
        /\ \A id \in Uuids(own) : id \in Uuids(Unsynchronized(local)) \/ n <= id
        /\ Sound(remote, n)
        /\ Uuids(Unsynchronized(local)) \cap DOMAIN remote.txs = {}
    BY DEF IsFetched, Paired
  <1>2. Sound(remote, m)
    BY <1>1, StaysSound
  <1>3. remote.latest \in Known(remote)
    BY <1>1, LatestOnChain DEF Sound, Known
  <1>4. \A id \in DOMAIN remote.txs : id \in Nat /\ id < n
    BY <1>1, SoundIds
  <1>5. \A id \in Uuids(own) : id \notin DOMAIN remote.txs
    BY <1>1, <1>4
  <1> QED BY <1>1, <1>2, <1>3, <1>5 DEF Paired, UpToDate

-------------------------------------------------------------------------------
(* The push.                                                                 *)

\* What a push leaves: on the server, s, the device's own transactions at the end of
\* the log; on the device, l, the same chain as before, all of it synchronized.
PushesAll(f, remote, m, l, s) ==
  /\ Sound(l, m) /\ Chain(l) = Chain(f) /\ DOMAIN l.txs = DOMAIN f.txs
  /\ l.latest = f.latest /\ l.synced = f.latest /\ l.synced \in Known(l)
  /\ Unsynchronized(l) = << >> /\ SyncedPart(l) = Chain(f)
  /\ Sound(s, m) /\ Chain(s) = Chain(remote) \o Unsynchronized(f)
  /\ Chain(remote) \in Seq(Stored(s)) /\ Unsynchronized(f) \in Seq(Stored(s))
  /\ Uuids(Chain(s)) = Uuids(Chain(remote)) \cup Uuids(Unsynchronized(f))
  /\ DOMAIN s.txs = DOMAIN remote.txs \cup Uuids(Unsynchronized(f))
  /\ s.latest = f.latest /\ s.latest \in Known(s)

LEMMA PushDevice ==
  ASSUME NEW f, NEW m, Sound(f, m), f.synced \in Known(f),
         NEW own, own = Unsynchronized(f), NEW p, Cuts(f, f.synced, p, own),
         NEW l, l = MarkPushed(f)
  PROVE  /\ Sound(l, m) /\ Chain(l) = Chain(f) /\ DOMAIN l.txs = DOMAIN f.txs
         /\ l.latest = f.latest /\ l.synced = f.latest /\ l.synced \in Known(l)
         /\ Unsynchronized(l) = << >> /\ SyncedPart(l) = Chain(f)
  <1>1. /\ IsRecord(f) /\ IsFiled(f) /\ IsReadable(f) /\ f.latest \in Nat
        /\ Path(own, f.synced, f.latest)
        /\ \A tx \in Stored(f) : IsTransaction(tx) /\ tx.uuid < m
    BY DEF Sound, Cuts
  <1>2. l.txs = f.txs /\ l.latest = f.latest /\ l.synced = f.latest /\ IsRecord(l)
    <2>1. CASE own = << >>
      BY <1>1, <2>1 DEF MarkPushed, Path
    <2>2. CASE own # << >>
      <3>1. l = [f EXCEPT !.synced = f.latest]
        BY <2>2 DEF MarkPushed, SetLatestSynchronizedTransaction
      <3> QED BY <1>1, <3>1 DEF IsRecord
    <2> QED BY <2>1, <2>2
  <1>3. Stored(l) = Stored(f) /\ IsFiled(l)
    BY <1>1, <1>2 DEF Stored, IsFiled
  <1>4. Chain(f) \in Seq(Stored(f)) /\ Path(Chain(f), NoId, f.latest)
    BY <1>1, ReadableChain
  <1>5. Chain(l) = Chain(f) /\ IsReadable(l)
    BY <1>1, <1>2, <1>3, <1>4, ChainIs
  <1>6. Sound(l, m)
    BY <1>1, <1>2, <1>3, <1>5 DEF Sound
  <1>7. Unsynchronized(l) = << >>
    <2>1. << >> \in Seq(Stored(l)) /\ Path(<< >>, f.latest, f.latest)
      BY EmptySeq DEF Path, CheckChainConsistency
    <2> QED BY <1>1, <1>2, <1>3, <2>1, SinceOfPaths DEF Unsynchronized
  <1>8. SyncedPart(l) = Chain(f)
    <2>1. Len(Unsynchronized(l)) = 0 /\ Len(Chain(f)) \in Nat
      BY <1>4, <1>7, EmptySeq, LenProperties
    <2>2. Len(Chain(l)) - Len(Unsynchronized(l)) = Len(Chain(f))
      BY <1>5, <2>1
    <2> QED BY <1>4, <1>5, <2>2, SubSeqFull DEF SyncedPart
  <1>9. l.synced \in Known(l)
    BY <1>1, <1>2, <1>5, LatestOnChain DEF Known
  <1> QED BY <1>2, <1>5, <1>6, <1>7, <1>8, <1>9

\* Transactions of T, not on the server, that lead from its latest one to end.
MayPush(r, m, T, own, end) ==
  /\ own \in Seq(T) /\ IsOrdered(T) /\ \A tx \in T : IsTransaction(tx) /\ tx.uuid < m
  /\ \A id \in Uuids(own) : id \notin DOMAIN r.txs
  /\ Path(own, r.latest, end)

LEMMA PushServer ==
  ASSUME NEW r, NEW m, Sound(r, m), NEW T, NEW own, NEW end, MayPush(r, m, T, own, end),
         NEW s, s = ReceiveTransactions(r, own)
  PROVE  /\ Accepts(r, own) /\ Sound(s, m) /\ Chain(s) = Chain(r) \o own
         /\ Chain(r) \in Seq(Stored(s)) /\ own \in Seq(Stored(s))
         /\ Uuids(Chain(s)) = Uuids(Chain(r)) \cup Uuids(own)
         /\ DOMAIN s.txs = DOMAIN r.txs \cup Uuids(own)
         /\ s.latest = end
  <1>0. /\ IsRecord(r) /\ IsFiled(r) /\ IsReadable(r) /\ r.latest \in Nat
        /\ \A tx \in Stored(r) : IsTransaction(tx) /\ tx.uuid < m
        /\ Chain(r) \in Seq(Stored(r)) /\ Path(Chain(r), NoId, r.latest)
    BY ReadableChain DEF Sound
  <1>4. /\ own \in Seq(T) /\ IsOrdered(T) /\ \A tx \in T : IsTransaction(tx) /\ tx.uuid < m
        /\ \A id \in Uuids(own) : id \notin DOMAIN r.txs
        /\ Path(own, r.latest, end)
    BY DEF MayPush
  <1>1. Accepts(r, own)
    BY <1>4 DEF Accepts, Path
  <1>2. CASE own = << >>
    <2>1. s = r /\ end = r.latest /\ Uuids(own) = {}
      BY <1>2, <1>4 DEF ReceiveTransactions, Path, Uuids
    <2>2. Chain(r) \o own = Chain(r) /\ own \in Seq(Stored(r))
      BY <1>0, <1>2, ConcatEmptySeq, EmptySeq
    <2> QED BY <1>0, <1>1, <2>1, <2>2
  <1>3. CASE own # << >>
    <2> DEFINE a == AddTransactions(r, own)
    <2>1. IsAdded(r, own, a)
      <3>1. CheckChainConsistency(own) /\ \A i \in DOMAIN own : own[i].uuid \notin DOMAIN r.txs
        BY <1>4 DEF Path, Uuids
      <3> QED BY <1>0, <1>4, <3>1, AddBatch
    <2>2. s = SetLatestTransaction(a, own[Len(own)].uuid)
      BY <1>1, <1>3 DEF ReceiveTransactions
    <2>3. own[Len(own)].uuid = end
      BY <1>3, <1>4 DEF Path
    <2> HIDE DEF a
    <2>4. s.txs = a.txs /\ s.latest = end /\ IsRecord(s)
      BY <2>1, <2>2, <2>3 DEF SetLatestTransaction, IsAdded, IsRecord
    <2>5. /\ Stored(s) = Stored(r) \cup Range(own) /\ IsFiled(s)
          /\ DOMAIN s.txs = DOMAIN r.txs \cup Uuids(own)
      BY <2>1, <2>4 DEF IsAdded, Stored, IsFiled
    <2>6. Chain(r) \in Seq(Stored(s)) /\ own \in Seq(Stored(s))
      <3>1. own \in Seq(Range(own))
        BY <1>4, SeqOfRange
      <3> QED BY <1>0, <2>5, <3>1, SeqMonotonic
    <2>7. end \in Nat
      <3>1. Len(own) \in 1..Len(own)
        BY <1>3, <1>4, EmptySeq, LenProperties
      <3>2. own[Len(own)] \in T
        BY <1>4, <3>1, ElementOfSeq
      <3> QED BY <1>4, <2>3, <3>2 DEF IsOrdered
    <2>8. IsMadeOf(s, Chain(r), own)
      BY <1>0, <1>4, <2>4, <2>5, <2>6, <2>7, ChainOfPaths
    <2>9. \A tx \in Stored(s) : IsTransaction(tx) /\ tx.uuid < m
      <3>1. Range(own) \subseteq T
        BY <1>4, RangeOfSeq
      <3> QED BY <1>0, <1>4, <2>5, <3>1
    <2>10. Sound(s, m)
      BY <2>4, <2>5, <2>7, <2>8, <2>9 DEF Sound, IsMadeOf
    <2> QED BY <1>1, <2>4, <2>5, <2>6, <2>8, <2>10 DEF IsMadeOf
  <1> QED BY <1>2, <1>3

\* A device whose last synchronized transaction is the server's latest one can push
\* all that it has of its own.
LEMMA PushCall ==
  ASSUME NEW f, NEW remote, NEW m, Paired(f, remote, m), UpToDate(f, remote)
  PROVE  /\ CanPush(f, remote)
         /\ PushesAll(f, remote, m, MarkPushed(f),
                     ReceiveTransactions(remote, Unsynchronized(f)))
  <1> DEFINE own == Unsynchronized(f)
             l   == MarkPushed(f)
             s   == ReceiveTransactions(remote, own)
  <1>1. /\ Sound(f, m) /\ Sound(remote, m) /\ f.synced = remote.latest /\ f.synced \in Known(f)
        /\ Uuids(own) \cap DOMAIN remote.txs = {}
    BY DEF Paired, UpToDate
  <1>2. PICK r : IsFork(f, remote, SyncedPart(f), own, r, News(f, remote))
    BY ForkIs
  <1>3. /\ Cuts(f, f.synced, SyncedPart(f), own)
        /\ own \in Seq(Stored(f)) /\ Path(own, f.synced, f.latest)
    BY <1>2 DEF IsFork, Cuts
  <1>4. /\ IsOrdered(Stored(f)) /\ \A tx \in Stored(f) : IsTransaction(tx) /\ tx.uuid < m
        /\ IsReadable(remote)
    BY <1>1 DEF Sound, IsFiled
  <1>5. /\ Sound(l, m) /\ Chain(l) = Chain(f) /\ DOMAIN l.txs = DOMAIN f.txs
        /\ l.latest = f.latest /\ l.synced = f.latest /\ l.synced \in Known(l)
        /\ Unsynchronized(l) = << >> /\ SyncedPart(l) = Chain(f)
    BY <1>1, <1>3, PushDevice
  <1>6. \A id \in Uuids(own) : id \notin DOMAIN remote.txs
    BY <1>1
  <1>7. Path(own, remote.latest, f.latest)
    BY <1>1, <1>3
  <1> HIDE DEF own, l, s
  <1>8. /\ Accepts(remote, own) /\ Sound(s, m) /\ Chain(s) = Chain(remote) \o own
        /\ Chain(remote) \in Seq(Stored(s)) /\ own \in Seq(Stored(s))
        /\ Uuids(Chain(s)) = Uuids(Chain(remote)) \cup Uuids(own)
        /\ DOMAIN s.txs = DOMAIN remote.txs \cup Uuids(own)
        /\ s.latest = f.latest
    <2>1. s = ReceiveTransactions(remote, own)
      BY DEF s
    <2>2. MayPush(remote, m, Stored(f), own, f.latest)
      BY <1>3, <1>4, <1>6, <1>7 DEF MayPush
    <2> QED BY <1>1, <2>1, <2>2, PushServer
  <1>9. s.latest \in Known(s)
    BY <1>8, LatestOnChain DEF Sound, Known
  <1>10. IsChainSince(f, f.synced, own)
    <2>1. f.synced = NoId \/ HasTransaction(f, f.synced)
      <3>1. f.synced \in {NoId} \cup Uuids(Chain(f)) /\ Uuids(Chain(f)) \subseteq DOMAIN f.txs
        BY <1>1, SoundIds DEF Known
      <3> QED BY <3>1 DEF HasTransaction
    <2> QED BY <1>3, <2>1 DEF IsChainSince, Path
  <1>11. CanPush(f, remote)
    BY <1>8, <1>10 DEF CanPush, own
  <1>12. PushesAll(f, remote, m, l, s)
    BY <1>5, <1>8, <1>9 DEF PushesAll, own
  <1> QED BY <1>11, <1>12 DEF l, s, own

-------------------------------------------------------------------------------
(* The whole call.                                                           *)

\* Every expense of s is one of t.
Keeps(s, t) == \A i \in DOMAIN s : \E k \in DOMAIN t : t[k].body = s[i].body

\* The repository holds nothing but its chain.
OnlyChain(r) == DOMAIN r.txs = Uuids(Chain(r))

\* Recording keeps every expense.
LEMMA RecordedKeeps ==
  ASSUME NEW r, NEW tx, NEW q, NEW n, RecordsOnTop(r, tx, q, n)
  PROVE  Keeps(Chain(r), Chain(q))
  <1> DEFINE c == Chain(r)
             t == <<tx>>
  <1>1. /\ c \in Seq(Stored(q)) /\ t \in Seq(Stored(q)) /\ Len(t) = 1
        /\ Chain(q) = c \o t
    BY DEF RecordsOnTop
  <1> HIDE DEF c, t
  <1>2. /\ c \o t \in Seq(Stored(q)) /\ Len(c \o t) = Len(c) + Len(t)
        /\ \A i \in 1..(Len(c) + Len(t)) :
             (c \o t)[i] = IF i <= Len(c) THEN c[i] ELSE t[i - Len(c)]
    BY <1>1, ConcatProperties
  <1>3. Len(c) \in Nat /\ DOMAIN c = 1..Len(c) /\ DOMAIN (c \o t) = 1..Len(c \o t)
    BY <1>1, <1>2, LenProperties
  <1>4. \A i \in DOMAIN c : i \in DOMAIN (c \o t) /\ (c \o t)[i] = c[i]
    BY <1>1, <1>2, <1>3
  <1> QED BY <1>1, <1>4 DEF Keeps, c

\* What a sync() that could fetch leaves on the device, l, and on the server, s.
IsSynced(local, remote, n, m, l, s) ==
  /\ m \in Nat /\ n <= m
  /\ Sound(l, m) /\ Sound(s, m)
  /\ Uuids(Unsynchronized(l)) = {} /\ l.synced \in Known(l) /\ l.synced \in Known(s)
  /\ \A id \in DOMAIN l.txs : id \in DOMAIN local.txs \/ id \in DOMAIN remote.txs \/ n <= id
  /\ \A id \in DOMAIN s.txs :
       id \in DOMAIN remote.txs \/ id \in Uuids(Unsynchronized(local)) \/ n <= id
  /\ IsPrefix(Chain(remote), Chain(s)) /\ Known(remote) \subseteq Known(s)
  /\ Keeps(Chain(local), Chain(l))
  /\ OnlyChain(l) => OnlyChain(local)

\* A rebase keeps every expense of the device.
LEMMA FetchKeeps ==
  ASSUME NEW local, NEW remote, NEW n, Paired(local, remote, n),
         NEW m, NEW f, NEW own, IsFetched(local, remote, n, m, f, own)
  PROVE  Keeps(Chain(local), Chain(f))
  <1> DEFINE old  == Unsynchronized(local)
             news == News(local, remote)
             p    == SyncedPart(local)
  <1>1. PICK q : IsFork(local, remote, p, old, q, news)
    BY ForkIs
  <1>2. PICK r : IsFork(f, remote, SyncedPart(f), own, r, News(f, remote))
    <2>1. Paired(f, remote, m) /\ Unsynchronized(f) = own
      BY FetchedIsPaired DEF IsFetched
    <2> QED BY <2>1, ForkIs
  <1>3. /\ p \in Seq(Stored(local)) /\ old \in Seq(Stored(local)) /\ Chain(local) = p \o old
        /\ news \in Seq(Stored(remote))
    BY <1>1 DEF IsFork, Cuts
  <1>4. own \in Seq(Stored(f)) /\ p \o news \in Seq(Stored(f)) /\ Chain(f) = (p \o news) \o own
    BY <1>2 DEF IsFork, Cuts, IsFetched
  <1>5. Len(own) = Len(old) /\ \A i \in 1..Len(old) : own[i].body = old[i].body
    BY DEF IsFetched, SameBodies
  <1> HIDE DEF p, old, news
  <1>6. /\ Len(p) \in Nat /\ Len(old) \in Nat /\ Len(news) \in Nat
        /\ DOMAIN Chain(local) = 1..(Len(p) + Len(old))
        /\ \A i \in 1..(Len(p) + Len(old)) :
             Chain(local)[i] = IF i <= Len(p) THEN p[i] ELSE old[i - Len(p)]
    BY <1>3, ConcatProperties, LenProperties
  <1> DEFINE pn == p \o news
  <1>7. Len(pn) = Len(p) + Len(news) /\ \A i \in 1..Len(p) : pn[i] = p[i]
    <2>1. /\ p \in Seq(Stored(local) \cup Stored(remote))
          /\ news \in Seq(Stored(local) \cup Stored(remote))
      BY <1>3, SeqMonotonic
    <2>2. /\ Len(pn) = Len(p) + Len(news)
          /\ \A i \in 1..(Len(p) + Len(news)) :
               pn[i] = IF i <= Len(p) THEN p[i] ELSE news[i - Len(p)]
      BY <2>1, ConcatProperties
    <2> QED BY <1>6, <2>2
  <1> HIDE DEF pn
  <1>8. /\ DOMAIN Chain(f) = 1..(Len(pn) + Len(own))
        /\ \A i \in 1..(Len(pn) + Len(own)) :
             Chain(f)[i] = IF i <= Len(pn) THEN pn[i] ELSE own[i - Len(pn)]
    BY <1>4, ConcatProperties, LenProperties DEF pn
  <1>9. ASSUME NEW i \in DOMAIN Chain(local)
        PROVE  \E k \in DOMAIN Chain(f) : Chain(f)[k].body = Chain(local)[i].body
    <2>1. CASE i <= Len(p)
      <3>1. i \in 1..Len(p) /\ i \in 1..(Len(pn) + Len(own)) /\ i <= Len(pn)
        BY <1>5, <1>6, <1>7, <2>1
      <3>2. Chain(f)[i] = p[i] /\ Chain(local)[i] = p[i]
        BY <1>6, <1>7, <1>8, <2>1, <3>1
      <3> QED BY <1>8, <3>1, <3>2
    <2>2. CASE ~(i <= Len(p))
      <3> DEFINE k == i - Len(p)
                 j == k + Len(pn)
      <3>1. k \in 1..Len(old) /\ j \in 1..(Len(pn) + Len(own)) /\ ~(j <= Len(pn))
            /\ j - Len(pn) = k
        BY <1>5, <1>6, <1>7, <2>2
      <3>2. Chain(local)[i] = old[k]
        BY <1>6, <2>2
      <3> HIDE DEF k, j
      <3>3. Chain(f)[j] = own[k]
        BY <1>8, <3>1
      <3>4. own[k].body = old[k].body
        BY <1>5, <3>1
      <3> QED BY <1>8, <3>1, <3>2, <3>3, <3>4
    <2> QED BY <2>1, <2>2
  <1> QED BY <1>9 DEF Keeps

\* What is stored besides the chain was there before the rebase.
LEMMA FetchOnlyChain ==
  ASSUME NEW local, NEW remote, NEW n, Paired(local, remote, n),
         NEW m, NEW f, NEW own, IsFetched(local, remote, n, m, f, own), OnlyChain(f)
  PROVE  OnlyChain(local)
  <1> DEFINE old  == Unsynchronized(local)
             news == News(local, remote)
             p    == SyncedPart(local)
  <1>1. PICK q : IsFork(local, remote, p, old, q, news)
    BY ForkIs
  <1>2. PICK r : IsFork(f, remote, SyncedPart(f), own, r, News(f, remote))
    <2>1. Paired(f, remote, m) /\ Unsynchronized(f) = own
      BY FetchedIsPaired DEF IsFetched
    <2> QED BY <2>1, ForkIs
  <1>3. /\ Uuids(Chain(local)) = Uuids(p) \cup Uuids(old)
        /\ p \in Seq(Stored(local)) /\ news \in Seq(Stored(remote))
    BY <1>1 DEF IsFork, Cuts
  <1>4. Uuids(Chain(f)) = Uuids(p \o news) \cup Uuids(own)
    BY <1>2 DEF IsFork, IsFetched
  <1>5. Uuids(p \o news) = Uuids(p) \cup Uuids(news)
    <2>1. /\ p \in Seq(Stored(local) \cup Stored(remote))
          /\ news \in Seq(Stored(local) \cup Stored(remote))
      BY <1>3, SeqMonotonic
    <2> QED BY <2>1, ConcatRange
  <1>6. /\ Uuids(news) \cap DOMAIN local.txs = {}
        /\ DOMAIN f.txs = (DOMAIN local.txs \ Uuids(old)) \cup Uuids(news) \cup Uuids(own)
        /\ \A id \in Uuids(own) : id \in Uuids(old) \/ n <= id
    BY DEF IsFetched
  <1>7. /\ Uuids(p) \cup Uuids(old) \subseteq DOMAIN local.txs /\ n \in Nat
        /\ \A id \in DOMAIN local.txs : id \in Nat /\ id < n
    BY <1>3, SoundIds DEF Paired
  <1> HIDE DEF p, old, news
  <1>8. ASSUME NEW id \in DOMAIN local.txs, id \notin Uuids(old) PROVE id \in Uuids(p)
    <2>1. id \in Uuids(p) \cup Uuids(news) \cup Uuids(own)
      BY <1>4, <1>5, <1>6, <1>8 DEF OnlyChain
    <2>2. id \notin Uuids(news)
      BY <1>6
    <2>3. id \notin Uuids(own)
      BY <1>6, <1>7, <1>8
    <2> QED BY <2>1, <2>2, <2>3
  <1> QED BY <1>3, <1>7, <1>8 DEF OnlyChain

LEMMA SyncedCall ==
  ASSUME NEW local, NEW remote, NEW n, Paired(local, remote, n), CanFetch(local, remote)
  PROVE  /\ CanSync(local, remote, n)
         /\ IsSynced(local, remote, n, n + IdsForFetch(local, remote),
                     LocalAfterSync(local, remote, n), RemoteAfterSync(local, remote, n))
  <1> DEFINE f == Fetch(local, remote, n)
             m == n + IdsForFetch(local, remote)
             l == LocalAfterSync(local, remote, n)
             s == RemoteAfterSync(local, remote, n)
  <1>1. PICK own : IsFetched(local, remote, n, m, f, own)
    BY FetchCall
  <1> HIDE DEF m, f
  <1>2. /\ Paired(f, remote, m) /\ UpToDate(f, remote)
    BY <1>1, FetchedIsPaired
  <1>3. /\ CanPush(f, remote)
        /\ PushesAll(f, remote, m, MarkPushed(f), ReceiveTransactions(remote, Unsynchronized(f)))
    BY <1>2, PushCall
  <1>4. CanSync(local, remote, n)
    BY <1>3 DEF CanSync, f
  <1>5. l = MarkPushed(f) /\ s = ReceiveTransactions(remote, Unsynchronized(f))
    BY <1>3, <1>4 DEF LocalAfterSync, RemoteAfterSync, f
  <1> HIDE DEF l, s
  <1>6. PushesAll(f, remote, m, l, s) /\ Unsynchronized(f) = own
    BY <1>1, <1>3, <1>5 DEF IsFetched
  <1>7. /\ m \in Nat /\ n <= m /\ n \in Nat
        /\ \A id \in Uuids(own) : id \in Uuids(Unsynchronized(local)) \/ n <= id
        /\ DOMAIN f.txs = (DOMAIN local.txs \ Uuids(Unsynchronized(local)))
                            \cup Uuids(News(local, remote)) \cup Uuids(own)
    BY <1>1 DEF IsFetched, Paired
  <1>8. /\ Sound(l, m) /\ Sound(s, m) /\ Unsynchronized(l) = << >>
        /\ l.synced \in Known(l) /\ l.synced = s.latest /\ s.latest \in Known(s)
        /\ Chain(l) = Chain(f) /\ DOMAIN l.txs = DOMAIN f.txs
        /\ Chain(s) = Chain(remote) \o own
        /\ Chain(remote) \in Seq(Stored(s)) /\ own \in Seq(Stored(s))
        /\ Uuids(Chain(s)) = Uuids(Chain(remote)) \cup Uuids(own)
        /\ DOMAIN s.txs = DOMAIN remote.txs \cup Uuids(own)
    BY <1>6 DEF PushesAll
  <1>9. Uuids(Unsynchronized(l)) = {}
    BY <1>8 DEF Uuids
  <1>10. ASSUME NEW id \in DOMAIN l.txs
         PROVE  id \in DOMAIN local.txs \/ id \in DOMAIN remote.txs \/ n <= id
    <2>1. PICK q : IsFork(local, remote, SyncedPart(local), Unsynchronized(local),
                          q, News(local, remote))
      BY ForkIs
    <2>2. /\ Uuids(News(local, remote)) \subseteq Uuids(Chain(remote))
          /\ Uuids(Unsynchronized(local)) \subseteq Uuids(Chain(local))
      BY <2>1 DEF IsFork
    <2>3. /\ Uuids(News(local, remote)) \subseteq DOMAIN remote.txs
          /\ Uuids(Unsynchronized(local)) \subseteq DOMAIN local.txs
      BY <2>2, SoundIds DEF Paired
    <2> QED BY <1>7, <1>8, <2>3
  <1>11. IsPrefix(Chain(remote), Chain(s)) /\ Known(remote) \subseteq Known(s)
    BY <1>8, PrefixOfConcat DEF Known
  <1>12. Keeps(Chain(local), Chain(l))
    BY <1>1, <1>8, FetchKeeps
  <1>13. OnlyChain(l) => OnlyChain(local)
    BY <1>1, <1>8, FetchOnlyChain DEF OnlyChain
  <1>14. IsSynced(local, remote, n, m, l, s)
    BY <1>7, <1>8, <1>9, <1>10, <1>11, <1>12, <1>13 DEF IsSynced
  <1> QED BY <1>4, <1>14 DEF m, l, s

\* A device whose file holds nothing but its chain can always fetch.
LEMMA OnlyChainCanSync ==
  ASSUME NEW local, NEW remote, NEW n, Paired(local, remote, n), OnlyChain(local)
  PROVE  CanSync(local, remote, n)
  <1> DEFINE old  == Unsynchronized(local)
             news == News(local, remote)
  <1>1. PICK q : IsFork(local, remote, SyncedPart(local), old, q, news)
    BY ForkIs
  <1>2. /\ Sound(local, n) /\ Sound(remote, n)
        /\ local.synced \in {NoId} \cup Uuids(Chain(local))
        /\ local.synced \in {NoId} \cup Uuids(Chain(remote))
        /\ Uuids(old) \cap DOMAIN remote.txs = {}
    BY DEF Paired, Known
  <1>3. /\ old \in Seq(Stored(local)) /\ Path(old, local.synced, local.latest)
        /\ news \in Seq(Stored(remote)) /\ Path(news, local.synced, remote.latest)
        /\ Uuids(Chain(local)) = Uuids(SyncedPart(local)) \cup Uuids(old)
        /\ Uuids(Chain(remote)) = Uuids(q) \cup Uuids(news)
        /\ \A id \in Uuids(SyncedPart(local)) : id \in Nat /\ id <= local.synced
        /\ \A id \in Uuids(news) : id \in Nat /\ local.synced < id
    BY <1>1 DEF IsFork, Cuts
  <1> HIDE DEF old, news
  <1>4. /\ Uuids(Chain(local)) \subseteq DOMAIN local.txs
        /\ Uuids(Chain(remote)) \subseteq DOMAIN remote.txs
        /\ local.synced \in Nat
    BY <1>2, SoundIds DEF Known
  <1>5. IsChainSince(local, local.synced, old)
    BY <1>2, <1>3, <1>4 DEF IsChainSince, Path, HasTransaction
  <1>6. KnowsChildren(remote, local.synced)
    <2>1. local.synced = NoId \/ HasTransaction(remote, local.synced)
      BY <1>2, <1>4 DEF HasTransaction
    <2>2. IsChainSince(remote, local.synced, news)
      BY <1>3, <2>1 DEF IsChainSince, Path
    <2> QED BY <2>1, <2>2 DEF KnowsChildren, news, News
  <1>7. ASSUME ~UpToDate(local, remote) PROVE CanRebase(local, remote)
    <2>1. news # << >> /\ CheckChainConsistency(news)
      BY <1>3, <1>7 DEF Path, UpToDate
    <2>2. ASSUME NEW id \in Uuids(news) PROVE id \notin DOMAIN local.txs
      <3>1. id \notin Uuids(SyncedPart(local))
        BY <1>3, <1>4
      <3>2. id \notin Uuids(old)
        BY <1>2, <1>3, <1>4
      <3> QED BY <1>3, <3>1, <3>2 DEF OnlyChain
    <2>3. CheckTransactionIdUniqueness(local, news)
      BY <2>2 DEF CheckTransactionIdUniqueness, HasTransaction, Uuids
    <2> QED BY <1>5, <1>6, <2>1, <2>3 DEF CanRebase, news, old
  <1>8. CanFetch(local, remote)
    BY <1>7 DEF CanFetch
  <1> QED BY <1>8, SyncedCall

-------------------------------------------------------------------------------
(* A call whose push, or the answer to it, is lost.                          *)

\* What rebase_local_transactions leaves when nothing is pushed: a file f that is in
\* order, up to date, and keeps the device's expenses.
LeavesFetched(local, remote, n, m, f) ==
  /\ m \in Nat /\ n <= m
  /\ Paired(f, remote, m) /\ UpToDate(f, remote)
  /\ \A id \in Uuids(Unsynchronized(f)) : id \in Uuids(Unsynchronized(local)) \/ n <= id
  /\ \A id \in DOMAIN f.txs : id \in DOMAIN local.txs \/ id \in DOMAIN remote.txs \/ n <= id
  /\ Keeps(Chain(local), Chain(f))
  /\ OnlyChain(f) => OnlyChain(local)

LEMMA FetchedLeaves ==
  ASSUME NEW local, NEW remote, NEW n, Paired(local, remote, n), CanFetch(local, remote)
  PROVE  LeavesFetched(local, remote, n, n + IdsForFetch(local, remote),
                       Fetch(local, remote, n))
  <1> DEFINE f == Fetch(local, remote, n)
             m == n + IdsForFetch(local, remote)
  <1>1. PICK own : IsFetched(local, remote, n, m, f, own)
    BY FetchCall
  <1> HIDE DEF m, f
  <1>2. Paired(f, remote, m) /\ UpToDate(f, remote)
    BY <1>1, FetchedIsPaired
  <1>3. /\ m \in Nat /\ n <= m /\ Unsynchronized(f) = own
        /\ \A id \in Uuids(own) : id \in Uuids(Unsynchronized(local)) \/ n <= id
        /\ DOMAIN f.txs = (DOMAIN local.txs \ Uuids(Unsynchronized(local)))
                            \cup Uuids(News(local, remote)) \cup Uuids(own)
    BY <1>1 DEF IsFetched
  <1>4. PICK q : IsFork(local, remote, SyncedPart(local), Unsynchronized(local),
                        q, News(local, remote))
    BY ForkIs
  <1>5. /\ Uuids(News(local, remote)) \subseteq Uuids(Chain(remote))
        /\ Uuids(Unsynchronized(local)) \subseteq Uuids(Chain(local))
    BY <1>4 DEF IsFork
  <1>6. /\ Uuids(News(local, remote)) \subseteq DOMAIN remote.txs
        /\ Uuids(Unsynchronized(local)) \subseteq DOMAIN local.txs
    BY <1>5, SoundIds DEF Paired
  <1>7. Keeps(Chain(local), Chain(f)) /\ (OnlyChain(f) => OnlyChain(local))
    BY <1>1, FetchKeeps, FetchOnlyChain
  <1>8. LeavesFetched(local, remote, n, m, f)
    BY <1>2, <1>3, <1>6, <1>7 DEF LeavesFetched
  <1> QED BY <1>8 DEF m, f

\* What the server has then stored of it, when the push arrives: all of it.
LEMMA FetchedIsPushed ==
  ASSUME NEW local, NEW remote, NEW n, Paired(local, remote, n), CanFetch(local, remote),
         NEW f, f = Fetch(local, remote, n), NEW m, m = n + IdsForFetch(local, remote),
         NEW s, s = RemoteAfterSync(local, remote, n)
  PROVE  PushesAll(f, remote, m, MarkPushed(f), s)
  <1>1. Paired(f, remote, m) /\ UpToDate(f, remote)
    BY FetchedLeaves DEF LeavesFetched
  <1>2. /\ CanPush(f, remote)
        /\ PushesAll(f, remote, m, MarkPushed(f),
                     ReceiveTransactions(remote, Unsynchronized(f)))
    BY <1>1, PushCall
  <1> QED BY <1>2 DEF RemoteAfterSync, CanSync

\* The server has stored, above what the device takes for synchronized, what the
\* device has stored too.
Blocked(local, remote, n) ==
  /\ n \in Nat /\ Sound(local, n) /\ Sound(remote, n)
  /\ local.synced \in Known(local) /\ local.synced \in Known(remote)
  /\ \E id \in Uuids(Chain(remote)) \cap DOMAIN local.txs : local.synced < id

\* The device finds that among the news, and gives up.
LEMMA BlockedCannotFetch ==
  ASSUME NEW local, NEW remote, NEW n, Blocked(local, remote, n)
  PROVE  ~CanFetch(local, remote)
  <1> DEFINE news == News(local, remote)
  <1>1. /\ Sound(local, n) /\ Sound(remote, n)
        /\ local.synced \in {NoId} \cup Uuids(Chain(remote))
    BY DEF Blocked, Known
  <1>2. PICK id \in Uuids(Chain(remote)) : id \in DOMAIN local.txs /\ local.synced < id
    BY DEF Blocked
  <1>3. local.synced \in Nat /\ remote.latest \in Nat /\ IsFiled(remote)
    BY <1>1, SoundIds DEF Sound, Known
  <1>4. PICK p : Cuts(remote, local.synced, p, news)
    BY <1>1, <1>3, ChainSinceCuts DEF Sound, News, ChildTransactions
  <1> HIDE DEF news
  <1>5. /\ Uuids(Chain(remote)) = Uuids(p) \cup Uuids(news)
        /\ \A k \in Uuids(p) : k \in Nat /\ k <= local.synced
        /\ \A k \in Uuids(news) : k \in Nat /\ local.synced < k
    BY <1>3, <1>4, CutUuids
  <1>6. id \in Uuids(news)
    BY <1>2, <1>3, <1>5
  <1>7. PICK i \in DOMAIN news : news[i].uuid = id
    BY <1>6 DEF Uuids
  <1>8. ~CanRebase(local, remote)
    BY <1>2, <1>7 DEF CanRebase, CheckTransactionIdUniqueness, HasTransaction, news
  <1>9. ~UpToDate(local, remote)
    <2>1. news \in Seq(Stored(remote)) /\ Path(news, local.synced, remote.latest)
      BY <1>4 DEF Cuts
    <2>2. IsOrdered(Stored(remote)) /\ i \in 1..Len(news)
      BY <1>3, <1>7, <2>1 DEF IsFiled
    <2>3. local.synced < remote.latest
      BY <1>3, <2>1, <2>2, PathBounds
    <2> QED BY <1>3, <2>3 DEF UpToDate
  <1> QED BY <1>8, <1>9 DEF CanFetch

\* A push that is stored and whose answer is lost blocks the device.
LEMMA UnansweredIsBlocked ==
  ASSUME NEW f, NEW remote, NEW m, Paired(f, remote, m), Unsynchronized(f) # << >>,
         NEW l, NEW s, PushesAll(f, remote, m, l, s)
  PROVE  Blocked(f, s, m)
  <1> DEFINE own == Unsynchronized(f)
  <1>1. /\ m \in Nat /\ Sound(f, m) /\ Sound(s, m)
        /\ f.synced \in Known(f) /\ f.synced \in Known(remote)
        /\ Uuids(Chain(s)) = Uuids(Chain(remote)) \cup Uuids(own)
    BY DEF Paired, PushesAll
  <1>2. PICK q : IsFork(f, remote, SyncedPart(f), own, q, News(f, remote))
    BY ForkIs
  <1>3. /\ own \in Seq(Stored(f)) /\ Uuids(own) \subseteq Uuids(Chain(f))
        /\ \A id \in Uuids(own) : id \in Nat /\ f.synced < id
    BY <1>2 DEF IsFork, Cuts
  <1> HIDE DEF own
  <1>4. Uuids(own) # {}
    <2>1. own # << >>
      BY DEF own
    <2>2. 1 \in DOMAIN own
      BY <1>3, <2>1
    <2> QED BY <2>2 DEF Uuids
  <1>5. Uuids(own) \subseteq DOMAIN f.txs
    BY <1>1, <1>3, SoundIds
  <1>6. f.synced \in Known(s)
    BY <1>1 DEF Known
  <1>7. \E id \in Uuids(Chain(s)) \cap DOMAIN f.txs : f.synced < id
    BY <1>1, <1>3, <1>4, <1>5
  <1> QED BY <1>1, <1>6, <1>7 DEF Blocked

\* It stays blocked, whatever it stores and whatever the server gets.
LEMMA StaysBlocked ==
  ASSUME NEW local, NEW remote, NEW n, Blocked(local, remote, n),
         NEW m \in Nat, NEW l, Sound(l, m), NEW s, Sound(s, m),
         l.synced \in Known(l), l.synced \in Known(s), l.synced <= local.synced,
         DOMAIN local.txs \subseteq DOMAIN l.txs, Known(remote) \subseteq Known(s)
  PROVE  Blocked(l, s, m)
  <1>1. PICK id \in Uuids(Chain(remote)) : id \in DOMAIN local.txs /\ local.synced < id
    BY DEF Blocked
  <1>2. /\ id \in Known(s) /\ id \in DOMAIN l.txs
        /\ Sound(local, n) /\ local.synced \in Known(local)
    BY <1>1 DEF Known, Blocked
  <1>3. id \in Nat /\ local.synced \in Nat /\ l.synced \in Nat
    BY <1>2, SoundIds
  <1>4. l.synced < id /\ id # NoId
    BY <1>1, <1>3 DEF NoId
  <1>5. id \in Uuids(Chain(s))
    BY <1>2, <1>4 DEF Known
  <1> QED BY <1>2, <1>4, <1>5 DEF Blocked

-------------------------------------------------------------------------------
(* The outcomes of a call.                                                   *)

\* A sync() that cannot fetch has one outcome: nothing changes.
LEMMA RefusedOutcome ==
  ASSUME NEW local, NEW remote, NEW n, ~CanFetch(local, remote),
         NEW o \in SyncOutcomes(local, remote, n)
  PROVE  o.local = local /\ o.remote = remote /\ o.end = "returned"
  <1>1. ~CanSync(local, remote, n)
    BY DEF CanSync
  <1>2. LocalAfterSync(local, remote, n) = local /\ RemoteAfterSync(local, remote, n) = remote
    BY <1>1 DEF LocalAfterSync, RemoteAfterSync
  <1> QED
    BY <1>1, <1>2 DEF SyncOutcomes

\* The outcomes of one that can.
LEMMA FetchedOutcomes ==
  ASSUME NEW local, NEW remote, NEW n, NEW o \in SyncOutcomes(local, remote, n)
  PROVE  \/ /\ o.end = "returned"
            /\ o.local = LocalAfterSync(local, remote, n)
            /\ o.remote = RemoteAfterSync(local, remote, n)
         \/ o.end = "not pushed" /\ o.local = Fetch(local, remote, n) /\ o.remote = remote
         \/ /\ o.end = "unanswered" /\ o.local = Fetch(local, remote, n)
            /\ o.remote = RemoteAfterSync(local, remote, n)
            /\ Unsynchronized(Fetch(local, remote, n)) # << >>
  <1> DEFINE f == Fetch(local, remote, n)
              l == LocalAfterSync(local, remote, n)
              s == RemoteAfterSync(local, remote, n)
              returned   == [local |-> l, remote |-> s, end |-> "returned"]
              notPushed  == [local |-> f, remote |-> remote, end |-> "not pushed"]
              silent     == [local |-> f, remote |-> s, end |-> "unanswered"]
  <1>1. \/ o = returned
        \/ Unsynchronized(f) # << >> /\ (o = notPushed \/ o = silent)
    BY Zenon DEF SyncOutcomes
  <1> HIDE DEF f, l, s
  <1>2. o = returned => o.end = "returned" /\ o.local = l /\ o.remote = s
    OBVIOUS
  <1>3. o = notPushed => o.end = "not pushed" /\ o.local = f /\ o.remote = remote
    <2>1. notPushed.end = "not pushed" /\ notPushed.local = f
      OBVIOUS
    <2>2. notPushed.remote = remote
      OBVIOUS
    <2> QED
      BY <2>1, <2>2, Zenon
  <1>4. o = silent => o.end = "unanswered" /\ o.local = f /\ o.remote = s
    OBVIOUS
  <1> HIDE DEF returned, notPushed, silent
  <1> QED
    BY <1>1, <1>2, <1>3, <1>4, Zenon DEF f, l, s
================================================================================
