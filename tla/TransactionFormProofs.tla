------------------------- MODULE TransactionFormProofs ------------------------
(* What the editor saves adds up, for any set of members, any amounts and     *)
(* any cents that get lost when an amount is read back from its text.         *)
(*                                                                           *)
(* The invariant ties the two flags of the form to the amount they were       *)
(* computed from, which is the amount of the form unless that was the last    *)
(* thing to change, and a cent more at most if nothing was touched.  The rest *)
(* is arithmetic: what an even split adds up to, and that it is the only way  *)
(* to give everybody the same.                                                *)
EXTENDS TransactionForm, TotalsProofs

Payer == [person : Members, amount : Nat]

Shares == UNION {[S -> Nat] : S \in SUBSET Members}

PayedBy ==
  [many : {FALSE}, person : Members \cup {Nobody}]
    \cup [many : {TRUE}, payers : Seq(Payer)]

PayedFor ==
  [custom : {FALSE}, persons : SUBSET Members] \cup [custom : {TRUE}, shares : Shares]

Form ==
  [open : {TRUE}, canDelete : BOOLEAN, hasLabel : BOOLEAN, amount : Nat,
   payedBy : PayedBy, payedFor : PayedFor,
   payedByOk : BOOLEAN, payedForOk : BOOLEAN,
   invalid : SUBSET ({"by", "for"} \X Members),
   amountLast : BOOLEAN, touched : BOOLEAN]

Transaction ==
  [exists : {TRUE}, amount : Nat, payedBy : Seq(Payer), payedFor : Shares,
   even : BOOLEAN, amountLast : BOOLEAN, touched : BOOLEAN]

TypeOK ==
  /\ form \in {Closed} \cup Form
  /\ stored \in {NoTransaction} \cup Transaction

\* f was validated when its amount was this one.
ValidatedAt(f, amount) ==
  /\ f.payedByOk = PayedByValid(f.payedBy, amount)
  /\ f.payedForOk = PayedForValid(f.payedFor, amount)
  /\ ~f.amountLast => amount = f.amount
  /\ ~f.touched => \/ amount = f.amount
                   \/ amount \in RoundedDown /\ amount = f.amount + 1

Validated == form # Closed => \E amount \in Nat : ValidatedAt(form, amount)

\* A stored transaction, where it comes from a form that was validated.
Saved ==
  /\ SavedAddsUpUnlessAmountLast
  /\ EvenSplitIsExactAndFair
  /\ UntouchedLosesACentAtMost

Inv == TypeOK /\ Validated /\ Saved

-------------------------------------------------------------------------------
(* Even splits.                                                              *)

LEMMA Division ==
  ASSUME NEW amount \in Nat, NEW n \in Nat, n # 0
  PROVE  /\ amount \div n \in Nat /\ amount % n \in Nat
         /\ amount = (amount \div n) * n + (amount % n)
  OBVIOUS

LEMMA OneDivision ==
  ASSUME NEW n \in Nat, n # 0, NEW share \in Nat
  PROVE  (share * n) \div n = share /\ (share * n) % n = 0
  OBVIOUS

LEMMA PersonsFinite ==
  ASSUME NEW persons \in SUBSET Members
  PROVE  IsFiniteSet(persons) /\ Cardinality(persons) \in Nat
         /\ (persons # {} => Cardinality(persons) # 0)
  BY ConstantsAssumption, FS_Subset, FS_CardinalityType, FS_EmptySet

\* What divideAmount gives: everybody their part of the whole amount, rounded down
\* or up.  (divideAmount.)
LEMMA EvenAddsUp ==
  ASSUME NEW amount \in Nat, NEW persons \in SUBSET Members, persons # {},
         NEW shares \in DivideAmount(amount, persons)
  PROVE  /\ shares \in [persons -> Nat]
         /\ SumOver(shares) = amount
         /\ \A p, q \in persons : shares[p] <= shares[q] + 1
<1> DEFINE n     == Cardinality(persons)
           slice == amount \div n
           left  == amount % n
<1>1. IsFiniteSet(persons) /\ n \in Nat /\ n # 0
  BY PersonsFinite
<1>2. slice \in Nat /\ left \in Nat /\ amount = slice * n + left
  BY <1>1, Division
<1>3. PICK lucky \in SUBSET persons :
        /\ Cardinality(lucky) = left
        /\ shares = [p \in persons |-> slice + (IF p \in lucky THEN 1 ELSE 0)]
  BY DEF DivideAmount, kSubset
<1> HIDE DEF n, slice, left
<1>4. shares \in [persons -> Nat] /\ \A p, q \in persons : shares[p] <= shares[q] + 1
  BY <1>2, <1>3
<1>5. Total(shares, persons) = slice * n + Cardinality(lucky)
  <2>1. \A p \in persons : shares[p] = slice + (IF p \in lucky THEN 1 ELSE 0)
    BY <1>3
  <2>2. slice \in Int
    BY <1>2
  <2>3. Total(shares, persons) = slice * Cardinality(persons) + Cardinality(lucky)
    BY <1>1, <2>1, <2>2, TotalOfEven
  <2>4. QED
    BY <2>3 DEF n
<1>6. SumOver(shares) = amount
  BY <1>2, <1>3, <1>4, <1>5 DEF SumOver
<1>7. QED
  BY <1>4, <1>6

\* When everybody has the same, dividing what they have together gives it to them
\* again.
LEMMA DividedAgain ==
  ASSUME NEW persons \in SUBSET Members, persons # {},
         NEW shares \in [persons -> Nat], NEW share \in Nat,
         \A p \in persons : shares[p] = share,
         NEW again \in DivideAmount(SumOver(shares), persons)
  PROVE  again = shares
<1> DEFINE n == Cardinality(persons)
<1>1. IsFiniteSet(persons) /\ n \in Nat /\ n # 0
  BY PersonsFinite
<1>2. Total(shares, persons) = share * n + Cardinality({})
  <2>1. \A p \in persons : shares[p] = share + (IF p \in {} THEN 1 ELSE 0)
    OBVIOUS
  <2>2. share \in Int /\ {} \in SUBSET persons
    OBVIOUS
  <2>3. Total(shares, persons) = share * Cardinality(persons) + Cardinality({})
    BY <1>1, <2>1, <2>2, TotalOfEven
  <2>4. QED
    BY <2>3
<1> HIDE DEF n
<1>3. SumOver(shares) = share * n
  BY <1>1, <1>2, FS_EmptySet DEF SumOver
<1>4. PICK lucky \in SUBSET persons :
        /\ Cardinality(lucky) = SumOver(shares) % n
        /\ again = [p \in persons |-> SumOver(shares) \div n
                                        + (IF p \in lucky THEN 1 ELSE 0)]
  BY DEF DivideAmount, kSubset, n
<1>5. SumOver(shares) \div n = share /\ SumOver(shares) % n = 0
  BY <1>1, <1>3, OneDivision
<1>6. lucky = {}
  BY <1>1, <1>4, <1>5, FS_Subset, FS_EmptySet
<1>7. QED
  BY <1>4, <1>5, <1>6

-------------------------------------------------------------------------------
(* Payers.  Only the sums of none and of one need to be known.               *)

\* f sums payers, the last one after the others.
SumsPayers(payers, f) ==
  f = [s \in SUBSET DOMAIN payers |->
         IF s = {} THEN 0 ELSE f[s \ {Max(s)}] + payers[Max(s)].amount]

LEMMA SumOfPayersIs ==
  ASSUME NEW payers, NEW g, SumsPayers(payers, g)
  PROVE  \E f : SumsPayers(payers, f) /\ SumOfPayers(payers) = f[DOMAIN payers]
<1> DEFINE f == CHOOSE f : SumsPayers(payers, f)
<1>1. SumsPayers(payers, f)
  OBVIOUS
<1>2. SumOfPayers(payers) = f[DOMAIN payers]
  BY DEF SumOfPayers, FoldLeft, MapThenFoldSet, SumsPayers
<1>3. QED
  BY <1>1, <1>2

LEMMA SumOfNoPayers == SumOfPayers(<< >>) = 0
<1> DEFINE g == [s \in SUBSET DOMAIN << >> |-> 0]
<1>1. DOMAIN << >> = {}
  OBVIOUS
<1>2. SumsPayers(<< >>, g)
  BY <1>1 DEF SumsPayers
<1>3. PICK f : SumsPayers(<< >>, f) /\ SumOfPayers(<< >>) = f[DOMAIN << >>]
  BY <1>2, SumOfPayersIs
<1>4. QED
  BY <1>1, <1>3 DEF SumsPayers

LEMMA SumOfOnePayer ==
  ASSUME NEW payer \in Payer
  PROVE  SumOfPayers(<<payer>>) = payer.amount
<1> DEFINE g == [s \in SUBSET {1} |-> IF s = {} THEN 0 ELSE payer.amount]
<1>1. DOMAIN <<payer>> = {1} /\ <<payer>>[1] = payer /\ payer.amount \in Nat
  BY DEF Payer
<1>2. \A s \in SUBSET {1} : s = {} \/ s = {1}
  OBVIOUS
<1>3. Max({1}) = 1
  BY DEF Max
<1>4. SumsPayers(<<payer>>, g)
  <2>1. g = [s \in SUBSET {1} |->
               IF s = {} THEN 0 ELSE g[s \ {Max(s)}] + <<payer>>[Max(s)].amount]
    <3>1. {1} \ {1} = {} /\ g[{}] = 0
      OBVIOUS
    <3>2. ASSUME NEW s \in SUBSET {1}, s # {}
          PROVE  g[s \ {Max(s)}] + <<payer>>[Max(s)].amount = payer.amount
      <4> HIDE DEF g
      <4>1. s = {1} /\ Max(s) = 1
        BY <1>2, <1>3, <3>2
      <4>2. s \ {Max(s)} = {}
        BY <3>1, <4>1
      <4>3. g[s \ {Max(s)}] = 0
        BY <3>1, <4>2
      <4>4. <<payer>>[Max(s)] = payer
        BY <1>1, <4>1
      <4>5. QED
        BY <1>1, <4>3, <4>4
    <3>3. QED
      BY <3>2
  <2>2. QED
    BY <1>1, <2>1 DEF SumsPayers
<1>5. PICK f : SumsPayers(<<payer>>, f) /\ SumOfPayers(<<payer>>) = f[DOMAIN <<payer>>]
  BY <1>4, SumOfPayersIs
<1>6. f[{1}] = f[{}] + payer.amount /\ f[{}] = 0
  <2>1. f[{1}] = f[{1} \ {Max({1})}] + <<payer>>[Max({1})].amount /\ f[{}] = 0
    BY <1>1, <1>5 DEF SumsPayers
  <2>2. {1} \ {1} = {}
    OBVIOUS
  <2>3. QED
    BY <1>1, <1>3, <2>1, <2>2
<1>7. QED
  BY <1>1, <1>5, <1>6

-------------------------------------------------------------------------------
(* What the operations on the fields return.                                 *)

LEMMA ReadBackType ==
  ASSUME NEW amount \in Nat
  PROVE  /\ ReadBack(amount) \in Nat
         /\ \/ ReadBack(amount) = amount
            \/ amount \in RoundedDown /\ amount = ReadBack(amount) + 1
  BY ConstantsAssumption DEF ReadBack

LEMMA AmountsType == Amounts \subseteq Nat
  BY ConstantsAssumption, ReadBackType DEF Amounts

LEMMA SharesType ==
  ASSUME NEW shares
  PROVE  shares \in Shares <=> \E S \in SUBSET Members : shares \in [S -> Nat]
  BY DEF Shares

LEMMA NoShares == << >> \in Shares
<1>1. << >> \in [{} -> Nat]
  OBVIOUS
<1>2. QED
  BY <1>1, SharesType

LEMMA SharesOfNobody ==
  ASSUME NEW shares \in [{} -> Nat]
  PROVE  shares = << >>
<1>1. << >> \in [{} -> Nat]
  OBVIOUS
<1>2. \A f, g \in [{} -> Nat] : f = g
  OBVIOUS
<1>3. QED
  BY <1>1, <1>2

LEMMA DivideAmountType ==
  ASSUME NEW amount \in Nat, NEW persons \in SUBSET Members,
         NEW shares \in DivideAmount(amount, persons)
  PROVE  shares \in Shares
<1>1. CASE persons = {}
  BY <1>1, NoShares DEF DivideAmount
<1>2. CASE persons # {}
  BY <1>2, EvenAddsUp, SharesType
<1>3. QED
  BY <1>1, <1>2

LEMMA AsPayedByType ==
  ASSUME NEW payedBy \in PayedBy, NEW amount \in Nat
  PROVE  AsPayedBy(payedBy, amount) \in Seq(Payer)
<1>1. CASE payedBy.many
  BY <1>1 DEF PayedBy, AsPayedBy
<1>2. CASE ~payedBy.many
  <2>1. payedBy.person \in Members \cup {Nobody}
    BY <1>2 DEF PayedBy
  <2>2. payedBy.person # Nobody =>
          [person |-> payedBy.person, amount |-> amount] \in Payer
    BY <2>1 DEF Payer
  <2>3. QED
    BY <1>2, <2>2 DEF AsPayedBy
<1>3. QED
  BY <1>1, <1>2

LEMMA AsPayedForType ==
  ASSUME NEW payedFor \in PayedFor, NEW amount \in Nat,
         NEW shares \in AsPayedFor(payedFor, amount)
  PROVE  shares \in Shares
<1>1. CASE payedFor.custom
  BY <1>1 DEF PayedFor, AsPayedFor
<1>2. CASE ~payedFor.custom
  <2>1. payedFor.persons \in SUBSET Members /\ shares \in DivideAmount(amount, payedFor.persons)
    BY <1>2 DEF PayedFor, AsPayedFor
  <2>2. QED
    BY <2>1, DivideAmountType
<1>3. QED
  BY <1>1, <1>2

LEMMA PayedByType ==
  /\ \A person \in Members \cup {Nobody} : PayedByOne(person) \in PayedBy
  /\ \A payers \in Seq(Payer) : PayedByMany(payers) \in PayedBy
  BY DEF PayedByOne, PayedByMany, PayedBy

LEMMA PayedForType ==
  /\ \A persons \in SUBSET Members : PayedSplitEven(persons) \in PayedFor
  /\ \A shares \in Shares : PayedForSplitCustom(shares) \in PayedFor
  BY DEF PayedSplitEven, PayedForSplitCustom, PayedFor

LEMMA PayedByOfType ==
  ASSUME NEW payers \in Seq(Payer)
  PROVE  PayedByOf(payers) \in PayedBy
<1>1. payers # << >> => payers[1].person \in Members
  <2>1. payers # << >> => payers[1] \in Payer
    OBVIOUS
  <2>2. QED
    BY <2>1 DEF Payer
<1>2. QED
  BY <1>1, PayedByType DEF PayedByOf

LEMMA PayedForOfType ==
  ASSUME NEW shares \in Shares
  PROVE  PayedForOf(shares) \in PayedFor
<1>1. DOMAIN shares \in SUBSET Members
  BY SharesType
<1>2. QED
  BY <1>1, PayedForType DEF PayedForOf

LEMMA WithPayerType ==
  ASSUME NEW payers \in Seq(Payer), NEW person \in Members, NEW amount \in Nat
  PROVE  WithPayer(payers, person, amount) \in Seq(Payer)
<1> DEFINE share == [person |-> person, amount |-> amount]
<1>1. share \in Payer
  BY DEF Payer
<1> HIDE DEF share
<1>2. QED
  BY <1>1 DEF WithPayer, share

LEMMA WithoutPayerType ==
  ASSUME NEW payers \in Seq(Payer), NEW person \in Members
  PROVE  RemoveFirstMatch(payers, LAMBDA s : s.person = person) \in Seq(Payer)
<1> DEFINE places == {i \in 1..Len(payers) : payers[i].person = person}
<1>1. CASE \E i \in 1..Len(payers) : payers[i].person = person
  <2>1. PICK m \in places : \A k \in places : m <= k
    <3>1. places \in SUBSET Nat /\ places # {}
      BY <1>1
    <3> HIDE DEF places
    <3>2. QED
      BY <3>1, LeastElement
  <2>2. Min(places) \in 1..Len(payers)
    BY <2>1 DEF Min
  <2>3. RemoveAt(payers, Min(places)) \in Seq(Payer)
    <3> DEFINE i == Min(places)
    <3>1. i \in 1..Len(payers)
      BY <2>2
    <3> HIDE DEF i
    <3>2. SubSeq(payers, 1, i - 1) \in Seq(Payer)
      BY <3>1
    <3>3. SubSeq(payers, i + 1, Len(payers)) \in Seq(Payer)
      BY <3>1
    <3>4. QED
      BY <3>2, <3>3 DEF RemoveAt, i
  <2>4. QED
    BY <1>1, <2>3 DEF RemoveFirstMatch, SelectInSeq
<1>2. CASE ~ \E i \in 1..Len(payers) : payers[i].person = person
  BY <1>2 DEF RemoveFirstMatch
<1>3. QED
  BY <1>1, <1>2

-------------------------------------------------------------------------------
(* Forms: each is one that was validated at some amount.                     *)

LEMMA ValidBoolean ==
  /\ \A payedBy, amount : PayedByValid(payedBy, amount) \in BOOLEAN
  /\ \A payedFor, amount : PayedForValid(payedFor, amount) \in BOOLEAN
  BY DEF PayedByValid, PayedForValid

LEMMA RevalidatedIs ==
  ASSUME NEW f \in Form
  PROVE  /\ Revalidated(f) \in Form
         /\ Revalidated(f).payedByOk = PayedByValid(f.payedBy, f.amount)
         /\ Revalidated(f).payedForOk = PayedForValid(f.payedFor, f.amount)
         /\ Revalidated(f).payedBy = f.payedBy
         /\ Revalidated(f).payedFor = f.payedFor
         /\ Revalidated(f).amount = f.amount
         /\ Revalidated(f).touched = f.touched
<1>1. /\ PayedByValid(f.payedBy, f.amount) \in BOOLEAN
      /\ PayedForValid(f.payedFor, f.amount) \in BOOLEAN
  BY ValidBoolean
<1>2. QED
  BY <1>1 DEF Revalidated, Form

\* setAmount.
LEMMA WithAmountIs ==
  ASSUME NEW f \in Form, NEW amount \in Nat, NEW touched \in BOOLEAN,
         ~touched => \/ f.amount = amount
                     \/ f.amount \in RoundedDown /\ f.amount = amount + 1,
         NEW g, g = [WithAmount(f, amount) EXCEPT !.touched = touched]
  PROVE  g \in Form /\ ValidatedAt(g, f.amount)
<1> DEFINE r == Revalidated(f)
<1>1. /\ r \in Form
      /\ r.payedByOk = PayedByValid(f.payedBy, f.amount)
      /\ r.payedForOk = PayedForValid(f.payedFor, f.amount)
      /\ r.payedBy = f.payedBy /\ r.payedFor = f.payedFor
  BY RevalidatedIs
<1>2. g = [r EXCEPT !.amount = amount, !.amountLast = amount # f.amount,
                    !.touched = touched]
  BY DEF WithAmount
<1> HIDE DEF r
<1>3. /\ g \in Form
      /\ g.payedByOk = r.payedByOk /\ g.payedForOk = r.payedForOk
      /\ g.payedBy = r.payedBy /\ g.payedFor = r.payedFor
      /\ g.amount = amount /\ g.amountLast = (amount # f.amount) /\ g.touched = touched
  BY <1>1, <1>2 DEF Form
<1>4. QED
  BY <1>1, <1>3 DEF ValidatedAt

\* What the editor opens with.
LEMMA NewFormIs ==
  ASSUME NEW canDelete \in BOOLEAN, NEW amount \in Nat,
         NEW payers \in Seq(Payer), NEW shares \in Shares,
         NEW g, g = NewForm(canDelete, amount, payers, shares)
  PROVE  g \in Form /\ ValidatedAt(g, amount)
<1> DEFINE loaded ==
             [open |-> TRUE, canDelete |-> canDelete, hasLabel |-> canDelete,
              amount |-> amount,
              payedBy |-> PayedByOf(payers), payedFor |-> PayedForOf(shares),
              payedByOk |-> FALSE, payedForOk |-> FALSE,
              invalid |-> {}, amountLast |-> FALSE, touched |-> FALSE]
           read == ReadBack(amount)
<1>1. loaded \in Form /\ loaded.amount = amount
  BY PayedByOfType, PayedForOfType DEF Form
<1>2. /\ read \in Nat
      /\ \/ amount = read
         \/ amount \in RoundedDown /\ amount = read + 1
  BY ReadBackType
<1>3. g = WithAmount(loaded, read)
  BY DEF NewForm
<1>4. WithAmount(loaded, read) = [WithAmount(loaded, read) EXCEPT !.touched = FALSE]
  <2>1. Revalidated(loaded) \in Form /\ Revalidated(loaded).touched = FALSE
    BY <1>1, RevalidatedIs
  <2> HIDE DEF loaded, read
  <2>2. QED
    BY <2>1 DEF WithAmount, Form
<1> HIDE DEF loaded, read
<1>5. QED
  BY <1>1, <1>2, <1>3, <1>4, WithAmountIs

\* _update.
LEMMA UpdateIs ==
  ASSUME NEW f \in Form, Update(f)
  PROVE  form' \in Form /\ ValidatedAt(form', form'.amount) /\ stored' = stored
<1> DEFINE r == Revalidated(f)
<1>1. /\ r \in Form
      /\ r.payedByOk = PayedByValid(f.payedBy, f.amount)
      /\ r.payedForOk = PayedForValid(f.payedFor, f.amount)
      /\ r.payedBy = f.payedBy /\ r.payedFor = f.payedFor /\ r.amount = f.amount
  BY RevalidatedIs
<1>2. form' = [r EXCEPT !.amountLast = FALSE, !.touched = TRUE] /\ stored' = stored
  BY DEF Update
<1> HIDE DEF r
<1>3. /\ form' \in Form
      /\ form'.payedByOk = r.payedByOk /\ form'.payedForOk = r.payedForOk
      /\ form'.payedBy = r.payedBy /\ form'.payedFor = r.payedFor
      /\ form'.amount = r.amount
  BY <1>1, <1>2 DEF Form
<1>4. QED
  BY <1>1, <1>2, <1>3 DEF ValidatedAt

LEMMA OpenForm ==
  ASSUME TypeOK, form # Closed
  PROVE  form \in Form
  BY DEF TypeOK

\* What a step leaves to be shown when it only changes the form.
LEMMA FormChanged ==
  ASSUME Inv, NEW amount \in Nat, form' \in Form, ValidatedAt(form', amount),
         stored' = stored
  PROVE  Inv'
<1>1. TypeOK' /\ Validated'
  BY DEF Inv, TypeOK, Validated
<1>2. Saved'
  BY DEF Inv, Saved, SavedAddsUpUnlessAmountLast, EvenSplitIsExactAndFair,
         UntouchedLosesACentAtMost, AddsUp
<1>3. QED
  BY <1>1, <1>2 DEF Inv

LEMMA UpdateInv ==
  ASSUME Inv, NEW f \in Form, Update(f)
  PROVE  Inv'
<1>1. form' \in Form /\ ValidatedAt(form', form'.amount) /\ stored' = stored
  BY UpdateIs
<1>2. form'.amount \in Nat
  BY <1>1 DEF Form
<1>3. QED
  BY <1>1, <1>2, FormChanged

\* Nothing has been saved yet, or the editor has been opened since.
LEMMA NothingSaved == stored = NoTransaction => Saved
  BY DEF Saved, SavedAddsUpUnlessAmountLast, EvenSplitIsExactAndFair,
         UntouchedLosesACentAtMost

LEMMA InitInv == Init => Inv
  BY NothingSaved DEF Init, Inv, TypeOK, Validated

LEMMA OpenInv ==
  ASSUME Inv, NEW canDelete \in BOOLEAN, NEW amount \in Nat,
         NEW payers \in Seq(Payer), NEW shares \in Shares,
         form' = NewForm(canDelete, amount, payers, shares), stored' = NoTransaction
  PROVE  Inv'
<1>1. form' \in Form /\ ValidatedAt(form', amount)
  BY NewFormIs
<1>2. Saved'
  BY DEF Saved, SavedAddsUpUnlessAmountLast, EvenSplitIsExactAndFair,
         UntouchedLosesACentAtMost
<1>3. QED
  BY <1>1, <1>2 DEF Inv, TypeOK, Validated

LEMMA OpenNewInv == ASSUME Inv, OpenNew PROVE Inv'
<1>1. << >> \in Seq(Payer) /\ << >> \in Shares /\ FALSE \in BOOLEAN /\ 0 \in Nat
  BY NoShares
<1>2. QED
  BY <1>1, OpenInv DEF OpenNew

LEMMA OpenStoredInv == ASSUME Inv, OpenStored PROVE Inv'
<1>1. stored \in Transaction
  BY DEF Inv, TypeOK, OpenStored
<1>2. /\ stored.amount \in Nat /\ stored.payedBy \in Seq(Payer)
      /\ stored.payedFor \in Shares /\ TRUE \in BOOLEAN
  BY <1>1 DEF Transaction
<1>3. QED
  BY <1>2, OpenInv DEF OpenStored

LEMMA SetLabelInv == ASSUME Inv, SetLabel PROVE Inv'
<1>1. PICK hasLabel \in BOOLEAN : Update([form EXCEPT !.hasLabel = hasLabel])
  BY DEF SetLabel
<1>2. form \in Form
  BY <1>1, OpenForm DEF Inv, Update
<1>3. [form EXCEPT !.hasLabel = hasLabel] \in Form
  BY <1>2 DEF Form
<1>4. QED
  BY <1>1, <1>3, UpdateInv

LEMMA SetAmountInv == ASSUME Inv, SetAmount PROVE Inv'
<1>1. PICK amount \in Amounts : form' = [WithAmount(form, amount) EXCEPT !.touched = TRUE]
  BY DEF SetAmount
<1>2. form \in Form /\ amount \in Nat /\ stored' = stored
  BY OpenForm, AmountsType DEF Inv, SetAmount
<1>3. form' \in Form /\ ValidatedAt(form', form.amount)
  BY <1>1, <1>2, WithAmountIs
<1>4. form.amount \in Nat
  BY <1>2 DEF Form
<1>5. QED
  BY <1>2, <1>3, <1>4, FormChanged

LEMMA SetPayedBySingleInv == ASSUME Inv, SetPayedBySingle PROVE Inv'
<1>1. PICK p \in Members : Update([form EXCEPT !.payedBy = PayedByOne(p)])
  BY DEF SetPayedBySingle
<1>2. form \in Form /\ PayedByOne(p) \in PayedBy
  BY OpenForm, PayedByType DEF Inv, SetPayedBySingle
<1>3. [form EXCEPT !.payedBy = PayedByOne(p)] \in Form
  BY <1>2 DEF Form
<1>4. QED
  BY <1>1, <1>3, UpdateInv

LEMMA SplitPayedByInv == ASSUME Inv, SplitPayedBy PROVE Inv'
<1> DEFINE many == PayedByMany(AsPayedBy(form.payedBy, form.amount))
<1>1. Update([form EXCEPT !.payedBy = many])
  BY DEF SplitPayedBy
<1>2. form \in Form
  BY OpenForm DEF Inv, SplitPayedBy
<1>3. form.payedBy \in PayedBy /\ form.amount \in Nat
  BY <1>2 DEF Form
<1>4. many \in PayedBy
  BY <1>3, AsPayedByType, PayedByType
<1> HIDE DEF many
<1>5. [form EXCEPT !.payedBy = many] \in Form
  BY <1>2, <1>4 DEF Form
<1>6. QED
  BY <1>1, <1>5, UpdateInv

LEMMA SetPayedByInv == ASSUME Inv, SetPayedBy PROVE Inv'
<1>1. PICK p \in Members, amount \in Amounts :
        Update([form EXCEPT
                  !.payedBy = PayedByMany(WithPayer(form.payedBy.payers, p, amount)),
                  !.invalid = form.invalid \ {<<"by", p>>}])
  BY DEF SetPayedBy
<1> DEFINE many == PayedByMany(WithPayer(form.payedBy.payers, p, amount))
<1>2. form \in Form /\ form.payedBy.many
  BY OpenForm DEF Inv, SetPayedBy
<1>3. form.payedBy.payers \in Seq(Payer)
  BY <1>2 DEF Form, PayedBy
<1>4. many \in PayedBy
  BY <1>3, AmountsType, WithPayerType, PayedByType
<1> HIDE DEF many
<1>5. [form EXCEPT !.payedBy = many, !.invalid = form.invalid \ {<<"by", p>>}] \in Form
  BY <1>2, <1>4 DEF Form
<1>6. QED
  BY <1>1, <1>5, UpdateInv DEF many

\* A field of shares that holds no number.
LEMMA OneMoreInvalid ==
  ASSUME NEW f \in Form, NEW p \in Members, NEW field \in {"by", "for"}
  PROVE  f.invalid \cup {<<field, p>>} \in SUBSET ({"by", "for"} \X Members)
<1>1. f.invalid \in SUBSET ({"by", "for"} \X Members)
  BY DEF Form
<1>2. QED
  BY <1>1

LEMMA ClearPayedByInv == ASSUME Inv, ClearPayedBy PROVE Inv'
<1>1. PICK p \in Members :
        Update([form EXCEPT
                  !.payedBy = PayedByMany(RemoveFirstMatch(form.payedBy.payers,
                                                           LAMBDA s : s.person = p)),
                  !.invalid = form.invalid \cup {<<"by", p>>}])
  BY DEF ClearPayedBy
<1> DEFINE left == RemoveFirstMatch(form.payedBy.payers, LAMBDA s : s.person = p)
           many == PayedByMany(left)
<1>2. form \in Form /\ form.payedBy.many
  BY OpenForm DEF Inv, ClearPayedBy
<1>3. form.payedBy.payers \in Seq(Payer)
  BY <1>2 DEF Form, PayedBy
<1>4. left \in Seq(Payer)
  BY <1>3, WithoutPayerType
<1>5. Update([form EXCEPT !.payedBy = many, !.invalid = form.invalid \cup {<<"by", p>>}])
  BY <1>1
<1> HIDE DEF left
<1>6. many \in PayedBy
  BY <1>4, PayedByType
<1> HIDE DEF many
<1>7. [form EXCEPT !.payedBy = many, !.invalid = form.invalid \cup {<<"by", p>>}] \in Form
  <2> DEFINE invalid == form.invalid \cup {<<"by", p>>}
  <2>1. invalid \in SUBSET ({"by", "for"} \X Members)
    BY <1>2, OneMoreInvalid
  <2> HIDE DEF invalid
  <2>2. [form EXCEPT !.payedBy = many, !.invalid = invalid] \in Form
    BY <1>2, <1>6, <2>1 DEF Form
  <2>3. QED
    BY <2>2 DEF invalid
<1>8. QED
  BY <1>5, <1>7, UpdateInv

LEMMA SetPayedForEvenInv == ASSUME Inv, SetPayedForEven PROVE Inv'
<1>1. PICK p \in Members :
        Update([form EXCEPT
                  !.payedFor = PayedSplitEven(SymDiff(form.payedFor.persons, {p}))])
  BY DEF SetPayedForEven
<1> DEFINE even == PayedSplitEven(SymDiff(form.payedFor.persons, {p}))
<1>2. form \in Form /\ ~form.payedFor.custom
  BY OpenForm DEF Inv, SetPayedForEven
<1>3. form.payedFor.persons \in SUBSET Members
  BY <1>2 DEF Form, PayedFor
<1>4. SymDiff(form.payedFor.persons, {p}) \in SUBSET Members
  BY <1>3 DEF SymDiff
<1>5. even \in PayedFor
  BY <1>4, PayedForType
<1> HIDE DEF even
<1>6. [form EXCEPT !.payedFor = even] \in Form
  BY <1>2, <1>5 DEF Form
<1>7. QED
  BY <1>1, <1>6, UpdateInv DEF even

LEMMA SplitPayedForInv == ASSUME Inv, SplitPayedFor PROVE Inv'
<1>1. PICK shares \in AsPayedFor(form.payedFor, form.amount) :
        Update([form EXCEPT !.payedFor = PayedForSplitCustom(shares)])
  BY DEF SplitPayedFor
<1>2. form \in Form
  BY OpenForm DEF Inv, SplitPayedFor
<1>3. form.payedFor \in PayedFor /\ form.amount \in Nat
  BY <1>2 DEF Form
<1>4. PayedForSplitCustom(shares) \in PayedFor
  BY <1>3, AsPayedForType, PayedForType
<1>5. [form EXCEPT !.payedFor = PayedForSplitCustom(shares)] \in Form
  BY <1>2, <1>4 DEF Form
<1>6. QED
  BY <1>1, <1>5, UpdateInv

LEMMA CustomShares ==
  ASSUME NEW f \in Form, f.payedFor.custom
  PROVE  /\ f.payedFor.shares \in Shares
         /\ DOMAIN f.payedFor.shares \in SUBSET Members
         /\ f.payedFor.shares \in [DOMAIN f.payedFor.shares -> Nat]
<1>1. f.payedFor.shares \in Shares
  BY DEF Form, PayedFor
<1>2. QED
  BY <1>1, SharesType

LEMMA SetPayedForInv == ASSUME Inv, SetPayedFor PROVE Inv'
<1> DEFINE shares == form.payedFor.shares
           With(p, amount) == [q \in DOMAIN shares \cup {p} |->
                                 IF q = p THEN amount ELSE shares[q]]
<1>1. PICK p \in Members, amount \in Amounts :
        Update([form EXCEPT !.payedFor = PayedForSplitCustom(With(p, amount)),
                            !.invalid = form.invalid \ {<<"for", p>>}])
  BY DEF SetPayedFor
<1>2. form \in Form /\ form.payedFor.custom
  BY OpenForm DEF Inv, SetPayedFor
<1>3. DOMAIN shares \in SUBSET Members /\ shares \in [DOMAIN shares -> Nat]
  BY <1>2, CustomShares
<1>4. With(p, amount) \in [DOMAIN shares \cup {p} -> Nat]
  <2> HIDE DEF shares
  <2>1. amount \in Nat
    BY AmountsType
  <2>2. QED
    BY <1>3, <2>1
<1>5. PayedForSplitCustom(With(p, amount)) \in PayedFor
  <2>1. DOMAIN shares \cup {p} \in SUBSET Members
    BY <1>3
  <2> HIDE DEF With, shares
  <2>2. With(p, amount) \in Shares
    BY <1>4, <2>1, SharesType
  <2>3. QED
    BY <2>2, PayedForType
<1> HIDE DEF With
<1>6. [form EXCEPT !.payedFor = PayedForSplitCustom(With(p, amount)),
                   !.invalid = form.invalid \ {<<"for", p>>}] \in Form
  BY <1>2, <1>5 DEF Form
<1>7. QED
  BY <1>1, <1>6, UpdateInv

LEMMA ClearPayedForInv == ASSUME Inv, ClearPayedFor PROVE Inv'
<1> DEFINE shares == form.payedFor.shares
           Without(p) == Restrict(shares, DOMAIN shares \ {p})
<1>1. PICK p \in Members :
        Update([form EXCEPT !.payedFor = PayedForSplitCustom(Without(p)),
                            !.invalid = form.invalid \cup {<<"for", p>>}])
  BY DEF ClearPayedFor
<1>2. form \in Form /\ form.payedFor.custom
  BY OpenForm DEF Inv, ClearPayedFor
<1>3. DOMAIN shares \in SUBSET Members /\ shares \in [DOMAIN shares -> Nat]
  BY <1>2, CustomShares
<1>4. Without(p) \in [DOMAIN shares \ {p} -> Nat]
  <2> HIDE DEF shares
  <2> QED
    BY <1>3 DEF Restrict
<1>5. PayedForSplitCustom(Without(p)) \in PayedFor
  <2>1. DOMAIN shares \ {p} \in SUBSET Members
    BY <1>3
  <2> HIDE DEF Without, shares
  <2>2. Without(p) \in Shares
    BY <1>4, <2>1, SharesType
  <2>3. QED
    BY <2>2, PayedForType
<1> HIDE DEF Without
<1>6. [form EXCEPT !.payedFor = PayedForSplitCustom(Without(p)),
                   !.invalid = form.invalid \cup {<<"for", p>>}] \in Form
  <2> DEFINE invalid == form.invalid \cup {<<"for", p>>}
  <2>1. invalid \in SUBSET ({"by", "for"} \X Members)
    BY <1>2, OneMoreInvalid
  <2> HIDE DEF invalid
  <2>2. [form EXCEPT !.payedFor = PayedForSplitCustom(Without(p)), !.invalid = invalid] \in Form
    BY <1>2, <1>5, <2>1 DEF Form
  <2>3. QED
    BY <2>2 DEF invalid
<1>7. QED
  BY <1>1, <1>6, UpdateInv

\* What a form that was validated at an amount pays in total: that amount where each
\* payer has one, and the amount of the form where one payer pays it all.
LEMMA PayersAddUp ==
  ASSUME NEW f \in Form, NEW amount \in Nat, PayedByValid(f.payedBy, amount)
  PROVE  SumOfPayers(AsPayedBy(f.payedBy, f.amount)) \in {amount, f.amount}
<1>1. CASE f.payedBy.many
  BY <1>1 DEF PayedByValid, AsPayedBy
<1>2. CASE ~f.payedBy.many
  <2> DEFINE payer == [person |-> f.payedBy.person, amount |-> f.amount]
  <2>1. f.payedBy.person # Nobody
    BY <1>2 DEF PayedByValid
  <2>2. f.payedBy.person \in Members /\ f.amount \in Nat
    BY <1>2, <2>1 DEF Form, PayedBy
  <2>3. payer \in Payer /\ payer.amount = f.amount
    BY <2>2 DEF Payer
  <2>4. AsPayedBy(f.payedBy, f.amount) = <<payer>>
    BY <1>2, <2>1 DEF AsPayedBy
  <2> HIDE DEF payer
  <2>5. QED
    BY <2>3, <2>4, SumOfOnePayer
<1>3. QED
  BY <1>1, <1>2

LEMMA SharesAddUp ==
  ASSUME NEW f \in Form, NEW amount \in Nat, PayedForValid(f.payedFor, amount),
         NEW shares \in AsPayedFor(f.payedFor, f.amount)
  PROVE  /\ SumOver(shares) \in {amount, f.amount}
         /\ ~f.payedFor.custom =>
              /\ SumOver(shares) = f.amount
              /\ \A p, q \in DOMAIN shares : shares[p] <= shares[q] + 1
<1>1. CASE f.payedFor.custom
  BY <1>1 DEF PayedForValid, AsPayedFor
<1>2. CASE ~f.payedFor.custom
  <2> DEFINE persons == f.payedFor.persons
  <2>1. /\ persons \in SUBSET Members /\ persons # {} /\ f.amount \in Nat
        /\ shares \in DivideAmount(f.amount, persons)
    BY <1>2 DEF Form, PayedFor, PayedForValid, AsPayedFor
  <2> HIDE DEF persons
  <2>2. /\ shares \in [persons -> Nat]
        /\ SumOver(shares) = f.amount
        /\ \A p, q \in persons : shares[p] <= shares[q] + 1
    BY <2>1, EvenAddsUp
  <2>3. QED
    BY <1>2, <2>2
<1>3. QED
  BY <1>1, <1>2

LEMMA SaveInv == ASSUME Inv, SaveTransaction PROVE Inv'
<1> DEFINE payers == AsPayedBy(form.payedBy, form.amount)
<1>1. form \in Form /\ form.payedByOk /\ form.payedForOk
  BY OpenForm DEF Inv, SaveTransaction
<1>2. PICK shares \in AsPayedFor(form.payedFor, form.amount) :
        stored' = [exists     |-> TRUE,
                   amount     |-> form.amount,
                   payedBy    |-> payers,
                   payedFor   |-> shares,
                   even       |-> ~form.payedFor.custom,
                   amountLast |-> form.amountLast,
                   touched    |-> form.touched]
  BY DEF SaveTransaction
<1>3. PICK amount \in Nat : ValidatedAt(form, amount)
  BY DEF Inv, Validated, SaveTransaction
<1>4. /\ form.amount \in Nat /\ form.payedBy \in PayedBy /\ form.payedFor \in PayedFor
      /\ form.amountLast \in BOOLEAN /\ form.touched \in BOOLEAN
  BY <1>1 DEF Form
<1>5. /\ payers \in Seq(Payer) /\ shares \in Shares
      /\ (~form.payedFor.custom) \in BOOLEAN
  BY <1>4, AsPayedByType, AsPayedForType
<1>6. SumOfPayers(payers) \in {amount, form.amount}
  <2>1. PayedByValid(form.payedBy, amount)
    BY <1>1, <1>3 DEF ValidatedAt
  <2>2. QED
    BY <1>1, <2>1, PayersAddUp
<1>7. /\ SumOver(shares) \in {amount, form.amount}
      /\ ~form.payedFor.custom =>
           /\ SumOver(shares) = form.amount
           /\ \A p, q \in DOMAIN shares : shares[p] <= shares[q] + 1
  <2>1. PayedForValid(form.payedFor, amount)
    BY <1>1, <1>3 DEF ValidatedAt
  <2>2. QED
    BY <1>1, <2>1, SharesAddUp
<1>8. /\ ~form.amountLast => amount = form.amount
      /\ ~form.touched => \/ amount = form.amount
                          \/ amount \in RoundedDown /\ amount = form.amount + 1
  BY <1>3 DEF ValidatedAt
<1> HIDE DEF payers
<1>9. TypeOK' /\ Validated'
  <2>1. stored' \in Transaction
    BY <1>2, <1>4, <1>5 DEF Transaction
  <2>2. form' = Closed
    BY DEF SaveTransaction
  <2>3. QED
    BY <2>1, <2>2 DEF TypeOK, Validated
<1>10. /\ stored'.amount = form.amount /\ stored'.payedBy = payers
       /\ stored'.payedFor = shares /\ stored'.even = ~form.payedFor.custom
       /\ stored'.amountLast = form.amountLast /\ stored'.touched = form.touched
  BY <1>2
<1>11. SavedAddsUpUnlessAmountLast'
  BY <1>6, <1>7, <1>8, <1>10 DEF SavedAddsUpUnlessAmountLast, AddsUp
<1>12. EvenSplitIsExactAndFair'
  BY <1>7, <1>10 DEF EvenSplitIsExactAndFair
<1>13. UntouchedLosesACentAtMost'
  BY <1>6, <1>7, <1>8, <1>10 DEF UntouchedLosesACentAtMost, AddsUp
<1>14. QED
  BY <1>9, <1>11, <1>12, <1>13 DEF Inv, Saved

LEMMA ClosedInv == ASSUME Inv, form' = Closed, UNCHANGED stored PROVE Inv'
  BY DEF Inv, TypeOK, Validated, Saved, SavedAddsUpUnlessAmountLast,
         EvenSplitIsExactAndFair, UntouchedLosesACentAtMost, AddsUp

LEMMA NextInv == Inv /\ [Next]_vars => Inv'
<1> SUFFICES ASSUME Inv, [Next]_vars PROVE Inv'
  OBVIOUS
<1>1. CASE OpenNew
  BY <1>1, OpenNewInv
<1>2. CASE OpenStored
  BY <1>2, OpenStoredInv
<1>3. CASE SetLabel
  BY <1>3, SetLabelInv
<1>4. CASE SetAmount
  BY <1>4, SetAmountInv
<1>5. CASE SetPayedBySingle
  BY <1>5, SetPayedBySingleInv
<1>6. CASE SplitPayedBy
  BY <1>6, SplitPayedByInv
<1>7. CASE SetPayedBy
  BY <1>7, SetPayedByInv
<1>8. CASE ClearPayedBy
  BY <1>8, ClearPayedByInv
<1>9. CASE SetPayedForEven
  BY <1>9, SetPayedForEvenInv
<1>10. CASE SplitPayedFor
  BY <1>10, SplitPayedForInv
<1>11. CASE SetPayedFor
  BY <1>11, SetPayedForInv
<1>12. CASE ClearPayedFor
  BY <1>12, ClearPayedForInv
<1>13. CASE SaveTransaction
  BY <1>13, SaveInv
<1>14. CASE DeleteTransaction
  BY <1>14, ClosedInv DEF DeleteTransaction
<1>15. CASE Cancel
  BY <1>15, ClosedInv DEF Cancel
<1>16. CASE UNCHANGED vars
  BY <1>16 DEF vars, Inv, TypeOK, Validated, ValidatedAt, Saved,
               SavedAddsUpUnlessAmountLast, EvenSplitIsExactAndFair,
               UntouchedLosesACentAtMost, AddsUp
<1>17. QED
  BY <1>1, <1>2, <1>3, <1>4, <1>5, <1>6, <1>7, <1>8, <1>9, <1>10, <1>11, <1>12,
     <1>13, <1>14, <1>15, <1>16 DEF Next

LEMMA InvAlways == Spec => []Inv
  BY InitInv, NextInv, PTL DEF Spec

-------------------------------------------------------------------------------
(* The properties.                                                           *)

\* For any members and amounts: the sums paid and the shares of a saved
\* transaction add up to its amount, unless the amount was the last thing that
\* changed.  (_validatePayedBy, _validatePayedFor.)
THEOREM SavedSumsAddUp == Spec => []SavedAddsUpUnlessAmountLast
<1>1. Inv => SavedAddsUpUnlessAmountLast
  BY DEF Inv, Saved
<1>2. QED
  BY <1>1, InvAlways, PTL

\* For any number of beneficiaries: an even split loses no cent and nobody has two
\* cents more than another.  (divideAmount.)
THEOREM EvenSplitsAreExact == Spec => []EvenSplitIsExactAndFair
<1>1. Inv => EvenSplitIsExactAndFair
  BY DEF Inv, Saved
<1>2. QED
  BY <1>1, InvAlways, PTL

\* Whatever cents are lost when an amount is read back from its text: saving an
\* untouched transaction costs at most the one of its amount.  (setAmount.)
THEOREM UntouchedIsSafe == Spec => []UntouchedLosesACentAtMost
<1>1. Inv => UntouchedLosesACentAtMost
  BY DEF Inv, Saved
<1>2. QED
  BY <1>1, InvAlways, PTL

LEMMA TwoElements ==
  ASSUME NEW x, NEW y, x # y
  PROVE  Cardinality({x, y}) = 2
<1>1. IsFiniteSet({x}) /\ Cardinality({x}) = 1
  BY FS_Singleton
<1>2. Cardinality({x} \cup {y}) = IF y \in {x} THEN Cardinality({x}) ELSE Cardinality({x}) + 1
  BY <1>1, FS_AddElement
<1>3. {x} \cup {y} = {x, y} /\ y \notin {x}
  OBVIOUS
<1>4. QED
  BY <1>1, <1>2, <1>3

LEMMA TypedReopeningKeepsShares == TypeOK => ReopeningKeepsShares
<1> SUFFICES ASSUME stored \in Transaction, AddsUp,
                    NEW again \in AsPayedFor(PayedForOf(stored.payedFor), stored.amount),
                    NEW p \in Members
             PROVE  ShareOf(again, p) = ShareOf(stored.payedFor, p)
  BY DEF TypeOK, ReopeningKeepsShares
<1> DEFINE shares == stored.payedFor
           values == {shares[q] : q \in DOMAIN shares}
<1>1. /\ DOMAIN shares \in SUBSET Members /\ shares \in [DOMAIN shares -> Nat]
      /\ stored.amount \in Nat
  BY SharesType DEF Transaction
<1>2. SumOver(shares) = stored.amount
  BY DEF AddsUp
<1>3. CASE Cardinality(values) > 1
  <2>1. again = shares
    BY <1>3 DEF PayedForOf, AsPayedFor, PayedForSplitCustom
  <2>2. QED
    BY <2>1
<1>4. CASE ~(Cardinality(values) > 1) /\ shares # << >>
  <2>1. DOMAIN shares # {}
    BY <1>1, <1>4, SharesOfNobody
  <2>2. again \in DivideAmount(SumOver(shares), DOMAIN shares)
    BY <1>2, <1>4 DEF PayedForOf, AsPayedFor, PayedSplitEven
  <2>3. PICK first \in DOMAIN shares : TRUE
    BY <2>1
  <2>4. \A q \in DOMAIN shares : shares[q] = shares[first]
    <3>1. SUFFICES ASSUME NEW q \in DOMAIN shares, shares[q] # shares[first]
                   PROVE  Cardinality(values) > 1
      BY <1>4
    <3>2. IsFiniteSet(values)
      <4>1. IsFiniteSet(DOMAIN shares)
        BY <1>1, PersonsFinite
      <4>2. shares \in Surjection(DOMAIN shares, values)
        BY <1>1 DEF Surjection
      <4>3. QED
        BY <4>1, <4>2, FS_Surjection
    <3>3. {shares[q], shares[first]} \in SUBSET values
      OBVIOUS
    <3>4. Cardinality({shares[q], shares[first]}) = 2
      <4> HIDE DEF shares
      <4>1. QED
        BY <3>1, TwoElements
    <3> HIDE DEF values
    <3>5. QED
      BY <3>2, <3>3, <3>4, FS_Subset, FS_CardinalityType
  <2>5. shares[first] \in Nat
    BY <1>1
  <2> HIDE DEF shares
  <2>6. again = shares
    BY <1>1, <2>1, <2>2, <2>4, <2>5, DividedAgain
  <2>7. QED
    BY <2>6 DEF shares
<1>5. CASE shares = << >>
  <2>1. SumOver(shares) = 0
    <3>1. DOMAIN shares = {}
      BY <1>5
    <3>2. Total(shares, {}) = 0
      BY FS_EmptySet, TotalByFirst
    <3>3. QED
      BY <3>1, <3>2 DEF SumOver
  <2>2. ~(Cardinality(values) > 1)
    <3>1. values = {}
      BY <1>5
    <3>2. QED
      BY <3>1, FS_EmptySet
  <2>3. again \in DivideAmount(0, Members)
    BY <1>2, <1>5, <2>1, <2>2 DEF PayedForOf, AsPayedFor, PayedSplitEven
  <2>4. again = [q \in Members |-> 0]
    <3> DEFINE none == [q \in Members |-> 0]
    <3>1. Members \in SUBSET Members /\ Members # {} /\ 0 \in Int /\ {} \in SUBSET Members
      BY ConstantsAssumption
    <3>2. IsFiniteSet(Members) /\ Cardinality(Members) \in Nat
      BY PersonsFinite
    <3>3. \A q \in Members : none[q] = 0 + (IF q \in {} THEN 1 ELSE 0)
      OBVIOUS
    <3>4. none \in [Members -> Nat] /\ \A q \in Members : none[q] = 0
      OBVIOUS
    <3> HIDE DEF none
    <3>5. Total(none, Members) = 0 * Cardinality(Members) + Cardinality({})
      BY <3>1, <3>2, <3>3, TotalOfEven
    <3>6. SumOver(none) = 0
      BY <3>2, <3>4, <3>5, FS_EmptySet DEF SumOver
    <3>7. QED
      BY <2>3, <3>1, <3>4, <3>6, DividedAgain DEF none
  <2>5. QED
    BY <1>5, <2>4 DEF ShareOf
<1>6. QED
  BY <1>3, <1>4, <1>5

\* For any beneficiaries: opening a transaction that adds up and saving it again
\* moves no money between them.  (TransactionBloc, divideAmount.)
THEOREM SharesSurviveReopening == Spec => []ReopeningKeepsShares
<1>1. Inv => ReopeningKeepsShares
  BY TypedReopeningKeepsShares DEF Inv
<1>2. QED
  BY <1>1, InvAlways, PTL

LEMMA TypedReopeningKeepsPayers == TypeOK => ReopeningKeepsPayers
<1> SUFFICES ASSUME stored \in Transaction, AddsUp,
                    \A i \in DOMAIN stored.payedBy : stored.payedBy[i].amount > 0
             PROVE  AsPayedBy(PayedByOf(stored.payedBy), stored.amount) = stored.payedBy
  BY DEF TypeOK, ReopeningKeepsPayers
<1> DEFINE payers == stored.payedBy
           n == Len(payers)
<1>1. payers \in Seq(Payer) /\ n \in Nat /\ DOMAIN payers = 1..n
  BY DEF Transaction
<1>2. {i \in DOMAIN payers : payers[i].amount > 0} = 1..n
  BY <1>1
<1>3. Cardinality(1..n) = n
  BY <1>1, FS_Interval
<1>4. SumOfPayers(payers) = stored.amount
  BY DEF AddsUp
<1>5. CASE n > 1
  BY <1>2, <1>3, <1>5 DEF PayedByOf, AsPayedBy, PayedByMany
<1>6. CASE n = 1
  <2>1. payers = <<payers[1]>> /\ payers[1] \in Payer
    BY <1>1, <1>6
  <2>2. PayedByOf(payers) = PayedByOne(payers[1].person)
    <3>1. payers # << >> /\ ~(Cardinality(1..n) > 1)
      BY <1>3, <1>6
    <3>2. QED
      BY <1>2, <3>1 DEF PayedByOf
  <2>3. payers[1].person # Nobody
    BY <2>1, ConstantsAssumption DEF Payer
  <2>4. stored.amount = payers[1].amount
    BY <1>4, <2>1, SumOfOnePayer
  <2>5. payers[1] = [person |-> payers[1].person, amount |-> payers[1].amount]
    BY <2>1 DEF Payer
  <2> HIDE DEF payers
  <2>6. AsPayedBy(PayedByOf(payers), stored.amount) = <<payers[1]>>
    BY <2>2, <2>3, <2>4, <2>5 DEF AsPayedBy, PayedByOne
  <2>7. QED
    BY <2>1, <2>6 DEF payers
<1>7. CASE n = 0
  <2>1. payers = << >>
    BY <1>1, <1>7
  <2>2. PayedByOf(payers) = PayedByOne(Nobody)
    BY <1>2, <1>3, <1>7, <2>1 DEF PayedByOf
  <2>3. QED
    BY <2>1, <2>2 DEF AsPayedBy, PayedByOne
<1>8. n > 1 \/ n = 1 \/ n = 0
  <2>1. \A k \in Nat : k > 1 \/ k = 1 \/ k = 0
    OBVIOUS
  <2> HIDE DEF n
  <2>2. QED
    BY <1>1, <2>1
<1>9. QED
  BY <1>5, <1>6, <1>7, <1>8

\* For any payers none of whom is listed with 0: nor does it change who payed what.
\* (TransactionBloc.)
THEOREM PayersSurviveReopening == Spec => []ReopeningKeepsPayers
<1>1. Inv => ReopeningKeepsPayers
  BY TypedReopeningKeepsPayers DEF Inv
<1>2. QED
  BY <1>1, InvAlways, PTL
===============================================================================
