---------------------------- MODULE TransactionForm ---------------------------
(* The editor of the mobile app: TransactionBloc of                          *)
(* mobile/lib/blocs/transaction.dart, driven by the fields of                *)
(* mobile/lib/pages/add_transaction.dart.  One transaction is created,       *)
(* saved, opened again, changed, deleted.                                    *)
(*                                                                           *)
(* Amounts are in cents.  A text that is no number is left out for the total *)
(* (it keeps the page from saving), not for the shares.  Assertions are off, *)
(* as in a release build.                                                    *)
EXTENDS Totals

CONSTANTS
  Members,     \* of the account
  Texts,       \* bound: the amounts that are typed
  RoundedDown  \* the amounts n whose text amountFromString reads as n - 1: twice
               \* ten times the double nearest to n / 100 is a little less than n

Nobody == "nobody"

ASSUME ConstantsAssumption ==
  /\ IsFiniteSet(Members)
  /\ Members # {}
  /\ Nobody \notin Members
  /\ Texts \subseteq Nat
  /\ RoundedDown \subseteq Nat \ {0}

VARIABLES
  form,    \* what TransactionLoadedState holds, Closed while no editor is open
  stored   \* the transaction the editor has just saved; NoTransaction again when
           \* the editor opens, from where `form` is all that is needed

vars == <<form, stored>>

Closed  == [open |-> FALSE]
NoTransaction == [exists |-> FALSE]

Init ==
  /\ form = Closed
  /\ stored = NoTransaction

-------------------------------------------------------------------------------
\* amountFromString of amountToString(amount).
ReadBack(amount) == IF amount \in RoundedDown THEN amount - 1 ELSE amount

Amounts == {ReadBack(text) : text \in Texts}

(* Shares.  Payers are listed in the order of a LinkedHashMap, which the     *)
(* transaction keeps; beneficiaries are a function.                          *)

SumOver(shares) == Total(shares, DOMAIN shares)

SumOfPayers(payers) == FoldLeft(LAMBDA sum, s : sum + s.amount, 0, payers)

\* Mutant: the remainder is lost.
DivideAmount_RoundedDown(amount, persons) ==
  {[p \in persons |-> amount \div Cardinality(persons)]}

\* divideAmount, whose result is shuffled: everybody gets the rounded share, and
\* as many persons as there are cents left get one more.
DivideAmount(amount, persons) ==
  LET n     == Cardinality(persons)
      slice == amount \div n
      left  == amount % n
  IN  IF persons = {}
        THEN {<< >>}
        ELSE {[p \in persons |-> slice + (IF p \in lucky THEN 1 ELSE 0)] :
                lucky \in kSubset(left, persons)}

-------------------------------------------------------------------------------
(* AbstractPayedBy and AbstractPayedFor.                                     *)

PayedByOne(person)      == [many |-> FALSE, person |-> person]
PayedByMany(payers)     == [many |-> TRUE, payers |-> payers]
PayedSplitEven(persons) == [custom |-> FALSE, persons |-> persons]
PayedForSplitCustom(shares) == [custom |-> TRUE, shares |-> shares]

\* The payers of a transaction saved with payedBy.
AsPayedBy(payedBy, amount) ==
  IF payedBy.many
    THEN payedBy.payers
    ELSE IF payedBy.person = Nobody
           THEN << >>
           ELSE << [person |-> payedBy.person, amount |-> amount] >>

\* The beneficiaries of a transaction saved with payedFor: one of these.
AsPayedFor(payedFor, amount) ==
  IF payedFor.custom THEN {payedFor.shares}
                     ELSE DivideAmount(amount, payedFor.persons)

\* Validation passes.
PayedByValid(payedBy, amount) ==
  IF payedBy.many THEN amount = SumOfPayers(payedBy.payers)
                  ELSE payedBy.person # Nobody

\* Mutant: shares may be missing.
PayedForValid_AtMost(payedFor, amount) ==
  IF payedFor.custom THEN amount >= SumOver(payedFor.shares)
                     ELSE payedFor.persons # {}

PayedForValid(payedFor, amount) ==
  IF payedFor.custom THEN amount = SumOver(payedFor.shares)
                     ELSE payedFor.persons # {}

\* Mutant: takes two payers for one.
PayedByOf_OffByOne(payers) ==
  IF Cardinality({i \in DOMAIN payers : payers[i].amount > 0}) > 2
    THEN PayedByMany(payers)
    ELSE PayedByOne(IF payers = << >> THEN Nobody ELSE payers[1].person)

\* What the constructor of TransactionBloc makes of the payers of a transaction.
PayedByOf(payers) ==
  IF Cardinality({i \in DOMAIN payers : payers[i].amount > 0}) > 1
    THEN PayedByMany(payers)
    ELSE PayedByOne(IF payers = << >> THEN Nobody ELSE payers[1].person)

\* Mutant: only looks at who has a share at all.
PayedForOf_IgnoresAmounts(shares) ==
  PayedSplitEven(IF shares = << >> THEN Members ELSE DOMAIN shares)

PayedForOf(shares) ==
  IF Cardinality({shares[p] : p \in DOMAIN shares}) > 1
    THEN PayedForSplitCustom(shares)
    ELSE PayedSplitEven(IF shares = << >> THEN Members ELSE DOMAIN shares)

-------------------------------------------------------------------------------
(* The fields.                                                               *)

Revalidated(f) ==
  [f EXCEPT !.payedByOk  = PayedByValid(f.payedBy, f.amount),
            !.payedForOk = PayedForValid(f.payedFor, f.amount)]

\* setAmount: the clone validates the old amount, then the amount changes;
\* amountLast (history) says that nothing has validated the new one.
WithAmount(f, amount) ==
  [Revalidated(f) EXCEPT !.amount = amount, !.amountLast = amount # f.amount]

\* The TransactionLoadedState of a transaction, after the page has written the
\* label and the amount into their fields, whose listeners set them again.
\* `invalid` are the fields of shares that hold no number, which keep the page
\* from saving; touched (history) says that the user changed something.
NewForm(canDelete, amount, payers, shares) ==
  LET loaded == [open |-> TRUE, canDelete |-> canDelete, hasLabel |-> canDelete,
                 amount |-> amount,
                 payedBy |-> PayedByOf(payers), payedFor |-> PayedForOf(shares),
                 payedByOk |-> FALSE, payedForOk |-> FALSE,
                 invalid |-> {}, amountLast |-> FALSE, touched |-> FALSE]
  IN  WithAmount(loaded, ReadBack(amount))

OpenNew ==
  /\ form = Closed
  /\ form' = NewForm(FALSE, 0, << >>, << >>)
  /\ stored' = NoTransaction

OpenStored ==
  /\ form = Closed
  /\ stored # NoTransaction
  /\ form' = NewForm(TRUE, stored.amount, stored.payedBy, stored.payedFor)
  /\ stored' = NoTransaction

\* Mutant: a change is not validated.
Update_NotValidated(f) ==
  /\ form # Closed
  /\ form' = [f EXCEPT !.amountLast = FALSE, !.touched = TRUE]
  /\ UNCHANGED stored

\* _update: the state is cloned, which validates it, and changed; the setters
\* of payers and beneficiaries validate what they changed again.
Update(f) ==
  /\ form # Closed
  /\ form' = [Revalidated(f) EXCEPT !.amountLast = FALSE, !.touched = TRUE]
  /\ UNCHANGED stored

SetLabel == \E hasLabel \in BOOLEAN : Update([form EXCEPT !.hasLabel = hasLabel])

SetAmount ==
  /\ form # Closed
  /\ \E amount \in Amounts :
       form' = [WithAmount(form, amount) EXCEPT !.touched = TRUE]
  /\ UNCHANGED stored

SetPayedBySingle ==
  /\ form # Closed /\ ~form.payedBy.many
  /\ \E p \in Members : Update([form EXCEPT !.payedBy = PayedByOne(p)])

SplitPayedBy ==
  /\ form # Closed /\ ~form.payedBy.many
  /\ Update([form EXCEPT !.payedBy = PayedByMany(AsPayedBy(@, form.amount))])

\* The map of payers after amounts[person] = amount.
WithPayer(payers, person, amount) ==
  LET share == [person |-> person, amount |-> amount]
  IN  IF \E i \in DOMAIN payers : payers[i].person = person
        THEN [i \in DOMAIN payers |->
                IF payers[i].person = person THEN share ELSE payers[i]]
        ELSE Append(payers, share)

SetPayedBy ==
  /\ form # Closed /\ form.payedBy.many
  /\ \E p \in Members, amount \in Amounts :
       Update([form EXCEPT
                 !.payedBy = PayedByMany(WithPayer(@.payers, p, amount)),
                 !.invalid = @ \ {<<"by", p>>}])

\* The field of a payer does not hold a number.
ClearPayedBy ==
  /\ form # Closed /\ form.payedBy.many
  /\ \E p \in Members :
       Update([form EXCEPT
                 !.payedBy = PayedByMany(
                              RemoveFirstMatch(@.payers, LAMBDA s : s.person = p)),
                 !.invalid = @ \cup {<<"by", p>>}])

SetPayedForEven ==
  /\ form # Closed /\ ~form.payedFor.custom
  /\ \E p \in Members :
       Update([form EXCEPT
                 !.payedFor = PayedSplitEven(SymDiff(@.persons, {p}))])

SplitPayedFor ==
  /\ form # Closed /\ ~form.payedFor.custom
  /\ \E shares \in AsPayedFor(form.payedFor, form.amount) :
       Update([form EXCEPT !.payedFor = PayedForSplitCustom(shares)])

SetPayedFor ==
  /\ form # Closed /\ form.payedFor.custom
  /\ \E p \in Members, amount \in Amounts :
       Update([form EXCEPT
                 !.payedFor = PayedForSplitCustom([q \in DOMAIN @.shares \cup {p} |->
                                IF q = p THEN amount ELSE @.shares[q]]),
                 !.invalid = @ \ {<<"for", p>>}])

\* The field of a beneficiary does not hold a number.
ClearPayedFor ==
  /\ form # Closed /\ form.payedFor.custom
  /\ \E p \in Members :
       Update([form EXCEPT
                 !.payedFor = PayedForSplitCustom(Restrict(@.shares, DOMAIN @.shares \ {p})),
                 !.invalid = @ \cup {<<"for", p>>}])

-------------------------------------------------------------------------------

SaveTransaction ==
  /\ form # Closed
  /\ form.invalid = {}
  /\ form.hasLabel /\ form.payedByOk /\ form.payedForOk
  /\ \E shares \in AsPayedFor(form.payedFor, form.amount) :
       stored' = [exists     |-> TRUE,
                  amount     |-> form.amount,
                  payedBy    |-> AsPayedBy(form.payedBy, form.amount),
                  payedFor   |-> shares,
                  even       |-> ~form.payedFor.custom,
                  amountLast |-> form.amountLast,
                  touched    |-> form.touched]
  /\ form' = Closed

\* The tombstone is not opened again.
DeleteTransaction ==
  /\ form # Closed
  /\ form.canDelete
  /\ form' = Closed
  /\ UNCHANGED stored

Cancel ==
  /\ form # Closed
  /\ form' = Closed
  /\ UNCHANGED stored

Next ==
  \/ OpenNew \/ OpenStored
  \/ SetLabel \/ SetAmount
  \/ SetPayedBySingle \/ SplitPayedBy \/ SetPayedBy \/ ClearPayedBy
  \/ SetPayedForEven \/ SplitPayedFor \/ SetPayedFor \/ ClearPayedFor
  \/ SaveTransaction \/ DeleteTransaction \/ Cancel

Spec == Init /\ [][Next]_vars

-------------------------------------------------------------------------------
(* Properties.                                                               *)

AddsUp ==
  /\ SumOfPayers(stored.payedBy) = stored.amount
  /\ SumOver(stored.payedFor) = stored.amount

\* What _validatePayedBy and _validatePayedFor are for: the sums paid and the
\* shares of a saved transaction both add up to its amount, whatever was typed,
\* divided and opened again in whatever order, unless the amount was the last
\* thing that changed.
SavedAddsUpUnlessAmountLast ==
  stored # NoTransaction => AddsUp \/ stored.amountLast

\* An even split (divideAmount) loses no cent and is as even as cents allow: the
\* amount of the moment of saving is used, so a late change of the amount does no
\* harm there.
EvenSplitIsExactAndFair ==
  stored # NoTransaction /\ stored.even =>
    /\ SumOver(stored.payedFor) = stored.amount
    /\ \A p, q \in DOMAIN stored.payedFor :
         stored.payedFor[p] <= stored.payedFor[q] + 1

ShareOf(shares, p) == IF p \in DOMAIN shares THEN shares[p] ELSE 0

\* Opening a transaction to correct its label does not move money between the
\* beneficiaries: for every transaction that adds up, the constructor of
\* TransactionBloc recognises an even split only where dividing the amount
\* again gives everybody what they had.
ReopeningKeepsShares ==
  stored # NoTransaction /\ AddsUp =>
    \A again \in AsPayedFor(PayedForOf(stored.payedFor), stored.amount) :
      \A p \in Members : ShareOf(again, p) = ShareOf(stored.payedFor, p)

\* Nor does it change who payed what, as long as nobody is listed with 0: one
\* payer or many are told apart by counting those with a positive amount, and the
\* only payer is taken to be the first one listed.
ReopeningKeepsPayers ==
  stored # NoTransaction /\ AddsUp
    /\ (\A i \in DOMAIN stored.payedBy : stored.payedBy[i].amount > 0) =>
      AsPayedBy(PayedByOf(stored.payedBy), stored.amount) = stored.payedBy

\* A transaction that is opened and saved again with nothing changed adds up, also
\* when the stored one does not, unless its amount is one that loses a cent when
\* the page reads it back from its own text; then it is that cent that is
\* missing.  (setAmount, initState.)
UntouchedLosesACentAtMost ==
  stored # NoTransaction /\ ~stored.touched =>
    \/ AddsUp
    \/ /\ stored.amount + 1 \in RoundedDown
       /\ {SumOfPayers(stored.payedBy), SumOver(stored.payedFor)}
            \subseteq {stored.amount, stored.amount + 1}
===============================================================================
