------------------------------ MODULE TotalsProofs -----------------------------
(* Sums over finite sets: what MapThenSumSet computes.  Induction is by the   *)
(* set with the fewest elements that is a counterexample.                     *)
EXTENDS Totals, TLAPS, FiniteSetTheorems, WellFoundedInduction

\* A set of naturals has a least element.
LEMMA LeastElement ==
  ASSUME NEW T \in SUBSET Nat, T # {}
  PROVE  \E m \in T : \A k \in T : m <= k
<1>1. PICK m \in T : \A k \in T : ~ (<<k, m>> \in OpToRel(<, Nat))
  BY NatLessThanWellFounded, WFMin
<1>2. \A k \in T : ~ (k < m)
  BY <1>1 DEF OpToRel
<1>3. QED
  BY <1>2

\* Among finite sets there is one with the fewest elements.
LEMMA SmallestSet ==
  ASSUME NEW D, D # {}, \A s \in D : IsFiniteSet(s)
  PROVE  \E s \in D : \A r \in D : Cardinality(s) <= Cardinality(r)
<1> DEFINE N == {Cardinality(s) : s \in D}
<1>1. N \in SUBSET Nat /\ N # {}
  BY FS_CardinalityType
<1>2. PICK m \in N : \A k \in N : m <= k
  BY <1>1, LeastElement
<1>3. QED
  BY <1>2

\* A finite set without one of its elements is smaller.
LEMMA OneLess ==
  ASSUME NEW S, IsFiniteSet(S), NEW x \in S
  PROVE  /\ IsFiniteSet(S \ {x})
         /\ Cardinality(S \ {x}) \in Nat /\ Cardinality(S) \in Nat
         /\ Cardinality(S) = Cardinality(S \ {x}) + 1
<1>1. IsFiniteSet(S \ {x}) /\ Cardinality(S \ {x}) = Cardinality(S) - 1
  BY FS_RemoveElement
<1>2. Cardinality(S \ {x}) \in Nat /\ Cardinality(S) \in Nat
  BY <1>1, FS_CardinalityType
<1>3. QED
  BY <1>1, <1>2

LEMMA OneLessIsFewer ==
  ASSUME NEW S, IsFiniteSet(S), NEW x \in S
  PROVE  ~(Cardinality(S) <= Cardinality(S \ {x}))
<1> DEFINE n == Cardinality(S)
           m == Cardinality(S \ {x})
<1>1. n \in Nat /\ m \in Nat /\ n = m + 1
  BY OneLess
<1> HIDE DEF n, m
<1>2. ~(n <= m)
  BY <1>1
<1>3. QED
  BY <1>2 DEF n, m

\* The element of s that is added first.
First(s) == CHOOSE x \in s : TRUE

\* f sums b over the sets of D, one element after the other.
SumsOver(D, b, f) ==
  f = [s \in D |-> IF s = {} THEN 0 ELSE b[First(s)] + f[s \ {First(s)}]]

\* f sums b over the subsets of S.
Sums(S, b, f) == SumsOver(SUBSET S, b, f)

LEMMA FirstIn == ASSUME NEW s, s # {} PROVE First(s) \in s
  BY DEF First

\* There is such a function: it can be extended from sets of n elements to those of
\* n + 1.
LEMMA SumsExist ==
  ASSUME NEW S, IsFiniteSet(S), NEW b
  PROVE  \E f : SumsOver(SUBSET S, b, f)
<1> DEFINE Upto(n) == {s \in SUBSET S : Cardinality(s) <= n}
           D == {n \in Nat : ~ \E f : SumsOver(Upto(n), b, f)}
<1>1. ASSUME NEW s \in SUBSET S
      PROVE  IsFiniteSet(s) /\ Cardinality(s) \in Nat /\ Cardinality(s) <= Cardinality(S)
  BY FS_Subset, FS_CardinalityType
<1>2. \E f : SumsOver(Upto(0), b, f)
  <2>1. \A s \in Upto(0) : s = {}
    BY <1>1, FS_EmptySet
  <2>2. [s \in Upto(0) |-> 0] = 
        [s \in Upto(0) |-> IF s = {} THEN 0
                            ELSE b[First(s)] + [r \in Upto(0) |-> 0][s \ {First(s)}]]
    BY <2>1
  <2>3. QED
    BY <2>2 DEF SumsOver
<1>3. ASSUME NEW n \in Nat, NEW f, SumsOver(Upto(n), b, f)
      PROVE  \E g : SumsOver(Upto(n + 1), b, g)
  <2> DEFINE g == [s \in Upto(n + 1) |-> IF s = {} THEN 0 ELSE b[First(s)] + f[s \ {First(s)}]]
  <2>1. \A s \in Upto(n) : s \in Upto(n + 1) /\ g[s] = f[s]
    <3>1. \A s \in Upto(n) : s \in Upto(n + 1)
      BY <1>1
    <3>2. \A s \in Upto(n) :
            f[s] = IF s = {} THEN 0 ELSE b[First(s)] + f[s \ {First(s)}]
      <4> HIDE DEF Upto
      <4> QED
        BY <1>3 DEF SumsOver
    <3> HIDE DEF Upto
    <3> QED
      BY <3>1, <3>2
  <2>2. ASSUME NEW s \in Upto(n + 1), s # {}
        PROVE  s \ {First(s)} \in Upto(n)
    BY <1>1, <2>2, FirstIn, OneLess
  <2>3. \A s \in Upto(n + 1) :
          g[s] = IF s = {} THEN 0 ELSE b[First(s)] + g[s \ {First(s)}]
    BY <2>1, <2>2
  <2>4. g = [s \in Upto(n + 1) |-> g[s]]
    OBVIOUS
  <2>5. SumsOver(Upto(n + 1), b, g)
    <3> HIDE DEF g, Upto
    <3> QED
      BY <2>3, <2>4 DEF SumsOver
  <2>6. QED
    BY <2>5
<1>4. D = {}
  <2>1. SUFFICES ASSUME D # {} PROVE FALSE
    BY <2>1
  <2>2. PICK n \in D : \A k \in D : n <= k
    BY <2>1, LeastElement
  <2> HIDE DEF Upto
  <2>3. n # 0
    BY <1>2, <2>2
  <2>4. n - 1 \in Nat /\ n - 1 \notin D /\ (n - 1) + 1 = n
    BY <2>2, <2>3
  <2>5. QED
    BY <1>3, <2>2, <2>4
<1>5. Upto(Cardinality(S)) = SUBSET S /\ Cardinality(S) \in Nat
  BY <1>1, FS_CardinalityType
<1>6. QED
  BY <1>4, <1>5

\* a and b agree on the elements of R.
Agree(a, b, R) == \A x \in R : a[x] = b[x]

\* Two of them agree where both are defined, if what they sum agrees.
LEMMA SumsAgree ==
  ASSUME NEW R, IsFiniteSet(R), NEW S, NEW T, R \subseteq S, R \subseteq T,
         NEW a, NEW b, Agree(a, b, R),
         NEW f, Sums(S, a, f), NEW g, Sums(T, b, g)
  PROVE  f[R] = g[R]
<1> DEFINE D == {s \in SUBSET R : f[s] # g[s]}
<1>1. SUFFICES ASSUME D # {} PROVE FALSE
  BY <1>1
<1>2. \A s \in D : IsFiniteSet(s)
  BY FS_Subset
<1>3. PICK s \in D : \A r \in D : Cardinality(s) <= Cardinality(r)
  <2> HIDE DEF D
  <2> QED
    BY <1>1, <1>2, SmallestSet
<1>4. /\ f[s] = IF s = {} THEN 0 ELSE a[First(s)] + f[s \ {First(s)}]
      /\ g[s] = IF s = {} THEN 0 ELSE b[First(s)] + g[s \ {First(s)}]
  BY DEF Sums, SumsOver
<1>5. s # {}
  BY <1>4
<1> DEFINE r == s \ {First(s)}
<1>6. First(s) \in s /\ IsFiniteSet(s) /\ r \in SUBSET R
  BY <1>2, <1>5, FirstIn
<1>7. ~(Cardinality(s) <= Cardinality(r))
  <2> HIDE DEF D
  <2>1. Cardinality(r) \in Nat /\ Cardinality(s) = Cardinality(r) + 1
    BY <1>6, OneLess
  <2>2. QED
    BY <2>1
<1>8. f[r] = g[r]
  <2> HIDE DEF r
  <2>1. r \notin D
    BY <1>3, <1>7
  <2>2. QED
    BY <1>6, <2>1
<1>9. QED
  BY <1>4, <1>6, <1>8 DEF Agree

\* MapThenSumSet is one.
LEMMA TotalSums ==
  ASSUME NEW S, IsFiniteSet(S), NEW b
  PROVE  \E f : Sums(S, b, f) /\ Total(b, S) = f[S]
<1> DEFINE f == CHOOSE f : Sums(S, b, f)
<1>1. Sums(S, b, f)
  BY SumsExist DEF Sums
<1>2. Total(b, S) = f[S]
  BY DEF Total, MapThenSumSet, MapThenFoldSet, Sums, SumsOver, First
<1>3. QED
  BY <1>1, <1>2

\* The sum over no elements, and over the first and the others.
LEMMA TotalByFirst ==
  ASSUME NEW S, IsFiniteSet(S), NEW b
  PROVE  Total(b, S) = IF S = {} THEN 0 ELSE b[First(S)] + Total(b, S \ {First(S)})
<1>1. PICK f : Sums(S, b, f) /\ Total(b, S) = f[S]
  BY TotalSums
<1>2. f[S] = IF S = {} THEN 0 ELSE b[First(S)] + f[S \ {First(S)}]
  BY <1>1 DEF Sums, SumsOver
<1>3. CASE S # {}
  <2> DEFINE R == S \ {First(S)}
  <2>1. IsFiniteSet(R)
    BY <1>3, FirstIn, OneLess
  <2>2. PICK g : Sums(R, b, g) /\ Total(b, R) = g[R]
    BY <2>1, TotalSums
  <2>3. f[R] = g[R]
    <3>1. R \subseteq S /\ R \subseteq R /\ Agree(b, b, R)
      BY DEF Agree
    <3> HIDE DEF R
    <3>2. QED
      BY <1>1, <2>1, <2>2, <3>1, SumsAgree
  <2>4. QED
    BY <1>1, <1>2, <1>3, <2>2, <2>3
<1>4. QED
  BY <1>1, <1>2, <1>3

\* A sum depends on what it adds up alone.
LEMMA TotalOfSame ==
  ASSUME NEW S, IsFiniteSet(S), NEW a, NEW b, \A x \in S : a[x] = b[x]
  PROVE  Total(a, S) = Total(b, S)
<1>1. PICK f : Sums(S, a, f) /\ Total(a, S) = f[S]
  BY TotalSums
<1>2. PICK g : Sums(S, b, g) /\ Total(b, S) = g[S]
  BY TotalSums
<1>3. S \subseteq S /\ Agree(a, b, S)
  BY DEF Agree
<1>4. f[S] = g[S]
  BY <1>1, <1>2, <1>3, SumsAgree
<1>5. QED
  BY <1>1, <1>2, <1>4

\* The sum of integers is one.
LEMMA TotalInt ==
  ASSUME NEW S, IsFiniteSet(S), NEW b, \A x \in S : b[x] \in Int
  PROVE  Total(b, S) \in Int
<1> DEFINE D == {s \in SUBSET S : Total(b, s) \notin Int}
<1>1. SUFFICES ASSUME D # {} PROVE FALSE
  BY <1>1
<1>2. \A s \in SUBSET S : IsFiniteSet(s)
  BY FS_Subset
<1>3. PICK s \in D : \A r \in D : Cardinality(s) <= Cardinality(r)
  BY <1>1, <1>2, SmallestSet
<1>4. Total(b, s) = IF s = {} THEN 0 ELSE b[First(s)] + Total(b, s \ {First(s)})
  BY <1>2, TotalByFirst
<1>5. s # {}
  BY <1>4
<1>6. First(s) \in s
  BY <1>5, FirstIn
<1>7. ~(Cardinality(s) <= Cardinality(s \ {First(s)}))
  BY <1>2, <1>6, OneLess
<1>8. Total(b, s \ {First(s)}) \in Int
  BY <1>3, <1>7
<1>9. b[First(s)] \in Int
  BY <1>6
<1>10. QED
  BY <1>4, <1>5, <1>8, <1>9

\* In whatever order: any element can be added first.
LEMMA TotalByAny ==
  ASSUME NEW S, IsFiniteSet(S), NEW b, \A x \in S : b[x] \in Int, NEW x \in S
  PROVE  Total(b, S) = b[x] + Total(b, S \ {x})
<1> DEFINE D == {s \in SUBSET S : \E y \in s : Total(b, s) # b[y] + Total(b, s \ {y})}
<1>1. SUFFICES ASSUME D # {} PROVE FALSE
  BY <1>1
<1>2. \A s \in SUBSET S : IsFiniteSet(s) /\ Total(b, s) \in Int
  BY FS_Subset, TotalInt
<1>3. PICK s \in D : \A r \in D : Cardinality(s) <= Cardinality(r)
  BY <1>1, <1>2, SmallestSet
<1>4. PICK y \in s : Total(b, s) # b[y] + Total(b, s \ {y})
  OBVIOUS
<1> DEFINE z == First(s)
<1>5. z \in s /\ Total(b, s) = b[z] + Total(b, s \ {z})
  BY <1>2, FirstIn, TotalByFirst
<1>6. y # z
  BY <1>4, <1>5
<1> HIDE DEF z
<1>7. s \ {z} \notin D /\ s \ {y} \notin D
  <2>1. \A r \in s : ~(Cardinality(s) <= Cardinality(s \ {r}))
    BY <1>2, OneLess
  <2>2. QED
    BY <1>3, <1>5, <2>1
<1>8. /\ Total(b, s \ {z}) = b[y] + Total(b, (s \ {z}) \ {y})
      /\ Total(b, s \ {y}) = b[z] + Total(b, (s \ {y}) \ {z})
  BY <1>5, <1>6, <1>7
<1> DEFINE rest == Total(b, (s \ {z}) \ {y})
<1>9. (s \ {z}) \ {y} = (s \ {y}) \ {z}
  OBVIOUS
<1>10. b[y] \in Int /\ b[z] \in Int /\ rest \in Int
  BY <1>2, <1>5
<1>11. Total(b, s \ {z}) = b[y] + rest /\ Total(b, s \ {y}) = b[z] + rest
  BY <1>8, <1>9
<1> HIDE DEF rest
<1>12. Total(b, s) = b[z] + (b[y] + rest) /\ Total(b, s) # b[y] + (b[z] + rest)
  BY <1>4, <1>5, <1>11
<1>13. QED
  BY <1>10, <1>12

\* A sum of what is not negative is at least each of its parts; what is not positive
\* mirrors that.
LEMMA TotalOfCredits ==
  ASSUME NEW S, IsFiniteSet(S), NEW b, \A x \in S : b[x] \in Nat
  PROVE  \A x \in S : b[x] <= Total(b, S)
<1>1. ASSUME NEW s \in SUBSET S
      PROVE  IsFiniteSet(s) /\ Total(b, s) \in Int /\ \A x \in s : b[x] \in Int
  BY FS_Subset, TotalInt
<1> DEFINE D == {s \in SUBSET S : Total(b, s) < 0}
<1>2. D = {}
  <2>1. SUFFICES ASSUME D # {} PROVE FALSE
    BY <2>1
  <2>2. PICK s \in D : \A r \in D : Cardinality(s) <= Cardinality(r)
    BY <1>1, <2>1, SmallestSet
  <2>3. Total(b, s) = IF s = {} THEN 0 ELSE b[First(s)] + Total(b, s \ {First(s)})
    BY <1>1, TotalByFirst
  <2>4. s # {}
    BY <2>3
  <2>5. First(s) \in s /\ ~(Cardinality(s) <= Cardinality(s \ {First(s)}))
    BY <1>1, <2>4, FirstIn, OneLess
  <2>6. ~(Total(b, s \ {First(s)}) < 0)
    BY <2>2, <2>5
  <2>7. Total(b, s \ {First(s)}) \in Int /\ b[First(s)] \in Nat
    BY <1>1, <2>5
  <2>8. QED
    BY <2>2, <2>3, <2>4, <2>6, <2>7
<1>3. ASSUME NEW x \in S PROVE b[x] <= Total(b, S)
  <2>1. Total(b, S) = b[x] + Total(b, S \ {x})
    BY TotalByAny
  <2>2. Total(b, S \ {x}) \in Int /\ ~(Total(b, S \ {x}) < 0)
    BY <1>1, <1>2
  <2>3. QED
    BY <2>1, <2>2
<1>4. QED
  BY <1>3

LEMMA TotalOfDebts ==
  ASSUME NEW S, IsFiniteSet(S), NEW b, \A x \in S : b[x] \in Int /\ b[x] <= 0
  PROVE  \A x \in S : Total(b, S) <= b[x]
<1>1. ASSUME NEW s \in SUBSET S
      PROVE  IsFiniteSet(s) /\ Total(b, s) \in Int /\ \A x \in s : b[x] \in Int
  BY FS_Subset, TotalInt
<1> DEFINE D == {s \in SUBSET S : Total(b, s) > 0}
<1>2. D = {}
  <2>1. SUFFICES ASSUME D # {} PROVE FALSE
    BY <2>1
  <2>2. PICK s \in D : \A r \in D : Cardinality(s) <= Cardinality(r)
    BY <1>1, <2>1, SmallestSet
  <2>3. Total(b, s) = IF s = {} THEN 0 ELSE b[First(s)] + Total(b, s \ {First(s)})
    BY <1>1, TotalByFirst
  <2>4. s # {}
    BY <2>3
  <2>5. First(s) \in s /\ ~(Cardinality(s) <= Cardinality(s \ {First(s)}))
    BY <1>1, <2>4, FirstIn, OneLess
  <2>6. ~(Total(b, s \ {First(s)}) > 0)
    BY <2>2, <2>5
  <2>7. Total(b, s \ {First(s)}) \in Int /\ b[First(s)] \in Int /\ b[First(s)] <= 0
    BY <1>1, <2>5
  <2>8. QED
    BY <2>2, <2>3, <2>4, <2>6, <2>7
<1>3. ASSUME NEW x \in S PROVE Total(b, S) <= b[x]
  <2>1. Total(b, S) = b[x] + Total(b, S \ {x})
    BY TotalByAny
  <2>2. Total(b, S \ {x}) \in Int /\ ~(Total(b, S \ {x}) > 0)
    BY <1>1, <1>2
  <2>3. QED
    BY <2>1, <2>2
<1>4. QED
  BY <1>3

\* The same amount for everybody, and one more for some of them.
LEMMA TotalOfEven ==
  ASSUME NEW S, IsFiniteSet(S), NEW slice \in Int, NEW lucky \in SUBSET S, NEW b,
         \A x \in S : b[x] = slice + (IF x \in lucky THEN 1 ELSE 0)
  PROVE  Total(b, S) = slice * Cardinality(S) + Cardinality(lucky)
<1> DEFINE n(s)    == Cardinality(s)
           some(s) == Cardinality(s \cap lucky)
           D == {s \in SUBSET S : Total(b, s) # slice * n(s) + some(s)}
<1>1. SUFFICES ASSUME D # {} PROVE FALSE
  <2>1. S \in SUBSET S /\ S \cap lucky = lucky
    OBVIOUS
  <2>2. S \notin D
    BY <1>1
  <2>3. QED
    BY <2>1, <2>2
<1>2. ASSUME NEW s \in SUBSET S
      PROVE  IsFiniteSet(s) /\ IsFiniteSet(s \cap lucky) /\ n(s) \in Nat /\ some(s) \in Nat
  <2>1. IsFiniteSet(s) /\ s \cap lucky \in SUBSET S
    BY FS_Subset
  <2>2. IsFiniteSet(s \cap lucky)
    BY <2>1, FS_Subset
  <2>3. QED
    BY <2>1, <2>2, FS_CardinalityType
<1>3. PICK s \in D : \A r \in D : n(s) <= n(r)
  <2> HIDE DEF D
  <2>1. \A s \in D : IsFiniteSet(s)
    BY <1>2 DEF D
  <2>2. QED
    BY <1>1, <2>1, SmallestSet
<1>4. Total(b, s) = IF s = {} THEN 0 ELSE b[First(s)] + Total(b, s \ {First(s)})
  BY <1>2, TotalByFirst
<1>5. s # {}
  <2>1. SUFFICES ASSUME s = {} PROVE FALSE
    OBVIOUS
  <2>2. n(s) = 0 /\ some(s) = 0
    BY <2>1, FS_EmptySet
  <2>3. slice * 0 + 0 = 0
    OBVIOUS
  <2>4. Total(b, s) # slice * n(s) + some(s)
    BY <1>3
  <2> HIDE DEF n, some
  <2>5. QED
    BY <1>4, <2>1, <2>2, <2>3, <2>4
<1> DEFINE x == First(s)
           r == s \ {x}
<1>6. x \in s /\ x \in S /\ r \in SUBSET S
  BY <1>5, FirstIn
<1>7. n(s) = n(r) + 1 /\ n(r) \in Nat
  BY <1>2, <1>6, OneLess
<1>8. some(s) = some(r) + (IF x \in lucky THEN 1 ELSE 0) /\ some(r) \in Nat
  <2>1. some(r) \in Nat
    BY <1>2, <1>6
  <2>2. CASE x \in lucky
    <3>1. x \in s \cap lucky /\ r \cap lucky = (s \cap lucky) \ {x}
      BY <1>6, <2>2
    <3>2. IsFiniteSet(s \cap lucky)
      BY <1>2
    <3>3. Cardinality(s \cap lucky) = Cardinality((s \cap lucky) \ {x}) + 1
      <4> HIDE DEF x
      <4> QED
        BY <3>1, <3>2, OneLess
    <3>4. some(s) = some(r) + 1
      BY <3>1, <3>3
    <3> HIDE DEF some, x
    <3>5. QED
      BY <2>1, <2>2, <3>4
  <2>3. CASE x \notin lucky
    <3>1. r \cap lucky = s \cap lucky
      BY <2>3
    <3>2. some(s) = some(r)
      BY <3>1
    <3> HIDE DEF some, x
    <3>3. QED
      BY <2>1, <2>3, <3>2
  <2>4. QED
    BY <2>2, <2>3
<1>9. Total(b, r) = slice * n(r) + some(r)
  <2>1. r \notin D
    <3> HIDE DEF D, r, n
    <3> QED
      BY <1>2, <1>3, <1>7, <1>6
  <2>2. QED
    BY <1>6, <2>1
<1>10. Total(b, s) = b[x] + Total(b, r)
  BY <1>4, <1>5
<1>11. b[x] = slice + (IF x \in lucky THEN 1 ELSE 0)
  BY <1>6
<1>12. slice * (n(r) + 1) = slice * n(r) + slice /\ slice * n(r) \in Int
  <2>1. \A k \in Nat : slice * (k + 1) = slice * k + slice /\ slice * k \in Int
    OBVIOUS
  <2>2. QED
    BY <1>7, <2>1
<1>13. Total(b, s) # slice * n(s) + some(s)
  BY <1>3
<1> HIDE DEF n, some, x, r
<1>14. Total(b, s) = slice * n(s) + some(s)
  BY <1>7, <1>8, <1>9, <1>10, <1>11, <1>12
<1>15. QED
  BY <1>13, <1>14

\* A sum is that over a part and that over the rest.
LEMMA TotalSplit ==
  ASSUME NEW S, IsFiniteSet(S), NEW b, \A x \in S : b[x] \in Int, NEW T \in SUBSET S
  PROVE  /\ Total(b, S) = Total(b, T) + Total(b, S \ T)
         /\ Total(b, S) \in Int /\ Total(b, T) \in Int /\ Total(b, S \ T) \in Int
<1>1. ASSUME NEW s \in SUBSET S
      PROVE  IsFiniteSet(s) /\ Total(b, s) \in Int /\ \A x \in s : b[x] \in Int
  BY FS_Subset, TotalInt
<1> DEFINE D == {s \in SUBSET S : Total(b, s) # Total(b, s \cap T) + Total(b, s \ T)}
<1>2. D = {}
  <2>1. SUFFICES ASSUME D # {} PROVE FALSE
    BY <2>1
  <2>2. PICK s \in D : \A r \in D : Cardinality(s) <= Cardinality(r)
    BY <1>1, <2>1, SmallestSet
  <2>3. s # {}
    <3>1. SUFFICES ASSUME s = {} PROVE FALSE
      OBVIOUS
    <3>2. Total(b, {}) = 0
      BY FS_EmptySet, TotalByFirst
    <3>3. s \cap T = {} /\ s \ T = {}
      BY <3>1
    <3>4. QED
      BY <2>2, <3>1, <3>2, <3>3
  <2> DEFINE x == First(s)
             r == s \ {x}
  <2>4. x \in s /\ b[x] \in Int /\ r \in SUBSET S
    BY <1>1, <2>3, FirstIn
  <2>5. ~(Cardinality(s) <= Cardinality(r))
    <3> HIDE DEF x
    <3> QED
      BY <1>1, <2>4, OneLessIsFewer
  <2>6. Total(b, r) = Total(b, r \cap T) + Total(b, r \ T)
    <3> HIDE DEF r
    <3> QED
      BY <2>2, <2>4, <2>5
  <2>7. Total(b, s) = b[x] + Total(b, r)
    BY <1>1, <2>4, TotalByAny
  <2>8. Total(b, s) # Total(b, s \cap T) + Total(b, s \ T)
    BY <2>2
  <2>9. s \cap T \in SUBSET S /\ s \ T \in SUBSET S
    OBVIOUS
  <2>10. r \cap T \in SUBSET S /\ r \ T \in SUBSET S
    OBVIOUS
  <2>11. CASE x \in T
    <3>1. x \in s \cap T /\ (s \cap T) \ {x} = r \cap T /\ s \ T = r \ T
      BY <2>4, <2>11
    <3> HIDE DEF x, r
    <3>2. Total(b, s \cap T) = b[x] + Total(b, (s \cap T) \ {x})
      BY <1>1, <2>9, <3>1, TotalByAny
    <3>3. Total(b, r \cap T) \in Int /\ Total(b, r \ T) \in Int
      BY <1>1, <2>10
    <3>4. Total(b, s \cap T) = b[x] + Total(b, r \cap T) /\ Total(b, s \ T) = Total(b, r \ T)
      BY <3>1, <3>2
    <3>5. Total(b, s) = b[x] + Total(b, r \cap T) + Total(b, r \ T)
      BY <2>4, <2>6, <2>7, <3>3
    <3>6. QED
      BY <2>4, <2>8, <3>3, <3>4, <3>5
  <2>12. CASE x \notin T
    <3>1. x \in s \ T /\ (s \ T) \ {x} = r \ T /\ s \cap T = r \cap T
      BY <2>4, <2>12
    <3> HIDE DEF x, r
    <3>2. Total(b, s \ T) = b[x] + Total(b, (s \ T) \ {x})
      BY <1>1, <2>9, <3>1, TotalByAny
    <3>3. Total(b, r \cap T) \in Int /\ Total(b, r \ T) \in Int
      BY <1>1, <2>10
    <3>4. Total(b, s \cap T) = Total(b, r \cap T) /\ Total(b, s \ T) = b[x] + Total(b, r \ T)
      BY <3>1, <3>2
    <3>5. Total(b, s) = Total(b, r \cap T) + (b[x] + Total(b, r \ T))
      BY <2>4, <2>6, <2>7, <3>3
    <3>6. QED
      BY <2>4, <2>8, <3>3, <3>4, <3>5
  <2>13. QED
    BY <2>11, <2>12
<1>3. S \notin D /\ S \cap T = T
  BY <1>2
<1>4. S \in SUBSET S /\ S \ T \in SUBSET S
  OBVIOUS
<1>5. QED
  BY <1>1, <1>3, <1>4

\* Nothing for nobody in S.
LEMMA TotalOfNothing ==
  ASSUME NEW S, IsFiniteSet(S), NEW b, \A x \in S : b[x] = 0
  PROVE  Total(b, S) = 0
<1>1. 0 \in Int /\ {} \in SUBSET S /\ \A x \in S : b[x] = 0 + (IF x \in {} THEN 1 ELSE 0)
  OBVIOUS
<1>2. Total(b, S) = 0 * Cardinality(S) + Cardinality({})
  BY <1>1, TotalOfEven
<1>3. QED
  BY <1>2, FS_CardinalityType, FS_EmptySet

\* What is nothing outside of T adds up to what it is in T.
LEMMA TotalOfPart ==
  ASSUME NEW S, IsFiniteSet(S), NEW T \in SUBSET S, NEW a, NEW b,
         \A x \in S : a[x] \in Int, \A x \in T : a[x] = b[x],
         \A x \in S \ T : a[x] = 0
  PROVE  Total(a, S) = Total(b, T)
<1>1. Total(a, S) = Total(a, T) + Total(a, S \ T) /\ Total(a, T) \in Int
  BY TotalSplit
<1>2. IsFiniteSet(T) /\ IsFiniteSet(S \ T)
  BY FS_Subset
<1>3. Total(a, S \ T) = 0
  BY <1>2, TotalOfNothing
<1>4. Total(a, T) = Total(b, T)
  BY <1>2, TotalOfSame
<1>5. QED
  BY <1>1, <1>3, <1>4

LEMMA TotalOfDifference ==
  ASSUME NEW S, IsFiniteSet(S), NEW a, NEW b, NEW c,
         \A x \in S : a[x] \in Int /\ b[x] \in Int /\ c[x] = a[x] - b[x]
  PROVE  Total(c, S) = Total(a, S) - Total(b, S)
<1> DEFINE D == {s \in SUBSET S : Total(c, s) # Total(a, s) - Total(b, s)}
<1>1. SUFFICES ASSUME D # {} PROVE FALSE
  <2>1. S \in SUBSET S /\ S \notin D
    BY <1>1
  <2>2. QED
    BY <2>1
<1>2. ASSUME NEW s \in SUBSET S
      PROVE  IsFiniteSet(s) /\ Total(a, s) \in Int /\ Total(b, s) \in Int
  BY FS_Subset, TotalInt
<1>3. PICK s \in D : \A r \in D : Cardinality(s) <= Cardinality(r)
  BY <1>1, <1>2, SmallestSet
<1>4. ASSUME NEW f
      PROVE  Total(f, s) = IF s = {} THEN 0 ELSE f[First(s)] + Total(f, s \ {First(s)})
  BY <1>2, TotalByFirst
<1>5. s # {}
  <2>1. SUFFICES ASSUME s = {} PROVE FALSE
    OBVIOUS
  <2>2. Total(a, s) = 0 /\ Total(b, s) = 0 /\ Total(c, s) = 0
    BY <1>4, <2>1
  <2>3. QED
    BY <1>3, <2>2
<1> DEFINE x == First(s)
           r == s \ {x}
<1>6. x \in s /\ r \in SUBSET S /\ a[x] \in Int /\ b[x] \in Int /\ c[x] = a[x] - b[x]
  BY <1>5, FirstIn
<1>7. Total(c, r) = Total(a, r) - Total(b, r)
  <2>1. ~(Cardinality(s) <= Cardinality(r))
    <3> HIDE DEF x
    <3> QED
      BY <1>2, <1>6, OneLessIsFewer
  <2> HIDE DEF r
  <2>2. QED
    BY <1>3, <1>6, <2>1
<1>8. /\ Total(a, s) = a[x] + Total(a, r) /\ Total(b, s) = b[x] + Total(b, r)
      /\ Total(c, s) = c[x] + Total(c, r)
  BY <1>4, <1>5
<1>9. Total(a, r) \in Int /\ Total(b, r) \in Int
  BY <1>2, <1>6
<1>10. Total(c, s) # Total(a, s) - Total(b, s)
  BY <1>3
<1> HIDE DEF x, r
<1>11. QED
  BY <1>6, <1>7, <1>8, <1>9, <1>10

\* Elements may be given other names.
LEMMA TotalRenamed ==
  ASSUME NEW S, IsFiniteSet(S), NEW p, \A x, y \in S : p[x] = p[y] => x = y,
         NEW e, NEW b, \A x \in S : e[p[x]] \in Int /\ b[x] = e[p[x]]
  PROVE  Total(b, S) = Total(e, {p[x] : x \in S})
<1> DEFINE Names(s) == {p[x] : x \in s}
           D == {s \in SUBSET S : Total(b, s) # Total(e, Names(s))}
<1>1. SUFFICES ASSUME D # {} PROVE FALSE
  <2>1. S \in SUBSET S /\ S \notin D
    BY <1>1
  <2>2. QED
    BY <2>1
<1>2. ASSUME NEW s \in SUBSET S
      PROVE  IsFiniteSet(s) /\ IsFiniteSet(Names(s)) /\ \A y \in Names(s) : e[y] \in Int
  <2>1. IsFiniteSet(s)
    BY FS_Subset
  <2>2. [x \in s |-> p[x]] \in Surjection(s, Names(s))
    BY DEF Surjection
  <2>3. IsFiniteSet(Names(s))
    <3> HIDE DEF Names
    <3> QED
      BY <2>1, <2>2, FS_Surjection
  <2>4. \A y \in Names(s) : e[y] \in Int
    OBVIOUS
  <2>5. QED
    BY <2>1, <2>3, <2>4
<1>3. PICK s \in D : \A r \in D : Cardinality(s) <= Cardinality(r)
  <2>1. \A s \in D : IsFiniteSet(s)
    BY <1>2
  <2> HIDE DEF D
  <2>2. QED
    BY <1>1, <2>1, SmallestSet
<1>4. s # {}
  <2>1. SUFFICES ASSUME s = {} PROVE FALSE
    OBVIOUS
  <2>2. Names(s) = {} /\ Total(b, {}) = 0 /\ Total(e, {}) = 0
    BY <2>1, FS_EmptySet, TotalByFirst
  <2>3. Total(b, s) # Total(e, Names(s))
    BY <1>3
  <2> HIDE DEF Names
  <2>4. QED
    BY <2>1, <2>2, <2>3
<1> DEFINE x == First(s)
           r == s \ {x}
<1>5. x \in s /\ r \in SUBSET S /\ e[p[x]] \in Int /\ b[x] = e[p[x]]
  BY <1>4, FirstIn
<1>6. Names(s) \ {p[x]} = Names(r) /\ p[x] \in Names(s)
  <2> HIDE DEF x
  <2> QED
    BY <1>5
<1>7. Total(b, r) = Total(e, Names(r))
  <2>1. ~(Cardinality(s) <= Cardinality(r))
    <3> HIDE DEF x, Names
    <3> QED
      BY <1>2, <1>5, OneLessIsFewer
  <2> HIDE DEF r, Names
  <2>2. QED
    BY <1>3, <1>5, <2>1
<1>8. Total(b, s) = b[x] + Total(b, r)
  BY <1>2, <1>4, TotalByFirst
<1>9. Total(e, Names(s)) = e[p[x]] + Total(e, Names(s) \ {p[x]})
  <2> HIDE DEF Names, x
  <2> QED
    BY <1>2, <1>6, TotalByAny
<1>10. Total(b, s) # Total(e, Names(s))
  BY <1>3
<1> HIDE DEF Names, x, r
<1>11. QED
  BY <1>5, <1>6, <1>7, <1>8, <1>9, <1>10

-------------------------------------------------------------------------------
(* Folds over sequences: what FoldLeft computes.                             *)

LEMMA MaxIn ==
  ASSUME NEW n \in Nat, NEW S \in SUBSET (1..n), S # {}
  PROVE  Max(S) \in S
<1> DEFINE T == {n - k : k \in S}
<1>1. T \in SUBSET Nat /\ T # {}
  <2>1. \A k \in 1..n : n - k \in Nat
    OBVIOUS
  <2>2. QED
    BY <2>1
<1>2. PICK m \in T : \A k \in T : m <= k
  BY <1>1, LeastElement
<1>3. PICK x \in S : m = n - x
  OBVIOUS
<1>4. \A y \in S : x >= y
  <2>1. TAKE y \in S
  <2>2. n - y \in T
    OBVIOUS
  <2>3. n - x <= n - y
    BY <1>2, <1>3, <2>2
  <2>4. QED
    BY <2>3
<1>5. QED
  BY <1>4 DEF Max

\* Two folds over n elements agree when they agree on none, and on the whole of a part
\* whenever they agree on it without its last element.
LEMMA FoldsAgree ==
  ASSUME NEW n \in Nat, NEW f, NEW g,
         \A S \in SUBSET (1..n) :
           (S # {} => f[S \ {Max(S)}] = g[S \ {Max(S)}]) => f[S] = g[S]
  PROVE  f[1..n] = g[1..n]
<1> DEFINE D == {S \in SUBSET (1..n) : f[S] # g[S]}
<1>1. SUFFICES ASSUME D # {} PROVE FALSE
  <2>1. 1..n \in SUBSET (1..n) /\ 1..n \notin D
    BY <1>1
  <2>2. QED
    BY <2>1
<1>2. \A S \in D : IsFiniteSet(S)
  <2>1. IsFiniteSet(1..n)
    BY FS_Interval
  <2>2. QED
    BY <2>1, FS_Subset
<1>3. PICK S \in D : \A R \in D : Cardinality(S) <= Cardinality(R)
  <2> HIDE DEF D
  <2> QED
    BY <1>1, <1>2, SmallestSet
<1>4. S # {} /\ f[S \ {Max(S)}] # g[S \ {Max(S)}]
  OBVIOUS
<1>5. Max(S) \in S
  BY <1>4, MaxIn
<1>6. ~(Cardinality(S) <= Cardinality(S \ {Max(S)}))
  BY <1>2, <1>5, OneLessIsFewer
<1>7. S \ {Max(S)} \in D
  BY <1>4
<1>8. QED
  BY <1>3, <1>6, <1>7
===============================================================================
