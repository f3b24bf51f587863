------------------------------- MODULE ListsProofs -------------------------------
(***************************************************************************)
(* What the operators of Lists return, for lists of any length.            *)
(***************************************************************************)
EXTENDS Lists, SequenceTheorems, FiniteSetTheorems, FunctionTheorems, NaturalsInduction,
        TLAPS

LEMMA LeastElement ==
  ASSUME NEW S \in SUBSET Nat, S # {}
  PROVE  \E m \in S : \A k \in S : m <= k
<1> DEFINE R == {ss \in Nat \X Nat : ss[1] < ss[2]}
<1>1. IsWellFoundedOn(R, Nat)
  BY NatLessThanWellFounded DEF OpToRel
<1>2. \A m, k \in S : <<k, m>> \notin R => m <= k
  OBVIOUS
<1> HIDE DEF R
<1>3. \E m \in S : \A k \in S : <<k, m>> \notin R
  BY <1>1, WFMin
<1>4. QED
  BY <1>2, <1>3

\* One more than the number of elements of P before k.
Place(P, before, k) == Cardinality({j \in P : <<j, k>> \in before}) + 1

\* The places of a finite ordered set are 1..n, one each, in its order.
LEMMA PlaceFacts ==
  ASSUME NEW P, IsFiniteSet(P), NEW before, Orders(before, P)
  PROVE  /\ Cardinality(P) \in Nat
         /\ \A k \in P : Place(P, before, k) \in 1..Cardinality(P)
         /\ \A j, k \in P : <<j, k>> \in before <=> Place(P, before, j) < Place(P, before, k)
         /\ \A j, k \in P : Place(P, before, j) = Place(P, before, k) => j = k
         /\ \A r \in 1..Cardinality(P) : \E k \in P : Place(P, before, k) = r
<1> DEFINE Ahead(k) == {j \in P : <<j, k>> \in before}
<1>1. Cardinality(P) \in Nat
  BY FS_CardinalityType
<1>2. \A k \in P : IsFiniteSet(Ahead(k)) /\ Cardinality(Ahead(k)) \in Nat
  <2>1. \A k \in P : Ahead(k) \in SUBSET P
    OBVIOUS
  <2>2. QED
    BY <2>1, FS_Subset, FS_CardinalityType
<1>3. ASSUME NEW k \in P
      PROVE  Cardinality(Ahead(k)) < Cardinality(P)
  <2>1. Ahead(k) \in SUBSET P /\ k \notin Ahead(k)
    BY DEF Orders
  <2>2. Cardinality(Ahead(k)) <= Cardinality(P) /\ Cardinality(Ahead(k)) # Cardinality(P)
    BY <2>1, FS_Subset
  <2>3. QED
    BY <1>1, <1>2, <2>2
<1>4. ASSUME NEW j \in P, NEW k \in P, <<j, k>> \in before
      PROVE  Cardinality(Ahead(j)) < Cardinality(Ahead(k))
  <2>1. Ahead(j) \in SUBSET Ahead(k) /\ j \in Ahead(k) /\ j \notin Ahead(j)
    BY <1>4 DEF Orders
  <2>2. Cardinality(Ahead(j)) <= Cardinality(Ahead(k))
        /\ Cardinality(Ahead(j)) # Cardinality(Ahead(k))
    BY <1>2, <2>1, FS_Subset
  <2>3. QED
    BY <1>2, <2>2
<1>5. \A k \in P : Place(P, before, k) = Cardinality(Ahead(k)) + 1
  BY DEF Place
<1> HIDE DEF Ahead
<1>6. \A k \in P : Place(P, before, k) \in 1..Cardinality(P)
  BY <1>1, <1>2, <1>3, <1>5
<1>7. \A j, k \in P : <<j, k>> \in before => Place(P, before, j) < Place(P, before, k)
  BY <1>2, <1>4, <1>5
<1> DEFINE n     == Cardinality(P)
           place == [k \in P |-> Place(P, before, k)]
<1>8. /\ \A k \in P : place[k] = Place(P, before, k)
      /\ place \in [P -> 1..n]
      /\ \A j, k \in P : <<j, k>> \in before => place[j] < place[k]
  BY <1>6, <1>7
<1> HIDE DEF n, place
<1>9. ASSUME NEW j \in P, NEW k \in P
      PROVE  /\ <<j, k>> \in before <=> place[j] < place[k]
             /\ place[j] = place[k] => j = k
  <2>1. place[j] \in Int /\ place[k] \in Int
    BY <1>8
  <2>2. CASE <<j, k>> \in before
    BY <1>8, <2>1, <2>2
  <2>3. CASE <<k, j>> \in before
    BY <1>8, <2>1, <2>3
  <2>4. CASE j = k
    BY <2>1, <2>4 DEF Orders
  <2>5. QED
    BY <2>2, <2>3, <2>4 DEF Orders
<1>10. \A r \in 1..n : \E k \in P : place[k] = r
  <2>1. place \in Injection(P, 1..n)
    BY <1>8, <1>9, Fun_IsInj
  <2>2. IsFiniteSet(1..n) /\ Cardinality(1..n) = n
    BY <1>1, FS_Interval DEF n
  <2>3. place \in Surjection(P, 1..n)
    BY <2>1, <2>2, FS_Injection DEF n
  <2>4. QED
    BY <2>3, Fun_SurjectionProperties
<1>11. ASSUME NEW j \in P, NEW k \in P
       PROVE  /\ <<j, k>> \in before <=> Place(P, before, j) < Place(P, before, k)
              /\ Place(P, before, j) = Place(P, before, k) => j = k
  <2>1. place[j] = Place(P, before, j) /\ place[k] = Place(P, before, k)
    BY <1>8
  <2>2. QED
    BY <1>9, <2>1
<1>12. \A r \in 1..Cardinality(P) : \E k \in P : Place(P, before, k) = r
  BY <1>8, <1>10, Zenon DEF n
<1>13. QED
  BY <1>1, <1>6, <1>11, <1>12

\* InOrder lists each element once, the earlier ones first.
LEMMA InOrderFacts ==
  ASSUME NEW P, IsFiniteSet(P), NEW before, Orders(before, P)
  PROVE  LET n == Cardinality(P)  at == InOrder(P, before) IN
         /\ n \in Nat /\ at \in [1..n -> P]
         /\ \A k \in P : \E r \in 1..n : at[r] = k
         /\ \A q, r \in 1..n : at[q] = at[r] => q = r
         /\ \A q, r \in 1..n : q < r => <<at[q], at[r]>> \in before
<1> DEFINE n == Cardinality(P)
           at == InOrder(P, before)
           Ordered(f) == \A q, r \in DOMAIN f : q < r => <<f[q], f[r]>> \in before
           placed == [r \in 1..n |-> CHOOSE k \in P : Place(P, before, k) = r]
<1>1. n \in Nat
  BY PlaceFacts
<1>2. placed \in [1..n -> P] /\ Ordered(placed)
  <2>1. ASSUME NEW r \in 1..n
        PROVE  placed[r] \in P /\ Place(P, before, placed[r]) = r
    BY PlaceFacts
  <2>2. QED
    BY <2>1, PlaceFacts
<1>3. at \in [1..n -> P] /\ Ordered(at)
  <2>1. at = CHOOSE f \in [1..n -> P] : Ordered(f)
    BY DEF InOrder
  <2> HIDE DEF n, at, placed, Ordered
  <2>2. QED
    BY <1>2, <2>1
<1>4. \A q, r \in 1..n : q < r => <<at[q], at[r]>> \in before
  BY <1>3
<1> HIDE DEF n, at
<1>5. \A q, r \in 1..n : at[q] = at[r] => q = r
  <2>1. ASSUME NEW q \in 1..n, NEW r \in 1..n, q < r
        PROVE  at[q] # at[r]
    BY <1>3, <1>4, <2>1 DEF Orders
  <2>2. QED
    BY <1>1, <2>1
<1>6. at \in Injection(1..n, P)
  BY <1>3, <1>5, Fun_IsInj
<1>7. IsFiniteSet(1..n) /\ Cardinality(1..n) = n
  BY <1>1, FS_Interval
<1>8. at \in Surjection(1..n, P)
  BY <1>6, <1>7, FS_Injection DEF n
<1> HIDE DEF placed, Ordered
<1>9. \A k \in P : \E r \in 1..n : at[r] = k
  BY <1>8 DEF Surjection
<1>10. QED
  BY <1>1, <1>3, <1>4, <1>5, <1>9 DEF n, at, Ordered

LEMMA AscendingOrders ==
  ASSUME NEW P \in SUBSET Int
  PROVE  Orders(Ascending(P), P)
BY DEF Orders, Ascending

\* A comprehension keeps the elements that pass the test, each where it stood
\* relative to the others, and only those.
LEMMA SelectFacts ==
  ASSUME NEW X, NEW s \in Seq(X), NEW S
  PROVE  LET t == Select(s, S) IN
         /\ t \in Seq(X)
         /\ \A r \in DOMAIN t : t[r] \in S /\ \E k \in DOMAIN s : t[r] = s[k]
         /\ \A k \in DOMAIN s : s[k] \in S => \E r \in DOMAIN t : t[r] = s[k]
         /\ (\A j, k \in DOMAIN s : s[j] = s[k] => j = k)
              => \A q, r \in DOMAIN t : t[q] = t[r] => q = r
<1> DEFINE P  == {k \in DOMAIN s : s[k] \in S}
           n  == Cardinality(P)
           at == InOrder(P, Ascending(P))
           t  == Select(s, S)
<1>1. P \in SUBSET (1..Len(s)) /\ Len(s) \in Nat /\ DOMAIN s = 1..Len(s)
  BY LenProperties
<1>2. IsFiniteSet(P)
  <2>1. IsFiniteSet(1..Len(s))
    BY <1>1, FS_Interval
  <2>2. QED
    BY <1>1, <2>1, FS_Subset
<1>3. Orders(Ascending(P), P)
  BY <1>1, AscendingOrders
<1>4. /\ n \in Nat /\ at \in [1..n -> P]
      /\ \A k \in P : \E r \in 1..n : at[r] = k
      /\ \A q, r \in 1..n : at[q] = at[r] => q = r
  BY <1>2, <1>3, InOrderFacts
<1>5. t = [r \in 1..n |-> s[at[r]]]
  BY <1>4 DEF Select
<1>6. \A k \in P : s[k] \in S /\ s[k] \in X /\ k \in DOMAIN s
  BY <1>1, ElementOfSeq
<1>7. \A k \in DOMAIN s : s[k] \in S => k \in P
  OBVIOUS
<1> HIDE DEF P, n, at, t
<1>9. t \in [1..n -> X] /\ DOMAIN t = 1..n
  BY <1>4, <1>5, <1>6
<1>10. t \in Seq(X)
  BY <1>4, <1>9, SeqDef
<1>11. \A r \in DOMAIN t : t[r] \in S /\ \E k \in DOMAIN s : t[r] = s[k]
  BY <1>4, <1>5, <1>6
<1>12. \A k \in DOMAIN s : s[k] \in S => \E r \in DOMAIN t : t[r] = s[k]
  BY <1>4, <1>5, <1>7
<1>13. ASSUME \A j, k \in DOMAIN s : s[j] = s[k] => j = k
       PROVE  \A q, r \in DOMAIN t : t[q] = t[r] => q = r
  BY <1>4, <1>5, <1>6, <1>13
<1>14. QED
  BY <1>10, <1>11, <1>12, <1>13 DEF t

\* A list all of whose elements pass the test is returned as it is.
LEMMA SelectAll ==
  ASSUME NEW X, NEW s \in Seq(X), NEW S, \A k \in DOMAIN s : s[k] \in S
  PROVE  Select(s, S) = s
<1> DEFINE n  == Len(s)
           at == InOrder(1..n, Ascending(1..n))
<1>1. n \in Nat /\ DOMAIN s = 1..n /\ s = [r \in 1..n |-> s[r]]
  BY LenProperties
<1>2. {k \in DOMAIN s : s[k] \in S} = 1..n
  BY <1>1
<1> HIDE DEF n
<1>3. IsFiniteSet(1..n) /\ Cardinality(1..n) = n
  BY <1>1, FS_Interval
<1>4. Orders(Ascending(1..n), 1..n)
  BY AscendingOrders
<1>5. /\ at \in [1..n -> 1..n]
      /\ \A k \in 1..n : \E r \in 1..n : at[r] = k
      /\ \A q, r \in 1..n : q < r => at[q] < at[r]
  <2>1. /\ at \in [1..n -> 1..n]
        /\ \A k \in 1..n : \E r \in 1..n : at[r] = k
        /\ \A q, r \in 1..n : q < r => <<at[q], at[r]>> \in Ascending(1..n)
    BY <1>3, <1>4, InOrderFacts
  <2> HIDE DEF at
  <2>2. QED
    BY <2>1 DEF Ascending
<1>6. Select(s, S) = [r \in 1..n |-> s[at[r]]]
  BY <1>2, <1>5 DEF Select
<1> HIDE DEF at
<1>7. \A r \in 1..n : at[r] = r
  <2> DEFINE Moved == {r \in 1..n : at[r] # r}
  <2>1. SUFFICES ASSUME Moved # {} PROVE FALSE
    OBVIOUS
  <2>2. PICK m \in Moved : \A r \in Moved : m <= r
    <3>1. Moved \in SUBSET Nat
      BY <1>1
    <3> HIDE DEF Moved
    <3>2. QED
      BY <2>1, <3>1, LeastElement
  <2>3. \A q \in 1..(m - 1) : at[q] = q
    BY <1>1, <2>2
  <2>4. PICK q \in 1..n : at[q] = m
    BY <1>5, <2>2
  <2>5. q > m
    <3>1. q # m /\ m \in 1..n
      BY <2>2, <2>4
    <3>2. q \notin 1..(m - 1)
      BY <2>3, <2>4, <3>1
    <3>3. QED
      BY <1>1, <3>1, <3>2
  <2>6. at[m] < m
    BY <1>5, <2>2, <2>4, <2>5
  <2>7. at[at[m]] = at[m]
    BY <1>1, <1>5, <2>2, <2>3, <2>6
  <2>8. QED
    BY <1>1, <1>5, <2>2, <2>6, <2>7
<1>8. QED
  BY <1>1, <1>6, <1>7

\* A sort rearranges a list: the same elements, those before the others first.
LEMMA SortedFacts ==
  ASSUME NEW X, NEW s \in Seq(X), NEW before, Orders(before, DOMAIN s)
  PROVE  LET t == Sorted(s, before) IN
         /\ t \in Seq(X) /\ DOMAIN t = DOMAIN s
         /\ \A r \in DOMAIN t : \E k \in DOMAIN s : t[r] = s[k]
         /\ \A k \in DOMAIN s : \E r \in DOMAIN t : t[r] = s[k]
         /\ \A q, r \in DOMAIN t : q < r => \E j, k \in DOMAIN s :
              t[q] = s[j] /\ t[r] = s[k] /\ <<j, k>> \in before
         /\ (\A j, k \in DOMAIN s : s[j] = s[k] => j = k)
              => \A q, r \in DOMAIN t : t[q] = t[r] => q = r
<1> DEFINE n  == Len(s)
           at == InOrder(DOMAIN s, before)
           t  == Sorted(s, before)
<1>1. n \in Nat /\ DOMAIN s = 1..n
  BY LenProperties
<1>2. IsFiniteSet(DOMAIN s) /\ Cardinality(DOMAIN s) = n
  BY <1>1, FS_Interval
<1>3. /\ at \in [1..n -> DOMAIN s]
      /\ \A k \in DOMAIN s : \E r \in 1..n : at[r] = k
      /\ \A q, r \in 1..n : at[q] = at[r] => q = r
      /\ \A q, r \in 1..n : q < r => <<at[q], at[r]>> \in before
  BY <1>1, <1>2, InOrderFacts
<1>4. t = [r \in 1..n |-> s[at[r]]]
  BY <1>1 DEF Sorted
<1>5. \A k \in DOMAIN s : s[k] \in X
  BY <1>1, ElementOfSeq
<1> HIDE DEF n, at, t
<1>7. t \in [1..n -> X] /\ DOMAIN t = DOMAIN s
  BY <1>1, <1>3, <1>4, <1>5
<1>8. t \in Seq(X)
  BY <1>1, <1>7, SeqDef
<1>9. /\ \A r \in DOMAIN t : \E k \in DOMAIN s : t[r] = s[k]
      /\ \A k \in DOMAIN s : \E r \in DOMAIN t : t[r] = s[k]
  BY <1>1, <1>3, <1>4
<1>10. \A q, r \in DOMAIN t : q < r => \E j, k \in DOMAIN s :
         t[q] = s[j] /\ t[r] = s[k] /\ <<j, k>> \in before
  BY <1>1, <1>3, <1>4
<1>11. ASSUME \A j, k \in DOMAIN s : s[j] = s[k] => j = k
       PROVE  \A q, r \in DOMAIN t : t[q] = t[r] => q = r
  BY <1>1, <1>3, <1>4, <1>11
<1>12. QED
  BY <1>7, <1>8, <1>9, <1>10, <1>11 DEF t
=============================================================================
