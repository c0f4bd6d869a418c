--------------------------- MODULE PositionProofs ---------------------------
(***************************************************************************)
(* The positions of a list and the elements at them: what the comprehen-   *)
(* sions and the scans of the program keep, count and find, for any list.  *)
(***************************************************************************)
EXTENDS Positions, SequenceTheorems, FiniteSetTheorems, WellFoundedInduction,
        NaturalsInduction, TLAPS

-----------------------------------------------------------------------------
(* Counting positions.                                                     *)

\* A set of positions has a first one.
LEMMA LeastPosition ==
  ASSUME NEW T \in SUBSET Nat, T # {}
  PROVE  \E x \in T : \A y \in T : x <= y
<1> DEFINE R == OpToRel(<, Nat)
<1>1. IsWellFoundedOn(R, Nat)
  BY NatLessThanWellFounded, Zenon
<1>2. PICK x \in T : \A y \in T : <<y, x>> \notin R
  <2> QED
    BY <1>1, WFMin
<1>3. \A y \in T : ~ (y < x)
  BY <1>2 DEF OpToRel
<1> QED
  BY <1>3

\* The nth position of a set is the one with n of the set up to it.
UpTo(P, i) == {j \in P : j <= i}

\* There is one, and it is a position.
LEMMA NthFacts ==
  ASSUME NEW n \in Nat, NEW P \in SUBSET (1 .. n), NEW k \in 1 .. Cardinality(P)
  PROVE  /\ Nth(P, k) \in P
         /\ Cardinality(UpTo(P, Nth(P, k))) = k
<1> DEFINE T == {i \in 0 .. n : Cardinality(UpTo(P, i)) >= k}
<1>1. \A j \in P : j \in Int /\ 1 <= j /\ j <= n
  OBVIOUS
<1>2. IsFiniteSet(P) /\ Cardinality(P) \in Nat
  <2>1. IsFiniteSet(1 .. n)
    BY FS_Interval
  <2> QED
    BY <2>1, FS_Subset, FS_CardinalityType
<1>3. \A i \in 0 .. n : IsFiniteSet(UpTo(P, i)) /\ Cardinality(UpTo(P, i)) \in Nat
  <2> TAKE i \in 0 .. n
  <2>1. UpTo(P, i) \in SUBSET P
    BY DEF UpTo
  <2> QED
    BY <1>2, <2>1, FS_Subset, FS_CardinalityType
<1>4. UpTo(P, n) = P
  BY <1>1 DEF UpTo
<1>5. n \in T
  BY <1>2, <1>4
<1>6. PICK x \in T : \A y \in T : x <= y
  <2>1. T \in SUBSET Nat /\ T # {}
    BY <1>5
  <2> HIDE DEF T
  <2> QED
    BY <2>1, LeastPosition
<1>7. x # 0
  <2>1. \A j \in P : ~ (j <= 0)
    BY <1>1
  <2>2. UpTo(P, 0) = {}
    BY <2>1 DEF UpTo
  <2>3. Cardinality(UpTo(P, 0)) = 0
    BY <2>2, FS_EmptySet
  <2> QED
    BY <1>2, <1>6, <2>3
<1>8. x \in 1 .. n /\ x - 1 \in 0 .. n /\ x - 1 \notin T
  BY <1>6, <1>7
<1>9. Cardinality(UpTo(P, x - 1)) < k /\ Cardinality(UpTo(P, x)) >= k
  BY <1>2, <1>3, <1>6, <1>8
<1>10. x \in P
  <2> SUFFICES ASSUME x \notin P PROVE FALSE
    OBVIOUS
  <2>1. \A j \in P : j <= x <=> j <= x - 1
    BY <1>1, <1>8
  <2>2. UpTo(P, x) = UpTo(P, x - 1)
    BY <2>1 DEF UpTo
  <2> QED
    BY <1>2, <1>3, <1>8, <1>9, <2>2
<1>11. Cardinality(UpTo(P, x)) = k
  <2> DEFINE y == x - 1
  <2>a. \A j \in P : j <= x <=> j <= y \/ j = x
    BY <1>1, <1>8
  <2>b. ~ (x <= y)
    BY <1>8
  <2>1. UpTo(P, x) = UpTo(P, y) \cup {x} /\ x \notin UpTo(P, y)
    <3> HIDE DEF y
    <3> QED
      BY <1>10, <2>a, <2>b DEF UpTo
  <2>2. IsFiniteSet(UpTo(P, x - 1))
    BY <1>3, <1>8
  <2>3. Cardinality(UpTo(P, x)) = Cardinality(UpTo(P, x - 1)) + 1
    BY <2>1, <2>2, FS_AddElement
  <2> QED
    BY <1>2, <1>3, <1>8, <1>9, <2>3
<1> QED
  BY <1>10, <1>11 DEF Nth, UpTo

\* Positions in a list are finitely many.
LEMMA PositionsFinite ==
  ASSUME NEW n \in Nat, NEW P \in SUBSET (1 .. n)
  PROVE  /\ IsFiniteSet(P) /\ Cardinality(P) \in 0 .. n
         /\ \A i : IsFiniteSet(UpTo(P, i)) /\ Cardinality(UpTo(P, i)) \in 0 .. Cardinality(P)
<1>1. IsFiniteSet(1 .. n) /\ Cardinality(1 .. n) = n
  BY FS_Interval
<1>2. IsFiniteSet(P) /\ Cardinality(P) <= n /\ Cardinality(P) \in Nat
  <2>1. IsFiniteSet(P) /\ Cardinality(P) <= Cardinality(1 .. n)
    BY <1>1, FS_Subset
  <2> QED
    BY <1>1, <2>1, FS_CardinalityType
<1>3. ASSUME NEW i
      PROVE  IsFiniteSet(UpTo(P, i)) /\ Cardinality(UpTo(P, i)) \in 0 .. Cardinality(P)
  <2>1. UpTo(P, i) \in SUBSET P
    BY DEF UpTo
  <2>2. IsFiniteSet(UpTo(P, i)) /\ Cardinality(UpTo(P, i)) <= Cardinality(P)
    BY <1>2, <2>1, FS_Subset
  <2>3. Cardinality(UpTo(P, i)) \in Nat
    BY <2>2, FS_CardinalityType
  <2> QED
    BY <1>2, <2>2, <2>3
<1> QED
  BY <1>2, <1>3

\* A later position has more positions up to it.
LEMMA UpToGrows ==
  ASSUME NEW n \in Nat, NEW P \in SUBSET (1 .. n), NEW i \in P, NEW j \in P, i < j
  PROVE  Cardinality(UpTo(P, i)) < Cardinality(UpTo(P, j))
<1>1. \A k \in P : k \in 1 .. n
  OBVIOUS
<1>2. /\ IsFiniteSet(UpTo(P, j)) /\ IsFiniteSet(UpTo(P, i))
      /\ Cardinality(UpTo(P, i)) \in Nat /\ Cardinality(UpTo(P, j)) \in Nat
  BY PositionsFinite
<1>3. UpTo(P, i) \in SUBSET UpTo(P, j)
  <2>1. \A k \in P : k <= i => k <= j
    BY <1>1
  <2> QED
    BY <2>1 DEF UpTo
<1>4. j \in UpTo(P, j) /\ j \notin UpTo(P, i)
  BY <1>1 DEF UpTo
<1>5. /\ Cardinality(UpTo(P, i)) <= Cardinality(UpTo(P, j))
      /\ Cardinality(UpTo(P, j)) = Cardinality(UpTo(P, i)) => UpTo(P, j) = UpTo(P, i)
  BY <1>2, <1>3, FS_Subset
<1> QED
  BY <1>2, <1>4, <1>5

\* A position is the nth when n of the positions are up to it.
LEMMA NthUnique ==
  ASSUME NEW n \in Nat, NEW P \in SUBSET (1 .. n), NEW i \in P,
         NEW k \in 1 .. Cardinality(P), Cardinality(UpTo(P, i)) = k
  PROVE  Nth(P, k) = i
<1>1. Nth(P, k) \in P /\ Cardinality(UpTo(P, Nth(P, k))) = k
  BY NthFacts
<1> DEFINE j == Nth(P, k)
<1>2. j \in P /\ Cardinality(UpTo(P, j)) = k
  BY <1>1
<1> HIDE DEF j
<1>3. ~ (i < j) /\ ~ (j < i)
  <2>1. k \in Nat
    BY PositionsFinite
  <2> QED
    BY <1>2, <2>1, UpToGrows
<1>4. i \in Int /\ j \in Int
  BY <1>2
<1>5. i = j
  BY <1>3, <1>4
<1> QED
  BY <1>5 DEF j

\* Every position is one of the nth ones.
LEMMA NthOnto ==
  ASSUME NEW n \in Nat, NEW P \in SUBSET (1 .. n), NEW i \in P
  PROVE  \E k \in 1 .. Cardinality(P) : Nth(P, k) = i
<1> DEFINE k == Cardinality(UpTo(P, i))
<1>1. k \in 0 .. Cardinality(P) /\ IsFiniteSet(UpTo(P, i)) /\ Cardinality(P) \in Nat
  BY PositionsFinite
<1>2. i \in UpTo(P, i)
  BY DEF UpTo
<1>3. k # 0
  BY <1>1, <1>2, FS_EmptySet
<1>4. k \in 1 .. Cardinality(P)
  BY <1>1, <1>3
<1>5. Nth(P, k) = i
  BY <1>4, NthUnique
<1> QED
  BY <1>4, <1>5

\* The nth positions come in their order.
LEMMA NthOrder ==
  ASSUME NEW n \in Nat, NEW P \in SUBSET (1 .. n),
         NEW k \in 1 .. Cardinality(P), NEW l \in 1 .. Cardinality(P), k < l
  PROVE  Nth(P, k) < Nth(P, l)
<1> DEFINE x == Nth(P, k)
           y == Nth(P, l)
<1>1. /\ x \in P /\ Cardinality(UpTo(P, x)) = k
      /\ y \in P /\ Cardinality(UpTo(P, y)) = l
  BY NthFacts
<1> HIDE DEF x, y
<1>2. x \in Int /\ y \in Int /\ Cardinality(P) \in Nat
  <2>1. Cardinality(P) \in Nat
    BY PositionsFinite
  <2> QED
    BY <1>1, <2>1
<1>3. x # y
  BY <1>1, <1>2
<1>4. ~ (y < x)
  <2>1. SUFFICES ASSUME y < x PROVE FALSE
    OBVIOUS
  <2>2. l < k
    BY <1>1, <2>1, UpToGrows
  <2> QED
    BY <1>2, <2>2
<1>5. x < y
  BY <1>2, <1>3, <1>4
<1> QED
  BY <1>5 DEF x, y

-----------------------------------------------------------------------------
(* The elements at positions.                                              *)

\* They are elements of the list, as many as there are positions.
LEMMA AtFacts ==
  ASSUME NEW S, NEW s \in Seq(S), NEW P \in SUBSET (1 .. Len(s))
  PROVE  /\ At(s, P) \in Seq(S) /\ Len(At(s, P)) = Cardinality(P)
         /\ DOMAIN At(s, P) = 1 .. Cardinality(P)
         /\ Cardinality(P) \in 0 .. Len(s)
         /\ \A k \in 1 .. Cardinality(P) :
              At(s, P)[k] = s[Nth(P, k)] /\ Nth(P, k) \in P
<1> DEFINE n == Cardinality(P)
<1>1. Len(s) \in Nat /\ n \in 0 .. Len(s)
  <2>1. Len(s) \in Nat
    BY LenProperties
  <2> QED
    BY <2>1, PositionsFinite
<1>2. \A k \in 1 .. n : Nth(P, k) \in P
  BY <1>1, NthFacts
<1>3. \A k \in 1 .. n : s[Nth(P, k)] \in S
  BY <1>2, ElementOfSeq
<1>4. At(s, P) = [k \in 1 .. n |-> s[Nth(P, k)]]
  BY DEF At
<1>5. At(s, P) \in [1 .. n -> S]
  BY <1>3, <1>4
<1>6. n \in Nat
  BY <1>1
<1> HIDE DEF n
<1>7. At(s, P) \in Seq(S)
  BY <1>5, <1>6, SeqDef
<1>8. DOMAIN At(s, P) = 1 .. Len(At(s, P)) /\ Len(At(s, P)) \in Nat
  BY <1>7, LenProperties
<1>9. DOMAIN At(s, P) = 1 .. n
  BY <1>5
<1>10. Len(At(s, P)) = n
  <2>1. ASSUME NEW l \in Nat, 1 .. l = 1 .. n PROVE l = n
    BY <1>6, <2>1
  <2> QED
    BY <1>8, <1>9, <2>1
<1> QED
  BY <1>1, <1>2, <1>4, <1>7, <1>9, <1>10 DEF n

\* Nothing else is selected, and nothing that should be is left out.
LEMMA AtElements ==
  ASSUME NEW S, NEW s \in Seq(S), NEW P \in SUBSET (1 .. Len(s))
  PROVE  /\ \A k \in DOMAIN At(s, P) : \E i \in P : At(s, P)[k] = s[i]
         /\ \A i \in P : \E k \in DOMAIN At(s, P) : At(s, P)[k] = s[i]
<1>1. Len(s) \in Nat
  BY LenProperties
<1>2. \A i \in P : \E k \in 1 .. Cardinality(P) : Nth(P, k) = i
  BY <1>1, NthOnto
<1>3. /\ DOMAIN At(s, P) = 1 .. Cardinality(P)
      /\ \A k \in 1 .. Cardinality(P) : At(s, P)[k] = s[Nth(P, k)] /\ Nth(P, k) \in P
  BY AtFacts
<1>4. \A k \in DOMAIN At(s, P) : \E i \in P : At(s, P)[k] = s[i]
  BY <1>3
<1>5. ASSUME NEW i \in P PROVE \E k \in DOMAIN At(s, P) : At(s, P)[k] = s[i]
  BY <1>2, <1>3
<1> QED
  BY <1>4, <1>5

\* The places in the selection of some of its positions.
PlacesOf(s, P, T) == {k \in DOMAIN At(s, P) : Nth(P, k) \in T}

\* Some of the positions are as many in the selection as in the list.
LEMMA AtCount ==
  ASSUME NEW S, NEW s \in Seq(S), NEW P \in SUBSET (1 .. Len(s)), NEW T \in SUBSET P
  PROVE  /\ IsFiniteSet(T)
         /\ Cardinality(PlacesOf(s, P, T)) = Cardinality(T)
<1> DEFINE K == {k \in DOMAIN At(s, P) : Nth(P, k) \in T}
           f == [k \in K |-> Nth(P, k)]
<1>1. Len(s) \in Nat
  BY LenProperties
<1>2. DOMAIN At(s, P) = 1 .. Cardinality(P) /\ Cardinality(P) \in Nat /\ IsFiniteSet(P)
  <2>1. DOMAIN At(s, P) = 1 .. Cardinality(P)
    BY AtFacts
  <2> QED
    BY <1>1, <2>1, PositionsFinite
<1>3. K \in SUBSET (1 .. Cardinality(P))
  BY <1>2
<1>4. IsFiniteSet(T) /\ IsFiniteSet(K)
  <2>1. IsFiniteSet(T)
    BY <1>2, FS_Subset
  <2>2. IsFiniteSet(1 .. Cardinality(P))
    BY <1>2, FS_Interval
  <2> HIDE DEF K
  <2>3. IsFiniteSet(K)
    BY <1>3, <2>2, FS_Subset
  <2> QED
    BY <2>1, <2>3
<1>5. \A k \in K : Nth(P, k) \in T
  OBVIOUS
<1>6. \A k, l \in K : Nth(P, k) = Nth(P, l) => k = l
  <2> SUFFICES ASSUME NEW k \in K, NEW l \in K, Nth(P, k) = Nth(P, l) PROVE k = l
    OBVIOUS
  <2>1. k \in 1 .. Cardinality(P) /\ l \in 1 .. Cardinality(P)
    BY <1>3
  <2>2. Nth(P, k) \in P /\ Nth(P, l) \in P
    BY <1>5
  <2>3. \A i \in P : i \in Int
    OBVIOUS
  <2>4. \A i, j \in 1 .. Cardinality(P) : i < j => Nth(P, i) < Nth(P, j)
    BY <1>1, NthOrder
  <2> HIDE DEF K
  <2>5. PICK x \in Int : x = Nth(P, k) /\ x = Nth(P, l)
    BY <2>2, <2>3
  <2>6. ~ (k < l) /\ ~ (l < k)
    BY <2>1, <2>4, <2>5
  <2> QED
    BY <2>1, <2>6
<1>7. \A i \in T : \E k \in K : Nth(P, k) = i
  <2> SUFFICES ASSUME NEW i \in T PROVE \E k \in K : Nth(P, k) = i
    OBVIOUS
  <2>1. i \in P
    OBVIOUS
  <2>2. PICK k \in 1 .. Cardinality(P) : Nth(P, k) = i
    BY <1>1, <2>1, NthOnto
  <2>3. k \in K
    BY <1>2, <2>2
  <2> QED
    BY <2>2, <2>3
<1> HIDE DEF K
<1>8. f \in [K -> T]
  BY <1>5
<1>9. \A k, l \in K : f[k] = f[l] => k = l
  BY <1>6
<1>10. \A i \in T : \E k \in K : f[k] = i
  BY <1>7
<1> HIDE DEF f
<1>11. f \in Bijection(K, T)
  BY <1>8, <1>9, <1>10, Zenon DEF Bijection, Injection, Surjection, IsInjective
<1>12. ExistsBijection(K, T)
  BY <1>11 DEF ExistsBijection
<1>13. Cardinality(T) = Cardinality(K)
  BY <1>4, <1>12, FS_Bijection
<1> QED
  BY <1>4, <1>13 DEF K, PlacesOf

\* Lists that agree at the positions give the same elements.
LEMMA AtAgree ==
  ASSUME NEW S, NEW s \in Seq(S), NEW t \in Seq(S), NEW P \in SUBSET (1 .. Len(s)),
         P \in SUBSET (1 .. Len(t)), \A i \in P : s[i] = t[i]
  PROVE  At(s, P) = At(t, P)
<1>1. \A k \in 1 .. Cardinality(P) : Nth(P, k) \in P
  BY AtFacts
<1>2. \A k \in 1 .. Cardinality(P) : s[Nth(P, k)] = t[Nth(P, k)]
  BY <1>1
<1> QED
  BY <1>2 DEF At

\* No position, no element.
LEMMA AtNothing ==
  ASSUME NEW S, NEW s \in Seq(S)
  PROVE  At(s, {}) = <<>>
<1>1. Cardinality({}) = 0
  BY FS_EmptySet
<1>2. /\ At(s, {}) \in Seq(S) /\ Len(At(s, {})) = 0
  BY <1>1, AtFacts
<1> QED
  BY <1>2, EmptySeq

\* The first positions give the beginning of the list.
LEMMA AtBeginning ==
  ASSUME NEW S, NEW s \in Seq(S), NEW n \in 0 .. Len(s)
  PROVE  /\ At(s, 1 .. n) \in Seq(S) /\ Len(At(s, 1 .. n)) = n
         /\ \A k \in 1 .. n : At(s, 1 .. n)[k] = s[k]
<1>1. Len(s) \in Nat /\ n \in Nat
  <2>1. Len(s) \in Nat
    BY LenProperties
  <2> QED
    BY <2>1
<1>2. Cardinality(1 .. n) = n
  BY <1>1, FS_Interval
<1>3. 1 .. n \in SUBSET (1 .. Len(s))
  BY <1>1
<1>4. ASSUME NEW k \in 1 .. n PROVE Nth(1 .. n, k) = k
  <2>1. UpTo(1 .. n, k) = 1 .. k
    <3>1. \A x : x \in UpTo(1 .. n, k) <=> x \in 1 .. k
      BY <1>1 DEF UpTo
    <3> QED
      BY <3>1
  <2>2. Cardinality(1 .. k) = k
    BY <1>1, FS_Interval
  <2>3. 1 .. n \in SUBSET (1 .. n)
    OBVIOUS
  <2> QED
    BY <1>1, <1>2, <2>1, <2>2, <2>3, NthUnique
<1> QED
  BY <1>2, <1>3, <1>4, AtFacts

\* All positions give the list.
LEMMA AtAll ==
  ASSUME NEW S, NEW s \in Seq(S)
  PROVE  At(s, 1 .. Len(s)) = s
<1>1. Len(s) \in 0 .. Len(s)
  BY LenProperties
<1>2. /\ At(s, 1 .. Len(s)) \in Seq(S) /\ Len(At(s, 1 .. Len(s))) = Len(s)
      /\ \A k \in 1 .. Len(s) : At(s, 1 .. Len(s))[k] = s[k]
  BY <1>1, AtBeginning
<1> QED
  BY <1>2, SeqEqual

-----------------------------------------------------------------------------
(* The elements of one list after another.                                 *)

Shifted(m, Q) == {m + j : j \in Q}

\* Moving positions keeps their number.
LEMMA ShiftedFacts ==
  ASSUME NEW m \in Nat, NEW n \in Nat, NEW Q \in SUBSET (1 .. n)
  PROVE  /\ Shifted(m, Q) \in SUBSET (m + 1 .. m + n)
         /\ IsFiniteSet(Shifted(m, Q)) /\ Cardinality(Shifted(m, Q)) = Cardinality(Q)
<1> DEFINE f == [j \in Q |-> m + j]
<1>1. IsFiniteSet(Q)
  BY PositionsFinite
<1>2. f \in [Q -> Shifted(m, Q)]
  BY DEF Shifted
<1>3. \A i, j \in Q : f[i] = f[j] => i = j
  <2>1. \A i, j \in Q : m + i = m + j => i = j
    OBVIOUS
  <2> QED
    BY <2>1
<1>4. \A x \in Shifted(m, Q) : \E j \in Q : f[j] = x
  BY DEF Shifted
<1> HIDE DEF f
<1>5. f \in Bijection(Q, Shifted(m, Q))
  BY <1>2, <1>3, <1>4, Zenon DEF Bijection, Injection, Surjection, IsInjective
<1>6. ExistsBijection(Q, Shifted(m, Q))
  BY <1>5 DEF ExistsBijection
<1>7. Shifted(m, Q) \in SUBSET (m + 1 .. m + n)
  BY DEF Shifted
<1> QED
  BY <1>1, <1>6, <1>7, FS_Bijection

\* The positions of two lists, the second after the first: how many there are
\* and which is the nth.
LEMMA NthAfter ==
  ASSUME NEW m \in Nat, NEW n \in Nat, NEW P \in SUBSET (1 .. m), NEW Q \in SUBSET (1 .. n)
  PROVE  LET R == P \cup Shifted(m, Q)
         IN  /\ R \in SUBSET (1 .. m + n)
             /\ Cardinality(R) = Cardinality(P) + Cardinality(Q)
             /\ \A k \in 1 .. Cardinality(P) : Nth(R, k) = Nth(P, k)
             /\ \A k \in 1 .. Cardinality(Q) : Nth(R, Cardinality(P) + k) = m + Nth(Q, k)
<1> DEFINE R == P \cup Shifted(m, Q)
           p == Cardinality(P)
           q == Cardinality(Q)
<1>1. /\ IsFiniteSet(P) /\ p \in Nat
      /\ IsFiniteSet(Q) /\ q \in Nat
      /\ \A k : IsFiniteSet(UpTo(P, k)) /\ IsFiniteSet(UpTo(Q, k))
  BY PositionsFinite
<1>2. \A i \in P : i \in Int /\ 1 <= i /\ i <= m
  OBVIOUS
<1>3. \A j \in Q : j \in Int /\ 1 <= j /\ j <= n
  OBVIOUS
<1>4. /\ Shifted(m, Q) \in SUBSET (m + 1 .. m + n)
      /\ IsFiniteSet(Shifted(m, Q)) /\ Cardinality(Shifted(m, Q)) = q
  BY ShiftedFacts
<1>5. m + n \in Nat /\ R \in SUBSET (1 .. m + n)
  <2>1. \A i \in P : i \in 1 .. m + n
    BY <1>2
  <2>2. \A i \in m + 1 .. m + n : i \in 1 .. m + n
    OBVIOUS
  <2>3. \A i \in R : i \in 1 .. m + n
    BY <1>4, <2>1, <2>2
  <2> HIDE DEF R
  <2> QED
    BY <2>3
<1>6. ASSUME NEW Q2 \in SUBSET Q
      PROVE  Cardinality(P \cup Shifted(m, Q2)) = p + Cardinality(Q2)
  <2>1. Q2 \in SUBSET (1 .. n)
    OBVIOUS
  <2>2. /\ Shifted(m, Q2) \in SUBSET (m + 1 .. m + n)
        /\ IsFiniteSet(Shifted(m, Q2)) /\ Cardinality(Shifted(m, Q2)) = Cardinality(Q2)
    BY <2>1, ShiftedFacts
  <2>3. P \cap Shifted(m, Q2) = {}
    BY <1>2, <2>2
  <2>4. Cardinality(Q2) \in Nat
    BY <2>1, PositionsFinite
  <2>5. Cardinality(P \cap Shifted(m, Q2)) = 0
    BY <2>3, FS_EmptySet
  <2>6. Cardinality(P \cup Shifted(m, Q2))
          = p + Cardinality(Shifted(m, Q2)) - Cardinality(P \cap Shifted(m, Q2))
    BY <1>1, <2>2, FS_Union
  <2> QED
    BY <1>1, <2>2, <2>4, <2>5, <2>6
<1>7. Cardinality(R) = p + q
  BY <1>6
<1>8. ASSUME NEW k \in 1 .. p PROVE Nth(R, k) = Nth(P, k)
  <2> DEFINE x == Nth(P, k)
  <2>1. x \in P /\ Cardinality(UpTo(P, x)) = k
    BY NthFacts
  <2> HIDE DEF x
  <2>2. \A j \in Shifted(m, Q) : ~ (j <= x)
    BY <1>2, <1>4, <2>1
  <2>3. \A j : j \in UpTo(R, x) <=> j \in UpTo(P, x)
    BY <2>2 DEF UpTo
  <2>4. Cardinality(UpTo(R, x)) = k
    BY <2>1, <2>3
  <2>5. x \in R /\ k \in 1 .. Cardinality(R)
    BY <1>1, <1>7, <2>1
  <2> HIDE DEF R
  <2>6. Nth(R, k) = x
    BY <1>5, <2>4, <2>5, NthUnique
  <2> QED
    BY <2>6 DEF x
<1>9. ASSUME NEW k \in 1 .. q PROVE Nth(R, p + k) = m + Nth(Q, k)
  <2> DEFINE x == Nth(Q, k)
             y == m + x
  <2>1. x \in Q /\ Cardinality(UpTo(Q, x)) = k
    BY NthFacts
  <2> HIDE DEF x
  <2>2. x \in Int /\ 1 <= x
    BY <1>3, <2>1
  <2>3. \A i \in P : i <= y
    BY <1>2, <2>2
  <2>4. \A j \in Q : m + j <= y <=> j <= x
    BY <1>3, <2>2
  <2>5. \A i : i \in UpTo(R, y) <=> i \in P \cup Shifted(m, UpTo(Q, x))
    BY <2>3, <2>4 DEF UpTo, Shifted
  <2>6. UpTo(Q, x) \in SUBSET Q
    BY DEF UpTo
  <2>7. Cardinality(UpTo(R, y)) = p + k
    BY <1>6, <2>1, <2>5, <2>6
  <2>8. y \in R /\ p + k \in 1 .. Cardinality(R)
    BY <1>1, <1>7, <2>1 DEF Shifted
  <2> HIDE DEF R, y
  <2>9. Nth(R, p + k) = y
    BY <1>5, <2>7, <2>8, NthUnique
  <2> QED
    BY <2>9 DEF x, y
<1> QED
  BY <1>5, <1>7, <1>8, <1>9

\* One list after another, by a name: the provers would expand an equation
\* of concatenations element by element.
Joined(s, t) == s \o t

\* Three lists are joined in either order.
LEMMA JoinedFacts ==
  ASSUME NEW S, NEW s \in Seq(S), NEW t \in Seq(S), NEW u \in Seq(S)
  PROVE  /\ Joined(s, t) \in Seq(S) /\ Joined(t, u) \in Seq(S)
         /\ Joined(Joined(s, t), u) = Joined(s, Joined(t, u))
<1>1. Joined(s, t) \in Seq(S) /\ Joined(t, u) \in Seq(S)
  BY ConcatProperties DEF Joined
<1>2. Joined(Joined(s, t), u) = Joined(s, Joined(t, u))
  BY ConcatAssociative DEF Joined
<1> QED
  BY <1>1, <1>2

\* What is selected of two lists is what is selected of each.
LEMMA AtConcat ==
  ASSUME NEW S, NEW s \in Seq(S), NEW t \in Seq(S),
         NEW P \in SUBSET (1 .. Len(s)), NEW Q \in SUBSET (1 .. Len(t))
  PROVE  At(Joined(s, t), P \cup Shifted(Len(s), Q)) = Joined(At(s, P), At(t, Q))
<1> DEFINE m == Len(s)
           n == Len(t)
           p == Cardinality(P)
           q == Cardinality(Q)
           u == s \o t
           R == P \cup Shifted(m, Q)
           w == At(s, P)
           v == At(t, Q)
           a == At(u, R)
           b == w \o v
<1>1. /\ m \in Nat /\ n \in Nat
      /\ u \in Seq(S) /\ Len(u) = m + n
      /\ \A i \in 1 .. m + n : u[i] = IF i <= m THEN s[i] ELSE t[i - m]
  BY LenProperties, ConcatProperties
<1>2. /\ R \in SUBSET (1 .. m + n)
      /\ Cardinality(R) = p + q
      /\ \A k \in 1 .. p : Nth(R, k) = Nth(P, k)
      /\ \A k \in 1 .. q : Nth(R, p + k) = m + Nth(Q, k)
  BY <1>1, NthAfter
<1>3. /\ w \in Seq(S) /\ Len(w) = p
      /\ \A k \in 1 .. p : w[k] = s[Nth(P, k)] /\ Nth(P, k) \in P
      /\ p \in 0 .. Len(s)
  BY AtFacts
<1>4. /\ v \in Seq(S) /\ Len(v) = q
      /\ \A k \in 1 .. q : v[k] = t[Nth(Q, k)] /\ Nth(Q, k) \in Q
      /\ q \in 0 .. Len(t)
  BY AtFacts
<1>5. p \in Nat /\ q \in Nat
  BY <1>1, <1>3, <1>4
<1> HIDE DEF w, v, u, R
<1>6. /\ b \in Seq(S) /\ Len(b) = p + q
      /\ \A k \in 1 .. p + q : b[k] = IF k <= p THEN w[k] ELSE v[k - p]
  <2>1. w \in Seq(S) /\ v \in Seq(S)
    BY <1>3, <1>4
  <2>2. /\ b \in Seq(S) /\ Len(b) = Len(w) + Len(v)
        /\ \A k \in 1 .. Len(w) + Len(v) : b[k] = IF k <= Len(w) THEN w[k] ELSE v[k - Len(w)]
    BY <2>1, ConcatProperties
  <2> HIDE DEF b
  <2> QED
    BY <1>3, <1>4, <2>2
<1>7. /\ a \in Seq(S) /\ Len(a) = p + q
      /\ \A k \in 1 .. p + q : a[k] = u[Nth(R, k)]
  BY <1>1, <1>2, AtFacts
<1> HIDE DEF a, b
<1>8. ASSUME NEW k \in 1 .. p + q PROVE a[k] = b[k]
  <2>1. CASE k <= p
    <3>1. k \in 1 .. p
      BY <1>5, <2>1
    <3>2. Nth(P, k) \in 1 .. m
      BY <1>3, <3>1
    <3>3. Nth(P, k) \in 1 .. m + n /\ Nth(P, k) <= m
      BY <1>1, <3>2
    <3> QED
      BY <1>1, <1>2, <1>3, <1>6, <1>7, <2>1, <3>1, <3>3
  <2>2. CASE ~ (k <= p)
    <3>1. PICK l \in 1 .. q : k = p + l /\ k - p = l
      BY <1>5, <2>2
    <3>2. Nth(Q, l) \in 1 .. n
      BY <1>4, <3>1
    <3>3. a[k] = t[Nth(Q, l)]
      <4>1. Nth(R, k) = m + Nth(Q, l)
        BY <1>2, <3>1
      <4>2. u[m + Nth(Q, l)] = t[Nth(Q, l)]
        <5> DEFINE i == m + Nth(Q, l)
        <5>1. i \in 1 .. m + n /\ ~ (i <= m) /\ i - m = Nth(Q, l)
          BY <1>1, <3>2
        <5> HIDE DEF i
        <5>2. u[i] = t[i - m]
          BY <1>1, <5>1
        <5> QED
          BY <5>1, <5>2 DEF i
      <4> QED
        BY <1>7, <4>1, <4>2
    <3>4. b[k] = t[Nth(Q, l)]
      BY <1>4, <1>6, <2>2, <3>1
    <3> QED
      BY <3>3, <3>4
  <2> QED
    BY <2>1, <2>2
<1>9. a = b
  BY <1>6, <1>7, <1>8, SeqEqual
<1> QED
  BY <1>9 DEF a, b, w, v, u, R, Joined

=============================================================================
