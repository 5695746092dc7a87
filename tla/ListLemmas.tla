------------------------------ MODULE ListLemmas ------------------------------
(***************************************************************************)
(* Facts about natural numbers, finite sets and lists that the proofs of   *)
(* several components need.  Nothing here is about the simulators.         *)
(***************************************************************************)
EXTENDS Integers, Sequences, FiniteSets, SequenceTheorems, FiniteSetTheorems,
        FunctionTheorems, WellFoundedInduction, SequencesExt, TLAPS

\* A set of natural numbers has a least element.
LEMMA LeastOf ==
    ASSUME NEW S, S \subseteq Nat, S # {}
    PROVE  \E n \in S : \A m \in S : n <= m
<1> DEFINE R == OpToRel(<, Nat)
<1>1. IsWellFoundedOn(R, Nat)
  BY NatLessThanWellFounded
<1>2. \A x, y \in Nat : <<y, x>> \in R <=> y < x
  BY DEF OpToRel
<1> HIDE DEF R
<1>3. PICK n \in S : \A m \in S : ~(<<m, n>> \in R)
  BY <1>1, WFMin
<1>4. ASSUME NEW m \in S PROVE n <= m
  <2>1. n \in Nat /\ m \in Nat
    OBVIOUS
  <2>2. ~(<<m, n>> \in R)
    BY <1>3
  <2>3. ~(m < n)
    BY <1>2, <2>1, <2>2
  <2> QED BY <2>1, <2>3
<1> QED BY <1>4

\* Induction, for a property given as the set of the numbers that have it.
LEMMA NatSetInduction ==
    ASSUME NEW S, 0 \in S, \A n \in Nat : n \in S => n + 1 \in S
    PROVE  Nat \subseteq S
<1> SUFFICES ASSUME Nat \ S # {} PROVE FALSE
  OBVIOUS
<1>1. PICK n \in Nat \ S : \A m \in Nat \ S : n <= m
  BY LeastOf
<1> QED BY <1>1

\* The numbers of B, each m further on.
Beyond(m, B) == {m + j : j \in B}

\* Positions A of a list of m places and B of a list of n.
Parts(m, n, A, B) == m \in Nat /\ n \in Nat /\ A \subseteq 1..m /\ B \subseteq 1..n

\* The positions marked in two adjacent parts of a list, counted part by part.
LEMMA CountParts ==
    ASSUME NEW m, NEW n, NEW A, NEW B, Parts(m, n, A, B)
    PROVE  /\ IsFiniteSet(A \cup Beyond(m, B))
           /\ Cardinality(A \cup Beyond(m, B)) = Cardinality(A) + Cardinality(B)
<1> DEFINE C == Beyond(m, B)
           f == [j \in B |-> m + j]
<1> USE DEF Parts
<1>1. IsFiniteSet(1..m) /\ IsFiniteSet(1..n)
  BY FS_Interval
<1>2. IsFiniteSet(A) /\ IsFiniteSet(B)
  BY <1>1, FS_Subset
<1>3. f \in Bijection(B, C)
  <2>1. f \in [B -> C] /\ (\A t \in C : \E j \in B : f[j] = t)
    BY DEF Beyond
  <2>2. \A i, j \in B : f[i] = f[j] => i = j
    OBVIOUS
  <2> QED BY <2>1, <2>2, Fun_IsBij
<1>4. IsFiniteSet(C) /\ Cardinality(C) = Cardinality(B)
  BY <1>2, <1>3, FS_Bijection DEF ExistsBijection
<1>5. A \cap C = {}
  BY DEF Beyond
<1> HIDE DEF C
<1>6. IsFiniteSet(A \cup C) /\ Cardinality(A \cup C) = Cardinality(A) + Cardinality(C) - Cardinality(A \cap C)
  BY <1>2, <1>4, FS_Union
<1>7. Cardinality({}) = 0 /\ Cardinality(A) \in Nat /\ Cardinality(B) \in Nat
  BY <1>2, FS_EmptySet, FS_CardinalityType
<1>8. Cardinality(A \cup C) = Cardinality(A) + Cardinality(B)
  BY <1>4, <1>5, <1>6, <1>7
<1> QED BY <1>6, <1>8 DEF C

\* How many members of D come before each in the order O.
Rank(D, O) == [p \in D |-> Cardinality({q \in D : <<q, p>> \in O})]

\* The ranks of a finite set that is totally ordered are 0, 1 and so on, each once.
LEMMA Ranks ==
    ASSUME NEW D, IsFiniteSet(D), NEW O,
           \A p \in D : <<p, p>> \notin O,
           \A p, q, r \in D : <<p, q>> \in O /\ <<q, r>> \in O => <<p, r>> \in O,
           \A p, q \in D : p # q => <<p, q>> \in O \/ <<q, p>> \in O
    PROVE  /\ Cardinality(D) \in Nat
           /\ \A p \in D : Rank(D, O)[p] \in 0..Cardinality(D) - 1
           /\ \A p, q \in D : Rank(D, O)[p] = Rank(D, O)[q] => p = q
           /\ \A n \in 0..Cardinality(D) - 1 : \E p \in D : Rank(D, O)[p] = n
<1> DEFINE before(p) == {q \in D : <<q, p>> \in O}
           R == Rank(D, O)
           N == 0..Cardinality(D) - 1
<1>1. Cardinality(D) \in Nat
  BY FS_CardinalityType
<1>2. \A p \in D : R[p] = Cardinality(before(p))
  BY DEF Rank
<1>3. ASSUME NEW p \in D PROVE IsFiniteSet(before(p)) /\ Cardinality(before(p)) \in N
  <2>1. before(p) \in SUBSET D /\ before(p) # D
    OBVIOUS
  <2> HIDE DEF before
  <2>2. IsFiniteSet(before(p)) /\ Cardinality(before(p)) <= Cardinality(D)
        /\ Cardinality(before(p)) # Cardinality(D)
    BY <2>1, FS_Subset
  <2>3. Cardinality(before(p)) \in Nat
    BY <2>2, FS_CardinalityType
  <2> QED BY <1>1, <2>2, <2>3
<1>4. ASSUME NEW p \in D, NEW q \in D, <<p, q>> \in O PROVE Cardinality(before(p)) < Cardinality(before(q))
  <2>1. before(p) \in SUBSET before(q) /\ p \in before(q) /\ p \notin before(p)
    BY <1>4
  <2> HIDE DEF before
  <2>2. IsFiniteSet(before(q)) /\ Cardinality(before(p)) \in Nat /\ Cardinality(before(q)) \in Nat
    BY <1>1, <1>3
  <2>3. Cardinality(before(p)) <= Cardinality(before(q)) /\ Cardinality(before(q)) # Cardinality(before(p))
    BY <2>1, <2>2, FS_Subset
  <2> QED BY <2>2, <2>3
<1> HIDE DEF before, R
<1>5. \A p \in D : R[p] \in N
  BY <1>2, <1>3
<1>6. ASSUME NEW p \in D, NEW q \in D, R[p] = R[q] PROVE p = q
  <2>1. R[p] \in Nat /\ R[q] \in Nat
    BY <1>1, <1>5
  <2>2. ~(<<p, q>> \in O) /\ ~(<<q, p>> \in O)
    BY <1>2, <1>4, <1>6, <2>1
  <2> QED BY <2>2
<1>7. R \in Injection(D, N)
  <2>1. R \in [D -> N]
    <3>1. R = [p \in D |-> R[p]]
      BY DEF R, Rank
    <3> QED BY <1>5, <3>1
  <2> QED BY <1>6, <2>1, Fun_IsInj
<1>8. IsFiniteSet(N) /\ Cardinality(N) = Cardinality(D)
  <2> DEFINE n == Cardinality(D)
  <2>1. n \in Nat /\ 0 \in Int /\ n - 1 \in Int
    BY <1>1
  <2> HIDE DEF n
  <2>2. IsFiniteSet(0..n - 1) /\ Cardinality(0..n - 1) = IF 0 > n - 1 THEN 0 ELSE n - 1 - 0 + 1
    BY <2>1, FS_Interval
  <2>3. Cardinality(0..n - 1) = n
    BY <2>1, <2>2
  <2> QED BY <2>2, <2>3 DEF n
<1>9. R \in Surjection(D, N)
  BY <1>7, <1>8, FS_Injection
<1>10. \A n \in N : \E p \in D : R[p] = n
  BY <1>9 DEF Surjection
<1> QED BY <1>1, <1>5, <1>6, <1>10 DEF R

-----------------------------------------------------------------------------
(* Counting.                                                               *)

\* The numbers of E from 1 to n.
Upto(E, n) == {k \in 1..n : k \in E}
NumUpto(E, n) == Cardinality(Upto(E, n))

LEMMA UptoFinite ==
    ASSUME NEW E, NEW n \in Nat
    PROVE  /\ IsFiniteSet(Upto(E, n)) /\ NumUpto(E, n) \in 0..n
           /\ (\A k \in 1..n : k \notin E) => NumUpto(E, n) = 0
<1>1. IsFiniteSet(1..n) /\ Cardinality(1..n) = n
  <2>1. 1 \in Int /\ n \in Int
    OBVIOUS
  <2>2. IsFiniteSet(1..n) /\ Cardinality(1..n) = IF 1 > n THEN 0 ELSE n - 1 + 1
    BY <2>1, FS_Interval
  <2> QED BY <2>2
<1>2. Upto(E, n) \in SUBSET (1..n)
  BY DEF Upto
<1>3. IsFiniteSet(Upto(E, n)) /\ NumUpto(E, n) <= n
  BY <1>1, <1>2, FS_Subset DEF NumUpto
<1>4. NumUpto(E, n) \in Nat
  BY <1>3, FS_CardinalityType DEF NumUpto
<1>5. (\A k \in 1..n : k \notin E) => Upto(E, n) = {}
  BY DEF Upto
<1>6. (\A k \in 1..n : k \notin E) => NumUpto(E, n) = 0
  BY <1>5, FS_EmptySet DEF NumUpto
<1> QED BY <1>3, <1>4, <1>6

LEMMA CountNext ==
    ASSUME NEW E, NEW n \in Nat
    PROVE  NumUpto(E, n + 1) = IF n + 1 \in E THEN NumUpto(E, n) + 1 ELSE NumUpto(E, n)
<1>1. IsFiniteSet(Upto(E, n)) /\ n + 1 \notin Upto(E, n)
  BY UptoFinite DEF Upto
<1>2. CASE n + 1 \in E
  <2>1. Upto(E, n + 1) = Upto(E, n) \cup {n + 1}
    BY <1>2 DEF Upto
  <2> QED BY <1>1, <1>2, <2>1, FS_AddElement DEF NumUpto
<1>3. CASE n + 1 \notin E
  <2>1. Upto(E, n + 1) = Upto(E, n)
    <3>1. \A k \in 1..n + 1 : k \in E => k \in 1..n
      BY <1>3
    <3>2. \A k \in 1..n : k \in 1..n + 1
      OBVIOUS
    <3> QED BY <3>1, <3>2 DEF Upto
  <2> QED BY <1>3, <2>1 DEF NumUpto
<1> QED BY <1>2, <1>3

\* How many of E lie behind place m.
LEMMA CountBehind ==
    ASSUME NEW E, NEW n \in Nat, NEW m \in 0..n
    PROVE  /\ IsFiniteSet({k \in m + 1..n : k \in E})
           /\ Cardinality({k \in m + 1..n : k \in E}) = NumUpto(E, n) - NumUpto(E, m)
           /\ NumUpto(E, m) <= NumUpto(E, n)
<1> DEFINE A == Upto(E, m)
           B == {k \in m + 1..n : k \in E}
<1>1. A \cup B = Upto(E, n) /\ A \cap B = {}
  <2>1. \A k \in 1..n : k \in 1..m \/ k \in m + 1..n
    OBVIOUS
  <2>2. \A k \in 1..m : k \in 1..n /\ k \notin m + 1..n
    OBVIOUS
  <2>3. \A k \in m + 1..n : k \in 1..n
    OBVIOUS
  <2> QED BY <2>1, <2>2, <2>3 DEF Upto
<1>2. IsFiniteSet(Upto(E, n)) /\ IsFiniteSet(A) /\ NumUpto(E, n) \in Nat /\ NumUpto(E, m) \in Nat
  BY UptoFinite
<1>3. B \in SUBSET Upto(E, n)
  BY <1>1
<1> HIDE DEF A, B
<1>4. IsFiniteSet(B) /\ Cardinality(B) \in Nat
  BY <1>2, <1>3, FS_Subset, FS_CardinalityType
<1>5. Cardinality(A \cup B) = Cardinality(A) + Cardinality(B) - Cardinality(A \cap B)
  BY <1>2, <1>4, FS_Union
<1>6. Cardinality(A \cap B) = 0
  BY <1>1, FS_EmptySet
<1>7. NumUpto(E, n) = NumUpto(E, m) + Cardinality(B)
  <2>1. NumUpto(E, m) = Cardinality(A) /\ NumUpto(E, n) = Cardinality(A \cup B)
    BY <1>1 DEF NumUpto, A
  <2> QED BY <1>2, <1>4, <1>5, <1>6, <2>1
<1>8. Cardinality(B) = NumUpto(E, n) - NumUpto(E, m) /\ NumUpto(E, m) <= NumUpto(E, n)
  BY <1>2, <1>4, <1>7
<1> QED BY <1>4, <1>8 DEF B

\* The count without the first place.
LEMMA CountBehead ==
    ASSUME NEW E, NEW F, NEW n \in Nat, \A k \in 1..n : k \in F <=> k + 1 \in E
    PROVE  NumUpto(F, n) = IF 1 \in E THEN NumUpto(E, n + 1) - 1 ELSE NumUpto(E, n + 1)
<1> DEFINE A == Upto(E, 1)
           B == Upto(F, n)
<1>1. Parts(1, n, A, B)
  BY DEF Parts, Upto
<1>2. A \cup Beyond(1, B) = Upto(E, n + 1)
  <2>1. ASSUME NEW k \in Upto(E, n + 1) PROVE k \in A \cup Beyond(1, B)
    <3>1. CASE k = 1
      BY <2>1, <3>1 DEF Upto
    <3>2. CASE k # 1
      <4>1. k - 1 \in 1..n /\ 1 + (k - 1) = k /\ (k - 1) + 1 = k
        BY <2>1, <3>2 DEF Upto
      <4>2. k - 1 \in B
        BY <2>1, <4>1 DEF Upto
      <4> QED BY <4>1, <4>2 DEF Beyond
    <3> QED BY <3>1, <3>2
  <2>2. ASSUME NEW j \in B PROVE 1 + j \in Upto(E, n + 1)
    <3>1. j \in 1..n /\ j + 1 \in E /\ 1 + j = j + 1 /\ j + 1 \in 1..n + 1
      BY <2>2 DEF Upto
    <3> QED BY <3>1 DEF Upto
  <2>3. A \subseteq Upto(E, n + 1)
    <3>1. \A k \in 1..1 : k \in 1..n + 1
      OBVIOUS
    <3> QED BY <3>1 DEF Upto
  <2> HIDE DEF B
  <2> QED BY <2>1, <2>2, <2>3 DEF Beyond
<1>3. NumUpto(E, n + 1) = NumUpto(E, 1) + NumUpto(F, n)
  BY <1>1, <1>2, CountParts DEF NumUpto
<1>4. NumUpto(E, 1) = IF 1 \in E THEN 1 ELSE 0
  <2>1. NumUpto(E, 0) = 0 /\ 0 \in Nat
    BY UptoFinite
  <2>2. NumUpto(E, 0 + 1) = IF 0 + 1 \in E THEN NumUpto(E, 0) + 1 ELSE NumUpto(E, 0)
    BY CountNext
  <2> QED BY <2>1, <2>2
<1>5. NumUpto(F, n) \in Nat
  BY UptoFinite
<1> QED BY <1>3, <1>4, <1>5

\* Finitely many numbers have a bound.
LEMMA BoundedAbove ==
    ASSUME NEW S, IsFiniteSet(S), NEW f, \A x \in S : f[x] \in Nat
    PROVE  \E m \in Nat : \A x \in S : f[x] <= m
<1> DEFINE B == {n \in Nat : \A g \in [1..n -> Nat] : \E m \in Nat : \A i \in 1..n : g[i] <= m}
<1>1. 0 \in B
  <2>1. \A g \in [1..0 -> Nat] : \A i \in 1..0 : g[i] <= 0
    OBVIOUS
  <2> QED BY <2>1
<1>2. ASSUME NEW n \in Nat, n \in B PROVE n + 1 \in B
  <2>1. ASSUME NEW g \in [1..n + 1 -> Nat] PROVE \E m \in Nat : \A i \in 1..n + 1 : g[i] <= m
    <3> DEFINE h == [i \in 1..n |-> g[i]]
    <3>1. h \in [1..n -> Nat]
      OBVIOUS
    <3>2. PICK m \in Nat : \A i \in 1..n : h[i] <= m
      BY <1>2, <3>1
    <3>3. PICK k \in Nat : m <= k /\ g[n + 1] <= k
      <4>1. g[n + 1] \in Nat
        OBVIOUS
      <4>2. CASE m <= g[n + 1]
        BY <4>1, <4>2
      <4>3. CASE ~(m <= g[n + 1])
        BY <4>1, <4>3
      <4> QED BY <4>2, <4>3
    <3>4. \A i \in 1..n + 1 : g[i] <= k
      <4> SUFFICES ASSUME NEW i \in 1..n + 1 PROVE g[i] <= k
        OBVIOUS
      <4>1. CASE i = n + 1
        BY <3>3, <4>1
      <4>2. CASE i # n + 1
        <5>1. i \in 1..n /\ g[i] \in Nat
          BY <4>2
        <5>2. h[i] <= m /\ h[i] = g[i]
          BY <3>2, <5>1
        <5> QED BY <3>3, <5>1, <5>2
      <4> QED BY <4>1, <4>2
    <3> QED BY <3>4
  <2>2. n + 1 \in Nat
    OBVIOUS
  <2> QED BY <2>1, <2>2
<1> HIDE DEF B
<1>3. Nat \subseteq B
  BY <1>1, <1>2, NatSetInduction
<1>4. Cardinality(S) \in Nat /\ \E b : b \in Bijection(1..Cardinality(S), S)
  BY FS_NatBijection, FS_CardinalityType DEF ExistsBijection
<1>5. PICK n, b : n \in Nat /\ b \in Bijection(1..n, S)
  BY <1>4
<1>6. n \in Nat /\ b \in [1..n -> S] /\ \A x \in S : \E i \in 1..n : b[i] = x
  BY <1>5 DEF Bijection, Surjection, Injection, IsInjective
<1> DEFINE g == [i \in 1..n |-> f[b[i]]]
<1>7. g \in [1..n -> Nat]
  BY <1>6
<1>8. \A i \in 1..n : g[i] = f[b[i]]
  BY <1>6
<1> HIDE DEF g
<1>9. n \in B
  BY <1>3, <1>6
<1>10. PICK m \in Nat : \A i \in 1..n : g[i] <= m
  BY <1>7, <1>9 DEF B
<1>11. \A x \in S : f[x] <= m
  BY <1>6, <1>8, <1>10
<1> QED BY <1>11

\* One of them is the largest.
LEMMA Largest ==
    ASSUME NEW S, IsFiniteSet(S), S # {}, NEW f, \A x \in S : f[x] \in Nat
    PROVE  \E w \in S : \A x \in S : f[x] <= f[w]
<1> DEFINE U == {m \in Nat : \A x \in S : f[x] <= m}
<1>1. \E m \in Nat : \A x \in S : f[x] <= m
  BY BoundedAbove
<1>2. PICK m \in U : \A n \in U : m <= n
  <2>1. U \subseteq Nat /\ U # {}
    BY <1>1
  <2> HIDE DEF U
  <2> QED BY <2>1, LeastOf
<1>3. PICK w \in S : f[w] = m
  <2> SUFFICES ASSUME \A x \in S : f[x] # m PROVE FALSE
    OBVIOUS
  <2>1. \A x \in S : f[x] < m /\ f[x] <= m - 1
    OBVIOUS
  <2>2. m - 1 \in Nat
    <3>1. PICK x \in S : TRUE
      OBVIOUS
    <3>2. f[x] < m /\ f[x] \in Nat
      BY <2>1
    <3> QED BY <3>2
  <2>3. m - 1 \in U
    BY <2>1, <2>2
  <2> QED BY <1>2, <2>2, <2>3
<1> QED BY <1>2, <1>3

-----------------------------------------------------------------------------
(* Lists.                                                                  *)

\* Entry l put in at position n + 1 of list q.
Put(q, l, n) == SubSeq(q, 1, n) \o <<l>> \o SubSeq(q, n + 1, Len(q))

PutIn(r, q, l, n) ==
    /\ Len(r) = Len(q) + 1 /\ r[n + 1] = l
    /\ \A i \in 1..n : r[i] = q[i]
    /\ \A i \in n + 1..Len(q) : r[i + 1] = q[i]

LEMMA Putting ==
    ASSUME NEW T, NEW q \in Seq(T), NEW l \in T, NEW n \in 0..Len(q)
    PROVE  Put(q, l, n) \in Seq(T) /\ PutIn(Put(q, l, n), q, l, n)
<1> DEFINE a == SubSeq(q, 1, n)
           b == <<l>>
           c == SubSeq(q, n + 1, Len(q))
<1>1. \A i \in 1..Len(q) : q[i] \in T
  OBVIOUS
<1>2. a \in Seq(T) /\ Len(a) = n /\ \A i \in 1..n : a[i] = q[i]
  OBVIOUS
<1>3. b \in Seq(T) /\ Len(b) = 1 /\ b[1] = l
  OBVIOUS
<1>4. c \in Seq(T) /\ Len(c) = Len(q) - n /\ \A i \in 1..Len(q) - n : c[i] = q[n + i]
  OBVIOUS
<1> HIDE DEF a, b, c
<1>5. /\ a \o b \in Seq(T) /\ Len(a \o b) = n + 1 /\ (a \o b)[n + 1] = l
      /\ \A i \in 1..n : (a \o b)[i] = q[i]
  <2>1. /\ a \o b \in Seq(T) /\ Len(a \o b) = Len(a) + Len(b)
        /\ \A i \in 1..Len(a) + Len(b) : (a \o b)[i] = IF i <= Len(a) THEN a[i] ELSE b[i - Len(a)]
    BY <1>2, <1>3, ConcatProperties
  <2>2. n + 1 \in 1..Len(a) + Len(b) /\ ~(n + 1 <= Len(a)) /\ n + 1 - Len(a) = 1
    BY <1>2, <1>3
  <2>3. (a \o b)[n + 1] = l
    BY <1>3, <2>1, <2>2
  <2> QED BY <1>2, <1>3, <2>1, <2>3
<1> DEFINE d == a \o b
<1> HIDE DEF d
<1>6. d \in Seq(T) /\ Len(d) = n + 1 /\ d[n + 1] = l /\ \A i \in 1..n : d[i] = q[i]
  BY <1>5 DEF d
<1> DEFINE e == d \o c
<1>7. e \in Seq(T) /\ Len(e) = Len(q) + 1
  BY <1>4, <1>6 DEF e
<1>8. ASSUME NEW i \in 1..n + 1 PROVE e[i] = d[i]
  BY <1>4, <1>6 DEF e
<1>9. ASSUME NEW i \in n + 1..Len(q) PROVE e[i + 1] = q[i]
  <2>1. i - n \in 1..Len(c) /\ i + 1 = Len(d) + (i - n) /\ n + (i - n) = i
    BY <1>4, <1>6
  <2>2. e[i + 1] = c[i - n]
    BY <1>4, <1>6, <2>1 DEF e
  <2>3. c[i - n] = q[n + (i - n)]
    BY <1>4, <2>1
  <2> QED BY <2>1, <2>2, <2>3
<1> HIDE DEF e
<1>10. Put(q, l, n) = e
  BY DEF Put, a, b, c, d, e
<1>11. e[n + 1] = l
  BY <1>6, <1>8
<1>12. \A i \in 1..n : e[i] = q[i]
  BY <1>6, <1>8
<1>13. PutIn(e, q, l, n)
  BY <1>7, <1>9, <1>11, <1>12 DEF PutIn
<1> QED BY <1>7, <1>10, <1>13

LEMMA PutSet ==
    ASSUME NEW T, NEW q \in Seq(T), NEW l \in T, NEW n \in 0..Len(q)
    PROVE  ToSet(Put(q, l, n)) = ToSet(q) \cup {l}
<1> DEFINE r == Put(q, l, n)
<1> HIDE DEF r
<1>1. /\ r \in Seq(T) /\ Len(r) = Len(q) + 1 /\ r[n + 1] = l
      /\ \A i \in 1..n : r[i] = q[i]
      /\ \A i \in n + 1..Len(q) : r[i + 1] = q[i]
  <2>1. r \in Seq(T) /\ PutIn(r, q, l, n)
    BY Putting DEF r
  <2> QED BY <2>1 DEF PutIn
<1>2. \A x : x \in ToSet(r) <=> \E i \in 1..Len(r) : x = r[i]
  BY <1>1 DEF ToSet
<1>3. \A x : x \in ToSet(q) <=> \E i \in 1..Len(q) : x = q[i]
  BY DEF ToSet
<1>4. ASSUME NEW i \in 1..Len(r) PROVE r[i] \in ToSet(q) \cup {l}
  <2>1. CASE i <= n
    BY <1>1, <1>3, <2>1
  <2>2. CASE i = n + 1
    BY <1>1, <2>2
  <2>3. CASE i > n + 1
    <3>1. i - 1 \in n + 1..Len(q) /\ i - 1 \in 1..Len(q) /\ i - 1 + 1 = i
      BY <1>1, <2>3
    <3> QED BY <1>1, <1>3, <3>1
  <2> QED BY <2>1, <2>2, <2>3
<1>5. ASSUME NEW i \in 1..Len(q) PROVE q[i] \in ToSet(r)
  <2>1. CASE i <= n
    BY <1>1, <1>2, <2>1
  <2>2. CASE i > n
    BY <1>1, <1>2, <2>2
  <2> QED BY <2>1, <2>2
<1>6. l \in ToSet(r)
  BY <1>1, <1>2
<1> QED BY <1>2, <1>3, <1>4, <1>5, <1>6 DEF r

LEMMA TailSet ==
    ASSUME NEW T, NEW q \in Seq(T), q # << >>
    PROVE  /\ Head(q) \in T /\ Head(q) \in ToSet(q) /\ Head(q) = q[1]
           /\ Tail(q) \in Seq(T) /\ Len(Tail(q)) = Len(q) - 1 /\ Len(q) >= 1
           /\ \A i \in 1..Len(q) - 1 : Tail(q)[i] = q[i + 1]
           /\ ToSet(Tail(q)) \subseteq ToSet(q)
<1>1. /\ Head(q) \in T /\ Tail(q) \in Seq(T) /\ Len(Tail(q)) = Len(q) - 1 /\ Len(q) \in Nat \ {0}
      /\ \A i \in 1..Len(q) - 1 : Tail(q)[i] = q[i + 1]
  BY HeadTailProperties, EmptySeq
<1>2. Head(q) = q[1]
  OBVIOUS
<1>3. \A i \in 1..Len(q) - 1 : Tail(q)[i] \in ToSet(q)
  BY <1>1 DEF ToSet
<1>4. ToSet(Tail(q)) \subseteq ToSet(q)
  BY <1>1, <1>3 DEF ToSet
<1>5. Head(q) \in ToSet(q)
  BY <1>1, <1>2 DEF ToSet
<1> QED BY <1>1, <1>2, <1>4, <1>5

LEMMA SeqMembers ==
    ASSUME NEW T, NEW q \in Seq(T)
    PROVE  ToSet(q) \subseteq T /\ \A i \in 1..Len(q) : q[i] \in ToSet(q)
BY DEF ToSet

\* q holds each member of A once, and nothing else.
Holds(q, A) ==
    /\ q \in Seq(A)
    /\ \A w \in A : \E k \in 1..Len(q) : q[k] = w
    /\ \A j, k \in 1..Len(q) : q[j] = q[k] => j = k

\* r is q without its k-th member.
Without(r, q, k) == \A j \in 1..Len(q) - 1 : r[j] = IF j < k THEN q[j] ELSE q[j + 1]

\* Unlinking w takes it out and keeps the order of the others.
LEMMA Unlinked ==
    ASSUME NEW A, NEW q, Holds(q, A), NEW w \in A
    PROVE  /\ Holds(RemoveFirst(q, w), A \ {w}) /\ Len(RemoveFirst(q, w)) = Len(q) - 1
           /\ \E k \in 1..Len(q) : q[k] = w /\ Without(RemoveFirst(q, w), q, k)
<1> DEFINE I == {i \in 1..Len(q) : q[i] = w}
           k == SelectInSeq(q, LAMBDA v : v = w)
           r == RemoveFirst(q, w)
<1>1. I # {} /\ I \subseteq Nat
  BY DEF Holds
<1>2. PICK m \in I : \A n \in I : m <= n
  BY <1>1, LeastOf
<1>3. k = CHOOSE x \in I : \A y \in I : x <= y
  BY <1>1 DEF SelectInSeq, Min
<1>4. k \in I
  BY <1>2, <1>3
<1>5. k \in 1..Len(q) /\ q[k] = w
  BY <1>4
<1>6. r = SubSeq(q, 1, k - 1) \o SubSeq(q, k + 1, Len(q))
  BY <1>5 DEF RemoveFirst, RemoveAt
<1> HIDE DEF I, k, r
<1>7. q \in Seq(A) /\ Len(q) \in Nat
  BY DEF Holds
<1>8. Len(r) = Len(q) - 1 /\ \A j \in 1..Len(q) - 1 : r[j] = IF j < k THEN q[j] ELSE q[j + 1]
  <2> DEFINE s == SubSeq(q, 1, k - 1)
             t == SubSeq(q, k + 1, Len(q))
  <2>1. s \in Seq(A) /\ Len(s) = k - 1 /\ \A j \in 1..k - 1 : s[j] = q[j]
    BY <1>5, <1>7
  <2>2. t \in Seq(A) /\ Len(t) = Len(q) - k /\ \A j \in 1..Len(q) - k : t[j] = q[j + k]
    BY <1>5, <1>7
  <2>3. r = s \o t
    BY <1>6
  <2> HIDE DEF s, t
  <2>4. Len(r) = Len(q) - 1
    BY <1>5, <1>7, <2>1, <2>2, <2>3
  <2>5. ASSUME NEW j \in 1..Len(q) - 1 PROVE r[j] = IF j < k THEN q[j] ELSE q[j + 1]
    <3>1. CASE j < k
      <4>1. j \in 1..k - 1 /\ r[j] = s[j]
        BY <1>5, <1>7, <2>1, <2>2, <2>3, <3>1
      <4> QED BY <2>1, <3>1, <4>1
    <3>2. CASE j >= k
      <4>1. j - (k - 1) \in 1..Len(q) - k /\ r[j] = t[j - (k - 1)] /\ j - (k - 1) + k = j + 1
        BY <1>5, <1>7, <2>1, <2>2, <2>3, <3>2
      <4>2. r[j] = q[j - (k - 1) + k] /\ ~(j < k)
        BY <1>5, <2>2, <3>2, <4>1
      <4> QED BY <4>1, <4>2
    <3> QED BY <1>5, <3>1, <3>2
  <2> QED BY <2>4, <2>5
<1>9. Holds(r, A \ {w})
  <2>1. r \in Seq(A)
    BY <1>5, <1>6, <1>7
  <2>2. ASSUME NEW j \in 1..Len(r) PROVE r[j] \in A \ {w}
    <3>1. PICK i \in 1..Len(q) : i # k /\ r[j] = q[i]
      <4>1. CASE j < k
        BY <1>5, <1>7, <1>8, <4>1
      <4>2. CASE j >= k
        <5>1. j + 1 \in 1..Len(q) /\ j + 1 # k /\ r[j] = q[j + 1]
          BY <1>5, <1>7, <1>8, <4>2
        <5> QED BY <5>1
      <4> QED BY <1>5, <4>1, <4>2
    <3>2. q[i] = q[k] => i = k
      BY <1>5 DEF Holds
    <3>3. q[i] \in A /\ q[i] # w
      BY <1>5, <1>7, <3>1, <3>2
    <3> QED BY <3>1, <3>3
  <2>3. r \in Seq(A \ {w})
    <3>1. r = [j \in 1..Len(r) |-> r[j]] /\ Len(r) \in Nat
      BY <2>1
    <3> QED BY <2>2, <3>1
  <2>4. ASSUME NEW v \in A \ {w} PROVE \E j \in 1..Len(r) : r[j] = v
    <3>1. PICK i \in 1..Len(q) : q[i] = v
      BY DEF Holds
    <3>2. i # k
      BY <1>5, <3>1
    <3>3. CASE i < k
      BY <1>5, <1>7, <1>8, <3>1, <3>3
    <3>4. CASE i > k
      <4>1. i - 1 \in 1..Len(r) /\ r[i - 1] = v
        BY <1>5, <1>7, <1>8, <3>1, <3>4
      <4> QED BY <4>1
    <3> QED BY <1>5, <3>1, <3>2, <3>3, <3>4
  <2>5. ASSUME NEW i \in 1..Len(r), NEW j \in 1..Len(r), r[i] = r[j] PROVE i = j
    <3> DEFINE up(x) == IF x < k THEN x ELSE x + 1
    <3>1. up(i) \in 1..Len(q) /\ up(j) \in 1..Len(q) /\ r[i] = q[up(i)] /\ r[j] = q[up(j)]
      BY <1>5, <1>7, <1>8
    <3>2. up(i) = up(j)
      BY <2>5, <3>1 DEF Holds
    <3> QED BY <1>5, <1>7, <1>8, <3>2
  <2> QED BY <2>3, <2>4, <2>5 DEF Holds
<1> QED BY <1>5, <1>8, <1>9 DEF r, Without

\* y is x behind a head t.
Headed(x, y, t) == /\ Len(y) = Len(x) + 1 /\ y[1] = t
                   /\ \A k \in 1..Len(x) : y[k + 1] = x[k]

\* A list with another head.
LEMMA HeadThen ==
    ASSUME NEW S, NEW x \in Seq(S), NEW y \in Seq(S), NEW t \in S, Headed(x, y, t)
    PROVE  y = <<t>> \o x
<1> USE DEF Headed
<1> DEFINE r == <<t>> \o x
<1>1. r \in Seq(S) /\ Len(r) = Len(x) + 1 /\ r[1] = t /\ \A k \in 1..Len(x) : r[k + 1] = x[k]
  OBVIOUS
<1> HIDE DEF r
<1>2. ASSUME NEW k \in 1..Len(y) PROVE y[k] = r[k]
  <2>1. Len(x) \in Nat
    OBVIOUS
  <2>2. CASE k = 1
    BY <1>1, <2>2
  <2>3. CASE k # 1
    <3>1. k - 1 \in 1..Len(x) /\ k - 1 + 1 = k
      BY <2>1, <2>3
    <3>2. y[k - 1 + 1] = x[k - 1] /\ r[k - 1 + 1] = x[k - 1]
      BY <1>1, <3>1
    <3> QED BY <3>1, <3>2
  <2> QED BY <2>2, <2>3
<1>3. y = r
  BY <1>1, <1>2, SeqEqual
<1> QED BY <1>3 DEF r

\* Q lists n members of A, each once.
Lists(Q, n, A) ==
    /\ n \in Nat /\ Len(Q) = n /\ DOMAIN Q = 1..n /\ \A k \in 1..n : Q[k] \in A
    /\ \A j, k \in 1..n : Q[j] = Q[k] => j = k

\* The members of a list at some of its places are as many as the places.
LEMMA CountListed ==
    ASSUME NEW Q, NEW n, NEW A, Lists(Q, n, A), NEW P, P \subseteq 1..n
    PROVE  /\ IsFiniteSet({Q[k] : k \in P}) /\ IsFiniteSet(P) /\ Cardinality(P) \in Nat
           /\ Cardinality({Q[k] : k \in P}) = Cardinality(P)
<1> DEFINE T == {Q[k] : k \in P}
           f == [k \in P |-> Q[k]]
<1>1. IsFiniteSet(P) /\ Cardinality(P) \in Nat
  <2>1. n \in Nat /\ 1 \in Int /\ n \in Int
    BY DEF Lists
  <2>2. IsFiniteSet(1..n)
    BY <2>1, FS_Interval
  <2> QED BY <2>2, FS_Subset, FS_CardinalityType
<1>2. f \in Bijection(P, T)
  <2>1. f \in [P -> T] /\ (\A x \in T : \E k \in P : f[k] = x)
    OBVIOUS
  <2>2. \A i, j \in P : f[i] = f[j] => i = j
    BY DEF Lists
  <2> QED BY <2>1, <2>2, Fun_IsBij
<1>3. ExistsBijection(P, T)
  BY <1>2 DEF ExistsBijection
<1> HIDE DEF T
<1>4. IsFiniteSet(T) /\ Cardinality(T) = Cardinality(P)
  BY <1>1, <1>3, FS_Bijection
<1> QED BY <1>1, <1>4 DEF T

-----------------------------------------------------------------------------
(* Circular queues.                                                        *)

\* A circular queue of N slots, n of them in use from h on; t is the next free one.
Ring(h, t, n, N) ==
    N \in Nat \ {0} /\ h \in 0..N - 1 /\ t \in 0..N - 1 /\ n \in 0..N /\ (h + n) % N = t

\* The slot of position k of a queue that starts at h.
Slot0(h, k, N) == (h + k - 1) % N

LEMMA Around ==
    ASSUME NEW N \in Nat \ {0}, NEW a \in 0..2 * N - 1
    PROVE  a % N = IF a < N THEN a ELSE a - N
OBVIOUS

LEMMA RingSlots ==
    ASSUME NEW h, NEW t, NEW n, NEW N, Ring(h, t, n, N)
    PROVE  /\ \A k \in 1..N : Slot0(h, k, N) \in 0..N - 1
           /\ \A i, j \in 1..N : Slot0(h, i, N) = Slot0(h, j, N) => i = j
           /\ n < N => Slot0(h, n + 1, N) = t
           /\ Slot0(h, 1, N) = h /\ h % N = h /\ t % N = t
<1>1. \A k \in 1..N : h + k - 1 \in 0..3 * N - 1
  BY DEF Ring
<1>2. \A k \in 1..N : Slot0(h, k, N) = IF h + k - 1 < N THEN h + k - 1 ELSE h + k - 1 - N
  BY <1>1 DEF Ring, Slot0
<1>3. h % N = h /\ t % N = t
  BY DEF Ring
<1>4. n < N => Slot0(h, n + 1, N) = t
  <2> SUFFICES ASSUME n < N PROVE Slot0(h, n + 1, N) = t
    OBVIOUS
  <2>1. h + n + 1 - 1 = h + n
    BY DEF Ring
  <2> QED BY <2>1 DEF Ring, Slot0
<1> QED BY <1>2, <1>3, <1>4 DEF Ring

LEMMA RingBehead ==
    ASSUME NEW h, NEW t, NEW n, NEW N, Ring(h, t, n, N), n > 0, NEW g, g = (h + 1) % N
    PROVE  /\ Ring(g, t, n - 1, N)
           /\ \A k \in 1..n - 1 : Slot0(g, k, N) = Slot0(h, k + 1, N)
<1>1. h + 1 \in 0..3 * N - 1 /\ h + n \in 0..3 * N - 1
  BY DEF Ring
<1>2. (h + 1) % N = (IF h + 1 < N THEN h + 1 ELSE h + 1 - N)
  BY <1>1 DEF Ring
<1>3. t = (IF h + n < N THEN h + n ELSE h + n - N)
  BY <1>1 DEF Ring
<1>4. g \in 0..N - 1 /\ g + n - 1 \in 0..3 * N - 1 /\ \A k \in 1..n - 1 : g + k - 1 \in 0..3 * N - 1 /\ h + k \in 0..3 * N - 1
  BY <1>2 DEF Ring
<1>5. \A k \in 1..n - 1 : h + (k + 1) - 1 = h + k
  BY DEF Ring
<1>6. g = (IF h + 1 < N THEN h + 1 ELSE h + 1 - N)
  BY <1>2
<1>7. (g + n - 1) % N = t
  BY <1>3, <1>4, <1>6 DEF Ring
<1>8. ASSUME NEW k \in 1..n - 1 PROVE Slot0(g, k, N) = Slot0(h, k + 1, N)
  <2>1. (g + k - 1) % N = (IF g + k - 1 < N THEN g + k - 1 ELSE g + k - 1 - N)
    BY <1>4 DEF Ring
  <2>2. (h + k) % N = (IF h + k < N THEN h + k ELSE h + k - N)
    BY <1>4 DEF Ring
  <2>3. (g + k - 1) % N = (h + k) % N
    BY <1>4, <1>6, <2>1, <2>2 DEF Ring
  <2> QED BY <1>5, <2>3 DEF Slot0
<1>9. Ring(g, t, n - 1, N)
  <2>1. g + (n - 1) = g + n - 1
    BY <1>4 DEF Ring
  <2> QED BY <1>4, <1>7, <2>1 DEF Ring
<1> QED BY <1>8, <1>9

LEMMA RingAppend ==
    ASSUME NEW h, NEW t, NEW n, NEW N, Ring(h, t, n, N), n < N
    PROVE  Ring(h, (t + 1) % N, n + 1, N)
<1>1. h + n \in 0..3 * N - 1 /\ h + (n + 1) \in 0..3 * N - 1 /\ t + 1 \in 0..3 * N - 1
  BY DEF Ring
<1>2. /\ t = (IF h + n < N THEN h + n ELSE h + n - N)
      /\ (t + 1) % N = (IF t + 1 < N THEN t + 1 ELSE t + 1 - N)
      /\ (h + (n + 1)) % N = (IF h + (n + 1) < N THEN h + (n + 1) ELSE h + (n + 1) - N)
  BY <1>1 DEF Ring
<1> QED BY <1>2 DEF Ring

\* The last c entries go.
LEMMA RingCut ==
    ASSUME NEW h, NEW t, NEW n, NEW N, Ring(h, t, n, N), NEW c \in 0..n
    PROVE  /\ Ring(h, (t + N - c) % N, n - c, N)
           /\ \A k \in 1..c : (t + N - k) % N = Slot0(h, n + 1 - k, N)
<1>1. h + n \in 0..3 * N - 1 /\ h + (n - c) \in 0..3 * N - 1 /\ t + N - c \in 0..3 * N - 1
  BY DEF Ring
<1>2. /\ t = (IF h + n < N THEN h + n ELSE h + n - N)
      /\ (t + N - c) % N = (IF t + N - c < N THEN t + N - c ELSE t + N - c - N)
      /\ (h + (n - c)) % N = (IF h + (n - c) < N THEN h + (n - c) ELSE h + (n - c) - N)
  BY <1>1 DEF Ring
<1>3. Ring(h, (t + N - c) % N, n - c, N)
  BY <1>2 DEF Ring
<1>4. ASSUME NEW k \in 1..c PROVE (t + N - k) % N = Slot0(h, n + 1 - k, N)
  <2>1. t + N - k \in 0..3 * N - 1 /\ h + (n - k) \in 0..3 * N - 1 /\ h + (n + 1 - k) - 1 = h + (n - k)
    BY DEF Ring
  <2>2. /\ (t + N - k) % N = (IF t + N - k < N THEN t + N - k ELSE t + N - k - N)
        /\ (h + (n - k)) % N = (IF h + (n - k) < N THEN h + (n - k) ELSE h + (n - k) - N)
    BY <2>1 DEF Ring
  <2>3. (t + N - k) % N = (h + (n - k)) % N
    BY <1>2, <2>2 DEF Ring
  <2> QED BY <2>1, <2>3 DEF Slot0
<1> QED BY <1>3, <1>4

\* The entries behind the one at position o.
LEMMA RingBehind ==
    ASSUME NEW h, NEW t, NEW n, NEW N, Ring(h, t, n, N), NEW o \in 1..n
    PROVE  /\ (t + N - 1 - Slot0(h, o, N)) % N = n - o
           /\ \A k \in 1..n - o : (Slot0(h, o, N) + k) % N = Slot0(h, o + k, N)
<1> DEFINE b == Slot0(h, o, N)
<1>1. h + n \in 0..3 * N - 1 /\ h + o - 1 \in 0..3 * N - 1
  BY DEF Ring
<1>2. /\ t = (IF h + n < N THEN h + n ELSE h + n - N)
      /\ b = (IF h + o - 1 < N THEN h + o - 1 ELSE h + o - 1 - N)
  BY <1>1 DEF Ring, Slot0
<1> HIDE DEF b
<1>3. b \in 0..N - 1 /\ t + N - 1 - b \in 0..3 * N - 1
  BY <1>2 DEF Ring
<1>4. (t + N - 1 - b) % N = (IF t + N - 1 - b < N THEN t + N - 1 - b ELSE t + N - 1 - b - N)
  BY <1>3 DEF Ring
<1>5. (t + N - 1 - b) % N = n - o
  BY <1>2, <1>3, <1>4 DEF Ring
<1>6. ASSUME NEW k \in 1..n - o PROVE (b + k) % N = Slot0(h, o + k, N)
  <2>1. b + k \in 0..3 * N - 1 /\ h + (o + k) - 1 \in 0..3 * N - 1
    BY <1>3 DEF Ring
  <2>2. (b + k) % N = (IF b + k < N THEN b + k ELSE b + k - N)
    <3>1. N \in Nat \ {0} /\ k \in Nat /\ b \in Nat /\ b < N /\ b + k < 2 * N
      BY <1>3 DEF Ring
    <3>2. CASE b + k < N
      BY <3>1, <3>2
    <3>3. CASE b + k >= N
      BY <3>1, <3>3
    <3> QED BY <3>1, <3>2, <3>3
  <2>4. (h + (o + k) - 1) % N = (IF h + (o + k) - 1 < N THEN h + (o + k) - 1 ELSE h + (o + k) - 1 - N)
    BY <2>1 DEF Ring
  <2>3. (b + k) % N = (h + (o + k) - 1) % N
    BY <1>2, <1>3, <2>1, <2>2, <2>4 DEF Ring
  <2> QED BY <2>3 DEF Slot0
<1> QED BY <1>5, <1>6 DEF b

\* The stations of queue q from position 1 to n.
RingLine(q, h, n, N) == [k \in 1..n |-> <<q, Slot0(h, k, N)>>]

LEMMA LineLists ==
    ASSUME NEW q, NEW h, NEW t, NEW n, NEW N, Ring(h, t, n, N)
    PROVE  /\ Lists(RingLine(q, h, n, N), n, {q} \X (0..N - 1))
           /\ n < N => /\ <<q, t % N>> \in {q} \X (0..N - 1)
                       /\ \A k \in 1..n : RingLine(q, h, n, N)[k] # <<q, t % N>>
           /\ n > 0 => RingLine(q, h, n, N)[1] = <<q, h % N>>
<1> DEFINE Q == RingLine(q, h, n, N)
<1>1. n \in Nat /\ N \in Nat \ {0} /\ n <= N /\ t \in 0..N - 1
  BY DEF Ring
<1>2. /\ \A k \in 1..N : Slot0(h, k, N) \in 0..N - 1
      /\ \A i, j \in 1..N : Slot0(h, i, N) = Slot0(h, j, N) => i = j
      /\ n < N => Slot0(h, n + 1, N) = t
      /\ Slot0(h, 1, N) = h /\ h % N = h /\ t % N = t
  BY RingSlots
<1>3. Len(Q) = n /\ DOMAIN Q = 1..n /\ \A k \in 1..n : Q[k] = <<q, Slot0(h, k, N)>>
  BY <1>1 DEF RingLine
<1> HIDE DEF Q
<1>4. \A k \in 1..n : k \in 1..N
  BY <1>1
<1>5. Lists(Q, n, {q} \X (0..N - 1))
  <2>1. ASSUME NEW k \in 1..n PROVE Q[k] \in {q} \X (0..N - 1)
    <3>1. Slot0(h, k, N) \in 0..N - 1 /\ Q[k] = <<q, Slot0(h, k, N)>>
      BY <1>2, <1>3, <1>4
    <3> QED BY <3>1
  <2>2. ASSUME NEW j \in 1..n, NEW k \in 1..n, Q[j] = Q[k] PROVE j = k
    <3>1. Slot0(h, j, N) = Slot0(h, k, N)
      BY <1>3, <2>2
    <3> QED BY <1>2, <1>4, <3>1
  <2> QED BY <1>1, <1>3, <2>1, <2>2 DEF Lists
<1>6. n < N => \A k \in 1..n : Q[k] # <<q, t % N>>
  <2> SUFFICES ASSUME n < N, NEW k \in 1..n PROVE Q[k] # <<q, t % N>>
    OBVIOUS
  <2>1. n + 1 \in 1..N /\ k \in 1..N /\ k # n + 1
    BY <1>1
  <2>2. Slot0(h, k, N) # t % N
    BY <1>2, <2>1
  <2> QED BY <1>3, <2>2
<1>7. n > 0 => Q[1] = <<q, h % N>>
  BY <1>1, <1>2, <1>3
<1> QED BY <1>1, <1>2, <1>5, <1>6, <1>7 DEF Q

\* What becomes of the line when its head leaves, an entry is added, or its last c go.
LEMMA LineBehead ==
    ASSUME NEW q, NEW h, NEW t, NEW n, NEW N, Ring(h, t, n, N), n > 0, NEW g, g = (h + 1) % N
    PROVE  /\ Ring(g, t, n - 1, N)
           /\ \A k \in 1..n - 1 : RingLine(q, g, n - 1, N)[k] = RingLine(q, h, n, N)[k + 1]
<1>1. Ring(g, t, n - 1, N) /\ \A k \in 1..n - 1 : Slot0(g, k, N) = Slot0(h, k + 1, N)
  BY RingBehead
<1>2. \A k \in 1..n - 1 : k + 1 \in 1..n
  BY DEF Ring
<1> QED BY <1>1, <1>2 DEF RingLine

LEMMA LineNext ==
    ASSUME NEW q, NEW h, NEW t, NEW n, NEW N, Ring(h, t, n, N), n < N, NEW b, b = t % N
    PROVE  /\ b \in 0..N - 1 /\ \A k \in 1..n : RingLine(q, h, n, N)[k] # <<q, b>>
           /\ \A k \in 1..n : RingLine(q, h, n + 1, N)[k] = RingLine(q, h, n, N)[k]
           /\ RingLine(q, h, n + 1, N)[n + 1] = <<q, b>>
<1>1. /\ \A i, j \in 1..N : Slot0(h, i, N) = Slot0(h, j, N) => i = j
      /\ n < N => Slot0(h, n + 1, N) = t
      /\ t % N = t
  BY RingSlots
<1>5. t \in 0..N - 1
  BY DEF Ring
<1>2. n + 1 \in 1..n + 1 /\ n + 1 \in 1..N /\ \A k \in 1..n : k \in 1..n + 1 /\ k \in 1..N /\ k # n + 1
  BY DEF Ring
<1>3. b = t
  BY <1>1
<1>4. \A k \in 1..n : Slot0(h, k, N) # t
  BY <1>1, <1>2
<1> QED BY <1>1, <1>2, <1>3, <1>4, <1>5 DEF RingLine

LEMMA LineAppend ==
    ASSUME NEW h, NEW t, NEW n, NEW N, Ring(h, t, n, N), n < N, NEW u, u = (t + 1) % N
    PROVE  Ring(h, u, n + 1, N)
BY RingAppend

LEMMA LineCut ==
    ASSUME NEW q, NEW h, NEW t, NEW n, NEW N, Ring(h, t, n, N), NEW c \in 0..n
    PROVE  /\ Ring(h, (t + N - c) % N, n - c, N)
           /\ \A k \in 1..n - c : RingLine(q, h, n - c, N)[k] = RingLine(q, h, n, N)[k]
           /\ {<<q, (t + N - k) % N>> : k \in 1..c} = {RingLine(q, h, n, N)[k] : k \in n - c + 1..n}
<1>1. /\ Ring(h, (t + N - c) % N, n - c, N)
      /\ \A k \in 1..c : (t + N - k) % N = Slot0(h, n + 1 - k, N)
  BY RingCut
<1>2. n \in Nat /\ \A k \in 1..n - c : k \in 1..n
  BY DEF Ring
<1>3. \A k \in 1..n - c : RingLine(q, h, n - c, N)[k] = RingLine(q, h, n, N)[k]
  BY <1>2 DEF RingLine
<1> DEFINE Q == RingLine(q, h, n, N)
<1>4. \A k \in 1..n : Q[k] = <<q, Slot0(h, k, N)>>
  BY DEF RingLine
<1> HIDE DEF Q
<1>5. ASSUME NEW k \in 1..c PROVE \E j \in n - c + 1..n : <<q, (t + N - k) % N>> = Q[j]
  <2>1. n + 1 - k \in n - c + 1..n /\ n + 1 - k \in 1..n
    BY <1>2
  <2>2. Q[n + 1 - k] = <<q, Slot0(h, n + 1 - k, N)>>
    BY <1>4, <2>1
  <2>3. (t + N - k) % N = Slot0(h, n + 1 - k, N)
    BY <1>1
  <2> QED BY <2>1, <2>2, <2>3
<1>6. ASSUME NEW j \in n - c + 1..n PROVE \E k \in 1..c : Q[j] = <<q, (t + N - k) % N>>
  <2> DEFINE k == n + 1 - j
  <2>1. k \in 1..c /\ j \in 1..n /\ n + 1 - k = j
    BY <1>2
  <2> HIDE DEF k
  <2>2. (t + N - k) % N = Slot0(h, n + 1 - k, N)
    BY <1>1, <2>1
  <2>3. Q[j] = <<q, Slot0(h, j, N)>>
    BY <1>4, <2>1
  <2> QED BY <2>1, <2>2, <2>3
<1>7. {<<q, (t + N - k) % N>> : k \in 1..c} = {Q[k] : k \in n - c + 1..n}
  BY <1>5, <1>6
<1> QED BY <1>1, <1>3, <1>7 DEF Q

LEMMA LineBehind ==
    ASSUME NEW q, NEW h, NEW t, NEW n, NEW N, Ring(h, t, n, N), NEW o \in 1..n, NEW b,
           RingLine(q, h, n, N)[o] = <<q, b>>
    PROVE  /\ (t + N - 1 - b) % N = n - o
           /\ {<<q, (b + k) % N>> : k \in 1..n - o} = {RingLine(q, h, n, N)[k] : k \in o + 1..n}
<1> DEFINE Q == RingLine(q, h, n, N)
<1>1. b = Slot0(h, o, N)
  BY DEF RingLine
<1>2. (t + N - 1 - b) % N = n - o /\ \A k \in 1..n - o : (b + k) % N = Slot0(h, o + k, N)
  BY <1>1, RingBehind
<1>3. n \in Nat
  BY DEF Ring
<1>4. \A k \in 1..n : Q[k] = <<q, Slot0(h, k, N)>>
  BY DEF RingLine
<1> HIDE DEF Q
<1>5. ASSUME NEW k \in 1..n - o PROVE \E j \in o + 1..n : <<q, (b + k) % N>> = Q[j]
  <2>1. o + k \in o + 1..n /\ o + k \in 1..n
    BY <1>3
  <2>2. Q[o + k] = <<q, Slot0(h, o + k, N)>>
    BY <1>4, <2>1
  <2>3. (b + k) % N = Slot0(h, o + k, N)
    BY <1>2
  <2> QED BY <2>1, <2>2, <2>3
<1>6. ASSUME NEW j \in o + 1..n PROVE \E k \in 1..n - o : Q[j] = <<q, (b + k) % N>>
  <2> DEFINE k == j - o
  <2>1. k \in 1..n - o /\ j \in 1..n /\ o + k = j
    BY <1>3
  <2> HIDE DEF k
  <2>2. (b + k) % N = Slot0(h, o + k, N)
    BY <1>2, <2>1
  <2>3. Q[j] = <<q, Slot0(h, j, N)>>
    BY <1>4, <2>1
  <2> QED BY <2>1, <2>2, <2>3
<1>7. {<<q, (b + k) % N>> : k \in 1..n - o} = {Q[k] : k \in o + 1..n}
  BY <1>5, <1>6
<1> QED BY <1>2, <1>7 DEF Q

-----------------------------------------------------------------------------
(* Counting the places of a list that hold a member of H.                  *)

InAt(q, H) == {n \in DOMAIN q : q[n] \in H}
NumIn(q, H) == Cardinality(InAt(q, H))

LEMMA InAtFinite ==
    ASSUME NEW T, NEW q \in Seq(T), NEW H
    PROVE  /\ IsFiniteSet(InAt(q, H)) /\ NumIn(q, H) \in Nat /\ InAt(q, H) \subseteq 1..Len(q)
           /\ (\A n \in 1..Len(q) : q[n] \notin H) => NumIn(q, H) = 0
<1>1. InAt(q, H) \subseteq 1..Len(q) /\ DOMAIN q = 1..Len(q)
  BY DEF InAt
<1>2. IsFiniteSet(1..Len(q))
  <2>1. 1 \in Int /\ Len(q) \in Int
    OBVIOUS
  <2> QED BY <2>1, FS_Interval
<1>3. IsFiniteSet(InAt(q, H)) /\ NumIn(q, H) \in Nat
  BY <1>1, <1>2, FS_Subset, FS_CardinalityType DEF NumIn
<1>4. ASSUME \A n \in 1..Len(q) : q[n] \notin H PROVE NumIn(q, H) = 0
  <2>1. InAt(q, H) = {}
    BY <1>1, <1>4 DEF InAt
  <2> QED BY <2>1, FS_EmptySet DEF NumIn
<1> QED BY <1>1, <1>3, <1>4

\* One more place holds a member when one is put in.
LEMMA PutCounts ==
    ASSUME NEW T, NEW q \in Seq(T), NEW l \in T, NEW n \in 0..Len(q), NEW H
    PROVE  NumIn(Put(q, l, n), H) = NumIn(q, H) + (IF l \in H THEN 1 ELSE 0)
<1>1. PICK r : r = Put(q, l, n)
  OBVIOUS
<1>2. r \in Seq(T) /\ PutIn(r, q, l, n)
  BY <1>1, Putting
<1>3. /\ Len(r) = Len(q) + 1 /\ Len(q) \in Nat /\ r[n + 1] = l
      /\ \A i \in 1..n : r[i] = q[i]
      /\ \A i \in n + 1..Len(q) : r[i + 1] = q[i]
      /\ DOMAIN r = 1..Len(r) /\ DOMAIN q = 1..Len(q)
  BY <1>2 DEF PutIn
<1> DEFINE f == [k \in 1..Len(q) |-> IF k <= n THEN k ELSE k + 1]
           P == InAt(q, H)
           A == {f[k] : k \in P}
<1>4. Lists(f, Len(q), Nat)
  BY <1>3 DEF Lists
<1>5. P \subseteq 1..Len(q)
  BY InAtFinite
<1>6. ASSUME NEW i \in 1..Len(r), i # n + 1 PROVE r[i] \in H <=> i \in A
  <2>1. CASE i <= n
    <3>1. r[i] = q[i] /\ i \in 1..Len(q) /\ f[i] = i
      BY <1>3, <2>1
    <3>2. i \in A => i \in P
      <4>1. \A k \in 1..Len(q) : f[k] = i => k = i
        BY <2>1
      <4> HIDE DEF f
      <4> QED BY <1>5, <4>1
    <3>3. i \in P => i \in A
      BY <3>1
    <3> QED BY <1>3, <3>1, <3>2, <3>3 DEF InAt
  <2>2. CASE i > n
    <3>1. i - 1 \in n + 1..Len(q) /\ i - 1 \in 1..Len(q) /\ (i - 1) + 1 = i /\ ~(i - 1 <= n)
      <4> HIDE DEF f
      <4>1. i \in Int /\ n \in Int /\ n >= 0 /\ Len(q) \in Int /\ i <= Len(q) + 1 /\ i > n /\ i # n + 1
        BY <1>3, <1>6, <2>2
      <4> QED BY <4>1
    <3>4. r[i] = q[i - 1]
      BY <1>3, <3>1
    <3>5. f[i - 1] = i
      BY <3>1
    <3>2. i \in A => i - 1 \in P
      <4>1. \A k \in 1..Len(q) : f[k] = i => k = i - 1
        BY <2>2
      <4> HIDE DEF f
      <4> QED BY <1>5, <4>1
    <3>3. i - 1 \in P => i \in A
      BY <3>5
    <3> QED BY <1>3, <3>1, <3>2, <3>3, <3>4 DEF InAt
  <2> QED BY <2>1, <2>2
<1>7. n + 1 \notin A /\ A \subseteq 1..Len(r) /\ n + 1 \in 1..Len(r)
  <2>1. \A k \in 1..Len(q) : f[k] # n + 1 /\ f[k] \in 1..Len(r)
    BY <1>3
  <2> HIDE DEF f
  <2> QED BY <1>3, <1>5, <2>1
<1>8. IsFiniteSet(A) /\ Cardinality(A) = NumIn(q, H)
  <2> HIDE DEF f
  <2> QED BY <1>4, <1>5, CountListed DEF NumIn
<1> HIDE DEF A
<1>9. CASE l \in H
  <2>1. InAt(r, H) = A \cup {n + 1}
    BY <1>3, <1>6, <1>7, <1>9 DEF InAt
  <2>2. Cardinality(A \cup {n + 1}) = Cardinality(A) + 1
    BY <1>7, <1>8, FS_AddElement
  <2> QED BY <1>1, <1>8, <1>9, <2>1, <2>2 DEF NumIn
<1>10. CASE l \notin H
  <2>1. InAt(r, H) = A
    BY <1>3, <1>6, <1>7, <1>10 DEF InAt
  <2>2. NumIn(q, H) \in Nat
    BY InAtFinite
  <2> QED BY <1>1, <1>8, <1>10, <2>1, <2>2 DEF NumIn
<1> QED BY <1>9, <1>10

\* And one less when the first is taken.
LEMMA TailCounts ==
    ASSUME NEW T, NEW q \in Seq(T), q # << >>, NEW H
    PROVE  NumIn(q, H) = NumIn(Tail(q), H) + (IF Head(q) \in H THEN 1 ELSE 0)
<1>1. PICK r : r = Tail(q)
  OBVIOUS
<1>2. /\ Head(q) \in T /\ Head(q) = q[1] /\ r \in Seq(T) /\ Len(r) = Len(q) - 1 /\ Len(q) >= 1
      /\ \A i \in 1..Len(q) - 1 : r[i] = q[i + 1]
  BY <1>1, TailSet
<1>3. 0 \in 0..Len(r) /\ Head(q) \in T
  BY <1>2
<1>4. PICK p : p = Put(r, Head(q), 0)
  OBVIOUS
<1>5. p \in Seq(T) /\ PutIn(p, r, Head(q), 0)
  BY <1>2, <1>3, <1>4, Putting
<1>6. Len(p) = Len(q) /\ \A i \in 1..Len(q) : p[i] = q[i]
  <2>1. Len(p) = Len(q) /\ p[1] = Head(q) /\ \A i \in 1..Len(r) : p[i + 1] = r[i]
    BY <1>2, <1>5 DEF PutIn
  <2>2. ASSUME NEW i \in 1..Len(q) PROVE p[i] = q[i]
    <3>1. CASE i = 1
      BY <1>2, <2>1, <3>1
    <3>2. CASE i # 1
      <4>1. i - 1 \in 1..Len(r) /\ (i - 1) + 1 = i /\ i - 1 \in 1..Len(q) - 1
        BY <1>2, <3>2
      <4> QED BY <1>2, <2>1, <4>1
    <3> QED BY <3>1, <3>2
  <2> QED BY <2>1, <2>2
<1>7. InAt(p, H) = InAt(q, H)
  BY <1>5, <1>6 DEF InAt
<1>8. NumIn(p, H) = NumIn(r, H) + (IF Head(q) \in H THEN 1 ELSE 0)
  BY <1>2, <1>3, <1>4, PutCounts
<1> QED BY <1>1, <1>7, <1>8 DEF NumIn
=============================================================================
