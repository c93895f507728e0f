--------------------------- MODULE TranslationProofs ---------------------------
(***************************************************************************)
(* Proofs about Translation.                                               *)
(***************************************************************************)
EXTENDS Translation, FiniteSetTheorems, FunctionTheorems, WellFoundedInduction, SequenceTheorems, TLAPS

--------------------------------------------------------------------------------
(* Induction over a set of naturals *)

LEMMA Least == ASSUME NEW S, S \subseteq Nat, S # {} PROVE \E n \in S : \A m \in S : n <= m
  <1> DEFINE R == OpToRel(<, Nat)
  <1>1. IsWellFoundedOn(R, Nat)
    BY NatLessThanWellFounded, Zenon
  <1>2. PICK n \in S : \A m \in S : <<m, n>> \notin R
    <2> HIDE DEF R
    <2> QED
      BY <1>1, WFMin
  <1>3. \A m \in S : ~(m < n)
    BY <1>2 DEF OpToRel
  <1> QED
    BY <1>3

\* A set that holds 0 and with each number the next holds all.
LEMMA ByInduction == ASSUME NEW S, 0 \in S, \A n \in Nat : n \in S => n + 1 \in S PROVE \A n \in Nat : n \in S
  <1>1. SUFFICES ASSUME Nat \ S # {} PROVE FALSE
    OBVIOUS
  <1>2. PICK n \in Nat \ S : \A m \in Nat \ S : n <= m
    BY <1>1, Least
  <1>3. n - 1 \in Nat /\ n - 1 \in S
    BY <1>2
  <1> QED
    BY <1>2, <1>3

\* A function defined step by step, each value from the one before, exists.
Stepwise(S, N, F) == \A i \in 1..N : \A x \in S : F[<<i, x>>] \in S
Follows(f, S, a, N, F) == f \in [0..N -> S] /\ f[0] = a /\ \A i \in 1..N : f[i] = F[<<i, f[i - 1]>>]
LEMMA ByRecursion == ASSUME NEW S, NEW a \in S, NEW N \in Nat, NEW F, Stepwise(S, N, F) PROVE \E f : Follows(f, S, a, N, F)
  <1> DEFINE Upto(n, f) == f[0] = a /\ \A i \in 1..n : f[i] = F[<<i, f[i - 1]>>]
             X == {n \in Nat : n <= N => \E f \in [0..n -> S] : Upto(n, f)}
  <1>1. 0 \in X
    <2>1. [i \in 0..0 |-> a] \in [0..0 -> S] /\ Upto(0, [i \in 0..0 |-> a])
      OBVIOUS
    <2> QED
      BY <2>1
  <1>2. ASSUME NEW n \in Nat, n \in X PROVE n + 1 \in X
    <2> SUFFICES ASSUME n + 1 <= N PROVE \E f \in [0..(n + 1) -> S] : Upto(n + 1, f)
      OBVIOUS
    <2>1. PICK f \in [0..n -> S] : Upto(n, f)
      BY <1>2
    <2> DEFINE g == [i \in 0..(n + 1) |-> IF i <= n THEN f[i] ELSE F[<<n + 1, f[n]>>]]
    <2>2. n + 1 \in 1..N /\ n \in 0..n /\ f[n] \in S
      OBVIOUS
    <2>3. F[<<n + 1, f[n]>>] \in S
      BY <2>2 DEF Stepwise
    <2>4. g \in [0..(n + 1) -> S]
      BY <2>3
    <2>5. g[0] = a
      BY <2>1
    <2>6. ASSUME NEW i \in 1..(n + 1) PROVE g[i] = F[<<i, g[i - 1]>>]
      <3>1. CASE i <= n
        BY <2>1, <3>1
      <3>2. CASE i = n + 1
        BY <3>2
      <3> QED
        BY <3>1, <3>2
    <2> QED
      BY <2>4, <2>5, <2>6
  <1>3. N \in X
    <2> HIDE DEF X
    <2> QED
      BY <1>1, <1>2, ByInduction
  <1>4. PICK f \in [0..N -> S] : Upto(N, f)
    BY <1>3
  <1>5. Follows(f, S, a, N, F)
    BY <1>4 DEF Follows
  <1> QED
    BY <1>5

--------------------------------------------------------------------------------
(* Positions in a sequence *)

\* The positions of a finite set are numbered in their order.
LEMMA NthFacts ==
    ASSUME NEW I \in SUBSET Nat, IsFiniteSet(I)
    PROVE  /\ Cardinality(I) \in Nat
           /\ \A j \in 1..Cardinality(I) : Nth(I, j) \in I
           /\ \A i \in I : \E j \in 1..Cardinality(I) : Nth(I, j) = i
           /\ \A i \in I : Nth(I, Cardinality({k \in I : k <= i})) = i
           /\ \A j, k \in 1..Cardinality(I) : j < k => Nth(I, j) < Nth(I, k)
  <1> DEFINE upTo(i) == {k \in I : k <= i}
             place == [i \in I |-> Cardinality(upTo(i))]
             N == Cardinality(I)
  <1>1. N \in Nat /\ \A i \in I : IsFiniteSet(upTo(i)) /\ Cardinality(upTo(i)) \in Nat /\ Cardinality(upTo(i)) <= N
    BY FS_Subset, FS_CardinalityType
  <1>2. \A i \in I : i \in upTo(i)
    OBVIOUS
  <1>3. \A i \in I : Cardinality(upTo(i)) \in 1..N
    BY <1>1, <1>2, FS_EmptySet
  <1>4. ASSUME NEW i \in I, NEW k \in I, i < k PROVE place[i] < place[k]
    <2>0. i \in Nat /\ k \in Nat /\ \A x \in I : x \in Nat
      OBVIOUS
    <2>a. ASSUME NEW x \in upTo(i) PROVE x \in upTo(k)
      <3>1. x \in I /\ x \in Nat /\ x <= i
        BY <2>0
      <3>2. x <= k
        BY <1>4, <2>0, <3>1
      <3> QED
        BY <3>1, <3>2
    <2>b. k \in upTo(k) /\ ~(k <= i)
      BY <1>4, <2>0
    <2>c. k \notin upTo(i)
      BY <2>b
    <2> HIDE DEF upTo
    <2>1. upTo(i) \in SUBSET upTo(k) /\ k \in upTo(k) /\ k \notin upTo(i)
      BY <2>a, <2>b, <2>c
    <2>2. Cardinality(upTo(i)) <= Cardinality(upTo(k)) /\ Cardinality(upTo(i)) # Cardinality(upTo(k))
      BY <1>1, <2>1, FS_Subset
    <2> QED
      BY <1>1, <2>2
  <1>5. \A i \in I : place[i] \in 1..N
    BY <1>3
  <1>6. place \in [I -> 1..N]
    BY <1>3
  <1>7. \A i \in I : Cardinality({k \in I : k <= i}) = place[i]
    OBVIOUS
  <1> HIDE DEF place, upTo
  <1>8. place \in Injection(I, 1..N)
    <2>1. ASSUME NEW i \in I, NEW k \in I, place[i] = place[k] PROVE i = k
      <3>1. place[i] \in Nat /\ place[k] \in Nat /\ i \in Nat /\ k \in Nat
        BY <1>5
      <3> QED
        BY <1>4, <2>1, <3>1
    <2> QED
      BY <1>6, <2>1 DEF Injection, IsInjective
  <1>9. place \in Surjection(I, 1..N)
    <2>1. IsFiniteSet(1..N) /\ Cardinality(1..N) = N
      BY <1>1, FS_Interval
    <2> QED
      BY <1>8, <2>1, FS_Injection
  <1>10. \A j \in 1..N : \E i \in I : place[i] = j
    BY <1>9 DEF Surjection
  <1>11. \A j \in 1..N : Nth(I, j) \in I /\ place[Nth(I, j)] = j
    BY <1>7, <1>10 DEF Nth
  <1>12. \A i \in I : Nth(I, place[i]) = i
    <2> SUFFICES ASSUME NEW i \in I PROVE Nth(I, place[i]) = i
      OBVIOUS
    <2>1. Nth(I, place[i]) \in I /\ place[Nth(I, place[i])] = place[i]
      BY <1>5, <1>11
    <2> QED
      BY <1>8, <2>1 DEF Injection, IsInjective
  <1>13. ASSUME NEW j \in 1..N, NEW k \in 1..N, j < k PROVE Nth(I, j) < Nth(I, k)
    <2>0. j \in Nat /\ k \in Nat /\ ~(k < j) /\ j # k
      BY <1>1, <1>13
    <2>1. Nth(I, j) \in I /\ Nth(I, k) \in I /\ place[Nth(I, j)] = j /\ place[Nth(I, k)] = k
      BY <1>11
    <2>2. Nth(I, j) \in Nat /\ Nth(I, k) \in Nat
      BY <2>1
    <2>3. Nth(I, j) # Nth(I, k)
      BY <2>0, <2>1
    <2>4. ~(Nth(I, k) < Nth(I, j))
      BY <1>4, <2>0, <2>1
    <2> HIDE DEF N
    <2> QED
      BY <2>2, <2>3, <2>4
  <1>14. \A i \in I : \E j \in 1..N : Nth(I, j) = i
    BY <1>5, <1>12
  <1>15. \A j \in 1..N : Nth(I, j) \in I
    BY <1>11
  <1>16. \A i \in I : Nth(I, Cardinality({k \in I : k <= i})) = i
    BY <1>7, <1>12
  <1> QED
    BY <1>1, <1>13, <1>14, <1>15, <1>16

\* A numbering in their order is that one.
LEMMA NthOnly ==
    ASSUME NEW K \in SUBSET Nat, IsFiniteSet(K), NEW N \in Nat, NEW e \in [1..N -> K],
           \A k \in K : \E j \in 1..N : e[j] = k, \A j, k \in 1..N : j < k => e[j] < e[k]
    PROVE  Cardinality(K) = N /\ \A j \in 1..N : Nth(K, j) = e[j]
  <1>1. \A j \in 1..N : e[j] \in K /\ e[j] \in Nat
    OBVIOUS
  <1>2. \A j, k \in 1..N : e[j] <= e[k] <=> j <= k
    BY <1>1
  <1>3. \A j, k \in 1..N : e[j] = e[k] => j = k
    BY <1>1
  <1>4. e \in Bijection(1..N, K)
    BY <1>3 DEF Bijection, Injection, Surjection, IsInjective
  <1>5. Cardinality(K) = N
    BY <1>4, FS_CountingElements DEF ExistsBijection
  <1>6. ASSUME NEW j \in 1..N PROVE Cardinality({k \in K : k <= e[j]}) = j
    <2> DEFINE B == {k \in K : k <= e[j]}
               f == [i \in 1..j |-> e[i]]
    <2>1. \A i \in 1..j : i \in 1..N /\ e[i] <= e[j]
      BY <1>2
    <2>2. f \in [1..j -> B]
      BY <1>1, <2>1
    <2>3. \A k \in B : \E i \in 1..j : f[i] = k
      <3> SUFFICES ASSUME NEW k \in B PROVE \E i \in 1..j : f[i] = k
        OBVIOUS
      <3>1. PICK i \in 1..N : e[i] = k
        OBVIOUS
      <3>2. i <= j
        BY <1>2, <3>1
      <3> QED
        BY <3>1, <3>2
    <2>4. \A i, k \in 1..j : f[i] = f[k] => i = k
      BY <1>3, <2>1
    <2> HIDE DEF B, f
    <2>5. f \in Bijection(1..j, B)
      BY <2>2, <2>3, <2>4 DEF Bijection, Injection, Surjection, IsInjective
    <2>6. Cardinality(B) = j
      BY <2>5, FS_CountingElements DEF ExistsBijection
    <2> QED
      BY <2>6 DEF B
  <1>7. \A j \in 1..N : Nth(K, Cardinality({k \in K : k <= e[j]})) = e[j]
    BY <1>1, NthFacts
  <1> QED
    BY <1>5, <1>6, <1>7

\* What picking from a sequence gives
LEMMA PickFacts ==
    ASSUME NEW S, NEW s \in Seq(S), NEW I \in SUBSET DOMAIN s
    PROVE  /\ Pick(s, I) \in Seq(S)
           /\ Len(Pick(s, I)) = Cardinality(I) /\ Cardinality(I) \in Nat
           /\ \A j \in 1..Cardinality(I) : Nth(I, j) \in I /\ Pick(s, I)[j] = s[Nth(I, j)]
           /\ Range(Pick(s, I)) = {s[i] : i \in I}
           /\ IsInjective(s) => IsInjective(Pick(s, I))
  <1> DEFINE N == Cardinality(I)
  <1>1. I \in SUBSET Nat /\ IsFiniteSet(I) /\ \A i \in I : s[i] \in S
    BY FS_Interval, FS_Subset
  <1>2. /\ N \in Nat
        /\ \A j \in 1..N : Nth(I, j) \in I
        /\ \A i \in I : \E j \in 1..N : Nth(I, j) = i
        /\ \A j, k \in 1..N : j < k => Nth(I, j) < Nth(I, k)
    BY <1>1, NthFacts
  <1> HIDE DEF N
  <1>3. Pick(s, I) = [j \in 1..N |-> s[Nth(I, j)]]
    BY DEF Pick, N
  <1>4. \A j \in 1..N : s[Nth(I, j)] \in S
    BY <1>1, <1>2
  <1>5. Pick(s, I) \in Seq(S) /\ Len(Pick(s, I)) = N
    BY <1>2, <1>3, <1>4
  <1>6. Range(Pick(s, I)) = {s[i] : i \in I}
    BY <1>2, <1>3 DEF Range
  <1>7. ASSUME IsInjective(s) PROVE IsInjective(Pick(s, I))
    <2>1. \A j, k \in 1..N : Nth(I, j) = Nth(I, k) => j = k
      <3> SUFFICES ASSUME NEW j \in 1..N, NEW k \in 1..N, Nth(I, j) = Nth(I, k) PROVE j = k
        OBVIOUS
      <3>1. j \in Nat /\ k \in Nat /\ Nth(I, j) \in Nat /\ Nth(I, k) \in Nat
        BY <1>1, <1>2
      <3>2. ~(j < k) /\ ~(k < j)
        BY <1>2, <3>1
      <3> QED
        BY <3>1, <3>2
    <2>2. \A j, k \in 1..N : s[Nth(I, j)] = s[Nth(I, k)] => Nth(I, j) = Nth(I, k)
      BY <1>2, <1>7 DEF IsInjective
    <2> QED
      BY <1>3, <2>1, <2>2 DEF IsInjective
  <1> QED
    BY <1>2, <1>3, <1>5, <1>6, <1>7 DEF N

\* Picking twice is picking once.
LEMMA PickPick ==
    ASSUME NEW S, NEW s \in Seq(S), NEW I \in SUBSET DOMAIN s, NEW J \in SUBSET (1..Cardinality(I))
    PROVE  Pick(Pick(s, I), J) = Pick(s, {Nth(I, j) : j \in J})
  <1> DEFINE K == {Nth(I, j) : j \in J}
             N == Cardinality(J)
             e == [j \in 1..N |-> Nth(I, Nth(J, j))]
  <1>1. I \in SUBSET Nat /\ IsFiniteSet(I)
    BY FS_Interval, FS_Subset
  <1>2. /\ Cardinality(I) \in Nat
        /\ \A j \in 1..Cardinality(I) : Nth(I, j) \in I
        /\ \A j, k \in 1..Cardinality(I) : j < k => Nth(I, j) < Nth(I, k)
    BY <1>1, NthFacts
  <1>3. J \in SUBSET Nat /\ IsFiniteSet(J)
    <2>1. IsFiniteSet(1..Cardinality(I)) /\ 1..Cardinality(I) \subseteq Nat
      BY <1>2, FS_Interval
    <2>2. IsFiniteSet(J)
      BY <2>1, FS_Subset
    <2> QED
      BY <2>1, <2>2
  <1>4. /\ N \in Nat
        /\ \A j \in 1..N : Nth(J, j) \in J
        /\ \A i \in J : \E j \in 1..N : Nth(J, j) = i
        /\ \A j, k \in 1..N : j < k => Nth(J, j) < Nth(J, k)
    BY <1>3, NthFacts
  <1>5. K \subseteq I
    BY <1>2
  <1>6. K \in SUBSET Nat /\ IsFiniteSet(K)
    BY <1>1, <1>5, FS_Subset
  <1> HIDE DEF N
  <1>7. e \in [1..N -> K]
    BY <1>4
  <1>8. \A k \in K : \E j \in 1..N : e[j] = k
    BY <1>4
  <1>9. \A j, k \in 1..N : j < k => e[j] < e[k]
    BY <1>2, <1>4
  <1> HIDE DEF e, K
  <1>10. Cardinality(K) = N /\ \A j \in 1..N : Nth(K, j) = e[j]
    BY <1>4, <1>6, <1>7, <1>8, <1>9, NthOnly
  <1>11. \A j \in 1..N : Nth(K, j) = Nth(I, Nth(J, j))
    BY <1>10 DEF e
  <1>12. Pick(s, K) = [j \in 1..N |-> s[Nth(I, Nth(J, j))]]
    BY <1>10, <1>11 DEF Pick
  <1>13. Pick(s, I) = [j \in 1..Cardinality(I) |-> s[Nth(I, j)]]
    BY DEF Pick
  <1>14. Pick(Pick(s, I), J) = [j \in 1..N |-> Pick(s, I)[Nth(J, j)]]
    BY DEF Pick, N
  <1>15. \A j \in 1..N : Pick(s, I)[Nth(J, j)] = s[Nth(I, Nth(J, j))]
    BY <1>4, <1>13
  <1>16. Pick(Pick(s, I), J) = Pick(s, K)
    BY <1>12, <1>14, <1>15
  <1> QED
    BY <1>16 DEF K

--------------------------------------------------------------------------------
(* Heaps and what is reached from the root *)

Heap(d) ==
    /\ IsFiniteSet(DOMAIN d) /\ Root \in DOMAIN d
    /\ d = [n \in DOMAIN d |-> Node(d[n].name, d[n].text, d[n].kids)]
    /\ \A n \in DOMAIN d : d[n].kids \in Seq(DOMAIN d) /\ n # None
Good(d) == Heap(d) /\ Single(d)
Closed(d, X) == \A n \in X : Range(d[n].kids) \subseteq X

\* What is reached from the root in as many steps as there are nodes is found one step after another.
LEMMA ReachedFacts ==
    ASSUME NEW d, Heap(d)
    PROVE  /\ Cardinality(DOMAIN d) \in Nat
           /\ Reached(d) \in [0..Cardinality(DOMAIN d) -> SUBSET DOMAIN d]
           /\ Reached(d)[0] = {Root}
           /\ \A i \in 1..Cardinality(DOMAIN d) :
                 Reached(d)[i] = Reached(d)[i - 1] \cup UNION {Range(d[n].kids) : n \in Reached(d)[i - 1]}
  <1> DEFINE N == Cardinality(DOMAIN d)
             S == SUBSET DOMAIN d
             F == [x \in (1..N) \X S |-> x[2] \cup UNION {Range(d[n].kids) : n \in x[2]}]
  <1>1. N \in Nat
    BY FS_CardinalityType DEF Heap
  <1>2. \A n \in DOMAIN d : Range(d[n].kids) \subseteq DOMAIN d
    BY DEF Heap, Range
  <1>3. \A X \in S : X \cup UNION {Range(d[n].kids) : n \in X} \in S
    BY <1>2
  <1>4. Stepwise(S, N, F)
    BY <1>3 DEF Stepwise
  <1>5. {Root} \in S
    BY DEF Heap
  <1>6. \A i \in 1..N, X \in S : F[<<i, X>>] = X \cup UNION {Range(d[n].kids) : n \in X}
    OBVIOUS
  <1> HIDE DEF N, S, F
  <1>7. PICK f : Follows(f, S, {Root}, N, F)
    BY <1>1, <1>4, <1>5, ByRecursion
  <1>8. \A i \in 1..N : f[i - 1] \in S
    BY <1>1, <1>7 DEF Follows
  <1>9. \A i \in 1..N : f[i] = f[i - 1] \cup UNION {Range(d[n].kids) : n \in f[i - 1]}
    BY <1>6, <1>7, <1>8 DEF Follows
  <1>10. f = [i \in 0..N |-> IF i = 0 THEN {Root}
                             ELSE LET above == f[i - 1] IN above \cup UNION {Range(d[n].kids) : n \in above}]
    BY <1>1, <1>7, <1>9 DEF Follows
  <1>11. Reached(d) = [i \in 0..N |-> IF i = 0 THEN {Root}
                          ELSE LET above == Reached(d)[i - 1] IN above \cup UNION {Range(d[n].kids) : n \in above}]
    BY <1>10 DEF Reached, N
  <1> DEFINE R == Reached(d)
  <1> HIDE DEF R
  <1>12. DOMAIN R = 0..N /\ R[0] = {Root}
    BY <1>1, <1>11 DEF R
  <1>13. ASSUME NEW i \in 1..N PROVE R[i] = R[i - 1] \cup UNION {Range(d[n].kids) : n \in R[i - 1]}
    <2>1. i \in 0..N /\ i # 0
      BY <1>1
    <2> QED
      BY <1>11, <2>1 DEF R
  <1> DEFINE X == {i \in Nat : i <= N => R[i] \in S}
  <1>14. 0 \in X
    BY <1>5, <1>12
  <1>15. ASSUME NEW i \in Nat, i \in X PROVE i + 1 \in X
    <2> SUFFICES ASSUME i + 1 <= N PROVE R[i + 1] \in S
      OBVIOUS
    <2>1. i + 1 \in 1..N /\ (i + 1) - 1 = i /\ R[i] \in S
      BY <1>1, <1>15
    <2> QED
      BY <1>3, <1>13, <2>1
  <1>16. \A i \in Nat : i \in X
    <2> HIDE DEF X
    <2> QED
      BY <1>14, <1>15, ByInduction
  <1>17. \A i \in 0..N : R[i] \in S
    BY <1>1, <1>16
  <1>18. R = [i \in 0..N |-> R[i]]
    BY <1>1, <1>11 DEF R
  <1>19. R \in [0..N -> S]
    BY <1>17, <1>18
  <1> QED
    BY <1>1, <1>12, <1>13, <1>19 DEF N, S, R

\* The nodes are the least set that holds the root and is closed under children.
LEMMA NodesFacts ==
    ASSUME NEW d, Heap(d)
    PROVE  /\ Nodes(d) \subseteq DOMAIN d /\ Root \in Nodes(d) /\ Closed(d, Nodes(d))
           /\ \A X \in SUBSET DOMAIN d : Root \in X /\ Closed(d, X) => Nodes(d) \subseteq X
  <1> DEFINE N == Cardinality(DOMAIN d)
             R == Reached(d)
  <1>1. /\ N \in Nat /\ R[0] = {Root}
        /\ \A i \in 0..N : R[i] \in SUBSET DOMAIN d
        /\ \A i \in 1..N : R[i] = R[i - 1] \cup UNION {Range(d[n].kids) : n \in R[i - 1]}
    BY ReachedFacts
  <1>2. Nodes(d) = R[N]
    BY DEF Nodes
  <1>3. \A X \in SUBSET DOMAIN d : IsFiniteSet(X) /\ Cardinality(X) \in Nat /\ Cardinality(X) <= N
    BY FS_Subset, FS_CardinalityType DEF Heap
  <1> HIDE DEF N, R
  <1>4. \A i \in 1..N : R[i - 1] \subseteq R[i] /\ (R[i] = R[i - 1] => Closed(d, R[i - 1]))
    BY <1>1 DEF Closed
  <1>5. ASSUME NEW i \in 1..N, Closed(d, R[i - 1]) PROVE R[i] = R[i - 1]
    <2>1. R[i] = R[i - 1] \cup UNION {Range(d[n].kids) : n \in R[i - 1]}
      BY <1>1
    <2>2. UNION {Range(d[n].kids) : n \in R[i - 1]} \subseteq R[i - 1]
      BY <1>5 DEF Closed
    <2> QED
      BY <2>1, <2>2
  <1> DEFINE X == {i \in Nat : i <= N => Root \in R[i] /\ (Closed(d, R[i]) \/ i < Cardinality(R[i]))}
  <1>6. 0 \in X
    <2>1. Cardinality({Root}) = 1
      BY FS_Singleton
    <2> QED
      BY <1>1, <2>1
  <1>7. ASSUME NEW i \in Nat, i \in X PROVE i + 1 \in X
    <2> SUFFICES ASSUME i + 1 <= N PROVE Root \in R[i + 1] /\ (Closed(d, R[i + 1]) \/ i + 1 < Cardinality(R[i + 1]))
      OBVIOUS
    <2>1. i + 1 \in 1..N /\ (i + 1) - 1 = i /\ i \in 0..N /\ i + 1 \in 0..N
      BY <1>1
    <2>2. Root \in R[i] /\ (Closed(d, R[i]) \/ i < Cardinality(R[i])) /\ R[i] \in SUBSET DOMAIN d /\ R[i + 1] \in SUBSET DOMAIN d
      BY <1>1, <1>7, <2>1
    <2>3. R[i] \subseteq R[i + 1]
      BY <1>4, <2>1
    <2>4. CASE Closed(d, R[i])
      <3>1. R[i + 1] = R[i]
        BY <1>5, <2>1, <2>4
      <3> QED
        BY <2>2, <2>4, <3>1
    <2>5. CASE ~Closed(d, R[i])
      <3>1. R[i + 1] # R[i]
        BY <1>4, <2>1, <2>5
      <3>2. IsFiniteSet(R[i + 1]) /\ Cardinality(R[i + 1]) \in Nat /\ Cardinality(R[i]) \in Nat
        BY <1>3, <2>2
      <3>3. Cardinality(R[i]) <= Cardinality(R[i + 1]) /\ Cardinality(R[i]) # Cardinality(R[i + 1])
        BY <2>3, <3>1, <3>2, FS_Subset
      <3> QED
        BY <2>2, <2>3, <2>5, <3>2, <3>3
    <2> QED
      BY <2>4, <2>5
  <1>8. N \in X
    <2> HIDE DEF X
    <2> QED
      BY <1>1, <1>6, <1>7, ByInduction
  <1>9. Root \in R[N] /\ (Closed(d, R[N]) \/ N < Cardinality(R[N])) /\ R[N] \in SUBSET DOMAIN d
    BY <1>1, <1>8
  <1>10. Closed(d, R[N])
    <2>1. Cardinality(R[N]) \in Nat /\ Cardinality(R[N]) <= N
      BY <1>3, <1>9
    <2> QED
      BY <1>1, <1>9, <2>1
  <1>11. ASSUME NEW Y \in SUBSET DOMAIN d, Root \in Y, Closed(d, Y) PROVE R[N] \subseteq Y
    <2> DEFINE Z == {i \in Nat : i <= N => R[i] \subseteq Y}
    <2>1. 0 \in Z
      BY <1>1, <1>11
    <2>2. ASSUME NEW i \in Nat, i \in Z PROVE i + 1 \in Z
      <3> SUFFICES ASSUME i + 1 <= N PROVE R[i + 1] \subseteq Y
        OBVIOUS
      <3>1. i + 1 \in 1..N /\ (i + 1) - 1 = i /\ R[i] \subseteq Y
        BY <1>1, <2>2
      <3>2. R[i + 1] = R[i] \cup UNION {Range(d[n].kids) : n \in R[i]}
        BY <1>1, <3>1
      <3> QED
        BY <1>11, <3>1, <3>2 DEF Closed
    <2>3. N \in Z
      <3> HIDE DEF Z
      <3> QED
        BY <1>1, <2>1, <2>2, ByInduction
    <2> QED
      BY <1>1, <2>3
  <1> QED
    BY <1>2, <1>9, <1>10, <1>11

\* What is left when the rest is taken out is the same heap.
LEMMA TreeFacts ==
    ASSUME NEW d, Heap(d)
    PROVE  /\ Heap(Tree(d)) /\ DOMAIN Tree(d) = Nodes(d) /\ Nodes(d) \subseteq DOMAIN d
           /\ \A n \in Nodes(d) : Tree(d)[n] = d[n]
           /\ Nodes(Tree(d)) = Nodes(d)
           /\ Single(d) => Single(Tree(d))
  <1> DEFINE t == Tree(d)
  <1>1. /\ Nodes(d) \subseteq DOMAIN d /\ Root \in Nodes(d) /\ Closed(d, Nodes(d))
        /\ \A X \in SUBSET DOMAIN d : Root \in X /\ Closed(d, X) => Nodes(d) \subseteq X
    BY NodesFacts
  <1>2. t = [n \in Nodes(d) |-> d[n]]
    BY DEF Tree
  <1>3. DOMAIN t = Nodes(d) /\ \A n \in Nodes(d) : t[n] = d[n]
    BY <1>2
  <1> HIDE DEF t
  <1>4. Heap(t)
    <2>1. IsFiniteSet(DOMAIN t)
      BY <1>1, <1>3, FS_Subset DEF Heap
    <2>2. \A n \in DOMAIN d : d[n] = Node(d[n].name, d[n].text, d[n].kids)
      BY DEF Heap
    <2>3. t = [n \in DOMAIN t |-> Node(t[n].name, t[n].text, t[n].kids)]
      BY <1>1, <1>2, <1>3, <2>2
    <2>4. \A n \in DOMAIN t : t[n].kids \in Seq(DOMAIN t)
      <3> SUFFICES ASSUME NEW n \in Nodes(d) PROVE d[n].kids \in Seq(Nodes(d))
        BY <1>3
      <3>1. d[n].kids \in Seq(DOMAIN d) /\ Range(d[n].kids) \subseteq Nodes(d)
        BY <1>1 DEF Heap, Closed
      <3>2. \A i \in 1..Len(d[n].kids) : d[n].kids[i] \in Nodes(d)
        BY <3>1 DEF Range
      <3> QED
        BY <3>1, <3>2
    <2> QED
      BY <1>1, <1>3, <2>1, <2>3, <2>4 DEF Heap
  <1>5. /\ Nodes(t) \subseteq DOMAIN t /\ Root \in Nodes(t) /\ Closed(t, Nodes(t))
    BY <1>4, NodesFacts
  <1>6. Nodes(t) = Nodes(d)
    <2>1. Nodes(t) \in SUBSET DOMAIN d /\ Closed(d, Nodes(t))
      BY <1>1, <1>3, <1>5 DEF Closed
    <2> QED
      BY <1>1, <1>3, <1>5, <2>1
  <1>7. Single(d) => Single(t)
    BY <1>1, <1>3 DEF Single
  <1> QED
    BY <1>1, <1>3, <1>4, <1>6, <1>7 DEF t

\* The children of a name are among the children.
LEMMA NamedFacts ==
    ASSUME NEW d, Heap(d), NEW n \in DOMAIN d, NEW name
    PROVE  /\ Named(d, n, name) \in SUBSET DOMAIN d[n].kids
           /\ kidsNamed(d, n, name) \in Seq(DOMAIN d)
           /\ Range(kidsNamed(d, n, name)) = {k \in Range(d[n].kids) : d[k].name = name}
           /\ Len(kidsNamed(d, n, name)) = Cardinality(Named(d, n, name))
           /\ Single(d) => IsInjective(kidsNamed(d, n, name))
  <1>1. d[n].kids \in Seq(DOMAIN d) /\ Named(d, n, name) \in SUBSET DOMAIN d[n].kids
    BY DEF Heap, Named
  <1> DEFINE s == d[n].kids
             I == Named(d, n, name)
  <1>2. /\ Pick(s, I) \in Seq(DOMAIN d) /\ Len(Pick(s, I)) = Cardinality(I)
        /\ Range(Pick(s, I)) = {s[i] : i \in I}
        /\ IsInjective(s) => IsInjective(Pick(s, I))
    BY <1>1, PickFacts
  <1>3. {s[i] : i \in I} = {k \in Range(s) : d[k].name = name}
    BY DEF Named, Range
  <1> QED
    BY <1>1, <1>2, <1>3 DEF kidsNamed, Single

LEMMA ChildFacts ==
    ASSUME NEW d, Heap(d), NEW n \in DOMAIN d, NEW name
    PROVE  /\ child(d, n, name) # None =>
                 child(d, n, name) \in Range(d[n].kids) \cap DOMAIN d /\ d[child(d, n, name)].name = name
           /\ child(d, n, name) = None <=> \A k \in Range(d[n].kids) : d[k].name # name
           /\ AnyChild(d, n, name) \in Seq(DOMAIN d) /\ IsInjective(AnyChild(d, n, name))
           /\ \A k \in Range(AnyChild(d, n, name)) :
                 k = child(d, n, name) /\ k \in Range(d[n].kids) /\ d[k].name = name
  <1> DEFINE I == Named(d, n, name)
             c == child(d, n, name)
  <1>1. I \subseteq DOMAIN d[n].kids /\ d[n].kids \in Seq(DOMAIN d) /\ \A i \in I : d[d[n].kids[i]].name = name
    BY DEF Heap, Named
  <1>2. I \in SUBSET Nat /\ IsFiniteSet(I)
    BY <1>1, FS_Interval, FS_Subset
  <1>3. ASSUME I # {} PROVE /\ c \in Range(d[n].kids) /\ c \in DOMAIN d /\ d[c].name = name /\ c # None
    <2>1. Cardinality(I) \in Nat /\ Cardinality(I) # 0
      BY <1>2, <1>3, FS_EmptySet, FS_CardinalityType
    <2>2. 1 \in 1..Cardinality(I)
      BY <2>1
    <2>3. Nth(I, 1) \in I
      BY <1>2, <2>2, NthFacts
    <2>4. c = d[n].kids[Nth(I, 1)]
      BY <1>3 DEF child
    <2>5. c \in Range(d[n].kids) /\ c \in DOMAIN d
      BY <1>1, <2>3, <2>4 DEF Range
    <2> QED
      BY <1>1, <2>3, <2>4, <2>5 DEF Heap
  <1>4. I = {} => c = None
    BY DEF child
  <1>5. I = {} <=> \A k \in Range(d[n].kids) : d[k].name # name
    BY DEF Named, Range
  <1>6. CASE I = {}
    <2>1. AnyChild(d, n, name) = <<>>
      BY <1>4, <1>6 DEF AnyChild
    <2> QED
      BY <1>4, <1>5, <1>6, <2>1 DEF Range, IsInjective
  <1>7. CASE I # {}
    <2>1. AnyChild(d, n, name) = <<c>>
      BY <1>3, <1>7 DEF AnyChild
    <2>2. AnyChild(d, n, name) \in Seq(DOMAIN d) /\ IsInjective(AnyChild(d, n, name)) /\ Range(AnyChild(d, n, name)) = {c}
      BY <1>3, <1>7, <2>1 DEF Range, IsInjective
    <2> QED
      BY <1>3, <1>5, <1>7, <2>2
  <1> QED
    BY <1>6, <1>7

\* A heap with some of the children is as good.
LEMMA FewerKids ==
    ASSUME NEW d, Good(d), NEW t, DOMAIN t = DOMAIN d, t = [n \in DOMAIN d |-> Node(t[n].name, t[n].text, t[n].kids)],
           \A n \in DOMAIN d : /\ t[n].kids \in Seq(DOMAIN d) /\ IsInjective(t[n].kids)
                               /\ Range(t[n].kids) \subseteq Range(d[n].kids)
    PROVE  Good(t)
  <1>1. Heap(t)
    BY DEF Good, Heap
  <1>2. \A n \in DOMAIN t : IsInjective(t[n].kids) /\ Root \notin Range(t[n].kids)
    BY DEF Good, Single
  <1>3. \A m, n \in DOMAIN t :
           Range(t[m].kids) \cap Range(t[n].kids) \subseteq Range(d[m].kids) \cap Range(d[n].kids)
    OBVIOUS
  <1>4. ASSUME NEW m \in DOMAIN t, NEW n \in DOMAIN t, Range(t[m].kids) \cap Range(t[n].kids) # {} PROVE m = n
    <2>1. Range(d[m].kids) \cap Range(d[n].kids) # {}
      BY <1>3, <1>4
    <2> QED
      BY <2>1 DEF Good, Single
  <1>5. Single(t)
    BY <1>2, <1>4 DEF Single
  <1> QED
    BY <1>1, <1>5 DEF Good

LEMMA removeKidsFacts ==
    ASSUME NEW d, Good(d), NEW gone
    PROVE  /\ Good(removeKids(d, gone)) /\ DOMAIN removeKids(d, gone) \subseteq DOMAIN d
           /\ \A n \in DOMAIN removeKids(d, gone) :
                 /\ removeKids(d, gone)[n].name = d[n].name
                 /\ Range(removeKids(d, gone)[n].kids) \subseteq Range(d[n].kids)
           /\ Nodes(removeKids(d, gone)) = DOMAIN removeKids(d, gone)
  <1> DEFINE I(n) == {i \in DOMAIN d[n].kids : d[n].kids[i] \notin gone}
             t == [n \in DOMAIN d |-> WithKids(d[n], Pick(d[n].kids, I(n)))]
  <1>1. /\ t = [n \in DOMAIN d |-> t[n]]
        /\ DOMAIN t = DOMAIN d /\ \A n \in DOMAIN d : t[n] = Node(d[n].name, d[n].text, Pick(d[n].kids, I(n)))
    <2>1. \A n \in DOMAIN d : d[n] = Node(d[n].name, d[n].text, d[n].kids)
      BY DEF Good, Heap
    <2>2. \A n \in DOMAIN d : WithKids(d[n], Pick(d[n].kids, I(n))) = Node(d[n].name, d[n].text, Pick(d[n].kids, I(n)))
      BY <2>1 DEF WithKids, Node
    <2> QED
      BY <2>2
  <1> HIDE DEF t
  <1>2. \A n \in DOMAIN d : t[n].name = d[n].name /\ t[n].text = d[n].text /\ t[n].kids = Pick(d[n].kids, I(n))
    BY <1>1 DEF Node
  <1>3. ASSUME NEW n \in DOMAIN d
        PROVE  /\ t[n].kids \in Seq(DOMAIN d) /\ IsInjective(t[n].kids)
               /\ Range(t[n].kids) \subseteq Range(d[n].kids)
    <2>1. d[n].kids \in Seq(DOMAIN d) /\ IsInjective(d[n].kids) /\ I(n) \in SUBSET DOMAIN d[n].kids
      BY DEF Good, Heap, Single
    <2> HIDE DEF I
    <2>2. /\ Pick(d[n].kids, I(n)) \in Seq(DOMAIN d) /\ IsInjective(Pick(d[n].kids, I(n)))
          /\ Range(Pick(d[n].kids, I(n))) = {d[n].kids[i] : i \in I(n)}
      BY <2>1, PickFacts
    <2>3. {d[n].kids[i] : i \in I(n)} \subseteq Range(d[n].kids)
      BY <2>1 DEF Range
    <2> QED
      BY <1>2, <2>2, <2>3
  <1>4. t = [n \in DOMAIN d |-> Node(t[n].name, t[n].text, t[n].kids)]
    BY <1>1, <1>2
  <1>5. removeKids(d, gone) = Tree(t)
    BY DEF removeKids, t
  <1>6. Good(t)
    BY <1>1, <1>3, <1>4, FewerKids
  <1>7. /\ Heap(Tree(t)) /\ DOMAIN Tree(t) = Nodes(t) /\ Nodes(t) \subseteq DOMAIN t
        /\ \A n \in Nodes(t) : Tree(t)[n] = t[n]
        /\ Nodes(Tree(t)) = Nodes(t) /\ Single(Tree(t))
    BY <1>6, TreeFacts DEF Good
  <1> QED
    BY <1>1, <1>2, <1>3, <1>5, <1>7 DEF Good

--------------------------------------------------------------------------------
(* Writing to a heap *)

Keys(new) == {x[1] : x \in new}
LEMMA KeysFacts ==
    /\ \A new : \A x \in new : x[1] \in Keys(new)
    /\ \A new, a, b : <<a, b>> \in new => a \in Keys(new)
    /\ \A new : \A a \in Keys(new) : \E x \in new : x[1] = a
    /\ \A m, n : Keys(m \cup n) = Keys(m) \cup Keys(n)
    /\ \A news : Keys(UNION news) = UNION {Keys(new) : new \in news}
  BY DEF Keys

Written(t, d, new, n) ==
    \/ \E x \in new : x[1] = n /\ t[n] = x[2]
    \/ n \in DOMAIN d /\ t[n] = d[n] /\ \A x \in new : x[1] # n
LEMMA PutFacts ==
    ASSUME NEW d, NEW new
    PROVE  /\ DOMAIN Put(d, new) = DOMAIN d \cup Keys(new)
           /\ Put(d, new) = [n \in DOMAIN Put(d, new) |-> Put(d, new)[n]]
           /\ \A n \in DOMAIN Put(d, new) : Written(Put(d, new), d, new, n)
           /\ \A x \in new : (\A y \in new : y[1] = x[1] => y = x) => Put(d, new)[x[1]] = x[2]
  <1> DEFINE at == Keys(new)
             t == Put(d, new)
  <1>1. t = [n \in DOMAIN d \cup at |-> IF n \in at THEN (CHOOSE x \in new : x[1] = n)[2] ELSE d[n]]
    BY DEF Put, Keys
  <1> HIDE DEF t
  <1>2. DOMAIN t = DOMAIN d \cup at /\ t = [n \in DOMAIN t |-> t[n]]
    BY <1>1
  <1>3. \A n \in at : t[n] = (CHOOSE x \in new : x[1] = n)[2]
    BY <1>1
  <1>4. ASSUME NEW n \in at PROVE \E x \in new : x = (CHOOSE y \in new : y[1] = n) /\ x[1] = n /\ t[n] = x[2]
    <2>1. \E x \in new : x[1] = n
      BY DEF Keys
    <2> QED
      BY <1>3, <2>1
  <1>5. \A n \in DOMAIN d \ at : t[n] = d[n] /\ \A x \in new : x[1] # n
    BY <1>1 DEF Keys
  <1>6. ASSUME NEW n \in DOMAIN t PROVE Written(t, d, new, n)
    BY <1>2, <1>4, <1>5 DEF Written
  <1>7. ASSUME NEW x \in new, \A y \in new : y[1] = x[1] => y = x PROVE t[x[1]] = x[2]
    BY <1>4, <1>7 DEF Keys
  <1> QED
    BY <1>2, <1>6, <1>7 DEF t

\* What is written fits in: a node with each of its children for the first time, and it is
\* the one U says.
Fits(x, P, U) ==
    /\ x[1] # None /\ x[2] = Node(x[2].name, x[2].text, x[2].kids)
    /\ x[2].kids \in Seq(P) /\ IsInjective(x[2].kids)
    /\ \A k \in Range(x[2].kids) : k # Root /\ U[k] = x[1]

\* Putting nodes into a document keeps it good when each child of theirs, and of those left as they were, has one home (U).
LEMMA PutGood ==
    ASSUME NEW d, Good(d), NEW new, IsFiniteSet(Keys(new)), NEW U,
           \A x \in new : Fits(x, DOMAIN d \cup Keys(new), U),
           \A n \in DOMAIN d : (\A x \in new : x[1] # n) => \A k \in Range(d[n].kids) : U[k] = n
    PROVE  Good(Put(d, new))
  <1> DEFINE t == Put(d, new)
             P == DOMAIN d \cup Keys(new)
  <1>1. DOMAIN t = P
    BY PutFacts
  <1>7. t = [n \in DOMAIN t |-> t[n]]
    BY DEF Put
  <1>8. \A n \in DOMAIN t : Written(t, d, new, n)
    BY PutFacts
  <1> HIDE DEF t
  <1>2. IsFiniteSet(P) /\ Root \in P /\ DOMAIN d \subseteq P
    BY FS_Union DEF Good, Heap
  <1>3. \A x \in new : Fits(x, P, U)
    OBVIOUS
  <1> HIDE DEF P
  <1>4. ASSUME NEW n \in P
        PROVE  /\ n # None /\ t[n] = Node(t[n].name, t[n].text, t[n].kids)
               /\ t[n].kids \in Seq(P) /\ IsInjective(t[n].kids)
               /\ \A k \in Range(t[n].kids) : k # Root /\ U[k] = n
    <2>1. CASE \E x \in new : x[1] = n /\ t[n] = x[2]
      <3>1. PICK x \in new : x[1] = n /\ t[n] = x[2]
        BY <2>1
      <3>2. Fits(x, P, U)
        BY <1>3
      <3> QED
        BY <3>1, <3>2 DEF Fits
    <2>2. CASE n \in DOMAIN d /\ t[n] = d[n] /\ \A x \in new : x[1] # n
      <3>1. /\ n # None /\ d[n] = Node(d[n].name, d[n].text, d[n].kids)
            /\ d[n].kids \in Seq(DOMAIN d) /\ IsInjective(d[n].kids) /\ Root \notin Range(d[n].kids)
        BY <2>2 DEF Good, Heap, Single
      <3>2. d[n].kids \in Seq(P)
        BY <1>2, <3>1, SeqMonotonic
      <3> QED
        BY <2>2, <3>1, <3>2
    <2> QED
      BY <1>1, <1>8, <2>1, <2>2 DEF Written
  <1>5. Heap(t)
    BY <1>1, <1>2, <1>4, <1>7 DEF Heap
  <1>6. Single(t)
    <2>1. \A n \in DOMAIN t : IsInjective(t[n].kids) /\ Root \notin Range(t[n].kids)
      BY <1>1, <1>4
    <2>2. ASSUME NEW m \in DOMAIN t, NEW n \in DOMAIN t, Range(t[m].kids) \cap Range(t[n].kids) # {} PROVE m = n
      <3>1. PICK k : k \in Range(t[m].kids) /\ k \in Range(t[n].kids)
        BY <2>2
      <3>2. m \in P /\ n \in P
        BY <1>1
      <3>3. U[k] = m
        BY <1>4, <3>1, <3>2
      <3>4. U[k] = n
        BY <1>4, <3>1, <3>2
      <3> QED
        BY <3>3, <3>4
    <2> QED
      BY <2>1, <2>2 DEF Single
  <1> QED
    BY <1>5, <1>6 DEF Good, t

LEMMA ConcatFacts ==
    ASSUME NEW S, NEW s \in Seq(S), NEW t \in Seq(S)
    PROVE  /\ s \o t \in Seq(S) /\ Range(s \o t) = Range(s) \cup Range(t)
           /\ IsInjective(s) /\ IsInjective(t) /\ Range(s) \cap Range(t) = {} => IsInjective(s \o t)
  <1> DEFINE u == s \o t
             m == Len(s)
             n == Len(t)
  <1>1. /\ m \in Nat /\ n \in Nat /\ DOMAIN s = 1..m /\ DOMAIN t = 1..n
        /\ u \in Seq(S) /\ Len(u) = m + n /\ DOMAIN u = 1..(m + n)
        /\ \A i \in 1..(m + n) : u[i] = IF i <= m THEN s[i] ELSE t[i - m]
    BY ConcatProperties
  <1> HIDE DEF u, m, n
  <1>2. \A i \in 1..(m + n) : (i <= m /\ i \in 1..m /\ u[i] = s[i]) \/ (i > m /\ i - m \in 1..n /\ u[i] = t[i - m])
    BY <1>1
  <1>3. \A i \in 1..m : i \in 1..(m + n) /\ u[i] = s[i]
    BY <1>1
  <1>4. \A i \in 1..n : m + i \in 1..(m + n) /\ u[m + i] = t[i]
    BY <1>1
  <1>5. Range(u) = Range(s) \cup Range(t)
    <2>1. Range(u) \subseteq Range(s) \cup Range(t)
      BY <1>1, <1>2 DEF Range
    <2>2. Range(s) \subseteq Range(u)
      BY <1>1, <1>3 DEF Range
    <2>3. ASSUME NEW i \in 1..n PROVE t[i] \in Range(u)
      <3>1. m + i \in DOMAIN u /\ u[m + i] = t[i]
        BY <1>1, <1>4
      <3> QED
        BY <3>1 DEF Range
    <2>4. Range(t) \subseteq Range(u)
      BY <1>1, <2>3 DEF Range
    <2> QED
      BY <2>1, <2>2, <2>4
  <1>6. ASSUME IsInjective(s), IsInjective(t), Range(s) \cap Range(t) = {} PROVE IsInjective(u)
    <2> SUFFICES ASSUME NEW i \in 1..(m + n), NEW j \in 1..(m + n), u[i] = u[j] PROVE i = j
      BY <1>1 DEF IsInjective
    <2>1. \A k \in 1..m, l \in 1..n : s[k] # t[l]
      BY <1>1, <1>6 DEF Range
    <2>2. \A k, l \in 1..m : s[k] = s[l] => k = l
      BY <1>1, <1>6 DEF IsInjective
    <2>3. \A k, l \in 1..n : t[k] = t[l] => k = l
      BY <1>1, <1>6 DEF IsInjective
    <2>4. CASE i <= m /\ j <= m
      <3>1. i \in 1..m /\ j \in 1..m /\ u[i] = s[i] /\ u[j] = s[j]
        BY <1>1, <1>2, <2>4
      <3> QED
        BY <2>2, <3>1
    <2>5. CASE i > m /\ j > m
      <3>1. i - m \in 1..n /\ j - m \in 1..n /\ u[i] = t[i - m] /\ u[j] = t[j - m]
        BY <1>1, <1>2, <2>5
      <3>2. i - m = j - m
        BY <2>3, <3>1
      <3> QED
        BY <1>1, <3>2
    <2>6. CASE i <= m /\ j > m
      BY <1>1, <1>2, <2>1, <2>6
    <2>7. CASE i > m /\ j <= m
      BY <1>1, <1>2, <2>1, <2>7
    <2> QED
      BY <1>1, <2>4, <2>5, <2>6, <2>7
  <1> QED
    BY <1>1, <1>5, <1>6 DEF u

LEMMA OneFacts == ASSUME NEW S, NEW e \in S PROVE <<e>> \in Seq(S) /\ Range(<<e>>) = {e} /\ IsInjective(<<e>>)
  BY DEF Range, IsInjective

LEMMA EmptyFacts == ASSUME NEW S PROVE <<>> \in Seq(S) /\ Range(<<>>) = {} /\ IsInjective(<<>>)
  BY DEF Range, IsInjective

LEMMA AtFacts ==
    ASSUME NEW b, NEW n, NEW what, NEW i
    PROVE  /\ At(b, n, what, i) # None /\ By(At(b, n, what, i)) = b /\ Beside(At(b, n, what, i)) = n
           /\ At(b, n, what, i)[3] = what /\ At(b, n, what, i)[4] = i
  BY DEF At, By, Beside, None

\* The parent of each child
Parent(d, k) == CHOOSE m \in DOMAIN d : k \in Range(d[m].kids)
LEMMA ParentFacts ==
    ASSUME NEW d, Single(d), NEW n \in DOMAIN d, NEW k \in Range(d[n].kids) PROVE Parent(d, k) = n
  BY DEF Single, Parent

LEMMA NodeFacts ==
    ASSUME NEW name, NEW text, NEW kids
    PROVE  /\ Node(name, text, kids).name = name /\ Node(name, text, kids).text = text /\ Node(name, text, kids).kids = kids
           /\ \A new : WithKids(Node(name, text, kids), new) = Node(name, text, new)
  BY DEF Node, WithKids

LEMMA FiniteImage == ASSUME NEW S, IsFiniteSet(S), NEW f PROVE IsFiniteSet({f[x] : x \in S})
  <1> DEFINE T == {f[x] : x \in S}
             g == [x \in S |-> f[x]]
  <1>1. g \in [S -> T] /\ \A y \in T : \E x \in S : g[x] = y
    OBVIOUS
  <1> HIDE DEF g, T
  <1>2. g \in Surjection(S, T)
    BY <1>1, Fun_IsSurj
  <1> QED
    BY <1>2, FS_Surjection DEF T

--------------------------------------------------------------------------------
(* The structural transforms *)

\* What a transform keeps: a good heap with nothing unreached, no new place but its own, and no
\* new parent but the elements it builds.
Places(d, t, by) == \A n \in DOMAIN t : n \in DOMAIN d \/ By(n) = by
Leaves(d, t) ==
    \A n \in DOMAIN t : \/ t[n].kids = <<>> \/ t[n].name \in Built
                        \/ n \in DOMAIN d /\ t[n].name = d[n].name /\ d[n].kids # <<>>
Kept(d, t, by) == Good(t) /\ Nodes(t) = DOMAIN t /\ Places(d, t, by) /\ Leaves(d, t)

LEMMA WithLeafFacts ==
    ASSUME NEW d, Good(d), Nodes(d) = DOMAIN d, NEW by, \A n \in DOMAIN d : By(n) # by, NEW name, NEW text,
           DOMAIN text \subseteq DOMAIN d, \A n \in DOMAIN text : d[n].name \in Built
    PROVE  Kept(d, WithLeaf(d, by, name, text), by)
  <1> DEFINE at(n) == At(by, n, name, 0)
             more(n) == Append(d[n].kids, at(n))
             A == {<<n, WithKids(d[n], more(n))>> : n \in DOMAIN text}
             B == {<<at(n), leaf(name, text[n])>> : n \in DOMAIN text}
             new == A \cup B
             places == {at(n) : n \in DOMAIN text}
             P == DOMAIN d \cup places
             U == [k \in P |-> IF k \in DOMAIN d THEN Parent(d, k) ELSE Beside(k)]
             t == WithLeaf(d, by, name, text)
  <1>1. t = Put(d, new)
    BY DEF WithLeaf
  <1>2. \A n : at(n) # None /\ By(at(n)) = by /\ Beside(at(n)) = n /\ at(n) \notin DOMAIN d
    <2> SUFFICES ASSUME NEW n PROVE at(n) # None /\ By(at(n)) = by /\ Beside(at(n)) = n
      OBVIOUS
    <2> QED
      BY AtFacts
  <1>3. /\ IsFiniteSet(DOMAIN d) /\ Root \in DOMAIN d
        /\ \A n \in DOMAIN d : /\ d[n] = Node(d[n].name, d[n].text, d[n].kids) /\ n # None
                               /\ d[n].kids \in Seq(DOMAIN d) /\ IsInjective(d[n].kids)
                               /\ Root \notin Range(d[n].kids) /\ Range(d[n].kids) \subseteq DOMAIN d
    BY DEF Good, Heap, Single, Range
  <1>4. Keys(new) = DOMAIN text \cup places
    <2>1. \A n \in DOMAIN text : <<n, WithKids(d[n], more(n))>> \in A /\ <<at(n), leaf(name, text[n])>> \in B
      OBVIOUS
    <2>2. \A x \in A : x[1] \in DOMAIN text
      OBVIOUS
    <2>3. \A x \in B : x[1] \in places
      OBVIOUS
    <2> HIDE DEF A, B, at, more
    <2>8. \A n \in DOMAIN text : n \in Keys(A)
      BY <2>1, KeysFacts
    <2>9. \A a \in Keys(A) : a \in DOMAIN text
      BY <2>2 DEF Keys
    <2>4. Keys(A) = DOMAIN text
      BY <2>8, <2>9
    <2>5. \A n \in DOMAIN text : at(n) \in Keys(B)
      BY <2>1, KeysFacts
    <2>6. Keys(B) = places
      BY <2>3, <2>5, KeysFacts
    <2>7. Keys(A \cup B) = Keys(A) \cup Keys(B)
      BY KeysFacts
    <2> QED
      BY <2>4, <2>6, <2>7
  <1>5. IsFiniteSet(Keys(new))
    <2>1. IsFiniteSet(DOMAIN text)
      BY <1>3, FS_Subset
    <2> DEFINE f == [n \in DOMAIN text |-> at(n)]
    <2>2. places = {f[n] : n \in DOMAIN text}
      OBVIOUS
    <2> HIDE DEF f, places, new
    <2>3. IsFiniteSet(places)
      BY <2>1, <2>2, FiniteImage
    <2> QED
      BY <1>4, <2>1, <2>3, FS_Union
  <1>6. \A n \in DOMAIN text : at(n) \in P /\ n \in P /\ n \in DOMAIN d /\ U[at(n)] = n
    BY <1>2
  <1>7. DOMAIN d \subseteq P /\ P = DOMAIN d \cup Keys(new) /\ \A k \in DOMAIN d : U[k] = Parent(d, k)
    BY <1>4
  <1>8. \A n \in P : n \in DOMAIN d \/ \E m \in DOMAIN text : n = at(m)
    OBVIOUS
  <1> HIDE DEF P, U, at, places
  <1>9. ASSUME NEW n \in DOMAIN text
        PROVE more(n) \in Seq(P) /\ IsInjective(more(n)) /\ Range(more(n)) = Range(d[n].kids) \cup {at(n)}
    <2>0. at(n) \in P /\ n \in DOMAIN d /\ d[n].kids \in Seq(DOMAIN d)
      BY <1>3, <1>6
    <2>1. d[n].kids \in Seq(P) /\ at(n) \in P /\ n \in DOMAIN d
      BY <1>7, <2>0, SeqMonotonic
    <2>2. more(n) = d[n].kids \o <<at(n)>>
      BY <2>1
    <2>3. <<at(n)>> \in Seq(P) /\ Range(<<at(n)>>) = {at(n)} /\ IsInjective(<<at(n)>>)
      BY <2>1, OneFacts
    <2>4. Range(d[n].kids) \cap Range(<<at(n)>>) = {} /\ IsInjective(d[n].kids)
      BY <1>2, <1>3, <2>1, <2>3
    <2> DEFINE s == d[n].kids
               e == <<at(n)>>
    <2> HIDE DEF more, s, e
    <2>5. s \o e \in Seq(P) /\ IsInjective(s \o e) /\ Range(s \o e) = Range(s) \cup Range(e)
      <3>1. s \in Seq(P) /\ e \in Seq(P) /\ IsInjective(s) /\ IsInjective(e) /\ Range(s) \cap Range(e) = {}
        BY <2>1, <2>3, <2>4 DEF s, e
      <3> QED
        BY <3>1, ConcatFacts
    <2> QED
      BY <2>2, <2>3, <2>5 DEF s, e
  <1>10. \A n \in DOMAIN text : WithKids(d[n], more(n)) = Node(d[n].name, d[n].text, more(n))
    BY <1>3, NodeFacts
  <1> HIDE DEF more
  <1>11. \A x \in new : \/ \E n \in DOMAIN text : x[1] = n /\ x[2] = Node(d[n].name, d[n].text, more(n))
                        \/ \E n \in DOMAIN text : x[1] = at(n) /\ x[2] = Node(name, text[n], <<>>)
    BY <1>10 DEF leaf
  <1> HIDE DEF new, t
  <1>13. ASSUME NEW n \in DOMAIN d, NEW k \in Range(d[n].kids) PROVE U[k] = n
    <2>1. U[k] = Parent(d, k)
      BY <1>3, <1>7
    <2> QED
      BY <2>1, ParentFacts DEF Good
  <1>12. ASSUME NEW x \in new PROVE Fits(x, P, U)
    <2>1. CASE \E n \in DOMAIN text : x[1] = n /\ x[2] = Node(d[n].name, d[n].text, more(n))
      <3>1. PICK n \in DOMAIN text : x[1] = n /\ x[2] = Node(d[n].name, d[n].text, more(n))
        BY <2>1
      <3>2. x[2].kids = more(n) /\ x[2] = Node(x[2].name, x[2].text, x[2].kids)
        BY <3>1, NodeFacts
      <3>3. \A k \in Range(d[n].kids) : k # Root /\ U[k] = n
        BY <1>3, <1>13
      <3>4. at(n) # Root /\ U[at(n)] = n
        BY <1>2, <1>3, <1>6
      <3> QED
        BY <1>3, <1>9, <3>1, <3>2, <3>3, <3>4 DEF Fits
    <2>2. CASE \E n \in DOMAIN text : x[1] = at(n) /\ x[2] = Node(name, text[n], <<>>)
      <3>1. PICK n \in DOMAIN text : x[1] = at(n) /\ x[2] = Node(name, text[n], <<>>)
        BY <2>2
      <3>2. x[2].kids = <<>> /\ x[2] = Node(x[2].name, x[2].text, x[2].kids)
        BY <3>1, NodeFacts
      <3> QED
        BY <1>2, <3>1, <3>2, EmptyFacts DEF Fits
    <2> QED
      BY <1>11, <2>1, <2>2

  <1>14. Good(t)
    BY <1>1, <1>5, <1>7, <1>12, <1>13, PutGood
  <1>15. DOMAIN t = P /\ \A n \in DOMAIN t : Written(t, d, new, n)
    BY <1>1, <1>7, PutFacts
  <1>16. ASSUME NEW n \in P
         PROVE  \/ n \in DOMAIN d /\ t[n] = d[n] /\ n \notin DOMAIN text
                \/ n \in DOMAIN text /\ t[n] = Node(d[n].name, d[n].text, more(n))
                \/ n \notin DOMAIN d /\ t[n].kids = <<>> /\ \E m \in DOMAIN text : n = at(m)
    <2>1. CASE n \in DOMAIN d /\ t[n] = d[n] /\ \A x \in new : x[1] # n
      <3>1. n \notin DOMAIN text
        BY <2>1, <1>4, KeysFacts
      <3> QED
        BY <2>1, <3>1
    <2>2. CASE \E x \in new : x[1] = n /\ t[n] = x[2]
      <3>1. PICK x \in new : x[1] = n /\ t[n] = x[2]
        BY <2>2
      <3> QED
        BY <1>2, <1>11, <3>1, NodeFacts
    <2> QED
      BY <1>15, <2>1, <2>2 DEF Written
  <1>17. Places(d, t, by)
    BY <1>2, <1>8, <1>15 DEF Places
  <1>18. \A n \in DOMAIN d : t[n].name = d[n].name /\ (n \in DOMAIN text \/ t[n].kids = d[n].kids)
    BY <1>6, <1>7, <1>16, NodeFacts
  <1>19. Leaves(d, t)
    BY <1>15, <1>16, <1>18 DEF Leaves
  <1>20. Nodes(t) = DOMAIN t
    <2>1. Nodes(t) \subseteq P /\ Root \in Nodes(t) /\ Closed(t, Nodes(t))
      BY <1>14, <1>15, NodesFacts DEF Good
    <2>2. \A n \in DOMAIN d : Range(d[n].kids) \subseteq Range(t[n].kids)
      BY <1>7, <1>9, <1>16, NodeFacts
    <2>3. \A X \in SUBSET DOMAIN d : Root \in X /\ Closed(d, X) => DOMAIN d \subseteq X
      BY NodesFacts DEF Good
    <2>4. Closed(d, Nodes(t) \cap DOMAIN d) /\ Root \in Nodes(t) \cap DOMAIN d
      BY <1>3, <2>1, <2>2 DEF Closed
    <2>5. DOMAIN d \subseteq Nodes(t)
      BY <2>3, <2>4
    <2>6. \A n \in DOMAIN text : at(n) \in Nodes(t)
      <3> SUFFICES ASSUME NEW n \in DOMAIN text PROVE at(n) \in Range(t[n].kids)
        BY <1>6, <2>1, <2>5 DEF Closed
      <3>1. t[n] = Node(d[n].name, d[n].text, more(n))
        BY <1>2, <1>6, <1>16
      <3> QED
        BY <1>9, <3>1, NodeFacts
    <2> QED
      BY <1>8, <1>15, <2>1, <2>5, <2>6
  <1> QED
    BY <1>14, <1>17, <1>19, <1>20 DEF Kept, t

LEMMA KeptSame == ASSUME NEW d, Good(d), Nodes(d) = DOMAIN d, NEW by PROVE Kept(d, d, by)
  BY DEF Kept, Places, Leaves

\* Two steps that keep the places of a document one after the other keep them together.
LEMMA KeptTwice ==
    ASSUME NEW d, NEW t, NEW u, NEW by, Kept(d, t, by), Kept(t, u, by) PROVE Kept(d, u, by)
  <1>1. Places(d, u, by)
    BY DEF Kept, Places
  <1>2. Leaves(d, u)
    BY DEF Kept, Leaves
  <1> QED
    BY <1>1, <1>2 DEF Kept

\* Taking children away keeps a document good and everything else in its place.
LEMMA removeKidsKept == ASSUME NEW d, Good(d), NEW gone, NEW by PROVE Kept(d, removeKids(d, gone), by)
  <1> DEFINE t == removeKids(d, gone)
  <1>1. /\ Good(t) /\ DOMAIN t \subseteq DOMAIN d /\ Nodes(t) = DOMAIN t
        /\ \A n \in DOMAIN t : t[n].name = d[n].name /\ Range(t[n].kids) \subseteq Range(d[n].kids)
    BY removeKidsFacts
  <1> HIDE DEF t
  <1>2. ASSUME NEW n \in DOMAIN t, d[n].kids = <<>> PROVE t[n].kids = <<>>
    <2>1. Range(t[n].kids) = {} /\ t[n].kids \in Seq(DOMAIN t)
      BY <1>1, <1>2, EmptyFacts DEF Good, Heap
    <2> QED
      BY <2>1 DEF Range
  <1>3. Leaves(d, t)
    BY <1>1, <1>2 DEF Leaves
  <1> QED
    BY <1>1, <1>3 DEF Kept, Places, t

LEMMA unpricedPenaltiesFacts ==
    ASSUME NEW d, Good(d), Nodes(d) = DOMAIN d, NEW by PROVE Kept(d, unpricedPenalties(d), by)
  <1> DEFINE kept == removeKids(d, unpricedHere(d))
             gone == {childText(d, p, "PenaltyID") : p \in unpricedHere(d)}
             more == {n \in NodesNamed(kept, "PenaltyRefID") : kept[n].text \in gone}
                     \cup {n \in NodesNamed(kept, "PenaltyList") : kept[n].kids = <<>>}
  <1>1. unpricedPenalties(d) = IF gone = {} THEN d ELSE removeKids(kept, more)
    BY DEF unpricedPenalties
  <1> HIDE DEF gone, more
  <1>2. Kept(d, kept, by)
    BY removeKidsKept
  <1>3. Kept(kept, removeKids(kept, more), by)
    BY <1>2, removeKidsKept DEF Kept
  <1> QED
    BY <1>1, <1>2, <1>3, KeptSame, KeptTwice

LEMMA definitionOwnerFacts ==
    ASSUME NEW d, Good(d), Nodes(d) = DOMAIN d, \A n \in DOMAIN d : By(n) # <<"definition-owner">>
    PROVE  Kept(d, definitionOwner(d), <<"definition-owner">>)
  <1> DEFINE offers == {i \in DOMAIN Walk(d) : /\ d[Last(Walk(d)[i])].name = "Offer"
                                               /\ childText(d, Last(Walk(d)[i]), "OwnerCode") # NoText}
             bare == {n \in NodesNamed(d, "ServiceDefinition") : child(d, n, "OwnerCode") = None}
             owner == childText(d, Last(Walk(d)[Nth(offers, 1)]), "OwnerCode")
             text == [n \in bare |-> owner]
  <1>1. definitionOwner(d) = IF offers = {} THEN d ELSE WithLeaf(d, <<"definition-owner">>, "OwnerCode", text)
    BY DEF definitionOwner
  <1>2. DOMAIN text \subseteq DOMAIN d /\ \A n \in DOMAIN text : d[n].name \in Built
    BY DEF NodesNamed, Built
  <1> HIDE DEF offers, text
  <1>3. Kept(d, WithLeaf(d, <<"definition-owner">>, "OwnerCode", text), <<"definition-owner">>)
    BY <1>2, WithLeafFacts
  <1> QED
    BY <1>1, <1>3, KeptSame

LEMMA seatRowNumberFacts ==
    ASSUME NEW d, Good(d), Nodes(d) = DOMAIN d, \A n \in DOMAIN d : By(n) # <<"seat-row-number">>
    PROVE  Kept(d, seatRowNumber(d), <<"seat-row-number">>)
  <1> DEFINE rows(s) == {r \in NodesNamed(d, "SeatRow") : s \in Range(d[r].kids)}
             number(s) == childText(d, CHOOSE r \in rows(s) : TRUE, "RowNumber")
             seats == {s \in NodesNamed(d, "Seat") :
                          rows(s) # {} /\ number(s) # NoText /\ child(d, s, "RowNumber") = None}
             text == [s \in seats |-> number(s)]
  <1>1. seatRowNumber(d) = WithLeaf(d, <<"seat-row-number">>, "RowNumber", text)
    BY DEF seatRowNumber
  <1>2. DOMAIN text \subseteq DOMAIN d /\ \A n \in DOMAIN text : d[n].name \in Built
    BY DEF NodesNamed, Built
  <1> HIDE DEF text
  <1> QED
    BY <1>1, <1>2, WithLeafFacts

--------------------------------------------------------------------------------
(* datedSegments *)

\* The places a transform or a rule makes are not taken.
Fresh(d, by) == \A n \in DOMAIN d : By(n) # by
DS == <<"dated-segments">>
Segs(d) == UNION {Range(segmentsOf(d, dl)) : dl \in Lists(d)}
ListOf(d, ps) == Parent(d, Parent(d, ps))

LEMMA SegFacts ==
    ASSUME NEW d, Good(d), NEW dl \in Lists(d)
    PROVE  /\ dl \in DOMAIN d /\ d[dl].name = "DataLists"
           /\ segmentsOf(d, dl) \in Seq(DOMAIN d) /\ IsInjective(segmentsOf(d, dl))
           /\ \A ps \in Range(segmentsOf(d, dl)) :
                 ps \in DOMAIN d /\ d[ps].name = "PaxSegment" /\ ListOf(d, ps) = dl /\ ps \in Segs(d)
  <1> DEFINE pl == child(d, dl, "PaxSegmentList")
  <1>1. dl \in DOMAIN d /\ d[dl].name = "DataLists" /\ pl # None
    BY DEF Lists, NodesNamed
  <1>2. pl \in Range(d[dl].kids) /\ pl \in DOMAIN d
    BY <1>1, ChildFacts DEF Good
  <1>3. Parent(d, pl) = dl
    BY <1>1, <1>2, ParentFacts DEF Good
  <1>4. segmentsOf(d, dl) = kidsNamed(d, pl, "PaxSegment")
    BY DEF segmentsOf
  <1> HIDE DEF pl
  <1>5. /\ kidsNamed(d, pl, "PaxSegment") \in Seq(DOMAIN d) /\ IsInjective(kidsNamed(d, pl, "PaxSegment"))
        /\ Range(kidsNamed(d, pl, "PaxSegment")) = {k \in Range(d[pl].kids) : d[k].name = "PaxSegment"}
    BY <1>2, NamedFacts DEF Good
  <1>6. ASSUME NEW ps \in Range(segmentsOf(d, dl))
        PROVE  ps \in DOMAIN d /\ d[ps].name = "PaxSegment" /\ ListOf(d, ps) = dl /\ ps \in Segs(d)
    <2>1. ps \in Range(d[pl].kids) /\ d[ps].name = "PaxSegment"
      BY <1>4, <1>5
    <2>2. Parent(d, ps) = pl
      BY <1>2, <2>1, ParentFacts DEF Good
    <2>3. ps \in DOMAIN d
      BY <1>2, <2>1 DEF Good, Heap, Range
    <2> QED
      BY <1>3, <2>1, <2>2, <2>3 DEF ListOf, Segs
  <1> QED
    BY <1>1, <1>4, <1>5, <1>6

LEMMA LegFacts ==
    ASSUME NEW d, Good(d), NEW ps \in DOMAIN d
    PROVE  /\ legsOf(d, ps) \in Seq(DOMAIN d) /\ IsInjective(legsOf(d, ps))
           /\ \A g \in Range(legsOf(d, ps)) :
                 g \in DOMAIN d /\ d[g].name = "DatedOperatingLeg" /\ Parent(d, g) = ps /\ g \in Range(d[ps].kids)
  <1>1. /\ legsOf(d, ps) \in Seq(DOMAIN d) /\ IsInjective(legsOf(d, ps))
        /\ Range(legsOf(d, ps)) = {k \in Range(d[ps].kids) : d[k].name = "DatedOperatingLeg"}
    BY NamedFacts DEF Good, legsOf
  <1>2. ASSUME NEW g \in Range(legsOf(d, ps)) PROVE Parent(d, g) = ps /\ g \in DOMAIN d
    <2>1. g \in Range(d[ps].kids)
      BY <1>1
    <2> QED
      BY <2>1, ParentFacts DEF Good, Heap, Range
  <1> QED
    BY <1>1, <1>2

\* The parent of each place afterwards
Home(d, k) ==
    IF k \in DOMAIN d
    THEN IF Parent(d, k) \in Segs(d)
         THEN CASE d[k].name \in {"Arrival", "Dep"} -> Dated(Parent(d, k), "DMS")
                [] d[k].name = "CabinType" -> Choice(Parent(d, k))
                [] d[k].name = "DatedOperatingLeg" -> Dated(ListOf(d, Parent(d, k)), "DatedOperatingLegList")
         ELSE Parent(d, k)
    ELSE CASE k[3] = "DMS" -> Dated(ListOf(d, Beside(k)), "DatedMarketingSegmentList")
           [] k[3] = "DOS" -> Dated(ListOf(d, Beside(k)), "DatedOperatingSegmentList")
           [] OTHER -> Beside(k)

LEMMA HomeOld == ASSUME NEW d, Good(d), NEW n \in DOMAIN d \ Segs(d), NEW k \in Range(d[n].kids) PROVE Home(d, k) = n
  <1>1. k \in DOMAIN d /\ Parent(d, k) = n
    BY ParentFacts DEF Good, Heap, Range
  <1> QED
    BY <1>1 DEF Home

\* Where the parts of a segment go when it is split: its dates to the marketing segment, the cabin to the choice, legs to their list.
LEMMA HomeMoved ==
    ASSUME NEW d, Good(d), NEW ps \in DOMAIN d \cap Segs(d), NEW k \in Range(d[ps].kids)
    PROVE  /\ d[k].name \in {"Arrival", "Dep"} => Home(d, k) = Dated(ps, "DMS")
           /\ d[k].name = "CabinType" => Home(d, k) = Choice(ps)
           /\ d[k].name = "DatedOperatingLeg" => Home(d, k) = Dated(ListOf(d, ps), "DatedOperatingLegList")
  <1>1. k \in DOMAIN d /\ Parent(d, k) = ps
    BY ParentFacts DEF Good, Heap, Range
  <1> QED
    BY <1>1 DEF Home

\* The nodes the split makes are new, and each belongs to one list or to the node it is made for.
LEMMA HomeNew ==
    ASSUME NEW d, Fresh(d, DS), NEW n, NEW what, NEW i
    PROVE  /\ At(DS, n, what, i) \notin DOMAIN d
           /\ Home(d, At(DS, n, what, i)) = CASE what = "DMS" -> Dated(ListOf(d, n), "DatedMarketingSegmentList")
                                              [] what = "DOS" -> Dated(ListOf(d, n), "DatedOperatingSegmentList")
                                              [] OTHER -> n
  <1>1. /\ At(DS, n, what, i) # None /\ By(At(DS, n, what, i)) = DS /\ Beside(At(DS, n, what, i)) = n
        /\ At(DS, n, what, i)[3] = what
    BY AtFacts
  <1>2. At(DS, n, what, i) \notin DOMAIN d
    BY <1>1 DEF Fresh
  <1> QED
    BY <1>1, <1>2 DEF Home

\* A place by what it is beside
LEMMA AtInjective ==
    ASSUME NEW b, NEW m, NEW n, NEW v, NEW w, NEW i, NEW j, At(b, m, v, i) = At(b, n, w, j) PROVE m = n /\ v = w /\ i = j
  <1>1. /\ Beside(At(b, m, v, i)) = m /\ At(b, m, v, i)[3] = v /\ At(b, m, v, i)[4] = i
        /\ Beside(At(b, n, w, j)) = n /\ At(b, n, w, j)[3] = w /\ At(b, n, w, j)[4] = j
    BY AtFacts
  <1> QED
    BY <1>1

\* A node that is written belongs where it is, and if it is a parent then by its name or as before.
Grows(d, x, P, U) ==
    /\ Fits(x, P, U)
    /\ x[1] \in DOMAIN d \/ By(x[1]) = DS
    /\ \/ x[2].kids = <<>> \/ x[2].name \in Built
       \/ x[1] \in DOMAIN d /\ x[2].name = d[x[1]].name /\ x[2].kids = d[x[1]].kids
\* The setting: P is where nodes will be, U where they belong.
Setting(d, P, U) ==
    Good(d) /\ Fresh(d, DS) /\ DOMAIN d \subseteq P /\ U = [k \in P |-> Home(d, k)]

IsLeaf(node) == node = Node(node.name, node.text, <<>>)

LEMMA LeafFacts == ASSUME NEW name, NEW text PROVE IsLeaf(leaf(name, text)) /\ leaf(name, text).kids = <<>>
  BY NodeFacts DEF IsLeaf, leaf

\* A new leaf may be added wherever the split makes one.
LEMMA LeafGrows ==
    ASSUME NEW d, NEW P, NEW U, Setting(d, P, U), NEW n, NEW what, NEW i, NEW node, IsLeaf(node)
    PROVE  Grows(d, <<At(DS, n, what, i), node>>, P, U)
  <1> DEFINE x == <<At(DS, n, what, i), node>>
  <1>1. x[1] # None /\ By(x[1]) = DS
    BY AtFacts
  <1>2. x[2] = node /\ node.kids = <<>> /\ node = Node(node.name, node.text, node.kids)
    BY NodeFacts DEF IsLeaf
  <1> HIDE DEF x
  <1>3. Fits(x, P, U)
    BY <1>1, <1>2, EmptyFacts DEF Fits
  <1> QED
    BY <1>1, <1>2, <1>3 DEF Grows, x

LEMMA ElementFacts ==
    ASSUME NEW d, NEW P, NEW U, Setting(d, P, U),
           NEW at, at # None, at \in DOMAIN d \/ By(at) = DS, NEW name \in Built,
           NEW before \in Seq(P), IsInjective(before), NEW after \in Seq(P), IsInjective(after),
           Range(before) \cap Range(after) = {},
           \A k \in Range(before) \cup Range(after) : Home(d, k) = at /\ k # Root /\ \A i : k # At(DS, at, "leaf", i),
           NEW S, \A node \in S : IsLeaf(node), NEW leaves \in Seq(S),
           \A i \in DOMAIN leaves : At(DS, at, "leaf", i) \in P
    PROVE  \A x \in Element(at, name, before, leaves, after) : Grows(d, x, P, U)
  <1> DEFINE place(i) == At(DS, at, "leaf", i)
             places == [i \in DOMAIN leaves |-> place(i)]
             kids == before \o places \o after
             node == Node(name, NoText, kids)
  <1>1. Element(at, name, before, leaves, after) = {<<at, node>>} \cup {<<place(i), leaves[i]>> : i \in DOMAIN leaves}
    BY DEF Element, DS
  <1>2. ASSUME NEW i \in DOMAIN leaves PROVE Grows(d, <<place(i), leaves[i]>>, P, U)
    <2>1. IsLeaf(leaves[i])
      OBVIOUS
    <2> QED
      BY <2>1, LeafGrows
  <1>3. \A i \in DOMAIN leaves : place(i) \in P /\ Home(d, place(i)) = at /\ place(i) # Root
    <2> SUFFICES ASSUME NEW i \in DOMAIN leaves PROVE Home(d, place(i)) = at /\ place(i) \notin DOMAIN d
      BY DEF Setting, Good, Heap
    <2> QED
      BY HomeNew DEF Setting
  <1>4. places \in Seq(P) /\ DOMAIN places = DOMAIN leaves /\ \A i \in DOMAIN leaves : places[i] = place(i)
    <2>1. \A i \in DOMAIN leaves : place(i) \in P
      BY <1>3
    <2> HIDE DEF place
    <2>2. DOMAIN leaves = 1..Len(leaves) /\ Len(leaves) \in Nat
      OBVIOUS
    <2> QED
      BY <2>1, <2>2
  <1>5. Range(places) = {place(i) : i \in DOMAIN leaves}
    BY <1>4 DEF Range
  <1>6. IsInjective(places)
    <2> SUFFICES ASSUME NEW i \in DOMAIN leaves, NEW j \in DOMAIN leaves, place(i) = place(j) PROVE i = j
      BY <1>4 DEF IsInjective
    <2> QED
      BY AtInjective
  <1>7. Range(before) \cap Range(places) = {} /\ Range(places) \cap Range(after) = {}
    BY <1>5
  <1> HIDE DEF places, place
  <1>8. before \o places \in Seq(P) /\ Range(before \o places) = Range(before) \cup Range(places) /\ IsInjective(before \o places)
    BY <1>4, <1>6, <1>7, ConcatFacts
  <1> DEFINE half == before \o places
  <1>9. half \in Seq(P) /\ IsInjective(half) /\ Range(half) \cap Range(after) = {}
    BY <1>7, <1>8
  <1> HIDE DEF half
  <1>10. half \o after \in Seq(P) /\ Range(half \o after) = Range(half) \cup Range(after) /\ IsInjective(half \o after)
    BY <1>9, ConcatFacts
  <1>11. kids \in Seq(P) /\ Range(kids) = Range(before) \cup Range(places) \cup Range(after) /\ IsInjective(kids)
    BY <1>8, <1>10 DEF half
  <1> HIDE DEF kids
  <1>12. node.kids = kids /\ node.name = name /\ node = Node(node.name, node.text, node.kids)
    BY NodeFacts
  <1> HIDE DEF node
  <1>13. ASSUME NEW k \in Range(kids) PROVE k \in P /\ k # Root /\ Home(d, k) = at
    <2>1. k \in P
      BY <1>11 DEF Range
    <2>2. CASE k \in Range(places)
      BY <1>3, <1>5, <2>1, <2>2
    <2>3. CASE k \in Range(before) \cup Range(after)
      BY <2>1, <2>3
    <2> QED
      BY <1>11, <2>2, <2>3
  <1>14. \A k \in Range(kids) : U[k] = at
    BY <1>13 DEF Setting
  <1> DEFINE x == <<at, node>>
  <1>15. x[1] = at /\ x[2] = node
    OBVIOUS
  <1> HIDE DEF x
  <1>16. Grows(d, x, P, U)
    BY <1>11, <1>12, <1>13, <1>14, <1>15 DEF Grows, Fits
  <1> QED
    BY <1>1, <1>2, <1>16 DEF x

\* What an element writes: its own node and its leaves
LEMMA ElementKeys ==
    ASSUME NEW at, NEW name, NEW before, NEW after, NEW S, NEW leaves \in Seq(S)
    PROVE  /\ at \in Keys(Element(at, name, before, leaves, after))
           /\ \A i \in DOMAIN leaves : At(DS, at, "leaf", i) \in Keys(Element(at, name, before, leaves, after))
           /\ IsFiniteSet(Element(at, name, before, leaves, after))
  <1> DEFINE place(i) == At(DS, at, "leaf", i)
             node == Node(name, NoText, before \o [i \in DOMAIN leaves |-> place(i)] \o after)
             E == Element(at, name, before, leaves, after)
             f == [i \in DOMAIN leaves |-> <<place(i), leaves[i]>>]
             B == {<<place(i), leaves[i]>> : i \in DOMAIN leaves}
  <1>1. E = {<<at, node>>} \cup B
    BY DEF Element, DS
  <1>2. B = {f[i] : i \in DOMAIN leaves}
    OBVIOUS
  <1>3. IsFiniteSet(DOMAIN leaves)
    BY FS_Interval
  <1>4. \A i \in DOMAIN leaves : <<place(i), leaves[i]>> \in B
    OBVIOUS
  <1> HIDE DEF B, f, node, E, place
  <1>5. IsFiniteSet(B)
    BY <1>2, <1>3, FiniteImage
  <1>6. IsFiniteSet({<<at, node>>})
    BY FS_Singleton
  <1>7. IsFiniteSet(E)
    BY <1>1, <1>5, <1>6, FS_Union
  <1>8. at \in Keys(E) /\ \A i \in DOMAIN leaves : place(i) \in Keys(E)
    BY <1>1, <1>4, KeysFacts
  <1> QED
    BY <1>7, <1>8 DEF E, place

LEMMA SegsFacts == ASSUME NEW d, Good(d), NEW ps \in Segs(d) PROVE ps \in DOMAIN d /\ d[ps].name = "PaxSegment"
  <1>1. PICK dl \in Lists(d) : ps \in Range(segmentsOf(d, dl))
    BY DEF Segs
  <1> QED
    BY <1>1, SegFacts

LEMMA KidFacts ==
    ASSUME NEW d, Good(d), NEW n \in DOMAIN d
    PROVE  /\ d[n] = Node(d[n].name, d[n].text, d[n].kids) /\ n # None
           /\ d[n].kids \in Seq(DOMAIN d) /\ IsInjective(d[n].kids)
           /\ Root \notin Range(d[n].kids) /\ Range(d[n].kids) \subseteq DOMAIN d
  BY DEF Good, Heap, Single, Range

\* A node with the children it had
LEMMA SameKids ==
    ASSUME NEW d, NEW P, NEW U, Setting(d, P, U), NEW n \in DOMAIN d \ Segs(d), NEW name, NEW text
    PROVE  Fits(<<n, Node(name, text, d[n].kids)>>, P, U)
  <1> DEFINE x == <<n, Node(name, text, d[n].kids)>>
  <1>1. x[1] = n /\ x[2] = Node(x[2].name, x[2].text, x[2].kids) /\ x[2].kids = d[n].kids
    BY NodeFacts
  <1> HIDE DEF x
  <1>2. /\ n # None /\ d[n].kids \in Seq(DOMAIN d) /\ IsInjective(d[n].kids)
        /\ Root \notin Range(d[n].kids) /\ Range(d[n].kids) \subseteq DOMAIN d
    BY KidFacts DEF Setting
  <1>3. d[n].kids \in Seq(P)
    BY <1>2, SeqMonotonic DEF Setting
  <1>4. \A k \in Range(d[n].kids) : k \in P /\ Home(d, k) = n
    BY <1>2, HomeOld DEF Setting
  <1>5. \A k \in Range(d[n].kids) : U[k] = n
    BY <1>4 DEF Setting
  <1>6. Fits(x, P, U)
    BY <1>1, <1>2, <1>3, <1>5 DEF Fits
  <1> QED
    BY <1>6 DEF x

\* The new places are distinct from the documents' and from each other.
LEMMA DatedFacts ==
    ASSUME NEW d, Fresh(d, DS), NEW n, NEW what
    PROVE  /\ Dated(n, what) # None /\ By(Dated(n, what)) = DS /\ Beside(Dated(n, what)) = n
           /\ Dated(n, what) \notin DOMAIN d /\ Dated(n, what)[3] = what
           /\ \A i : what # "leaf" => \A m : Dated(n, what) # At(DS, m, "leaf", i)
           /\ Home(d, Dated(n, what)) = CASE what = "DMS" -> Dated(ListOf(d, n), "DatedMarketingSegmentList")
                                          [] what = "DOS" -> Dated(ListOf(d, n), "DatedOperatingSegmentList")
                                          [] OTHER -> n
  <1>1. Dated(n, what) = At(DS, n, what, 0)
    BY DEF Dated, DS
  <1>2. /\ Dated(n, what) # None /\ By(Dated(n, what)) = DS /\ Beside(Dated(n, what)) = n /\ Dated(n, what)[3] = what
    BY <1>1, AtFacts
  <1>3. \A i : what # "leaf" => \A m : Dated(n, what) # At(DS, m, "leaf", i)
    <2> SUFFICES ASSUME NEW i, what # "leaf", NEW m PROVE Dated(n, what)[3] # At(DS, m, "leaf", i)[3]
      OBVIOUS
    <2> QED
      BY <1>2, AtFacts
  <1> QED
    BY <1>1, <1>2, <1>3, HomeNew

LEMMA FiniteTwo == ASSUME NEW a, NEW b PROVE IsFiniteSet({a, b})
  <1>1. IsFiniteSet({a}) /\ IsFiniteSet({b})
    BY FS_Singleton
  <1>2. {a, b} = {a} \cup {b}
    OBVIOUS
  <1> QED
    BY <1>1, <1>2, FS_Union

LEMMA TwoLeaves ==
    ASSUME NEW k, NEW l, IsLeaf(k), IsLeaf(l)
    PROVE  <<k, l>> \in Seq({k, l}) /\ DOMAIN <<k, l>> = {1, 2} /\ \A node \in {k, l} : IsLeaf(node)
  OBVIOUS

\* A segment as the split leaves it, and what is made for it alone, may be put in.
LEMMA KeepsFacts ==
    ASSUME NEW d, NEW P, NEW U, Setting(d, P, U), NEW ps \in Segs(d), Keys(Keeps(d, ps)) \subseteq P
    PROVE  IsFiniteSet(Keeps(d, ps)) /\ ps \in Keys(Keeps(d, ps)) /\ \A x \in Keeps(d, ps) : Grows(d, x, P, U)
  <1> DEFINE cabin == child(d, ps, "CabinType")
             before == IF cabin = None THEN <<>> ELSE <<Choice(ps)>>
             k == leaf("DatedMarketingSegmentRefId", <<"DMS">> \o segID(d, ps))
             l == leaf("PaxSegmentID", segID(d, ps))
             leaves == <<k, l>>
             E == Element(ps, "PaxSegment", before, leaves, <<>>)
             C == IF cabin = None THEN {}
                  ELSE { <<Choice(ps), Node("CabinTypeAssociationChoice", NoText, <<cabin>>)>>,
                         <<cabin, [d[cabin] EXCEPT !.name = "SegmentCabinType"]>> }
  <1>1. Keeps(d, ps) = E \cup C
    BY DEF Keeps, Keeping
  <1>2. ps \in DOMAIN d /\ d[ps].name = "PaxSegment" /\ ps # None
    BY SegsFacts, KidFacts DEF Setting
  <1>3. leaves \in Seq({k, l}) /\ DOMAIN leaves = {1, 2} /\ \A node \in {k, l} : IsLeaf(node)
    <2>1. IsLeaf(k) /\ IsLeaf(l)
      BY LeafFacts
    <2> HIDE DEF k, l
    <2> QED
      BY <2>1, TwoLeaves
  <1>4. cabin # None => cabin \in Range(d[ps].kids) /\ cabin \in DOMAIN d /\ d[cabin].name = "CabinType"
    BY <1>2, ChildFacts DEF Setting, Good
  <1> HIDE DEF k, l, leaves, cabin
  <1>5. ps \in Keys(E) /\ (\A i \in DOMAIN leaves : At(DS, ps, "leaf", i) \in Keys(E)) /\ IsFiniteSet(E)
    BY <1>3, ElementKeys
  <1>6. Keys(E) \subseteq P /\ Keys(C) \subseteq P
    BY <1>1, KeysFacts
  <1> HIDE DEF E
  <1>7. Choice(ps) # None /\ By(Choice(ps)) = DS /\ Home(d, Choice(ps)) = ps /\ Choice(ps) \notin DOMAIN d
    BY DatedFacts DEF Choice, Setting
  <1>8. cabin # None => Choice(ps) \in P
    <2>1. cabin # None => <<Choice(ps), Node("CabinTypeAssociationChoice", NoText, <<cabin>>)>> \in C
      OBVIOUS
    <2> HIDE DEF C
    <2> QED
      BY <1>6, <2>1, KeysFacts
  <1>9. \A x \in E : Grows(d, x, P, U)
    <2>1. /\ before \in Seq(P) /\ IsInjective(before) /\ Range(before) \subseteq {Choice(ps)}
          /\ <<>> \in Seq(P) /\ IsInjective(<<>>) /\ Range(<<>>) = {}
      BY <1>8, EmptyFacts, OneFacts
    <2> HIDE DEF before
    <2>2. \A i : Choice(ps) # At(DS, ps, "leaf", i)
      BY DatedFacts DEF Choice, Setting
    <2>3. Choice(ps) # Root
      BY <1>7 DEF Setting, Good, Heap
    <2>4. \A i \in DOMAIN leaves : At(DS, ps, "leaf", i) \in P
      BY <1>5, <1>6
    <2>5. \A n \in Range(before) \cup Range(<<>>) : Home(d, n) = ps /\ n # Root /\ \A i : n # At(DS, ps, "leaf", i)
      BY <1>7, <2>1, <2>2, <2>3
    <2>6. Range(before) \cap Range(<<>>) = {} /\ "PaxSegment" \in Built
      BY <2>1 DEF Built
    <2> HIDE DEF k, l
    <2> QED
      BY <1>2, <1>3, <2>1, <2>4, <2>5, <2>6, ElementFacts DEF E
  <1>10. ASSUME NEW x \in C PROVE Grows(d, x, P, U)
    <2>1. /\ cabin # None /\ cabin \in Range(d[ps].kids) /\ cabin \in DOMAIN d /\ d[cabin].name = "CabinType"
          /\ cabin \in P /\ cabin \notin Segs(d) /\ cabin # Root
      BY <1>2, <1>4, SegsFacts, KidFacts DEF Setting
    <2>2. Home(d, cabin) = Choice(ps) /\ U[cabin] = Choice(ps)
      <3>1. Home(d, cabin) = Choice(ps)
        BY <1>2, <2>1, HomeMoved DEF Setting
      <3> QED
        BY <2>1, <3>1 DEF Setting
    <2>3. CASE x = <<Choice(ps), Node("CabinTypeAssociationChoice", NoText, <<cabin>>)>>
      <3>1. /\ x[1] = Choice(ps) /\ x[2].kids = <<cabin>> /\ x[2].name = "CabinTypeAssociationChoice"
            /\ x[2] = Node(x[2].name, x[2].text, x[2].kids)
        BY <2>3, NodeFacts
      <3>2. <<cabin>> \in Seq(P) /\ Range(<<cabin>>) = {cabin} /\ IsInjective(<<cabin>>)
        BY <2>1, OneFacts
      <3>3. Fits(x, P, U)
        BY <1>7, <2>1, <2>2, <3>1, <3>2 DEF Fits
      <3> QED
        BY <1>7, <3>1, <3>3 DEF Grows, Built
    <2>4. CASE x = <<cabin, [d[cabin] EXCEPT !.name = "SegmentCabinType"]>>
      <3>1. d[cabin] = Node(d[cabin].name, d[cabin].text, d[cabin].kids)
        BY <2>1, KidFacts DEF Setting
      <3>2. x = <<cabin, Node("SegmentCabinType", d[cabin].text, d[cabin].kids)>>
        BY <2>4, <3>1 DEF Node
      <3>3. Fits(x, P, U)
        BY <2>1, <3>2, SameKids
      <3>4. x[1] = cabin /\ x[2].name = "SegmentCabinType"
        BY <3>2, NodeFacts
      <3> QED
        BY <2>1, <3>3, <3>4 DEF Grows, Built
    <2> QED
      BY <2>3, <2>4
  <1>11. IsFiniteSet(C)
    <2>1. \A a, b : IsFiniteSet({a, b})
      BY FiniteTwo
    <2> QED
      BY <2>1, FS_EmptySet
  <1> HIDE DEF C
  <1>12. IsFiniteSet(E \cup C)
    BY <1>5, <1>11, FS_Union
  <1>13. ps \in Keys(E \cup C)
    BY <1>5, KeysFacts
  <1> QED
    BY <1>1, <1>9, <1>10, <1>12, <1>13

LEMMA MarketingFacts ==
    ASSUME NEW d, NEW P, NEW U, Setting(d, P, U), NEW ps \in Segs(d), Keys(Marketing(d, ps)) \subseteq P
    PROVE  /\ IsFiniteSet(Marketing(d, ps)) /\ Dated(ps, "DMS") \in Keys(Marketing(d, ps))
           /\ \A x \in Marketing(d, ps) : Grows(d, x, P, U)
  <1> DEFINE at == Dated(ps, "DMS")
             before == AnyChild(d, ps, "Arrival")
             after == AnyChild(d, ps, "Dep")
             j == leaf("CarrierDesigCode", marketed(d, ps))
             k == leaf("DatedMarketingSegmentId", <<"DMS">> \o segID(d, ps))
             l == leaf("DatedOperatingSegmentRefId", <<"DOS">> \o segID(d, ps))
             leaves == <<j, k, l>>
  <1>1. Marketing(d, ps) = Element(at, "DatedMarketingSegment", before, leaves, after)
    BY DEF Marketing
  <1>2. ps \in DOMAIN d /\ DOMAIN d \subseteq P /\ Root \in DOMAIN d
    BY SegsFacts DEF Setting, Good, Heap
  <1>3. leaves \in Seq({j, k, l}) /\ \A node \in {j, k, l} : IsLeaf(node)
    <2>1. IsLeaf(j) /\ IsLeaf(k) /\ IsLeaf(l)
      BY LeafFacts
    <2> HIDE DEF j, k, l
    <2> QED
      BY <2>1
  <1> HIDE DEF leaves, j, k, l
  <1>4. /\ before \in Seq(DOMAIN d) /\ IsInjective(before)
        /\ \A n \in Range(before) : n \in Range(d[ps].kids) /\ d[n].name = "Arrival"
    BY <1>2, ChildFacts DEF Setting, Good
  <1>5. /\ after \in Seq(DOMAIN d) /\ IsInjective(after)
        /\ \A n \in Range(after) : n \in Range(d[ps].kids) /\ d[n].name = "Dep"
    BY <1>2, ChildFacts DEF Setting, Good
  <1> HIDE DEF before, after
  <1>6. before \in Seq(P) /\ after \in Seq(P) /\ Range(before) \cap Range(after) = {}
    BY <1>2, <1>4, <1>5, SeqMonotonic
  <1>7. at # None /\ By(at) = DS
    BY DatedFacts DEF Setting
  <1>8. ASSUME NEW n \in Range(before) \cup Range(after)
        PROVE  Home(d, n) = at /\ n # Root /\ \A i : n # At(DS, at, "leaf", i)
    <2>1. n \in Range(d[ps].kids) /\ d[n].name \in {"Arrival", "Dep"}
      BY <1>4, <1>5
    <2>2. Home(d, n) = at
      BY <1>2, <2>1, HomeMoved DEF Setting
    <2>3. n \in DOMAIN d /\ n # Root
      BY <1>2, <2>1, KidFacts DEF Setting
    <2>4. \A i : At(DS, at, "leaf", i) \notin DOMAIN d
      BY HomeNew DEF Setting
    <2> QED
      BY <2>2, <2>3, <2>4
  <1> HIDE DEF at
  <1> DEFINE E == Element(at, "DatedMarketingSegment", before, leaves, after)
  <1>9. at \in Keys(E) /\ (\A i \in DOMAIN leaves : At(DS, at, "leaf", i) \in Keys(E)) /\ IsFiniteSet(E)
    BY <1>3, ElementKeys
  <1>10. \A i \in DOMAIN leaves : At(DS, at, "leaf", i) \in P
    BY <1>1, <1>9
  <1>11. \A x \in E : Grows(d, x, P, U)
    BY <1>3, <1>4, <1>5, <1>6, <1>7, <1>8, <1>10, ElementFacts DEF Built
  <1> QED
    BY <1>1, <1>9, <1>11 DEF at

LEMMA OperatingFacts ==
    ASSUME NEW d, NEW P, NEW U, Setting(d, P, U), NEW ps \in Segs(d), NEW flown, IsFiniteSet(flown),
           Keys(Operating(d, ps, flown)) \subseteq P
    PROVE  /\ IsFiniteSet(Operating(d, ps, flown)) /\ Dated(ps, "DOS") \in Keys(Operating(d, ps, flown))
           /\ \A x \in Operating(d, ps, flown) : Grows(d, x, P, U)
  <1> DEFINE at == Dated(ps, "DOS")
             N == Cardinality(flown)
             k == leaf("CarrierDesigCode", Carrier(d, ps))
             refer(j) == leaf("DatedOperatingLegRefID", legID(d, ps, Nth(flown, j)))
             refs == [j \in 1..N |-> refer(j)]
             l == leaf("DatedOperatingSegmentId", <<"DOS">> \o segID(d, ps))
             S == {k, l} \cup {refer(j) : j \in 1..N}
             leaves == <<k>> \o refs \o <<l>>
  <1>1. Operating(d, ps, flown) = Element(at, "DatedOperatingSegment", <<>>, leaves, <<>>)
    BY DEF Operating
  <1>2. \A node \in S : IsLeaf(node)
    <2>1. IsLeaf(k) /\ IsLeaf(l) /\ \A j \in 1..N : IsLeaf(refer(j))
      BY LeafFacts
    <2> HIDE DEF k, l, refer
    <2> QED
      BY <2>1
  <1>3. leaves \in Seq(S)
    <2>1. N \in Nat
      BY FS_CardinalityType
    <2> HIDE DEF k, l, refer, N
    <2>2. refs \in Seq(S) /\ <<k>> \in Seq(S) /\ <<l>> \in Seq(S)
      BY <2>1
    <2> HIDE DEF refs
    <2> QED
      BY <2>2
  <1> HIDE DEF leaves, S, k, l, refs, refer, N
  <1>4. at # None /\ By(at) = DS
    BY DatedFacts DEF Setting
  <1> HIDE DEF at
  <1> DEFINE E == Element(at, "DatedOperatingSegment", <<>>, leaves, <<>>)
  <1>5. at \in Keys(E) /\ (\A i \in DOMAIN leaves : At(DS, at, "leaf", i) \in Keys(E)) /\ IsFiniteSet(E)
    BY <1>3, ElementKeys
  <1>6. \A i \in DOMAIN leaves : At(DS, at, "leaf", i) \in P
    BY <1>1, <1>5
  <1>7. <<>> \in Seq(P) /\ IsInjective(<<>>) /\ Range(<<>>) = {}
    BY EmptyFacts
  <1> DEFINE none == <<>>
  <1>8. none \in Seq(P) /\ IsInjective(none) /\ Range(none) \cap Range(none) = {} /\ "DatedOperatingSegment" \in Built
    BY <1>7 DEF Built
  <1>9. \A n \in Range(none) \cup Range(none) : Home(d, n) = at /\ n # Root /\ \A i : n # At(DS, at, "leaf", i)
    BY <1>7
  <1> HIDE DEF none
  <1>10. \A x \in Element(at, "DatedOperatingSegment", none, leaves, none) : Grows(d, x, P, U)
    BY <1>2, <1>3, <1>4, <1>6, <1>8, <1>9, ElementFacts
  <1> QED
    BY <1>1, <1>5, <1>10 DEF at, none

LEMMA LegGrows ==
    ASSUME NEW d, NEW P, NEW U, Setting(d, P, U), NEW ps \in Segs(d), NEW i \in DOMAIN legsOf(d, ps),
           Keys(Leg(d, ps, i)) \subseteq P
    PROVE  IsFiniteSet(Leg(d, ps, i)) /\ \A x \in Leg(d, ps, i) : Grows(d, x, P, U)
  <1> DEFINE g == legsOf(d, ps)[i]
             names == <<"DatedOperatingLegID", "Dep", "Arrival">>
             text(name) == IF name \in Range(Ends) THEN childText(d, ps, name) ELSE legID(d, ps, i)
             I == {x \in DOMAIN names : IF x = 1 THEN childText(d, g, names[1]) = NoText
                                        ELSE child(d, g, names[x]) = None}
             new == Pick(names, I)
             J == DOMAIN d[g].kids \ Named(d, g, "OnGroundDuration")
             stay == Pick(d[g].kids, J)
             more == [x \in DOMAIN new |-> Dated(g, new[x])]
             ends == {y \in DOMAIN Ends : child(d, g, Ends[y]) # None /\ childText(d, g, Ends[y]) = NoText}
             A == {<<g, WithKids(d[g], stay \o more)>>}
             B == {<<Dated(g, new[x]), leaf(new[x], text(new[x]))>> : x \in DOMAIN new}
             C == {<<n, [d[n] EXCEPT !.text = childText(d, ps, d[n].name)]>> : n \in {child(d, g, Ends[x]) : x \in ends}}
             R == {"DatedOperatingLegID", "Dep", "Arrival"}
  <1>1. Leg(d, ps, i) = A \cup B \cup C
    BY DEF Leg
  <1>2. names = <<"DatedOperatingLegID", "Dep", "Arrival">> /\ Ends = <<"Dep", "Arrival">>
    BY DEF Ends
  <1>3. names \in Seq(R) /\ IsInjective(names) /\ I \in SUBSET DOMAIN names
    <2>1. names \in Seq(R)
      BY <1>2
    <2>2. IsInjective(names)
      BY <1>2 DEF IsInjective
    <2> QED
      BY <2>1, <2>2
  <1>4. ps \in DOMAIN d /\ DOMAIN d \subseteq P /\ Root \in DOMAIN d
    BY SegsFacts DEF Setting, Good, Heap
  <1>5. /\ g \in DOMAIN d /\ d[g].name = "DatedOperatingLeg" /\ g \notin Segs(d)
    <2>1. g \in Range(legsOf(d, ps))
      BY DEF Range
    <2> QED
      BY <1>4, <2>1, LegFacts, SegsFacts DEF Setting
  <1>6. /\ d[g] = Node(d[g].name, d[g].text, d[g].kids) /\ g # None
        /\ d[g].kids \in Seq(DOMAIN d) /\ IsInjective(d[g].kids)
        /\ Root \notin Range(d[g].kids) /\ Range(d[g].kids) \subseteq DOMAIN d
    BY <1>5, KidFacts DEF Setting
  <1> HIDE DEF names, I, text, g
  <1>7. new \in Seq(R) /\ IsInjective(new)
    BY <1>3, PickFacts
  <1>8. DOMAIN new = 1..Len(new) /\ Len(new) \in Nat
    BY <1>7
  <1> HIDE DEF new
  <1>9. stay \in Seq(DOMAIN d) /\ IsInjective(stay) /\ Range(stay) \subseteq Range(d[g].kids)
    <2>1. J \in SUBSET DOMAIN d[g].kids
      OBVIOUS
    <2> HIDE DEF J
    <2>2. stay \in Seq(DOMAIN d) /\ IsInjective(stay) /\ Range(stay) = {d[g].kids[x] : x \in J}
      BY <1>6, <2>1, PickFacts
    <2> QED
      BY <2>1, <2>2 DEF Range
  <1>10. ASSUME NEW x \in DOMAIN new
         PROVE  /\ new[x] \in R /\ Dated(g, new[x]) # None /\ By(Dated(g, new[x])) = DS
                /\ Home(d, Dated(g, new[x])) = g /\ Dated(g, new[x]) \notin DOMAIN d
    <2>1. new[x] \in R
      BY <1>7
    <2>2. new[x] \notin {"DMS", "DOS"}
      BY <2>1
    <2> QED
      BY <2>1, <2>2, DatedFacts DEF Setting
  <1>11. \A x \in DOMAIN new : Dated(g, new[x]) \in P
    <2>1. \A x \in DOMAIN new : <<Dated(g, new[x]), leaf(new[x], text(new[x]))>> \in B
      OBVIOUS
    <2> HIDE DEF A, B, C
    <2>2. \A x \in DOMAIN new : Dated(g, new[x]) \in Keys(B)
      BY <2>1, KeysFacts
    <2>3. Keys(B) \subseteq Keys(A \cup B \cup C)
      BY DEF Keys
    <2> QED
      BY <1>1, <2>2, <2>3
  <1>12. more \in Seq(P) /\ IsInjective(more) /\ Range(more) = {Dated(g, new[x]) : x \in DOMAIN new}
    <2>1. more \in Seq(P)
      BY <1>8, <1>11
    <2>2. \A x, y \in DOMAIN new : Dated(g, new[x]) = Dated(g, new[y]) => x = y
      <3> SUFFICES ASSUME NEW x \in DOMAIN new, NEW y \in DOMAIN new, Dated(g, new[x]) = Dated(g, new[y]) PROVE x = y
        OBVIOUS
      <3>1. new[x] = new[y]
        BY AtInjective DEF Dated
      <3> QED
        BY <1>7, <3>1 DEF IsInjective
    <2> QED
      BY <2>1, <2>2 DEF IsInjective, Range
  <1> HIDE DEF more, stay, J
  <1>13. /\ stay \o more \in Seq(P) /\ Range(stay \o more) = Range(stay) \cup Range(more)
         /\ IsInjective(stay \o more)
    <2>1. stay \in Seq(P)
      BY <1>4, <1>9, SeqMonotonic
    <2>2. Range(stay) \cap Range(more) = {}
      BY <1>6, <1>9, <1>10, <1>12
    <2> QED
      BY <1>9, <1>12, <2>1, <2>2, ConcatFacts
  <1>14. ASSUME NEW x \in A PROVE Grows(d, x, P, U)
    <2> DEFINE kids == stay \o more
    <2>1. WithKids(d[g], kids) = Node(d[g].name, d[g].text, kids)
      BY <1>6, NodeFacts
    <2> HIDE DEF kids
    <2>2. x[1] = g /\ x[2] = Node(d[g].name, d[g].text, kids)
      BY <2>1 DEF kids
    <2>3. x[2].kids = kids /\ x[2].name = "DatedOperatingLeg" /\ x[2] = Node(x[2].name, x[2].text, x[2].kids)
      BY <1>5, <2>2, NodeFacts
    <2>4. \A k \in Range(stay) : k \in P /\ k # Root /\ Home(d, k) = g
      BY <1>4, <1>5, <1>6, <1>9, HomeOld DEF Setting
    <2>5. \A k \in Range(more) : k \in P /\ k # Root /\ Home(d, k) = g
      BY <1>4, <1>10, <1>11, <1>12
    <2>6. \A k \in Range(kids) : k # Root /\ U[k] = g
      BY <1>13, <2>4, <2>5 DEF Setting, kids
    <2>7. Fits(x, P, U)
      BY <1>6, <1>13, <2>2, <2>3, <2>6 DEF Fits, kids
    <2> QED
      BY <1>5, <2>2, <2>3, <2>7 DEF Grows, Built
  <1>15. ASSUME NEW x \in B PROVE Grows(d, x, P, U)
    <2>1. PICK y \in DOMAIN new : x = <<Dated(g, new[y]), leaf(new[y], text(new[y]))>>
      OBVIOUS
    <2>2. x = <<At(DS, g, new[y], 0), leaf(new[y], text(new[y]))>> /\ IsLeaf(leaf(new[y], text(new[y])))
      BY <2>1, LeafFacts DEF Dated, DS
    <2> QED
      BY <2>2, LeafGrows
  <1>16. ASSUME NEW x \in C PROVE Grows(d, x, P, U)
    <2>1. PICK y \in ends : x = <<child(d, g, Ends[y]), [d[child(d, g, Ends[y])] EXCEPT !.text = childText(d, ps, d[child(d, g, Ends[y])].name)]>>
      OBVIOUS
    <2> DEFINE n == child(d, g, Ends[y])
               said == childText(d, ps, d[n].name)
    <2>2. n # None /\ Ends[y] \in {"Dep", "Arrival"}
      BY <1>2
    <2>3. n \in DOMAIN d /\ d[n].name \in {"Dep", "Arrival"}
      BY <1>5, <2>2, ChildFacts DEF Setting, Good
    <2> HIDE DEF n, said
    <2>4. n \notin Segs(d) /\ d[n] = Node(d[n].name, d[n].text, d[n].kids)
      BY <2>3, SegsFacts, KidFacts DEF Setting
    <2>5. x = <<n, [d[n] EXCEPT !.text = said]>>
      BY <2>1 DEF n, said
    <2>6. x = <<n, Node(d[n].name, said, d[n].kids)>>
      BY <2>4, <2>5 DEF Node
    <2>7. Fits(x, P, U)
      BY <2>3, <2>4, <2>6, SameKids
    <2>8. x[1] = n /\ x[2].name = d[n].name /\ x[2].kids = d[n].kids
      BY <2>6, NodeFacts
    <2> QED
      BY <2>3, <2>7, <2>8 DEF Grows
  <1>17. IsFiniteSet(A)
    BY FS_Singleton
  <1>18. IsFiniteSet(B)
    <2> DEFINE f == [x \in DOMAIN new |-> <<Dated(g, new[x]), leaf(new[x], text(new[x]))>>]
    <2>1. B = {f[x] : x \in DOMAIN new}
      OBVIOUS
    <2>2. IsFiniteSet(DOMAIN new)
      BY <1>8, FS_Interval
    <2> HIDE DEF f, B
    <2> QED
      BY <2>1, <2>2, FiniteImage
  <1>19. IsFiniteSet(C)
    <2> DEFINE f == [x \in ends |-> child(d, g, Ends[x])]
               h == [n \in {f[x] : x \in ends} |-> <<n, [d[n] EXCEPT !.text = childText(d, ps, d[n].name)]>>]
               T == {f[x] : x \in ends}
    <2>1. {child(d, g, Ends[x]) : x \in ends} = T
      OBVIOUS
    <2>2. C = {h[n] : n \in T}
      BY <2>1
    <2>3. IsFiniteSet(ends)
      <3>1. IsFiniteSet({1, 2})
        BY FiniteTwo
      <3>2. ends \in SUBSET {1, 2}
        BY <1>2
      <3> HIDE DEF ends
      <3> QED
        BY <3>1, <3>2, FS_Subset
    <2> HIDE DEF f, h, C, ends
    <2>4. IsFiniteSet(T)
      BY <2>3, FiniteImage
    <2> HIDE DEF T
    <2> QED
      BY <2>2, <2>4, FiniteImage
  <1> HIDE DEF A, B, C
  <1>20. IsFiniteSet((A \cup B) \cup C)
    <2>1. IsFiniteSet(A \cup B)
      BY <1>17, <1>18, FS_Union
    <2> QED
      BY <1>19, <2>1, FS_Union
  <1> QED
    BY <1>1, <1>14, <1>15, <1>16, <1>20

\* The legs that are listed are those of the segments, each once.
LEMMA LegListsFacts ==
    ASSUME NEW d, Good(d), NEW dl \in Lists(d)
    PROVE  LET legs == LegLists(d, dl)[Len(segmentsOf(d, dl))]
           IN  /\ legs \in Seq(DOMAIN d) /\ IsInjective(legs)
               /\ \A g \in Range(legs) : \E ps \in Range(segmentsOf(d, dl)) : g \in Range(legsOf(d, ps))
  <1> DEFINE segs == segmentsOf(d, dl)
             N == Len(segs)
             S == Seq(DOMAIN d)
             more(p) == Pick(legsOf(d, segs[p]), FirstLegs(d, dl, p))
             F == [x \in (1..N) \X S |-> x[2] \o more(x[1])]
             L == LegLists(d, dl)
             upTo(p) == UNION {Range(legsOf(d, segs[q])) : q \in 1..p}
             X == {p \in Nat : p <= N => L[p] \in S /\ IsInjective(L[p]) /\ Range(L[p]) \subseteq upTo(p)}
  <1>1. segs \in S /\ IsInjective(segs) /\ N \in Nat /\ DOMAIN segs = 1..N
    BY SegFacts
  <1>2. ASSUME NEW p \in 1..N PROVE segs[p] \in DOMAIN d /\ segs[p] \in Range(segs)
    BY <1>1 DEF Range
  <1>3. ASSUME NEW p \in 1..N PROVE more(p) \in S /\ IsInjective(more(p)) /\ Range(more(p)) \subseteq Range(legsOf(d, segs[p]))
    <2>1. legsOf(d, segs[p]) \in S /\ IsInjective(legsOf(d, segs[p]))
      BY <1>2, LegFacts
    <2>2. FirstLegs(d, dl, p) \in SUBSET DOMAIN legsOf(d, segs[p])
      BY DEF FirstLegs
    <2> HIDE DEF segs
    <2>3. /\ more(p) \in S /\ IsInjective(more(p))
          /\ Range(more(p)) = {legsOf(d, segs[p])[i] : i \in FirstLegs(d, dl, p)}
      BY <2>1, <2>2, PickFacts
    <2> QED
      BY <2>2, <2>3 DEF Range
  <1> HIDE DEF more, N, segs
  <1>4. \A p \in 1..N, s \in S : F[<<p, s>>] = s \o more(p)
    OBVIOUS
  <1>5. \A p \in 1..N, s \in S : s \o more(p) \in S
    BY <1>3, ConcatFacts
  <1>6. Stepwise(S, N, F)
    BY <1>4, <1>5 DEF Stepwise
  <1>7. <<>> \in S
    BY EmptyFacts
  <1> HIDE DEF S, F
  <1>8. PICK f : Follows(f, S, <<>>, N, F)
    BY <1>1, <1>6, <1>7, ByRecursion
  <1>9. \A p \in 1..N : f[p - 1] \in S
    BY <1>1, <1>8 DEF Follows
  <1>10. \A p \in 1..N : f[p] = f[p - 1] \o more(p)
    BY <1>4, <1>8, <1>9 DEF Follows
  <1>11. f = [p \in 0..N |-> IF p = 0 THEN <<>> ELSE f[p - 1] \o more(p)]
    BY <1>1, <1>8, <1>10 DEF Follows
  <1>12. L = [p \in 0..N |-> IF p = 0 THEN <<>> ELSE L[p - 1] \o more(p)]
    BY <1>11 DEF LegLists, N, segs, more
  <1> HIDE DEF L
  <1>13. L[0] = <<>>
    BY <1>1, <1>12
  <1>14. ASSUME NEW p \in 1..N PROVE L[p] = L[p - 1] \o more(p)
    <2>1. p \in 0..N /\ p # 0
      BY <1>1
    <2> QED
      BY <1>12, <2>1
  <1>15. 0 \in X
    <2>1. IsInjective(L[0]) /\ Range(L[0]) = {}
      BY <1>13, EmptyFacts
    <2> QED
      BY <1>7, <1>13, <2>1
  <1>16. ASSUME NEW p \in Nat, p \in X PROVE p + 1 \in X
    <2> SUFFICES ASSUME p + 1 <= N
                 PROVE  L[p + 1] \in S /\ IsInjective(L[p + 1]) /\ Range(L[p + 1]) \subseteq upTo(p + 1)
      OBVIOUS
    <2>1. p + 1 \in 1..N /\ (p + 1) - 1 = p /\ p <= N
      BY <1>1
    <2>2. L[p] \in S /\ IsInjective(L[p]) /\ Range(L[p]) \subseteq upTo(p)
      BY <1>16, <2>1
    <2>3. L[p + 1] = L[p] \o more(p + 1)
      BY <1>14, <2>1
    <2>4. /\ more(p + 1) \in S /\ IsInjective(more(p + 1))
          /\ Range(more(p + 1)) \subseteq Range(legsOf(d, segs[p + 1]))
      BY <1>3, <2>1
    <2>5. upTo(p) \subseteq upTo(p + 1) /\ Range(legsOf(d, segs[p + 1])) \subseteq upTo(p + 1)
      <3>1. \A q \in 1..p : q \in 1..(p + 1)
        OBVIOUS
      <3>2. p + 1 \in 1..(p + 1)
        OBVIOUS
      <3> QED
        BY <3>1, <3>2
    <2>6. Range(L[p]) \cap Range(more(p + 1)) = {}
      <3> SUFFICES ASSUME NEW g, g \in Range(L[p]), g \in Range(more(p + 1)) PROVE FALSE
        OBVIOUS
      <3>1. PICK q \in 1..p : g \in Range(legsOf(d, segs[q]))
        BY <2>2
      <3>2. q \in 1..N /\ q # p + 1
        BY <1>1, <2>1
      <3>3. Parent(d, g) = segs[q] /\ Parent(d, g) = segs[p + 1]
        BY <1>2, <2>1, <2>4, <3>1, <3>2, LegFacts
      <3> QED
        BY <1>1, <2>1, <3>2, <3>3 DEF IsInjective
    <2> HIDE DEF upTo
    <2>7. /\ L[p] \o more(p + 1) \in S /\ Range(L[p] \o more(p + 1)) = Range(L[p]) \cup Range(more(p + 1))
          /\ IsInjective(L[p] \o more(p + 1))
      BY <2>2, <2>4, <2>6, ConcatFacts DEF S
    <2> QED
      BY <2>2, <2>3, <2>4, <2>5, <2>7
  <1>17. N \in X
    <2> HIDE DEF X
    <2> QED
      BY <1>1, <1>15, <1>16, ByInduction
  <1>18. L[N] \in S /\ IsInjective(L[N]) /\ Range(L[N]) \subseteq upTo(N)
    BY <1>1, <1>17
  <1>19. \A g \in Range(L[N]) : \E ps \in Range(segs) : g \in Range(legsOf(d, ps))
    BY <1>2, <1>18
  <1> QED
    BY <1>18, <1>19 DEF L, N, S, segs

LEMMA PartsFacts ==
    ASSUME NEW d, NEW P, NEW U, Setting(d, P, U), NEW ps \in Segs(d), NEW flown, IsFiniteSet(flown),
           Keys(Parts(d, ps, flown)) \subseteq P
    PROVE  /\ IsFiniteSet(Parts(d, ps, flown))
           /\ {ps, Dated(ps, "DMS"), Dated(ps, "DOS")} \subseteq Keys(Parts(d, ps, flown))
           /\ \A x \in Parts(d, ps, flown) : Grows(d, x, P, U)
  <1> DEFINE K == Keeps(d, ps)
             M == Marketing(d, ps)
             O == Operating(d, ps, flown)
             D == DOMAIN legsOf(d, ps)
             G == UNION {Leg(d, ps, i) : i \in D}
  <1>1. Parts(d, ps, flown) = ((K \cup M) \cup O) \cup G
    BY DEF Parts
  <1>2. \A m, n : m \subseteq n => Keys(m) \subseteq Keys(n)
    BY DEF Keys
  <1>3. \A i \in D : Leg(d, ps, i) \subseteq G
    OBVIOUS
  <1>4. ps \in DOMAIN d
    BY SegsFacts DEF Setting
  <1>5. IsFiniteSet(D)
    <2>1. legsOf(d, ps) \in Seq(DOMAIN d)
      BY <1>4, LegFacts DEF Setting
    <2>2. D = 1..Len(legsOf(d, ps)) /\ Len(legsOf(d, ps)) \in Nat
      BY <2>1
    <2> QED
      BY <2>2, FS_Interval
  <1> HIDE DEF G
  <1>6. K \subseteq Parts(d, ps, flown) /\ M \subseteq Parts(d, ps, flown) /\ O \subseteq Parts(d, ps, flown)
        /\ G \subseteq Parts(d, ps, flown)
    BY <1>1
  <1> HIDE DEF D
  <1>7. Keys(K) \subseteq P /\ Keys(M) \subseteq P /\ Keys(O) \subseteq P /\ \A i \in D : Keys(Leg(d, ps, i)) \subseteq P
    <2>1. Keys(K) \subseteq P /\ Keys(M) \subseteq P /\ Keys(O) \subseteq P
      BY <1>2, <1>6
    <2>2. Keys(G) \subseteq P
      BY <1>2, <1>6
    <2>3. \A i \in D : Keys(Leg(d, ps, i)) \subseteq P
      BY <1>2, <1>3, <2>2
    <2> QED
      BY <2>1, <2>3
  <1>8. IsFiniteSet(K) /\ ps \in Keys(K) /\ \A x \in K : Grows(d, x, P, U)
    BY <1>7, KeepsFacts
  <1>9. IsFiniteSet(M) /\ Dated(ps, "DMS") \in Keys(M) /\ \A x \in M : Grows(d, x, P, U)
    BY <1>7, MarketingFacts
  <1>10. IsFiniteSet(O) /\ Dated(ps, "DOS") \in Keys(O) /\ \A x \in O : Grows(d, x, P, U)
    BY <1>7, OperatingFacts
  <1>11. \A i \in D : IsFiniteSet(Leg(d, ps, i)) /\ \A x \in Leg(d, ps, i) : Grows(d, x, P, U)
    BY <1>7, LegGrows DEF D
  <1>12. IsFiniteSet(G)
    <2> DEFINE f == [i \in D |-> Leg(d, ps, i)]
               T == {f[i] : i \in D}
    <2>1. G = UNION T
      BY DEF G
    <2>2. \A t \in T : IsFiniteSet(t)
      BY <1>11
    <2> HIDE DEF f
    <2>3. IsFiniteSet(T)
      BY <1>5, FiniteImage
    <2> HIDE DEF T
    <2> QED
      BY <2>1, <2>2, <2>3, FS_UNION
  <1>13. \A x \in G : Grows(d, x, P, U)
    BY <1>11 DEF G
  <1>14. {ps, Dated(ps, "DMS"), Dated(ps, "DOS")} \subseteq Keys(Parts(d, ps, flown))
    BY <1>2, <1>6, <1>8, <1>9, <1>10
  <1> HIDE DEF K, M, O
  <1>15. IsFiniteSet(((K \cup M) \cup O) \cup G)
    <2>1. IsFiniteSet(K \cup M)
      BY <1>8, <1>9, FS_Union
    <2>2. IsFiniteSet((K \cup M) \cup O)
      BY <1>10, <2>1, FS_Union
    <2> QED
      BY <1>12, <2>2, FS_Union
  <1> QED
    BY <1>1, <1>8, <1>9, <1>10, <1>13, <1>14, <1>15


ListNames == {"DatedMarketingSegmentList", "DatedOperatingSegmentList", "DatedOperatingLegList"}
Gathers(d, dl, list, P) ==
    /\ list = <<list[1], list[2]>> /\ list[1] \in ListNames
    /\ list[2] \in Seq(P) /\ IsInjective(list[2])
    /\ \A k \in Range(list[2]) : k # Root /\ Home(d, k) = Dated(dl, list[1])

\* The lists that gather what the segments gave up may be put beside the list of segments.
LEMMA ListedFacts ==
    ASSUME NEW d, NEW P, NEW U, Setting(d, P, U), NEW dl \in Lists(d), NEW S, NEW lists \in Seq(S),
           \A x, y \in DOMAIN lists : lists[x][1] = lists[y][1] => x = y,
           \A x \in DOMAIN lists : Gathers(d, dl, lists[x], P),
           Keys(Listed(d, dl, lists)) \subseteq P
    PROVE  IsFiniteSet(Listed(d, dl, lists)) /\ \A x \in Listed(d, dl, lists) : Grows(d, x, P, U)
  <1> DEFINE I == {x \in DOMAIN lists : lists[x][2] # <<>>}
             some == Pick(lists, I)
             more == [x \in DOMAIN some |-> Dated(dl, some[x][1])]
             A == {<<dl, WithKids(d[dl], d[dl].kids \o more)>>}
             B == {<<Dated(dl, some[x][1]), Node(some[x][1], NoText, some[x][2])>> : x \in DOMAIN some}
  <1>1. Listed(d, dl, lists) = A \cup B
    BY DEF Listed
  <1>2. I \in SUBSET DOMAIN lists
    OBVIOUS
  <1> HIDE DEF I
  <1>3. some \in Seq(S) /\ \A x \in DOMAIN some : \E y \in DOMAIN lists : some[x] = lists[y]
    <2>1. /\ some \in Seq(S) /\ Len(some) = Cardinality(I)
          /\ \A j \in 1..Cardinality(I) : Nth(I, j) \in I /\ some[j] = lists[Nth(I, j)]
      BY <1>2, PickFacts
    <2> HIDE DEF some
    <2>2. DOMAIN some = 1..Cardinality(I)
      BY <2>1
    <2> QED
      BY <1>2, <2>1, <2>2
  <1>4. IsInjective(some)
    <2>1. IsInjective(lists)
      BY DEF IsInjective
    <2> QED
      BY <1>2, <2>1, PickFacts
  <1> HIDE DEF some
  <1>5. \A x \in DOMAIN some : Gathers(d, dl, some[x], P)
    BY <1>3
  <1>6. \A x, y \in DOMAIN some : some[x][1] = some[y][1] => x = y
    <2> SUFFICES ASSUME NEW x \in DOMAIN some, NEW y \in DOMAIN some, some[x][1] = some[y][1] PROVE x = y
      OBVIOUS
    <2>1. some[x] = some[y]
      BY <1>3
    <2> QED
      BY <1>4, <2>1 DEF IsInjective
  <1>7. DOMAIN some = 1..Len(some) /\ Len(some) \in Nat
    BY <1>3
  <1>8. /\ dl \in DOMAIN d \ Segs(d) /\ DOMAIN d \subseteq P /\ Root \in DOMAIN d /\ d[dl].name = "DataLists"
    <2>1. dl \in DOMAIN d /\ d[dl].name = "DataLists"
      BY SegFacts DEF Setting
    <2>2. dl \notin Segs(d)
      BY <2>1, SegsFacts DEF Setting
    <2> QED
      BY <2>1, <2>2 DEF Setting, Good, Heap
  <1>9. /\ d[dl] = Node(d[dl].name, d[dl].text, d[dl].kids) /\ dl # None
        /\ d[dl].kids \in Seq(DOMAIN d) /\ IsInjective(d[dl].kids)
        /\ Root \notin Range(d[dl].kids) /\ Range(d[dl].kids) \subseteq DOMAIN d
    BY <1>8, KidFacts DEF Setting
  <1>10. ASSUME NEW x \in DOMAIN some
         PROVE  /\ some[x][1] \in ListNames /\ Dated(dl, some[x][1]) # None /\ By(Dated(dl, some[x][1])) = DS
                /\ Home(d, Dated(dl, some[x][1])) = dl /\ Dated(dl, some[x][1]) \notin DOMAIN d
    <2>1. some[x][1] \in ListNames
      BY <1>5 DEF Gathers
    <2>2. some[x][1] \notin {"DMS", "DOS"}
      BY <2>1 DEF ListNames
    <2> QED
      BY <2>1, <2>2, DatedFacts DEF Setting
  <1>11. \A x \in DOMAIN some : Dated(dl, some[x][1]) \in P
    <2>1. \A x \in DOMAIN some : <<Dated(dl, some[x][1]), Node(some[x][1], NoText, some[x][2])>> \in B
      OBVIOUS
    <2> HIDE DEF A, B
    <2>2. \A x \in DOMAIN some : Dated(dl, some[x][1]) \in Keys(B)
      BY <2>1, KeysFacts
    <2>3. Keys(B) \subseteq Keys(A \cup B)
      BY DEF Keys
    <2> QED
      BY <1>1, <2>2, <2>3
  <1>12. more \in Seq(P) /\ IsInjective(more) /\ Range(more) = {Dated(dl, some[x][1]) : x \in DOMAIN some}
    <2>1. more \in Seq(P)
      BY <1>7, <1>11
    <2>2. \A x, y \in DOMAIN some : Dated(dl, some[x][1]) = Dated(dl, some[y][1]) => x = y
      <3> SUFFICES ASSUME NEW x \in DOMAIN some, NEW y \in DOMAIN some, Dated(dl, some[x][1]) = Dated(dl, some[y][1])
                   PROVE  x = y
        OBVIOUS
      <3>1. some[x][1] = some[y][1]
        BY AtInjective DEF Dated
      <3> QED
        BY <1>6, <3>1
    <2> QED
      BY <2>1, <2>2 DEF IsInjective, Range
  <1> HIDE DEF more
  <1> DEFINE kids == d[dl].kids \o more
  <1>13. kids \in Seq(P) /\ Range(kids) = Range(d[dl].kids) \cup Range(more) /\ IsInjective(kids)
    <2>1. d[dl].kids \in Seq(P)
      BY <1>8, <1>9, SeqMonotonic
    <2>2. Range(d[dl].kids) \cap Range(more) = {}
      BY <1>9, <1>10, <1>12
    <2> QED
      BY <1>9, <1>12, <2>1, <2>2, ConcatFacts
  <1>14. ASSUME NEW x \in A PROVE Grows(d, x, P, U)
    <2>1. WithKids(d[dl], kids) = Node(d[dl].name, d[dl].text, kids)
      BY <1>9, NodeFacts
    <2>2. \A k \in Range(d[dl].kids) : k \in P /\ k # Root /\ Home(d, k) = dl
      BY <1>8, <1>9, HomeOld DEF Setting
    <2>3. \A k \in Range(more) : k \in P /\ k # Root /\ Home(d, k) = dl
      BY <1>8, <1>10, <1>11, <1>12
    <2> HIDE DEF kids
    <2>4. x[1] = dl /\ x[2] = Node(d[dl].name, d[dl].text, kids)
      BY <2>1 DEF kids
    <2>5. x[2].kids = kids /\ x[2].name = "DataLists" /\ x[2] = Node(x[2].name, x[2].text, x[2].kids)
      BY <1>8, <2>4, NodeFacts
    <2>6. \A k \in Range(kids) : k # Root /\ U[k] = dl
      BY <1>13, <2>2, <2>3 DEF Setting
    <2>7. Fits(x, P, U)
      BY <1>9, <1>13, <2>4, <2>5, <2>6 DEF Fits
    <2> QED
      BY <1>8, <2>4, <2>5, <2>7 DEF Grows, Built
  <1>15. ASSUME NEW x \in B PROVE Grows(d, x, P, U)
    <2>1. PICK y \in DOMAIN some : x = <<Dated(dl, some[y][1]), Node(some[y][1], NoText, some[y][2])>>
      OBVIOUS
    <2> DEFINE name == some[y][1]
               each == some[y][2]
    <2>2. /\ name \in ListNames /\ each \in Seq(P) /\ IsInjective(each)
          /\ \A k \in Range(each) : k # Root /\ Home(d, k) = Dated(dl, name)
      BY <1>5 DEF Gathers
    <2>3. Dated(dl, name) # None /\ By(Dated(dl, name)) = DS
      BY <1>10
    <2>4. x[1] = Dated(dl, name) /\ x[2] = Node(name, NoText, each)
      BY <2>1
    <2> HIDE DEF name, each
    <2>5. x[2].kids = each /\ x[2].name = name /\ x[2] = Node(x[2].name, x[2].text, x[2].kids)
      BY <2>4, NodeFacts
    <2>6. \A k \in Range(each) : k \in P
      BY <2>2 DEF Range
    <2>7. \A k \in Range(each) : k # Root /\ U[k] = Dated(dl, name)
      BY <2>2, <2>6 DEF Setting
    <2>8. Fits(x, P, U)
      BY <2>2, <2>3, <2>4, <2>5, <2>7 DEF Fits
    <2> QED
      BY <2>2, <2>3, <2>4, <2>5, <2>8 DEF Grows, Built, ListNames
  <1>16. IsFiniteSet(A)
    BY FS_Singleton
  <1>17. IsFiniteSet(B)
    <2> DEFINE f == [x \in DOMAIN some |-> <<Dated(dl, some[x][1]), Node(some[x][1], NoText, some[x][2])>>]
    <2>1. B = {f[x] : x \in DOMAIN some}
      OBVIOUS
    <2>2. IsFiniteSet(DOMAIN some)
      BY <1>7, FS_Interval
    <2> HIDE DEF f, B
    <2> QED
      BY <2>1, <2>2, FiniteImage
  <1> HIDE DEF A, B
  <1>18. IsFiniteSet(A \cup B)
    BY <1>16, <1>17, FS_Union
  <1> QED
    BY <1>1, <1>14, <1>15, <1>18



\* All that datedSegments makes of one list of segments may be put in, and no segment of it is left out.
LEMMA SplitFacts ==
    ASSUME NEW d, NEW P, NEW U, Setting(d, P, U), NEW dl \in Lists(d), Keys(Split(d, dl)) \subseteq P
    PROVE  /\ IsFiniteSet(Split(d, dl)) /\ Range(segmentsOf(d, dl)) \subseteq Keys(Split(d, dl))
           /\ \A x \in Split(d, dl) : Grows(d, x, P, U)
  <1> DEFINE segs == segmentsOf(d, dl)
             D == DOMAIN segs
             part(p) == Parts(d, segs[p], Refers(d, dl, p))
             A == Parted(d, dl)
             each(what) == [p \in D |-> Dated(segs[p], what)]
             legs == LegLists(d, dl)[Len(segs)]
             lists == Gathered(d, dl)
             B == Listed(d, dl, lists)
  <1>1. Split(d, dl) = A \cup B
    BY DEF Split
  <1>0. \A x : x \in A <=> \E p \in D : x \in part(p)
    BY DEF Parted
  <1>2. segs \in Seq(DOMAIN d) /\ IsInjective(segs) /\ D = 1..Len(segs) /\ Len(segs) \in Nat
    BY SegFacts DEF Setting
  <1>3. ASSUME NEW p \in D
        PROVE  segs[p] \in Segs(d) /\ segs[p] \in DOMAIN d /\ ListOf(d, segs[p]) = dl
    <2>1. segs[p] \in Range(segs)
      BY DEF Range
    <2> QED
      BY <2>1, SegFacts DEF Setting
  <1>4. \A m, n : m \subseteq n => Keys(m) \subseteq Keys(n)
    BY DEF Keys
  <1>5. A \subseteq Split(d, dl) /\ B \subseteq Split(d, dl)
    <2> HIDE DEF A, B
    <2> QED
      BY <1>1
  <1> HIDE DEF B
  <1>6. \A p \in D : part(p) \subseteq Split(d, dl)
    BY <1>0, <1>5
  <1>7. \A p \in D : Keys(part(p)) \subseteq P /\ Keys(part(p)) \subseteq Keys(Split(d, dl))
    BY <1>4, <1>6
  <1>8. Keys(B) \subseteq P
    BY <1>4, <1>5
  <1>9. ASSUME NEW p \in D
        PROVE  /\ IsFiniteSet(part(p))
               /\ {segs[p], Dated(segs[p], "DMS"), Dated(segs[p], "DOS")} \subseteq Keys(part(p))
               /\ \A x \in part(p) : Grows(d, x, P, U)
    <2>1. IsFiniteSet(Refers(d, dl, p))
      <3>1. legsOf(d, segs[p]) \in Seq(DOMAIN d)
        BY <1>3, LegFacts DEF Setting
      <3>2. Refers(d, dl, p) = 1..Len(legsOf(d, segs[p])) /\ Len(legsOf(d, segs[p])) \in Nat
        BY <3>1 DEF Refers
      <3> QED
        BY <3>2, FS_Interval
    <2>2. Keys(part(p)) \subseteq P /\ segs[p] \in Segs(d)
      BY <1>3, <1>7
    <2> QED
      BY <2>1, <2>2, PartsFacts
  <1> HIDE DEF segs
  <1>10. Range(segs) \subseteq Keys(Split(d, dl))
    BY <1>7, <1>9 DEF Range
  <1>11. IsFiniteSet(A)
    <2> DEFINE f == [p \in D |-> part(p)]
               T == {f[p] : p \in D}
    <2>1. A = UNION T
      BY <1>0
    <2>2. \A t \in T : IsFiniteSet(t)
      BY <1>9
    <2>3. IsFiniteSet(D)
      BY <1>2, FS_Interval
    <2> HIDE DEF f, D, A
    <2>4. IsFiniteSet(T)
      BY <2>3, FiniteImage
    <2> HIDE DEF T
    <2> QED
      BY <2>1, <2>2, <2>4, FS_UNION
  <1>12. \A x \in A : Grows(d, x, P, U)
    BY <1>0, <1>9
  <1> HIDE DEF part, A
  <1>13. DOMAIN d \subseteq P /\ Root \in DOMAIN d
    BY DEF Setting, Good, Heap
  <1>14. ASSUME NEW what, \A p \in D : Dated(segs[p], what) \in P
         PROVE  /\ each(what) \in Seq(P) /\ IsInjective(each(what))
                /\ \A k \in Range(each(what)) : \E p \in D : k = Dated(segs[p], what)

    <2>1. each(what) \in Seq(P)
      BY <1>2, <1>14
    <2>2. \A x, y \in D : Dated(segs[x], what) = Dated(segs[y], what) => x = y
      <3> SUFFICES ASSUME NEW x \in D, NEW y \in D, Dated(segs[x], what) = Dated(segs[y], what) PROVE x = y
        OBVIOUS
      <3>1. segs[x] = segs[y]
        BY AtInjective DEF Dated
      <3> QED
        BY <1>2, <3>1 DEF IsInjective
    <2> QED
      BY <2>1, <2>2 DEF IsInjective, Range
  <1>15. \A p \in D : Dated(segs[p], "DMS") \in P /\ Dated(segs[p], "DOS") \in P
    BY <1>7, <1>9
  <1>16. Gathers(d, dl, <<"DatedMarketingSegmentList", each("DMS")>>, P)
    <2>1. \A p \in D : /\ Home(d, Dated(segs[p], "DMS")) = Dated(dl, "DatedMarketingSegmentList")
                       /\ Dated(segs[p], "DMS") \notin DOMAIN d
      BY <1>3, DatedFacts DEF Setting
    <2> DEFINE e == each("DMS")
    <2>2. e \in Seq(P) /\ IsInjective(e) /\ \A k \in Range(e) : \E p \in D : k = Dated(segs[p], "DMS")
      BY <1>14, <1>15
    <2> HIDE DEF e
    <2>3. \A k \in Range(e) : k # Root /\ Home(d, k) = Dated(dl, "DatedMarketingSegmentList")
      BY <1>13, <2>1, <2>2
    <2>4. Gathers(d, dl, <<"DatedMarketingSegmentList", e>>, P)
      BY <2>2, <2>3 DEF Gathers, ListNames
    <2> QED
      BY <2>4 DEF e
  <1>17. Gathers(d, dl, <<"DatedOperatingSegmentList", each("DOS")>>, P)
    <2>1. \A p \in D : /\ Home(d, Dated(segs[p], "DOS")) = Dated(dl, "DatedOperatingSegmentList")
                       /\ Dated(segs[p], "DOS") \notin DOMAIN d
      BY <1>3, DatedFacts DEF Setting
    <2> DEFINE e == each("DOS")
    <2>2. e \in Seq(P) /\ IsInjective(e) /\ \A k \in Range(e) : \E p \in D : k = Dated(segs[p], "DOS")
      BY <1>14, <1>15
    <2> HIDE DEF e
    <2>3. \A k \in Range(e) : k # Root /\ Home(d, k) = Dated(dl, "DatedOperatingSegmentList")
      BY <1>13, <2>1, <2>2
    <2>4. Gathers(d, dl, <<"DatedOperatingSegmentList", e>>, P)
      BY <2>2, <2>3 DEF Gathers, ListNames
    <2> QED
      BY <2>4 DEF e
  <1>18. Gathers(d, dl, <<"DatedOperatingLegList", legs>>, P)
    <2>1. /\ legs \in Seq(DOMAIN d) /\ IsInjective(legs)
          /\ \A g \in Range(legs) : \E ps \in Range(segs) : g \in Range(legsOf(d, ps))
      BY LegListsFacts DEF Setting, segs
    <2> HIDE DEF legs
    <2>2. legs \in Seq(P)
      BY <1>13, <2>1, SeqMonotonic
    <2>3. ASSUME NEW g \in Range(legs) PROVE g # Root /\ Home(d, g) = Dated(dl, "DatedOperatingLegList")
      <3>1. PICK ps \in Range(segs) : g \in Range(legsOf(d, ps))
        BY <2>1
      <3>2. ps \in Segs(d) /\ ps \in DOMAIN d /\ ListOf(d, ps) = dl
        BY <1>3 DEF Range
      <3>3. d[g].name = "DatedOperatingLeg" /\ g \in Range(d[ps].kids)
        BY <3>1, <3>2, LegFacts DEF Setting
      <3>4. Home(d, g) = Dated(dl, "DatedOperatingLegList")
        BY <3>2, <3>3, HomeMoved DEF Setting
      <3>5. g # Root
        BY <3>2, <3>3, KidFacts DEF Setting
      <3> QED
        BY <3>4, <3>5
    <2> QED
      BY <2>1, <2>2, <2>3 DEF Gathers, ListNames
  <1> DEFINE one == <<"DatedMarketingSegmentList", each("DMS")>>
             two == <<"DatedOperatingSegmentList", each("DOS")>>
             three == <<"DatedOperatingLegList", legs>>
  <1>19. lists = <<one, two, three>>
    BY DEF Gathered, segs
  <1>20. one[1] = "DatedMarketingSegmentList" /\ two[1] = "DatedOperatingSegmentList" /\ three[1] = "DatedOperatingLegList"
    OBVIOUS
  <1> HIDE DEF one, two, three, lists
  <1>21. lists \in Seq({one, two, three}) /\ DOMAIN lists = {1, 2, 3}
    BY <1>19
  <1>22. \A x, y \in DOMAIN lists : lists[x][1] = lists[y][1] => x = y
    BY <1>19, <1>20, <1>21
  <1>23. \A x \in DOMAIN lists : Gathers(d, dl, lists[x], P)
    <2>1. Gathers(d, dl, one, P) /\ Gathers(d, dl, two, P) /\ Gathers(d, dl, three, P)
      BY <1>16, <1>17, <1>18 DEF one, two, three
    <2> QED
      BY <1>19, <1>21, <2>1
  <1>24. IsFiniteSet(B) /\ \A x \in B : Grows(d, x, P, U)
    BY <1>8, <1>21, <1>22, <1>23, ListedFacts DEF B
  <1>25. IsFiniteSet(A \cup B)
    BY <1>11, <1>24, FS_Union
  <1> QED
    BY <1>1, <1>10, <1>12, <1>24, <1>25 DEF segs

\* datedSegments leaves every node in one place.
LEMMA datedSegmentsFacts ==
    ASSUME NEW d, Good(d), Fresh(d, DS) PROVE Kept(d, datedSegments(d), DS)
  <1> DEFINE T == {Split(d, dl) : dl \in Lists(d)}
             new == UNION T
             P == DOMAIN d \cup Keys(new)
             U == [k \in P |-> Home(d, k)]
             t == Put(d, new)
  <1>1. datedSegments(d) = Tree(t)
    BY DEF datedSegments
  <1>2. Setting(d, P, U)
    BY DEF Setting
  <1>3. \A m, n : m \subseteq n => Keys(m) \subseteq Keys(n)
    BY DEF Keys
  <1>4. ASSUME NEW dl \in Lists(d) PROVE Split(d, dl) \subseteq new /\ Keys(Split(d, dl)) \subseteq Keys(new)
    BY <1>3
  <1>5. IsFiniteSet(DOMAIN d) /\ Lists(d) \subseteq DOMAIN d
    BY DEF Good, Heap, Lists, NodesNamed
  <1> HIDE DEF U
  <1>6. ASSUME NEW dl \in Lists(d)
        PROVE  /\ IsFiniteSet(Split(d, dl)) /\ Range(segmentsOf(d, dl)) \subseteq Keys(Split(d, dl))
               /\ \A x \in Split(d, dl) : Grows(d, x, P, U)
    <2>1. Keys(Split(d, dl)) \subseteq P
      BY <1>4
    <2> HIDE DEF P, new
    <2> QED
      BY <1>2, <2>1, SplitFacts
  <1>7. \A x \in new : Grows(d, x, P, U)
    BY <1>6
  <1>8. IsFiniteSet(new)
    <2> DEFINE f == [dl \in Lists(d) |-> Split(d, dl)]
    <2>1. T = {f[dl] : dl \in Lists(d)}
      OBVIOUS
    <2>2. IsFiniteSet(Lists(d))
      BY <1>5, FS_Subset
    <2>3. \A s \in T : IsFiniteSet(s)
      BY <1>6
    <2> HIDE DEF f, T
    <2>4. IsFiniteSet(T)
      BY <2>1, <2>2, FiniteImage
    <2> QED
      BY <2>3, <2>4, FS_UNION
  <1>9. Segs(d) \subseteq Keys(new)
    BY <1>4, <1>6 DEF Segs
  <1> HIDE DEF new, T
  <1>10. IsFiniteSet(Keys(new))
    <2> DEFINE f == [x \in new |-> x[1]]
    <2>1. Keys(new) = {f[x] : x \in new}
      BY DEF Keys
    <2> HIDE DEF f
    <2> QED
      BY <1>8, <2>1, FiniteImage
  <1>11. \A x \in new : Fits(x, P, U)
    BY <1>7 DEF Grows
  <1>12. ASSUME NEW n \in DOMAIN d, \A x \in new : x[1] # n PROVE \A k \in Range(d[n].kids) : U[k] = n
    <2>1. n \notin Keys(new)
      BY <1>12 DEF Keys
    <2>2. n \in DOMAIN d \ Segs(d)
      BY <1>9, <2>1
    <2>3. \A k \in Range(d[n].kids) : k \in P
      BY KidFacts
    <2> QED
      BY <2>2, <2>3, HomeOld DEF U
  <1>13. Good(t)
    <2> HIDE DEF U
    <2> QED
      BY <1>10, <1>11, <1>12, PutGood
  <1>14. DOMAIN t = DOMAIN d \cup Keys(new) /\ \A n \in DOMAIN t : Written(t, d, new, n)
    BY PutFacts
  <1> HIDE DEF t
  <1>15. /\ Good(Tree(t)) /\ Nodes(Tree(t)) = DOMAIN Tree(t) /\ DOMAIN Tree(t) \subseteq DOMAIN t
         /\ \A n \in DOMAIN Tree(t) : Tree(t)[n] = t[n]
    BY <1>13, TreeFacts DEF Good
  <1>16. ASSUME NEW n \in DOMAIN t
         PROVE  /\ n \in DOMAIN d \/ By(n) = DS
                /\ \/ t[n].kids = <<>> \/ t[n].name \in Built
                   \/ n \in DOMAIN d /\ t[n].name = d[n].name /\ d[n].kids # <<>>
    <2>1. CASE \E x \in new : x[1] = n /\ t[n] = x[2]
      <3>1. PICK x \in new : x[1] = n /\ t[n] = x[2]
        BY <2>1
      <3>2. Grows(d, x, P, U)
        BY <1>7
      <3> QED
        BY <3>1, <3>2 DEF Grows
    <2>2. CASE n \in DOMAIN d /\ t[n] = d[n]
      BY <2>2
    <2> QED
      BY <1>14, <2>1, <2>2 DEF Written
  <1>17. Places(d, Tree(t), DS)
    BY <1>15, <1>16 DEF Places
  <1>18. Leaves(d, Tree(t))
    BY <1>15, <1>16 DEF Leaves
  <1> QED
    BY <1>1, <1>15, <1>17, <1>18 DEF Kept

\* Every structural transform keeps the document whole.
LEMMA structuralFacts ==
    ASSUME NEW d, Good(d), Nodes(d) = DOMAIN d,
           NEW name \in {"dated-segments", "unpriced-penalties", "seat-row-number", "definition-owner"},
           Fresh(d, <<name>>)
    PROVE  Kept(d, structural(name, d), <<name>>)
  <1>1. CASE name = "dated-segments"
    <2>1. structural(name, d) = datedSegments(d) /\ <<name>> = DS
      BY <1>1 DEF structural, DS
    <2> QED
      BY <2>1, datedSegmentsFacts
  <1>2. CASE name = "unpriced-penalties"
    <2>1. structural(name, d) = unpricedPenalties(d)
      BY <1>2 DEF structural
    <2> QED
      BY <2>1, unpricedPenaltiesFacts
  <1>3. CASE name = "seat-row-number"
    <2>1. structural(name, d) = seatRowNumber(d)
      BY <1>3 DEF structural
    <2>2. \A n \in DOMAIN d : By(n) # <<"seat-row-number">>
      BY <1>3 DEF Fresh
    <2>3. Kept(d, seatRowNumber(d), <<"seat-row-number">>)
      BY <2>2, seatRowNumberFacts
    <2> QED
      BY <1>3, <2>1, <2>3
  <1>4. CASE name = "definition-owner"
    <2>1. structural(name, d) = definitionOwner(d)
      BY <1>4 DEF structural
    <2>2. \A n \in DOMAIN d : By(n) # <<"definition-owner">>
      BY <1>4 DEF Fresh
    <2>3. Kept(d, definitionOwner(d), <<"definition-owner">>)
      BY <2>2, definitionOwnerFacts
    <2> QED
      BY <1>4, <2>1, <2>3
  <1> QED
    BY <1>1, <1>2, <1>3, <1>4

\* A document in which only names and texts are others
LEMMA SameTree ==
    ASSUME NEW d, Good(d), NEW t, DOMAIN t = DOMAIN d, t = [n \in DOMAIN d |-> Node(t[n].name, t[n].text, t[n].kids)],
           \A n \in DOMAIN d : t[n].kids = d[n].kids
    PROVE  Good(t) /\ Nodes(t) = Nodes(d)
  <1>1. Good(t)
    <2>1. \A n \in DOMAIN d : /\ t[n].kids \in Seq(DOMAIN d) /\ IsInjective(t[n].kids)
                              /\ Range(t[n].kids) \subseteq Range(d[n].kids)
      BY DEF Good, Heap, Single
    <2> QED
      BY <2>1, FewerKids
  <1>2. /\ Nodes(d) \subseteq DOMAIN d /\ Root \in Nodes(d) /\ Closed(d, Nodes(d))
        /\ \A X \in SUBSET DOMAIN d : Root \in X /\ Closed(d, X) => Nodes(d) \subseteq X
    BY NodesFacts DEF Good
  <1>3. /\ Nodes(t) \subseteq DOMAIN t /\ Root \in Nodes(t) /\ Closed(t, Nodes(t))
        /\ \A X \in SUBSET DOMAIN t : Root \in X /\ Closed(t, X) => Nodes(t) \subseteq X
    BY <1>1, NodesFacts DEF Good
  <1>4. Closed(t, Nodes(d)) /\ Closed(d, Nodes(t))
    BY <1>2, <1>3 DEF Closed
  <1> QED
    BY <1>1, <1>2, <1>3, <1>4

LEMMA valuesFacts ==
    ASSUME NEW d, Good(d)
    PROVE  /\ Good(values(d)) /\ Nodes(values(d)) = Nodes(d) /\ DOMAIN values(d) = DOMAIN d
           /\ \A n \in DOMAIN d : values(d)[n].name = d[n].name /\ values(d)[n].kids = d[n].kids
  <1> DEFINE t == values(d)
  <1>1. \A n \in DOMAIN d : d[n] = Node(d[n].name, d[n].text, d[n].kids)
    BY KidFacts
  <1>2. t = [n \in DOMAIN d |-> t[n]] /\ DOMAIN t = DOMAIN d
    BY DEF values
  <1>3. ASSUME NEW n \in DOMAIN d PROVE \E text : t[n] = Node(d[n].name, text, d[n].kids)
    <2>1. CASE d[n].name \in DOMAIN Codes /\ d[n].text \in DOMAIN Codes[d[n].name]
      <3>1. t[n] = [d[n] EXCEPT !.text = Codes[d[n].name][@]]
        BY <2>1 DEF values
      <3> QED
        BY <1>1, <3>1 DEF Node
    <2>2. CASE ~(d[n].name \in DOMAIN Codes /\ d[n].text \in DOMAIN Codes[d[n].name])
      <3>1. t[n] = d[n]
        BY <2>2 DEF values
      <3> QED
        BY <1>1, <3>1
    <2> QED
      BY <2>1, <2>2
  <1> HIDE DEF t
  <1>4. \A n \in DOMAIN d : /\ t[n] = Node(t[n].name, t[n].text, t[n].kids)
                            /\ t[n].name = d[n].name /\ t[n].kids = d[n].kids
    BY <1>3, NodeFacts
  <1>5. t = [n \in DOMAIN d |-> Node(t[n].name, t[n].text, t[n].kids)]
    BY <1>2, <1>4
  <1>6. Good(t) /\ Nodes(t) = Nodes(d)
    BY <1>2, <1>4, <1>5, SameTree
  <1> QED
    BY <1>2, <1>4, <1>6 DEF t

LEMMA renameFacts ==
    ASSUME NEW d, Good(d)
    PROVE  Good(rename(d)) /\ DOMAIN rename(d) = DOMAIN d
  <1> DEFINE t == rename(d)
             Renamed(n) == \E name : t[n] = [d[n] EXCEPT !.name = name]
             names(w) == [i \in DOMAIN w |-> d[w[i]].name]
             keys(w) == {k \in DOMAIN Renames : IsSuffix(k, names(w))}
             ways == {w \in Range(Walk(d)) : keys(w) # {}}
             longest(w) == CHOOSE k \in keys(w) : \A l \in keys(w) : Len(l) <= Len(k)
             renamed == {Last(w) : w \in ways}
             new(n) == Renames[longest(CHOOSE w \in ways : Last(w) = n)]
  <1>1. \A n \in DOMAIN d : d[n] = Node(d[n].name, d[n].text, d[n].kids)
    BY KidFacts
  <1>2. t = [n \in DOMAIN d |-> t[n]] /\ DOMAIN t = DOMAIN d /\ \A n \in DOMAIN d : t[n] = d[n] \/ Renamed(n)
    <2>1. t = [n \in DOMAIN d |-> IF n \in renamed THEN [d[n] EXCEPT !.name = new(n)] ELSE d[n]]
      BY DEF rename
    <2> HIDE DEF t, new, renamed
    <2>2. DOMAIN t = DOMAIN d /\ \A n \in DOMAIN d : t[n] = IF n \in renamed THEN [d[n] EXCEPT !.name = new(n)] ELSE d[n]
      BY <2>1
    <2>3. t = [n \in DOMAIN d |-> t[n]]
      BY <2>1, <2>2
    <2>4. \A n \in DOMAIN d : t[n] = d[n] \/ t[n] = [d[n] EXCEPT !.name = new(n)]
      BY <2>2
    <2> QED
      BY <2>2, <2>3, <2>4
  <1> HIDE DEF new, renamed, longest, ways, keys, names
  <1> HIDE DEF t
  <1>3. ASSUME NEW n \in DOMAIN d PROVE t[n] = Node(t[n].name, t[n].text, t[n].kids) /\ t[n].kids = d[n].kids
    <2>1. CASE t[n] = d[n]
      BY <1>1, <2>1
    <2>2. CASE Renamed(n)
      <3>1. PICK name : t[n] = [d[n] EXCEPT !.name = name]
        BY <2>2
      <3>2. t[n] = Node(name, d[n].text, d[n].kids)
        BY <1>1, <3>1 DEF Node
      <3> QED
        BY <3>2, NodeFacts
    <2> QED
      BY <1>2, <2>1, <2>2
  <1>4. t = [n \in DOMAIN d |-> Node(t[n].name, t[n].text, t[n].kids)]
    BY <1>2, <1>3
  <1>5. Good(t)
    BY <1>2, <1>3, <1>4, SameTree
  <1> QED
    BY <1>2, <1>5 DEF t

LEMMA dropFacts == ASSUME NEW d, Good(d) PROVE Good(drop(d))
  <1> DEFINE gone == {k \in DOMAIN d : \E n \in DOMAIN d, x \in Dropped :
                         k \in Range(d[n].kids) /\ x.parent \in {"", d[n].name} /\ x.child = d[k].name}
  <1>1. drop(d) = removeKids(d, gone)
    BY DEF drop
  <1> HIDE DEF gone
  <1> QED
    BY <1>1, removeKidsFacts

\* Counting what comes before each of N numbered things, by rank and then by number, numbers them anew.
Precedes(r, j, i) == r[j] < r[i] \/ (r[j] = r[i] /\ j <= i)
\* Ranks by a value, ties by position, number the elements without a gap: a stable sort is a permutation.
LEMMA Ranked ==
    ASSUME NEW N \in Nat, NEW r \in [1..N -> Nat]
    PROVE  \A x \in 1..N : \E i \in 1..N : Cardinality({j \in 1..N : Precedes(r, j, i)}) = x
  <1> DEFINE D == 1..N
             B(i) == {j \in D : Precedes(r, j, i)}
             c == [i \in D |-> Cardinality(B(i))]
  <1>1. IsFiniteSet(D) /\ Cardinality(D) = N
    BY FS_Interval
  <1>2. ASSUME NEW i \in D PROVE IsFiniteSet(B(i)) /\ Cardinality(B(i)) \in D
    <2>1. B(i) \in SUBSET D
      OBVIOUS
    <2>2. i \in B(i)
      BY DEF Precedes
    <2> HIDE DEF B, D
    <2>3. IsFiniteSet(B(i)) /\ Cardinality(B(i)) <= N
      BY <1>1, <2>1, FS_Subset
    <2>4. Cardinality(B(i)) \in Nat /\ Cardinality(B(i)) # 0
      BY <2>2, <2>3, FS_CardinalityType, FS_EmptySet
    <2> QED
      BY <2>3, <2>4 DEF D
  <1>3. ASSUME NEW i \in D, NEW j \in D, Precedes(r, i, j), i # j PROVE Cardinality(B(i)) < Cardinality(B(j))
    <2>1. B(i) \subseteq B(j) /\ j \in B(j) /\ j \notin B(i)
      BY <1>3 DEF Precedes
    <2> HIDE DEF B, D
    <2>2. B(i) \in SUBSET B(j) /\ B(i) # B(j)
      BY <2>1
    <2>3. Cardinality(B(i)) <= Cardinality(B(j)) /\ Cardinality(B(i)) # Cardinality(B(j))
      BY <1>2, <2>2, FS_Subset
    <2> QED
      BY <1>2, <2>3 DEF D
  <1>4. \A i, j \in D : Precedes(r, i, j) \/ Precedes(r, j, i)
    BY DEF Precedes
  <1>5. c \in [D -> D]
    BY <1>2
  <1>6. \A i, j \in D : c[i] = c[j] => i = j
    <2> SUFFICES ASSUME NEW i \in D, NEW j \in D, c[i] = c[j], i # j PROVE FALSE
      OBVIOUS
    <2>1. Cardinality(B(i)) < Cardinality(B(j)) \/ Cardinality(B(j)) < Cardinality(B(i))
      BY <1>3, <1>4
    <2>2. Cardinality(B(i)) = Cardinality(B(j)) /\ Cardinality(B(i)) \in D
      BY <1>2
    <2> QED
      BY <2>1, <2>2
  <1> HIDE DEF c, D
  <1>7. c \in Injection(D, D)
    BY <1>5, <1>6 DEF Injection, IsInjective
  <1>8. c \in Surjection(D, D)
    BY <1>1, <1>7, FS_Injection
  <1>9. \A x \in D : \E i \in D : c[i] = x
    BY <1>8 DEF Surjection
  <1> QED
    BY <1>9 DEF c, D

\* Sorting children neither invents one nor lists one twice.
LEMMA SortedFacts ==
    ASSUME NEW d, Good(d), NEW kids \in Seq(DOMAIN d), IsInjective(kids)
    PROVE  /\ Sorted(d, kids) \in Seq(DOMAIN d) /\ IsInjective(Sorted(d, kids))
           /\ Range(Sorted(d, kids)) \subseteq Range(kids)
  <1> DEFINE N == Len(kids)
             r == [i \in 1..N |-> IF d[kids[i]].name \in DOMAIN Rank THEN Rank[d[kids[i]].name] ELSE 0]
             B(i) == {j \in DOMAIN kids : Before(d, kids, j, i)}
             C(x, i) == Cardinality(B(i)) = x
             e(x) == CHOOSE i \in DOMAIN kids : C(x, i)
             s == Sorted(d, kids)
  <1>1. N \in Nat /\ DOMAIN kids = 1..N
    OBVIOUS
  <1>2. r \in [1..N -> Nat]
    BY RankAssumption
  <1>3. \A i, j \in DOMAIN kids : Before(d, kids, j, i) <=> Precedes(r, j, i)
    BY <1>1 DEF Before, Precedes
  <1>4. s = [x \in DOMAIN kids |-> kids[e(x)]]
    BY DEF Sorted
  <1> HIDE DEF r
  <1>5. \A i \in DOMAIN kids : B(i) = {j \in 1..N : Precedes(r, j, i)}
    BY <1>1, <1>3
  <1> HIDE DEF N, B
  <1>6. \A x \in DOMAIN kids : \E i \in DOMAIN kids : C(x, i)
    <2>1. \A x \in 1..N : \E i \in 1..N : Cardinality({j \in 1..N : Precedes(r, j, i)}) = x
      BY <1>1, <1>2, Ranked
    <2> QED
      BY <1>1, <1>5, <2>1
  <1>7. \A x \in DOMAIN kids : e(x) \in DOMAIN kids /\ Cardinality(B(e(x))) = x
    BY <1>6
  <1> HIDE DEF e, s
  <1>8. DOMAIN s = DOMAIN kids /\ \A x \in DOMAIN kids : s[x] = kids[e(x)]
    BY <1>4
  <1>9. \A x, y \in DOMAIN kids : s[x] = s[y] => x = y
    <2> SUFFICES ASSUME NEW x \in DOMAIN kids, NEW y \in DOMAIN kids, s[x] = s[y] PROVE x = y
      OBVIOUS
    <2>1. e(x) = e(y)
      BY <1>7, <1>8 DEF IsInjective
    <2> QED
      BY <1>7, <2>1
  <1>10. s \in Seq(DOMAIN d)
    <2>1. \A x \in DOMAIN kids : kids[e(x)] \in DOMAIN d
      BY <1>7
    <2>2. s \in [1..N -> DOMAIN d]
      BY <1>1, <1>4, <2>1
    <2> QED
      BY <1>1, <2>2
  <1>11. Range(s) \subseteq Range(kids)
    BY <1>7, <1>8 DEF Range
  <1> QED
    BY <1>8, <1>9, <1>10, <1>11 DEF s, IsInjective

LEMMA sortBelowRootFacts == ASSUME NEW d, Good(d) PROVE Good(sortBelowRoot(d))
  <1> DEFINE t == sortBelowRoot(d)
  <1>1. t = [n \in DOMAIN d |-> t[n]] /\ DOMAIN t = DOMAIN d
    BY DEF sortBelowRoot
  <1>2. \A n \in DOMAIN d : t[n] = d[n] \/ t[n] = WithKids(d[n], Sorted(d, d[n].kids))
    BY DEF sortBelowRoot
  <1> HIDE DEF t
  <1>3. ASSUME NEW n \in DOMAIN d
        PROVE  /\ t[n] = Node(t[n].name, t[n].text, t[n].kids) /\ t[n].kids \in Seq(DOMAIN d) /\ IsInjective(t[n].kids)
               /\ Range(t[n].kids) \subseteq Range(d[n].kids)
    <2>1. d[n] = Node(d[n].name, d[n].text, d[n].kids) /\ d[n].kids \in Seq(DOMAIN d) /\ IsInjective(d[n].kids)
      BY KidFacts
    <2>2. /\ Sorted(d, d[n].kids) \in Seq(DOMAIN d) /\ IsInjective(Sorted(d, d[n].kids))
          /\ Range(Sorted(d, d[n].kids)) \subseteq Range(d[n].kids)
      BY <2>1, SortedFacts
    <2>3. CASE t[n] = d[n]
      BY <2>1, <2>3
    <2>4. CASE t[n] = WithKids(d[n], Sorted(d, d[n].kids))
      <3>1. t[n] = Node(d[n].name, d[n].text, Sorted(d, d[n].kids))
        BY <2>1, <2>4, NodeFacts
      <3>2. t[n].kids = Sorted(d, d[n].kids) /\ t[n] = Node(t[n].name, t[n].text, t[n].kids)
        BY <3>1, NodeFacts
      <3> QED
        BY <2>2, <3>2
    <2> QED
      BY <1>2, <2>3, <2>4
  <1>4. t = [n \in DOMAIN d |-> Node(t[n].name, t[n].text, t[n].kids)]
    BY <1>1, <1>3
  <1>5. Good(t)
    BY <1>1, <1>3, <1>4, FewerKids
  <1> QED
    BY <1>5 DEF t

\* Rules that wrap.  What they make of a parent and what they put in the wrappers
Wrapper(r, n, i) == At(Tag(r), n, "wrapper", i)
FirstOf(d, r, n) == Nth(Named(d, n, r.child), 1)
Staying(d, r, n) == DOMAIN d[n].kids \ (Named(d, n, r.child) \ {FirstOf(d, r, n)})
Swapped(kids, i, k) == [kids EXCEPT ![i] = k]
Outer(d, r, n) == Pick(Swapped(d[n].kids, FirstOf(d, r, n), Wrapper(r, n, 1)), Staying(d, r, n))
Inner(d, r, n, i) == IF i = Len(r.to) THEN kidsNamed(d, n, r.child) ELSE <<Wrapper(r, n, i + 1)>>
Wraps(d, r) == {Wrapper(r, n, i) : n \in Parents(d, r), i \in DOMAIN r.to}
\* t is what wrap makes of d.
WrappedIs(d, r, t) ==
    /\ DOMAIN t = DOMAIN d \cup Wraps(d, r) /\ t = [n \in DOMAIN t |-> t[n]]
    /\ \A n \in DOMAIN d \ Parents(d, r) : t[n] = d[n]
    /\ \A n \in Parents(d, r) : t[n] = WithKids(d[n], Outer(d, r, n))
    /\ \A n \in Parents(d, r), i \in DOMAIN r.to : t[Wrapper(r, n, i)] = Node(r.to[i], NoText, Inner(d, r, n, i))

ParentPair(d, r, n) == <<n, WithKids(d[n], Outer(d, r, n))>>
WrapperPair(d, r, n, i) == <<Wrapper(r, n, i), Node(r.to[i], NoText, Inner(d, r, n, i))>>
LEMMA WrappedPairs ==
    ASSUME NEW d, NEW r, NEW n
    PROVE  /\ ParentPair(d, r, n) \in Wrapped(d, r, n)
           /\ \A i \in DOMAIN r.to : WrapperPair(d, r, n, i) \in Wrapped(d, r, n)
           /\ \A x \in Wrapped(d, r, n) :
                 x = ParentPair(d, r, n) \/ \E i \in DOMAIN r.to : x = WrapperPair(d, r, n, i)
  <1> DEFINE at(i) == At(Tag(r), n, "wrapper", i)
             kids == d[n].kids
             in == Inside(d, r, n)
             first == Nth(in, 1)
             A == <<n, WithKids(d[n], Pick([kids EXCEPT ![first] = at(1)], DOMAIN kids \ (in \ {first})))>>
             B(i) == <<at(i), Node(r.to[i], NoText, IF i = Len(r.to) THEN Pick(kids, in) ELSE <<at(i + 1)>>)>>
  <1>1. Wrapped(d, r, n) = {A} \cup {B(i) : i \in DOMAIN r.to}
    BY DEF Wrapped
  <1>2. A = ParentPair(d, r, n)
    BY DEF ParentPair, Outer, Swapped, FirstOf, Wrapper, Staying, Inside
  <1>3. \A i : B(i) = WrapperPair(d, r, n, i)
    BY DEF WrapperPair, Inner, Wrapper, Inside, kidsNamed
  <1> HIDE DEF A, B
  <1> QED
    BY <1>1, <1>2, <1>3

LEMMA ParentsFacts ==
    ASSUME NEW d, Good(d), NEW r, NEW n \in Parents(d, r)
    PROVE  /\ n \in DOMAIN d /\ d[n].name = r.parent
           /\ Named(d, n, r.child) # {} /\ Named(d, n, r.child) \in SUBSET DOMAIN d[n].kids
           /\ FirstOf(d, r, n) \in Named(d, n, r.child)
  <1>1. n \in DOMAIN d /\ d[n].name = r.parent /\ Named(d, n, r.child) # {}
    BY DEF Parents, NodesNamed
  <1>2. Named(d, n, r.child) \in SUBSET DOMAIN d[n].kids /\ d[n].kids \in Seq(DOMAIN d)
    BY <1>1, NamedFacts, KidFacts DEF Good
  <1> DEFINE I == Named(d, n, r.child)
  <1> HIDE DEF I
  <1>3. DOMAIN d[n].kids = 1..Len(d[n].kids) /\ Len(d[n].kids) \in Nat
    BY <1>2
  <1>4. IsFiniteSet(I) /\ I \in SUBSET Nat
    <2>1. IsFiniteSet(DOMAIN d[n].kids)
      BY <1>3, FS_Interval
    <2>2. I \in SUBSET DOMAIN d[n].kids
      BY <1>2 DEF I
    <2>3. IsFiniteSet(I)
      BY <2>1, <2>2, FS_Subset
    <2> QED
      BY <1>3, <2>2, <2>3
  <1>5. Cardinality(I) \in Nat /\ Cardinality(I) # 0
    BY <1>1, <1>4, FS_CardinalityType, FS_EmptySet DEF I
  <1>6. 1 \in 1..Cardinality(I)
    BY <1>5
  <1>7. Nth(I, 1) \in I
    BY <1>4, <1>6, NthFacts
  <1> QED
    BY <1>1, <1>2, <1>7 DEF I, FirstOf

\* What wrap makes, said without recursion: the children of the rule's name of each parent go together under new nodes.
LEMMA WrapIs ==
    ASSUME NEW d, Good(d), NEW r, Fresh(d, Tag(r)) PROVE WrappedIs(d, r, wrap(d, r))
  <1> DEFINE R == Parents(d, r)
             new == UNION {Wrapped(d, r, n) : n \in R}
             A(n) == ParentPair(d, r, n)
             B(n, i) == WrapperPair(d, r, n, i)
             t == Put(d, new)
  <1>1. wrap(d, r) = t
    BY DEF wrap
  <1>2. \A n \in R : n \in DOMAIN d
    BY ParentsFacts
  <1>3. \A n, i : Wrapper(r, n, i) \notin DOMAIN d
    BY AtFacts DEF Fresh, Wrapper
  <1>4. \A m, n, i, j : Wrapper(r, m, i) = Wrapper(r, n, j) => m = n /\ i = j
    BY AtInjective DEF Wrapper
  <1>5. \A n \in R : A(n) \in new /\ \A i \in DOMAIN r.to : B(n, i) \in new
    BY WrappedPairs
  <1>6. \A x \in new : \E n \in R : x = A(n) \/ \E i \in DOMAIN r.to : x = B(n, i)
    <2> SUFFICES ASSUME NEW x \in new PROVE \E n \in R : x = A(n) \/ \E i \in DOMAIN r.to : x = B(n, i)
      OBVIOUS
    <2>1. PICK n \in R : x \in Wrapped(d, r, n)
      OBVIOUS
    <2>2. x = A(n) \/ \E i \in DOMAIN r.to : x = B(n, i)
      BY <2>1, WrappedPairs
    <2> QED
      BY <2>2
  <1>7. /\ DOMAIN t = DOMAIN d \cup Keys(new) /\ t = [n \in DOMAIN t |-> t[n]]
        /\ \A n \in DOMAIN t : Written(t, d, new, n)
        /\ \A x \in new : (\A y \in new : y[1] = x[1] => y = x) => t[x[1]] = x[2]
    <2> HIDE DEF new
    <2> QED
      BY PutFacts
  <1> HIDE DEF t, new
  <1>8. \A n : A(n)[1] = n /\ A(n)[2] = WithKids(d[n], Outer(d, r, n))
    BY DEF ParentPair
  <1>9. \A n, i : B(n, i)[1] = Wrapper(r, n, i) /\ B(n, i)[2] = Node(r.to[i], NoText, Inner(d, r, n, i))
    BY DEF WrapperPair
  <1> HIDE DEF A, B
  <1>10. Keys(new) = R \cup Wraps(d, r)
    <2>1. \A k \in Keys(new) : k \in R \/ k \in Wraps(d, r)
      BY <1>6, <1>8, <1>9 DEF Keys, Wraps
    <2>2. \A k \in R : k \in Keys(new)
      BY <1>5, <1>8 DEF Keys
    <2>3. \A k \in Wraps(d, r) : k \in Keys(new)
      BY <1>5, <1>9 DEF Keys, Wraps
    <2> QED
      BY <2>1, <2>2, <2>3
  <1>11. ASSUME NEW n \in R PROVE t[n] = WithKids(d[n], Outer(d, r, n))
    <2>1. \A y \in new : y[1] = n => y = A(n)
      BY <1>2, <1>3, <1>6, <1>8, <1>9
    <2> QED
      BY <1>5, <1>7, <1>8, <2>1
  <1>12. ASSUME NEW n \in R, NEW i \in DOMAIN r.to
         PROVE  t[Wrapper(r, n, i)] = Node(r.to[i], NoText, Inner(d, r, n, i))
    <2>1. \A y \in new : y[1] = Wrapper(r, n, i) => y = B(n, i)
      BY <1>2, <1>3, <1>4, <1>6, <1>8, <1>9
    <2> QED
      BY <1>5, <1>7, <1>9, <2>1
  <1>13. ASSUME NEW n \in DOMAIN d \ R PROVE t[n] = d[n]
    <2>1. \A x \in new : x[1] # n
      BY <1>3, <1>6, <1>8, <1>9
    <2> QED
      BY <1>7, <2>1 DEF Written
  <1>14. DOMAIN t = DOMAIN d \cup Wraps(d, r)
    BY <1>2, <1>7, <1>10
  <1> QED
    BY <1>1, <1>7, <1>11, <1>12, <1>13, <1>14 DEF WrappedIs

\* A document whose nodes each have one home is good.
LEMMA GoodByHome ==
    ASSUME NEW t, t = [n \in DOMAIN t |-> t[n]], IsFiniteSet(DOMAIN t), Root \in DOMAIN t, NEW U,
           \A n \in DOMAIN t : Fits(<<n, t[n]>>, DOMAIN t, U)
    PROVE  Good(t)
  <1>1. ASSUME NEW n \in DOMAIN t
        PROVE  /\ n # None /\ t[n] = Node(t[n].name, t[n].text, t[n].kids)
               /\ t[n].kids \in Seq(DOMAIN t) /\ IsInjective(t[n].kids)
               /\ \A k \in Range(t[n].kids) : k # Root /\ U[k] = n
    <2> DEFINE x == <<n, t[n]>>
    <2>1. x[1] = n /\ x[2] = t[n]
      OBVIOUS
    <2>2. Fits(x, DOMAIN t, U)
      OBVIOUS
    <2> HIDE DEF x
    <2> QED
      BY <2>1, <2>2 DEF Fits
  <1>2. t = [n \in DOMAIN t |-> Node(t[n].name, t[n].text, t[n].kids)]
    BY <1>1
  <1>3. Heap(t)
    BY <1>1, <1>2 DEF Heap
  <1>4. Single(t)
    <2>1. \A n \in DOMAIN t : IsInjective(t[n].kids) /\ Root \notin Range(t[n].kids)
      BY <1>1
    <2>2. ASSUME NEW m \in DOMAIN t, NEW n \in DOMAIN t, Range(t[m].kids) \cap Range(t[n].kids) # {} PROVE m = n
      <3>1. PICK k : k \in Range(t[m].kids) /\ k \in Range(t[n].kids)
        BY <2>2
      <3> QED
        BY <1>1, <3>1
    <2> QED
      BY <2>1, <2>2 DEF Single
  <1> QED
    BY <1>3, <1>4 DEF Good



LEMMA OuterFacts ==
    ASSUME NEW d, Good(d), NEW r, Fresh(d, Tag(r)), NEW n \in Parents(d, r)
    PROVE  /\ Outer(d, r, n) \in Seq(DOMAIN d \cup {Wrapper(r, n, 1)}) /\ IsInjective(Outer(d, r, n))
           /\ \A k \in Range(Outer(d, r, n)) :
                 k = Wrapper(r, n, 1) \/ (k \in Range(d[n].kids) /\ d[k].name # r.child)
  <1> DEFINE kids == d[n].kids
             I == Named(d, n, r.child)
             f == FirstOf(d, r, n)
             w == Wrapper(r, n, 1)
             J == Staying(d, r, n)
             s == Swapped(kids, f, w)
  <1>1. n \in DOMAIN d /\ I \in SUBSET DOMAIN kids /\ f \in I
    BY ParentsFacts
  <1>2. kids \in Seq(DOMAIN d) /\ IsInjective(kids) /\ Range(kids) \subseteq DOMAIN d
    BY <1>1, KidFacts
  <1>3. w \notin DOMAIN d
    BY AtFacts DEF Fresh, Wrapper
  <1>4. /\ s \in Seq(DOMAIN d \cup {w}) /\ DOMAIN s = DOMAIN kids
        /\ s[f] = w /\ \A i \in DOMAIN kids : i # f => s[i] = kids[i]
        /\ IsInjective(s)
    <2>1. f \in DOMAIN kids /\ w \notin Range(kids)
      BY <1>1, <1>2, <1>3
    <2> HIDE DEF kids, f, w, I
    <2>2. kids \in Seq(DOMAIN d)
      BY <1>2
    <2> DEFINE D == DOMAIN d
    <2> HIDE DEF D
    <2>3. kids \in Seq(D) /\ f \in DOMAIN kids
      BY <2>1, <2>2 DEF D
    <2>4. /\ Swapped(kids, f, w) \in Seq(D \cup {w}) /\ DOMAIN Swapped(kids, f, w) = DOMAIN kids
          /\ Swapped(kids, f, w)[f] = w /\ \A i \in DOMAIN kids : i # f => Swapped(kids, f, w)[i] = kids[i]
      BY <2>3 DEF Swapped
    <2>5. IsInjective(kids) /\ w \notin Range(kids) => IsInjective(Swapped(kids, f, w))
      BY <2>3 DEF Swapped, IsInjective, Range
    <2> QED
      BY <1>2, <2>1, <2>4, <2>5 DEF D
  <1>5. J \in SUBSET DOMAIN s /\ \A i \in J : i = f \/ i \in DOMAIN kids \ I
    BY <1>1, <1>4 DEF Staying
  <1>6. \A i \in DOMAIN kids \ I : kids[i] \in Range(kids) /\ d[kids[i]].name # r.child
    BY DEF Named, Range
  <1>7. Outer(d, r, n) = Pick(s, J)
    BY DEF Outer
  <1> HIDE DEF s, J, I, f, w, kids
  <1>8. /\ Pick(s, J) \in Seq(DOMAIN d \cup {w}) /\ IsInjective(Pick(s, J))
        /\ Range(Pick(s, J)) = {s[i] : i \in J}
    BY <1>4, <1>5, PickFacts
  <1>9. \A i \in J : s[i] = w \/ (s[i] \in Range(kids) /\ d[s[i]].name # r.child)
    BY <1>4, <1>5, <1>6
  <1>10. \A k \in Range(Pick(s, J)) : k = w \/ (k \in Range(kids) /\ d[k].name # r.child)
    BY <1>8, <1>9
  <1> QED
    BY <1>7, <1>8, <1>10 DEF w, kids

WrapHome(d, r, k) ==
    IF k \in DOMAIN d
    THEN IF Parent(d, k) \in Parents(d, r) /\ d[k].name = r.child THEN Wrapper(r, Parent(d, k), Len(r.to)) ELSE Parent(d, k)
    ELSE IF k[4] = 1 THEN Beside(k) ELSE Wrapper(r, Beside(k), k[4] - 1)

\* wrap leaves every node in one place.
LEMMA wrapGood ==
    ASSUME NEW d, Good(d), NEW r, Fresh(d, Tag(r)), r.to \in Seq(STRING), r.to # <<>>, NEW t, WrappedIs(d, r, t)
    PROVE  Good(t)
  <1> DEFINE R == Parents(d, r)
             W == Wraps(d, r)
             L == Len(r.to)
             U == [k \in DOMAIN t |-> WrapHome(d, r, k)]
  <1>1. \A n \in R : n \in DOMAIN d
    BY ParentsFacts
  <1>2. DOMAIN r.to = 1..L /\ L \in Nat /\ L # 0
    BY EmptySeq
  <1>3. /\ DOMAIN t = DOMAIN d \cup W /\ t = [n \in DOMAIN t |-> t[n]]
        /\ \A n \in DOMAIN d \ R : t[n] = d[n]
        /\ \A n \in R : t[n] = WithKids(d[n], Outer(d, r, n))
        /\ \A n \in R, i \in 1..L : t[Wrapper(r, n, i)] = Node(r.to[i], NoText, Inner(d, r, n, i))
    BY <1>2 DEF WrappedIs
  <1>4. \A n, i : /\ Wrapper(r, n, i) \notin DOMAIN d /\ Wrapper(r, n, i) # None
                  /\ Beside(Wrapper(r, n, i)) = n /\ Wrapper(r, n, i)[4] = i
    BY AtFacts DEF Fresh, Wrapper
  <1>5. W = {Wrapper(r, n, i) : n \in R, i \in 1..L}
    BY <1>2 DEF Wraps
  <1> HIDE DEF W, R, L
  <1>6. IsFiniteSet(DOMAIN t) /\ Root \in DOMAIN t
    <2>1. IsFiniteSet(DOMAIN d) /\ Root \in DOMAIN d
      BY DEF Good, Heap
    <2>2. IsFiniteSet(R) /\ IsFiniteSet(1..L)
      BY <1>1, <1>2, <2>1, FS_Subset, FS_Interval
    <2>3. IsFiniteSet(R \X (1..L))
      BY <2>2, FS_Product
    <2> DEFINE f == [x \in R \X (1..L) |-> Wrapper(r, x[1], x[2])]
    <2>4. W = {f[x] : x \in R \X (1..L)}
      <3>1. \A n \in R, i \in 1..L : <<n, i>> \in R \X (1..L) /\ f[<<n, i>>] = Wrapper(r, n, i)
        OBVIOUS
      <3>2. \A x \in R \X (1..L) : x[1] \in R /\ x[2] \in 1..L /\ f[x] = Wrapper(r, x[1], x[2])
        OBVIOUS
      <3> HIDE DEF f
      <3>3. ASSUME NEW w \in W PROVE \E x \in R \X (1..L) : w = f[x]
        <4>1. PICK n \in R, i \in 1..L : w = Wrapper(r, n, i)
          BY <1>5
        <4> QED
          BY <3>1, <4>1
      <3>4. \A x \in R \X (1..L) : f[x] \in W
        BY <1>5, <3>2
      <3> QED
        BY <3>3, <3>4
    <2> HIDE DEF f
    <2>5. IsFiniteSet(W)
      BY <2>3, <2>4, FiniteImage
    <2>6. IsFiniteSet(DOMAIN d \cup W)
      BY <2>1, <2>5, FS_Union
    <2> QED
      BY <1>3, <2>1, <2>6
  <1>7. ASSUME NEW n \in DOMAIN d, NEW k \in Range(d[n].kids)
        PROVE  /\ k \in DOMAIN d /\ k # Root /\ k \in DOMAIN t
               /\ U[k] = IF n \in R /\ d[k].name = r.child THEN Wrapper(r, n, L) ELSE n
    <2>1. k \in DOMAIN d /\ k # Root /\ k \in DOMAIN t
      BY <1>3, KidFacts
    <2>2. Parent(d, k) = n
      BY ParentFacts DEF Good
    <2> QED
      BY <2>1, <2>2 DEF WrapHome, R, L
  <1>8. ASSUME NEW n \in R, NEW i \in 1..L
        PROVE  /\ Wrapper(r, n, i) \in DOMAIN t /\ Wrapper(r, n, i) # Root
               /\ U[Wrapper(r, n, i)] = IF i = 1 THEN n ELSE Wrapper(r, n, i - 1)
    <2>1. Wrapper(r, n, i) \in DOMAIN t
      BY <1>3, <1>5
    <2>2. Wrapper(r, n, i) # Root
      BY <1>4 DEF Good, Heap
    <2>3. WrapHome(d, r, Wrapper(r, n, i)) = IF i = 1 THEN n ELSE Wrapper(r, n, i - 1)
      BY <1>4 DEF WrapHome
    <2> QED
      BY <2>1, <2>2, <2>3
  <1> HIDE DEF U
  <1>9. ASSUME NEW n \in DOMAIN d \ R PROVE Fits(<<n, t[n]>>, DOMAIN t, U)
    <2> DEFINE x == <<n, t[n]>>
    <2>1. x[1] = n /\ x[2] = d[n]
      BY <1>3
    <2>2. d[n] = Node(d[n].name, d[n].text, d[n].kids) /\ n # None /\ d[n].kids \in Seq(DOMAIN d) /\ IsInjective(d[n].kids)
      BY KidFacts
    <2>3. d[n].kids \in Seq(DOMAIN t)
      BY <1>3, <2>2, SeqMonotonic
    <2>4. \A k \in Range(d[n].kids) : k # Root /\ U[k] = n
      BY <1>7
    <2> HIDE DEF x
    <2>5. Fits(x, DOMAIN t, U)
      BY <2>1, <2>2, <2>3, <2>4 DEF Fits
    <2> QED
      BY <2>5 DEF x
  <1>10. ASSUME NEW n \in R PROVE Fits(<<n, t[n]>>, DOMAIN t, U)
    <2> DEFINE x == <<n, t[n]>>
               out == Outer(d, r, n)
    <2>1. d[n] = Node(d[n].name, d[n].text, d[n].kids) /\ n # None
      BY <1>1, KidFacts
    <2>2. x[1] = n /\ x[2] = Node(d[n].name, d[n].text, out)
      BY <1>3, <2>1, NodeFacts
    <2>3. /\ out \in Seq(DOMAIN d \cup {Wrapper(r, n, 1)}) /\ IsInjective(out)
          /\ \A k \in Range(out) : k = Wrapper(r, n, 1) \/ (k \in Range(d[n].kids) /\ d[k].name # r.child)
      BY OuterFacts DEF R
    <2>4. 1 \in 1..L
      BY <1>2
    <2> HIDE DEF x, out
    <2>5. out \in Seq(DOMAIN t)
      <3>1. DOMAIN d \cup {Wrapper(r, n, 1)} \subseteq DOMAIN t
        BY <1>3, <1>8, <2>4
      <3> QED
        BY <2>3, <3>1, SeqMonotonic
    <2>6. \A k \in Range(out) : k # Root /\ U[k] = n
      BY <1>1, <1>7, <1>8, <2>3, <2>4
    <2>7. x[2].kids = out /\ x[2] = Node(x[2].name, x[2].text, x[2].kids)
      BY <2>2, NodeFacts
    <2>8. Fits(x, DOMAIN t, U)
      BY <2>1, <2>2, <2>3, <2>5, <2>6, <2>7 DEF Fits
    <2> QED
      BY <2>8 DEF x
  <1>11. ASSUME NEW n \in R, NEW i \in 1..L PROVE Fits(<<Wrapper(r, n, i), t[Wrapper(r, n, i)]>>, DOMAIN t, U)
    <2> DEFINE w == Wrapper(r, n, i)
               x == <<w, t[w]>>
               in == Inner(d, r, n, i)
    <2>1. x[1] = w /\ x[2] = Node(r.to[i], NoText, in) /\ w # None
      BY <1>3, <1>4
    <2> HIDE DEF x
    <2>2. x[2].kids = in /\ x[2] = Node(x[2].name, x[2].text, x[2].kids)
      BY <2>1, NodeFacts
    <2>3. in \in Seq(DOMAIN t) /\ IsInjective(in) /\ \A k \in Range(in) : k # Root /\ U[k] = w
      <3>1. CASE i = L
        <4>1. /\ kidsNamed(d, n, r.child) \in Seq(DOMAIN d) /\ IsInjective(kidsNamed(d, n, r.child))
              /\ Range(kidsNamed(d, n, r.child)) = {k \in Range(d[n].kids) : d[k].name = r.child}
          BY <1>1, NamedFacts DEF Good
        <4>2. in = kidsNamed(d, n, r.child)
          BY <3>1 DEF Inner, L
        <4> HIDE DEF in
        <4>3. in \in Seq(DOMAIN t)
          BY <1>3, <4>1, <4>2, SeqMonotonic
        <4>4. \A k \in Range(in) : k # Root /\ U[k] = w
          BY <1>1, <1>7, <3>1, <4>1, <4>2
        <4> QED
          BY <4>1, <4>2, <4>3, <4>4
      <3>2. CASE i # L
        <4>1. in = <<Wrapper(r, n, i + 1)>>
          BY <3>2 DEF Inner, L
        <4>2. i + 1 \in 1..L /\ (i + 1) - 1 = i /\ i + 1 # 1
          BY <1>2, <3>2
        <4>3. Wrapper(r, n, i + 1) \in DOMAIN t /\ Wrapper(r, n, i + 1) # Root /\ U[Wrapper(r, n, i + 1)] = w
          BY <1>8, <4>2
        <4> HIDE DEF in, w
        <4>4. in \in Seq(DOMAIN t) /\ Range(in) = {Wrapper(r, n, i + 1)} /\ IsInjective(in)
          BY <4>1, <4>3, OneFacts
        <4> QED
          BY <4>3, <4>4
      <3> QED
        BY <3>1, <3>2
    <2> HIDE DEF w, in
    <2>4. Fits(x, DOMAIN t, U)
      BY <2>1, <2>2, <2>3 DEF Fits
    <2> QED
      BY <2>4 DEF x, w
  <1>12. \A n \in DOMAIN t : Fits(<<n, t[n]>>, DOMAIN t, U)
    <2> SUFFICES ASSUME NEW m \in DOMAIN t PROVE Fits(<<m, t[m]>>, DOMAIN t, U)
      OBVIOUS
    <2>1. CASE m \in DOMAIN d
      BY <1>9, <1>10, <2>1
    <2>2. CASE m \in W
      <3>1. PICK n \in R, i \in 1..L : m = Wrapper(r, n, i)
        BY <1>5, <2>2
      <3> QED
        BY <1>11, <3>1
    <2> QED
      BY <1>3, <2>1, <2>2
  <1> QED
    BY <1>3, <1>6, <1>12, GoodByHome

\* The same of wrapEach
Housed(d, r, n) ==
    [i \in DOMAIN d[n].kids |-> IF i \in Named(d, n, r.child) THEN Wrapper(r, d[n].kids[i], 1) ELSE d[n].kids[i]]
Guests(d, r) == UNION {Range(kidsNamed(d, n, r.child)) : n \in Parents(d, r)}
Houses(d, r) == {Wrapper(r, k, 1) : k \in Guests(d, r)}
HousedIs(d, r, t) ==
    /\ DOMAIN t = DOMAIN d \cup Houses(d, r) /\ t = [n \in DOMAIN t |-> t[n]]
    /\ \A n \in DOMAIN d \ Parents(d, r) : t[n] = d[n]
    /\ \A n \in Parents(d, r) : t[n] = WithKids(d[n], Housed(d, r, n))
    /\ \A k \in Guests(d, r) : t[Wrapper(r, k, 1)] = Node(r.to[1], NoText, <<k>>)

HousedPair(d, r, n) == <<n, WithKids(d[n], Housed(d, r, n))>>
HousePair(r, k) == <<Wrapper(r, k, 1), Node(r.to[1], NoText, <<k>>)>>
LEMMA HousedPairs ==
    ASSUME NEW d, NEW r, NEW n
    PROVE  /\ HousedPair(d, r, n) \in WrappedEach(d, r, n)
           /\ \A i \in Named(d, n, r.child) : HousePair(r, d[n].kids[i]) \in WrappedEach(d, r, n)
           /\ \A x \in WrappedEach(d, r, n) :
                 x = HousedPair(d, r, n) \/ \E i \in Named(d, n, r.child) : x = HousePair(r, d[n].kids[i])
  <1> DEFINE at(i) == At(Tag(r), d[n].kids[i], "wrapper", 1)
             in == Named(d, n, r.child)
             A == <<n, WithKids(d[n], [i \in DOMAIN d[n].kids |-> IF i \in in THEN at(i) ELSE d[n].kids[i]])>>
             B(i) == <<at(i), Node(r.to[1], NoText, <<d[n].kids[i]>>)>>
  <1>1. WrappedEach(d, r, n) = {A} \cup {B(i) : i \in in}
    BY DEF WrappedEach
  <1>2. A = HousedPair(d, r, n)
    BY DEF HousedPair, Housed, Wrapper
  <1>3. \A i : B(i) = HousePair(r, d[n].kids[i])
    BY DEF HousePair, Wrapper
  <1> HIDE DEF A, B, in
  <1>4. \A x \in WrappedEach(d, r, n) : x = A \/ \E i \in in : x = B(i)
    BY <1>1
  <1>5. A \in WrappedEach(d, r, n) /\ \A i \in in : B(i) \in WrappedEach(d, r, n)
    BY <1>1
  <1> QED
    BY <1>2, <1>3, <1>4, <1>5 DEF in

LEMMA GuestFacts ==
    ASSUME NEW d, Good(d), NEW r, NEW n \in Parents(d, r)
    PROVE  /\ n \in DOMAIN d /\ d[n].name = r.parent /\ Named(d, n, r.child) \in SUBSET DOMAIN d[n].kids
           /\ \A i \in Named(d, n, r.child) :
                 d[n].kids[i] \in Guests(d, r) /\ d[n].kids[i] \in Range(d[n].kids) /\ d[d[n].kids[i]].name = r.child
  <1>1. n \in DOMAIN d /\ d[n].name = r.parent /\ Named(d, n, r.child) \in SUBSET DOMAIN d[n].kids
    BY ParentsFacts
  <1>2. /\ Range(kidsNamed(d, n, r.child)) = {k \in Range(d[n].kids) : d[k].name = r.child}
    BY <1>1, NamedFacts DEF Good
  <1>3. \A i \in Named(d, n, r.child) : d[n].kids[i] \in Range(d[n].kids) /\ d[d[n].kids[i]].name = r.child
    BY DEF Named, Range
  <1>4. \A i \in Named(d, n, r.child) : d[n].kids[i] \in Guests(d, r)
    BY <1>2, <1>3 DEF Guests
  <1> QED
    BY <1>1, <1>3, <1>4

\* A child that wrapEach puts under a node of its own was a child of a parent the rule names.
LEMMA GuestOf ==
    ASSUME NEW d, Good(d), NEW r, NEW k \in Guests(d, r)
    PROVE  /\ k \in DOMAIN d /\ k # Root /\ d[k].name = r.child
           /\ \E n \in Parents(d, r) : k \in Range(d[n].kids) /\ \E i \in Named(d, n, r.child) : k = d[n].kids[i]
  <1>1. PICK n \in Parents(d, r) : k \in Range(kidsNamed(d, n, r.child))
    BY DEF Guests
  <1>2. n \in DOMAIN d
    BY ParentsFacts
  <1>3. Range(kidsNamed(d, n, r.child)) = {l \in Range(d[n].kids) : d[l].name = r.child}
    BY <1>2, NamedFacts DEF Good
  <1>4. k \in Range(d[n].kids) /\ d[k].name = r.child
    BY <1>1, <1>3
  <1>5. \E i \in Named(d, n, r.child) : k = d[n].kids[i]
    BY <1>4 DEF Named, Range
  <1>6. k \in DOMAIN d /\ k # Root
    BY <1>2, <1>4, KidFacts
  <1> QED
    BY <1>4, <1>5, <1>6

\* What wrapEach makes, said without recursion: each child of the rule's name under a new node of its own.
LEMMA wrapEachIs ==
    ASSUME NEW d, Good(d), NEW r, Fresh(d, Tag(r)) PROVE HousedIs(d, r, wrapEach(d, r))
  <1> DEFINE R == Parents(d, r)
             new == UNION {WrappedEach(d, r, n) : n \in R}
             A(n) == HousedPair(d, r, n)
             B(k) == HousePair(r, k)
             t == Put(d, new)
  <1>1. wrapEach(d, r) = t
    BY DEF wrapEach
  <1>2. \A n \in R : n \in DOMAIN d
    BY ParentsFacts
  <1>3. \A n : Wrapper(r, n, 1) \notin DOMAIN d
    BY AtFacts DEF Fresh, Wrapper
  <1>4. \A m, n : Wrapper(r, m, 1) = Wrapper(r, n, 1) => m = n
    BY AtInjective DEF Wrapper
  <1>5. (\A n \in R : A(n) \in new) /\ \A k \in Guests(d, r) : B(k) \in new
    <2>1. \A n \in R : A(n) \in new
      BY HousedPairs
    <2>2. ASSUME NEW k \in Guests(d, r) PROVE B(k) \in new
      <3>1. PICK n \in R : \E i \in Named(d, n, r.child) : k = d[n].kids[i]
        BY GuestOf
      <3>2. PICK i \in Named(d, n, r.child) : k = d[n].kids[i]
        BY <3>1
      <3>3. B(k) \in WrappedEach(d, r, n)
        BY <3>2, HousedPairs
      <3> QED
        BY <3>3
    <2> QED
      BY <2>1, <2>2
  <1>6. \A x \in new : (\E n \in R : x = A(n)) \/ \E k \in Guests(d, r) : x = B(k)
    <2> SUFFICES ASSUME NEW x \in new PROVE (\E n \in R : x = A(n)) \/ \E k \in Guests(d, r) : x = B(k)
      OBVIOUS
    <2>1. PICK n \in R : x \in WrappedEach(d, r, n)
      OBVIOUS
    <2>2. x = A(n) \/ \E i \in Named(d, n, r.child) : x = B(d[n].kids[i])
      BY <2>1, HousedPairs
    <2> QED
      BY <2>2, GuestFacts
  <1>7. /\ DOMAIN t = DOMAIN d \cup Keys(new) /\ t = [n \in DOMAIN t |-> t[n]]
        /\ \A n \in DOMAIN t : Written(t, d, new, n)
        /\ \A x \in new : (\A y \in new : y[1] = x[1] => y = x) => t[x[1]] = x[2]
    <2> HIDE DEF new
    <2> QED
      BY PutFacts
  <1> HIDE DEF t, new
  <1>8. \A n : A(n)[1] = n /\ A(n)[2] = WithKids(d[n], Housed(d, r, n))
    BY DEF HousedPair
  <1>9. \A k : B(k)[1] = Wrapper(r, k, 1) /\ B(k)[2] = Node(r.to[1], NoText, <<k>>)
    BY DEF HousePair
  <1> HIDE DEF A, B
  <1>10. Keys(new) = R \cup Houses(d, r)
    <2>1. \A k \in Keys(new) : k \in R \/ k \in Houses(d, r)
      BY <1>6, <1>8, <1>9 DEF Keys, Houses
    <2>2. \A k \in R : k \in Keys(new)
      BY <1>5, <1>8 DEF Keys
    <2>3. \A k \in Houses(d, r) : k \in Keys(new)
      BY <1>5, <1>9 DEF Keys, Houses
    <2> QED
      BY <2>1, <2>2, <2>3
  <1>11. ASSUME NEW n \in R PROVE t[n] = WithKids(d[n], Housed(d, r, n))
    <2>1. \A y \in new : y[1] = n => y = A(n)
      BY <1>2, <1>3, <1>6, <1>8, <1>9
    <2> QED
      BY <1>5, <1>7, <1>8, <2>1
  <1>12. ASSUME NEW k \in Guests(d, r) PROVE t[Wrapper(r, k, 1)] = Node(r.to[1], NoText, <<k>>)
    <2>1. \A y \in new : y[1] = Wrapper(r, k, 1) => y = B(k)
      BY <1>2, <1>3, <1>4, <1>6, <1>8, <1>9
    <2> QED
      BY <1>5, <1>7, <1>9, <2>1
  <1>13. ASSUME NEW n \in DOMAIN d \ R PROVE t[n] = d[n]
    <2>1. \A x \in new : x[1] # n
      BY <1>3, <1>6, <1>8, <1>9
    <2> QED
      BY <1>7, <2>1 DEF Written
  <1>14. DOMAIN t = DOMAIN d \cup Houses(d, r)
    BY <1>2, <1>7, <1>10
  <1> QED
    BY <1>1, <1>7, <1>11, <1>12, <1>13, <1>14 DEF HousedIs

HouseHome(d, r, k) ==
    IF k \in DOMAIN d
    THEN IF k \in Guests(d, r) THEN Wrapper(r, k, 1) ELSE Parent(d, k)
    ELSE Parent(d, Beside(k))

\* wrapEach leaves every node in one place.
LEMMA wrapEachGood ==
    ASSUME NEW d, Good(d), NEW r, Fresh(d, Tag(r)), NEW t, HousedIs(d, r, t) PROVE Good(t)
  <1> DEFINE R == Parents(d, r)
             W == Houses(d, r)
             G == Guests(d, r)
             U == [k \in DOMAIN t |-> HouseHome(d, r, k)]
             house(k) == Wrapper(r, k, 1)
  <1>1. \A n \in R : n \in DOMAIN d
    BY ParentsFacts
  <1>2. ASSUME NEW k \in G PROVE k \in DOMAIN d /\ k # Root /\ d[k].name = r.child /\ \E n \in R : k \in Range(d[n].kids)
    BY GuestOf
  <1>3. /\ DOMAIN t = DOMAIN d \cup W /\ t = [n \in DOMAIN t |-> t[n]]
        /\ \A n \in DOMAIN d \ R : t[n] = d[n]
        /\ \A n \in R : t[n] = WithKids(d[n], Housed(d, r, n))
        /\ \A k \in G : t[house(k)] = Node(r.to[1], NoText, <<k>>)
    BY DEF HousedIs
  <1>4. \A n : house(n) \notin DOMAIN d /\ house(n) # None /\ Beside(house(n)) = n
    BY AtFacts DEF Fresh, Wrapper
  <1>5. W = {house(k) : k \in G} /\ \A k, l : house(k) = house(l) => k = l
    BY AtInjective DEF Houses, Wrapper
  <1>6. \A n \in R : \A i \in Named(d, n, r.child) : d[n].kids[i] \in G
    BY GuestFacts
  <1> HIDE DEF W, R, G
  <1>7. IsFiniteSet(DOMAIN t) /\ Root \in DOMAIN t
    <2>1. IsFiniteSet(DOMAIN d) /\ Root \in DOMAIN d
      BY DEF Good, Heap
    <2>2. IsFiniteSet(G)
      BY <1>2, <2>1, FS_Subset
    <2> DEFINE f == [k \in G |-> house(k)]
    <2>3. W = {f[k] : k \in G}
      BY <1>5
    <2> HIDE DEF f
    <2>4. IsFiniteSet(W)
      BY <2>2, <2>3, FiniteImage
    <2>5. IsFiniteSet(DOMAIN d \cup W)
      BY <2>1, <2>4, FS_Union
    <2> QED
      BY <1>3, <2>1, <2>5
  <1>8. ASSUME NEW n \in DOMAIN d, NEW k \in Range(d[n].kids)
        PROVE  k \in DOMAIN d /\ k # Root /\ k \in DOMAIN t /\ (k \notin G => U[k] = n)
    <2>1. k \in DOMAIN d /\ k # Root /\ k \in DOMAIN t
      BY <1>3, KidFacts
    <2>2. Parent(d, k) = n
      BY ParentFacts DEF Good
    <2> QED
      BY <2>1, <2>2 DEF HouseHome, G
  <1>9. ASSUME NEW n \in R, NEW k \in G, k \in Range(d[n].kids)
        PROVE  house(k) \in DOMAIN t /\ house(k) # Root /\ U[house(k)] = n
    <2>1. house(k) \in DOMAIN t
      BY <1>3, <1>5
    <2>2. house(k) # Root
      BY <1>4 DEF Good, Heap
    <2>3. Parent(d, k) = n
      BY <1>1, <1>9, ParentFacts DEF Good
    <2>4. HouseHome(d, r, house(k)) = n
      BY <1>4, <2>3 DEF HouseHome
    <2> HIDE DEF house
    <2> QED
      BY <2>1, <2>2, <2>4
  <1>10. \A k \in G : k \in DOMAIN t /\ k # Root /\ U[k] = house(k)
    BY <1>2, <1>3 DEF HouseHome, G
  <1> HIDE DEF U, house
  <1>11. ASSUME NEW n \in DOMAIN d \ R PROVE Fits(<<n, t[n]>>, DOMAIN t, U)
    <2> DEFINE x == <<n, t[n]>>
    <2>1. x[1] = n /\ x[2] = d[n]
      BY <1>3
    <2>2. d[n] = Node(d[n].name, d[n].text, d[n].kids) /\ n # None /\ d[n].kids \in Seq(DOMAIN d) /\ IsInjective(d[n].kids)
      BY KidFacts
    <2>3. d[n].kids \in Seq(DOMAIN t)
      BY <1>3, <2>2, SeqMonotonic
    <2>4. ASSUME NEW k \in Range(d[n].kids) PROVE k # Root /\ U[k] = n
      <3>1. k \notin G
        <4> SUFFICES ASSUME k \in G PROVE FALSE
          OBVIOUS
        <4>1. PICK m \in R : k \in Range(d[m].kids)
          BY <1>2
        <4>2. Parent(d, k) = m /\ Parent(d, k) = n
          BY <1>1, <4>1, ParentFacts DEF Good
        <4> QED
          BY <4>2
      <3> QED
        BY <1>8, <3>1
    <2> HIDE DEF x
    <2>5. Fits(x, DOMAIN t, U)
      BY <2>1, <2>2, <2>3, <2>4 DEF Fits
    <2> QED
      BY <2>5 DEF x
  <1>12. ASSUME NEW n \in R PROVE Fits(<<n, t[n]>>, DOMAIN t, U)
    <2> DEFINE x == <<n, t[n]>>
               kids == d[n].kids
               I == Named(d, n, r.child)
               out == Housed(d, r, n)
               N == Len(kids)
    <2>1. d[n] = Node(d[n].name, d[n].text, d[n].kids) /\ n # None
      BY <1>1, KidFacts
    <2>2. x[1] = n /\ x[2] = Node(d[n].name, d[n].text, out)
      BY <1>3, <2>1, NodeFacts
    <2>3. kids \in Seq(DOMAIN d) /\ IsInjective(kids) /\ N \in Nat /\ DOMAIN kids = 1..N
      BY <1>1, KidFacts
    <2>4. out = [i \in 1..N |-> IF i \in I THEN house(kids[i]) ELSE kids[i]]
      BY <2>3 DEF Housed, house
    <2>5. \A i \in 1..N : kids[i] \in Range(kids) /\ (i \in I => kids[i] \in G)
      BY <1>6, <2>3 DEF Range
    <2>6. ASSUME NEW i \in 1..N, i \notin I PROVE kids[i] \notin G
      <3>1. d[kids[i]].name # r.child
        BY <2>3, <2>6 DEF Named
      <3> QED
        BY <1>2, <3>1
    <2> HIDE DEF x, out, I, N
    <2>7. ASSUME NEW i \in 1..N PROVE out[i] \in DOMAIN t /\ out[i] # Root /\ U[out[i]] = n
      <3>1. CASE i \in I
        BY <1>9, <2>4, <2>5, <3>1
      <3>2. CASE i \notin I
        BY <1>1, <1>8, <2>4, <2>5, <2>6, <3>2
      <3> QED
        BY <3>1, <3>2
    <2>8. out \in Seq(DOMAIN t)
      <3>1. out \in [1..N -> DOMAIN t]
        BY <2>4, <2>7
      <3> QED
        BY <2>3, <3>1
    <2>9. \A i, j \in 1..N : out[i] = out[j] => i = j
      <3> SUFFICES ASSUME NEW i \in 1..N, NEW j \in 1..N, out[i] = out[j] PROVE i = j
        OBVIOUS
      <3>1. kids[i] \in DOMAIN d /\ kids[j] \in DOMAIN d
        BY <1>1, <1>8, <2>5
      <3>2. kids[i] = kids[j]
        BY <1>4, <1>5, <2>4, <3>1
      <3> QED
        BY <2>3, <3>2 DEF IsInjective
    <2>10. IsInjective(out) /\ \A k \in Range(out) : k # Root /\ U[k] = n
      <3>1. DOMAIN out = 1..N
        BY <2>4
      <3> QED
        BY <2>7, <2>9, <3>1 DEF IsInjective, Range
    <2>11. x[2].kids = out /\ x[2] = Node(x[2].name, x[2].text, x[2].kids)
      BY <2>2, NodeFacts
    <2>12. Fits(x, DOMAIN t, U)
      BY <2>1, <2>2, <2>8, <2>10, <2>11 DEF Fits
    <2> QED
      BY <2>12 DEF x
  <1>13. ASSUME NEW k \in G PROVE Fits(<<house(k), t[house(k)]>>, DOMAIN t, U)
    <2> DEFINE x == <<house(k), t[house(k)]>>
               one == <<k>>
    <2>1. x[1] = house(k) /\ x[2] = Node(r.to[1], NoText, one) /\ house(k) # None
      BY <1>3, <1>4
    <2> HIDE DEF x
    <2>2. x[2].kids = one /\ x[2] = Node(x[2].name, x[2].text, x[2].kids)
      BY <2>1, NodeFacts
    <2>3. one \in Seq(DOMAIN t) /\ Range(one) = {k} /\ IsInjective(one)
      BY <1>10, OneFacts
    <2>4. \A l \in Range(one) : l # Root /\ U[l] = house(k)
      BY <1>10, <2>3
    <2> HIDE DEF one
    <2>5. Fits(x, DOMAIN t, U)
      BY <2>1, <2>2, <2>3, <2>4 DEF Fits
    <2> QED
      BY <2>5 DEF x
  <1>14. \A n \in DOMAIN t : Fits(<<n, t[n]>>, DOMAIN t, U)
    <2> SUFFICES ASSUME NEW m \in DOMAIN t PROVE Fits(<<m, t[m]>>, DOMAIN t, U)
      OBVIOUS
    <2>1. CASE m \in DOMAIN d
      BY <1>11, <1>12, <2>1
    <2>2. CASE m \in W
      BY <1>5, <1>13, <2>2
    <2> QED
      BY <1>3, <2>1, <2>2
  <1> QED
    BY <1>3, <1>7, <1>14, GoodByHome

LEMMA FirstLeast ==
    ASSUME NEW I \in SUBSET Nat, IsFiniteSet(I), I # {}
    PROVE  1 \in 1..Cardinality(I) /\ Nth(I, 1) \in I /\ \A i \in I : Nth(I, 1) <= i
  <1>1. Cardinality(I) \in Nat /\ Cardinality(I) # 0
    BY FS_CardinalityType, FS_EmptySet
  <1>2. 1 \in 1..Cardinality(I)
    BY <1>1
  <1>3. Nth(I, 1) \in I
    BY <1>2, NthFacts
  <1>4. ASSUME NEW i \in I PROVE Nth(I, 1) <= i
    <2>1. PICK j \in 1..Cardinality(I) : Nth(I, j) = i
      BY NthFacts
    <2>2. 1 < j => Nth(I, 1) < Nth(I, j)
      BY <1>2, NthFacts
    <2>3. Nth(I, 1) \in Nat /\ i \in Nat
      BY <1>3
    <2> QED
      BY <1>1, <2>1, <2>2, <2>3
  <1> QED
    BY <1>2, <1>3, <1>4

LEMMA PickSame ==
    ASSUME NEW s, NEW u, NEW I \in SUBSET Nat, IsFiniteSet(I), \A i \in I : s[i] = u[i] PROVE Pick(s, I) = Pick(u, I)
  <1>1. \A j \in 1..Cardinality(I) : s[Nth(I, j)] = u[Nth(I, j)]
    BY NthFacts
  <1> QED
    BY <1>1 DEF Pick

\* Picking I out of what J has picked, and swapping the first of them there
LEMMA PickWithin ==
    ASSUME NEW S, NEW s \in Seq(S), NEW J \in SUBSET DOMAIN s, NEW I \in SUBSET J, I # {}, NEW w,
           NEW P, P = {j \in 1..Cardinality(J) : Nth(J, j) \in I}
    PROVE  /\ P # {} /\ Pick(Pick(s, J), P) = Pick(s, I)
           /\ Pick(Swapped(Pick(s, J), Nth(P, 1), w), DOMAIN Pick(s, J) \ (P \ {Nth(P, 1)}))
                = Pick(Swapped(s, Nth(I, 1), w), J \ (I \ {Nth(I, 1)}))
  <1> DEFINE N == Cardinality(J)
             f == Nth(I, 1)
             g == Nth(P, 1)
             u == Swapped(s, f, w)
             t == Pick(s, J)
  <1>1. J \in SUBSET Nat /\ IsFiniteSet(J)
    BY FS_Interval, FS_Subset
  <1>2. /\ N \in Nat
        /\ \A j \in 1..N : Nth(J, j) \in J
        /\ \A i \in J : \E j \in 1..N : Nth(J, j) = i
        /\ \A j, k \in 1..N : j < k => Nth(J, j) < Nth(J, k)
    BY <1>1, NthFacts
  <1>3. t = [j \in 1..N |-> s[Nth(J, j)]]
    BY DEF Pick
  <1> HIDE DEF N, t
  <1>4. P = {j \in 1..N : Nth(J, j) \in I}
    BY DEF N
  <1>5. I = {Nth(J, j) : j \in P}
    BY <1>2, <1>4
  <1>6. P # {}
    BY <1>5
  <1>7. /\ IsFiniteSet(I) /\ IsFiniteSet(P) /\ I \in SUBSET Nat /\ P \in SUBSET Nat
    <2>1. IsFiniteSet(1..N) /\ P \in SUBSET (1..N)
      BY <1>2, <1>4, FS_Interval
    <2>2. IsFiniteSet(P) /\ P \in SUBSET Nat
      BY <1>2, <2>1, FS_Subset
    <2>3. IsFiniteSet(I) /\ I \in SUBSET Nat
      BY <1>1, FS_Subset
    <2> QED
      BY <2>2, <2>3
  <1>8. f \in I /\ (\A i \in I : f <= i) /\ g \in P /\ \A j \in P : g <= j
    BY <1>6, <1>7, FirstLeast
  <1> HIDE DEF f, g
  <1>9. \A j, k \in 1..N : Nth(J, j) = Nth(J, k) => j = k
    <2> SUFFICES ASSUME NEW j \in 1..N, NEW k \in 1..N, Nth(J, j) = Nth(J, k) PROVE j = k
      OBVIOUS
    <2>1. j \in Nat /\ k \in Nat /\ Nth(J, j) \in Nat /\ Nth(J, k) \in Nat
      BY <1>1, <1>2
    <2>2. ~(j < k) /\ ~(k < j)
      BY <1>2, <2>1
    <2> QED
      BY <2>1, <2>2
  <1>10. Nth(J, g) = f
    <2>1. PICK j \in P : Nth(J, j) = f
      BY <1>5, <1>8
    <2>2. g <= j /\ g \in 1..N /\ j \in 1..N
      BY <1>4, <1>8
    <2>3. Nth(J, g) \in I
      BY <1>4, <1>8
    <2>4. f <= Nth(J, g)
      BY <1>8, <2>3
    <2>5. g < j => Nth(J, g) < Nth(J, j)
      BY <1>2, <2>2
    <2>6. f \in Nat /\ Nth(J, g) \in Nat /\ g \in Nat /\ j \in Nat
      BY <1>7, <1>8, <2>3
    <2> QED
      BY <2>1, <2>2, <2>4, <2>5, <2>6
  <1>11. Swapped(t, g, w) = Pick(u, J)
    <2>1. DOMAIN u = DOMAIN s /\ u[f] = w /\ \A i \in DOMAIN s : i # f => u[i] = s[i]
      BY <1>8 DEF Swapped
    <2>2. Swapped(t, g, w) = [j \in 1..N |-> IF j = g THEN w ELSE s[Nth(J, j)]]
      BY <1>3 DEF Swapped
    <2>3. Pick(u, J) = [j \in 1..N |-> u[Nth(J, j)]]
      BY DEF Pick, N
    <2> HIDE DEF u
    <2>4. ASSUME NEW j \in 1..N PROVE u[Nth(J, j)] = IF j = g THEN w ELSE s[Nth(J, j)]
      <3>1. CASE j = g
        BY <1>10, <2>1, <3>1
      <3>2. CASE j # g
        <4>1. Nth(J, j) # f /\ Nth(J, j) \in DOMAIN s
          BY <1>2, <1>4, <1>8, <1>9, <1>10, <3>2
        <4> QED
          BY <2>1, <3>2, <4>1
      <3> QED
        BY <3>1, <3>2
    <2> QED
      BY <2>2, <2>3, <2>4
  <1>12. u \in Seq(S \cup {w}) /\ DOMAIN u = DOMAIN s
    BY <1>8 DEF Swapped
  <1> HIDE DEF u
  <1> DEFINE K == DOMAIN t \ (P \ {g})
             T == S \cup {w}
  <1>13. DOMAIN t = 1..N /\ P \in SUBSET (1..N) /\ K \in SUBSET (1..N)
    BY <1>3, <1>4
  <1>14. {Nth(J, j) : j \in K} = J \ (I \ {f})
    <2>1. ASSUME NEW j \in K PROVE Nth(J, j) \in J \ (I \ {f})
      BY <1>2, <1>4, <1>10, <1>13
    <2>2. ASSUME NEW i \in J \ (I \ {f}) PROVE \E j \in K : Nth(J, j) = i
      <3>1. PICK j \in 1..N : Nth(J, j) = i
        BY <1>2
      <3>2. j \notin P \ {g}
        BY <1>4, <1>8, <1>9, <1>10, <1>13, <3>1
      <3> QED
        BY <1>13, <3>1, <3>2
    <2> HIDE DEF K
    <2> QED
      BY <2>1, <2>2
  <1> HIDE DEF K
  <1>15. Pick(Pick(u, J), K) = Pick(u, {Nth(J, j) : j \in K})
    <2>1. J \in SUBSET DOMAIN u /\ K \in SUBSET (1..Cardinality(J)) /\ u \in Seq(T)
      BY <1>12, <1>13 DEF N
    <2> HIDE DEF T
    <2> QED
      BY <2>1, PickPick
  <1>16. Pick(t, P) = Pick(s, {Nth(J, j) : j \in P})
    <2>1. P \in SUBSET (1..Cardinality(J))
      BY <1>13 DEF N
    <2> QED
      BY <2>1, PickPick DEF t
  <1> QED
    BY <1>5, <1>6, <1>11, <1>14, <1>15, <1>16 DEF K, t, u, f, g

\* Two rules of one kind that keep apart, and what wrap makes of d by the one and then the other
Apart(r, q) ==
    /\ Tag(r) # Tag(q) /\ r.kind = q.kind /\ r.to \in Seq(STRING) /\ q.to \in Seq(STRING) /\ r.to # <<>> /\ q.to # <<>>
    /\ q.parent \notin Range(r.to) /\ (q.parent = r.parent => q.child # r.to[1])
    /\ r.parent \notin Range(q.to) /\ (r.parent = q.parent => r.child # q.to[1])
OuterBoth(d, r, q, n) ==
    Pick(Swapped(Swapped(d[n].kids, FirstOf(d, r, n), Wrapper(r, n, 1)), FirstOf(d, q, n), Wrapper(q, n, 1)),
         Staying(d, r, n) \cap Staying(d, q, n))
WrappedTwice(d, r, q, u) ==
    /\ DOMAIN u = (DOMAIN d \cup Wraps(d, r)) \cup Wraps(d, q) /\ u = [n \in DOMAIN u |-> u[n]]
    /\ \A n \in DOMAIN d \ (Parents(d, r) \cup Parents(d, q)) : u[n] = d[n]
    /\ \A n \in Parents(d, r) \ Parents(d, q) : u[n] = WithKids(d[n], Outer(d, r, n))
    /\ \A n \in Parents(d, q) \ Parents(d, r) : u[n] = WithKids(d[n], Outer(d, q, n))
    /\ \A n \in Parents(d, r) \cap Parents(d, q) : u[n] = WithKids(d[n], OuterBoth(d, r, q, n))
    /\ \A n \in Parents(d, r), i \in DOMAIN r.to : u[Wrapper(r, n, i)] = Node(r.to[i], NoText, Inner(d, r, n, i))
    /\ \A n \in Parents(d, q), i \in DOMAIN q.to : u[Wrapper(q, n, i)] = Node(q.to[i], NoText, Inner(d, q, n, i))

\* Where n lost children to r it still has those for q.
LEMMA NamedAfter ==
    ASSUME NEW d, Good(d), NEW r, NEW q, Apart(r, q), Fresh(d, Tag(r)), NEW t, WrappedIs(d, r, t),
           NEW n \in Parents(d, r), d[n].name = q.parent
    PROVE  LET s == Swapped(d[n].kids, FirstOf(d, r, n), Wrapper(r, n, 1))
               J == Staying(d, r, n)
           IN  /\ s \in Seq(DOMAIN d \cup {Wrapper(r, n, 1)}) /\ J \in SUBSET DOMAIN s
               /\ t[n].kids = Pick(s, J)
               /\ Named(d, n, q.child) \in SUBSET J
               /\ \A i \in Named(d, n, q.child) : s[i] = d[n].kids[i]
               /\ Named(t, n, q.child) = {j \in 1..Cardinality(J) : Nth(J, j) \in Named(d, n, q.child)}
  <1> DEFINE kids == d[n].kids
             f == FirstOf(d, r, n)
             w == Wrapper(r, n, 1)
             s == Swapped(kids, f, w)
             J == Staying(d, r, n)
             I == Named(d, n, r.child)
             Q == Named(d, n, q.child)
             N == Cardinality(J)
  <1>1. n \in DOMAIN d /\ d[n].name = r.parent /\ I \in SUBSET DOMAIN kids /\ f \in I
    BY ParentsFacts
  <1>2. kids \in Seq(DOMAIN d) /\ d[n] = Node(d[n].name, d[n].text, kids) /\ Range(kids) \subseteq DOMAIN d
    BY <1>1, KidFacts
  <1>3. \A i \in DOMAIN kids : (i \in I <=> d[kids[i]].name = r.child) /\ (i \in Q <=> d[kids[i]].name = q.child)
    BY DEF Named
  <1>4. Q \in SUBSET DOMAIN kids
    BY DEF Named
  <1>5. q.child # r.child /\ q.child # r.to[1]
    BY <1>1 DEF Apart, Tag
  <1>6. I \cap Q = {}
    BY <1>1, <1>3, <1>5
  <1>7. J = DOMAIN kids \ (I \ {f})
    BY DEF Staying
  <1>8. J \in SUBSET DOMAIN kids /\ Q \in SUBSET J /\ f \in J /\ f \notin Q
    BY <1>1, <1>4, <1>6, <1>7
  <1>9. t[n] = WithKids(d[n], Pick(s, J))
    BY DEF WrappedIs, Outer
  <1> HIDE DEF I, Q, J, f
  <1>10. /\ s \in Seq(DOMAIN d \cup {w}) /\ DOMAIN s = DOMAIN kids /\ s[f] = w
         /\ \A i \in DOMAIN kids : i # f => s[i] = kids[i]
    BY <1>2, <1>8 DEF Swapped
  <1> HIDE DEF s, w
  <1>11. t[n].kids = Pick(s, J)
    <2> DEFINE p == Pick(s, J)
    <2> HIDE DEF p
    <2>1. WithKids(d[n], p) = Node(d[n].name, d[n].text, p)
      BY <1>2, NodeFacts
    <2>2. t[n] = Node(d[n].name, d[n].text, p)
      BY <1>9, <2>1 DEF p
    <2>3. t[n].kids = p
      BY <2>2, NodeFacts
    <2> QED
      BY <2>3 DEF p
  <1>12. /\ Len(Pick(s, J)) = N /\ N \in Nat /\ Pick(s, J) \in Seq(DOMAIN d \cup {w})
         /\ \A j \in 1..N : Nth(J, j) \in J /\ Pick(s, J)[j] = s[Nth(J, j)]
    <2>1. J \in SUBSET DOMAIN s
      BY <1>8, <1>10
    <2> HIDE DEF N
    <2>2. /\ Len(Pick(s, J)) = Cardinality(J) /\ Cardinality(J) \in Nat /\ Pick(s, J) \in Seq(DOMAIN d \cup {w})
          /\ \A j \in 1..Cardinality(J) : Nth(J, j) \in J /\ Pick(s, J)[j] = s[Nth(J, j)]
      BY <1>10, <2>1, PickFacts
    <2> QED
      BY <2>2 DEF N
  <1> HIDE DEF N
  <1>13. DOMAIN t[n].kids = 1..N
    BY <1>11, <1>12
  <1>14. \A m \in DOMAIN d : t[m].name = d[m].name
    <2> SUFFICES ASSUME NEW m \in DOMAIN d PROVE t[m].name = d[m].name
      OBVIOUS
    <2>1. d[m] = Node(d[m].name, d[m].text, d[m].kids)
      BY KidFacts
    <2>2. \A new : WithKids(d[m], new).name = d[m].name
      BY <2>1, NodeFacts
    <2>3. m \notin Parents(d, r) => t[m] = d[m]
      BY DEF WrappedIs
    <2>4. m \in Parents(d, r) => t[m] = WithKids(d[m], Outer(d, r, m))
      BY DEF WrappedIs
    <2> QED
      BY <2>2, <2>3, <2>4
  <1>15. t[w].name = r.to[1]
    <2>1. 1 \in DOMAIN r.to
      BY EmptySeq DEF Apart
    <2>2. t[w] = Node(r.to[1], NoText, Inner(d, r, n, 1))
      BY <2>1 DEF WrappedIs, w
    <2> QED
      BY <2>2, NodeFacts
  <1>16. ASSUME NEW j \in 1..N PROVE t[t[n].kids[j]].name = q.child <=> Nth(J, j) \in Q
    <2> DEFINE i == Nth(J, j)
    <2>1. t[n].kids[j] = s[i] /\ i \in J
      BY <1>11, <1>12
    <2> HIDE DEF i
    <2>2. CASE i = f
      BY <1>5, <1>8, <1>10, <1>15, <2>1, <2>2 DEF i
    <2>3. CASE i # f
      <3>1. s[i] = kids[i] /\ i \in DOMAIN kids /\ kids[i] \in DOMAIN d
        BY <1>2, <1>8, <1>10, <2>1, <2>3
      <3>2. t[s[i]].name = d[kids[i]].name
        BY <1>14, <3>1
      <3> QED
        BY <1>3, <2>1, <3>1, <3>2 DEF i
    <2> QED
      BY <2>2, <2>3
  <1>17. Named(t, n, q.child) = {j \in 1..N : Nth(J, j) \in Q}
    BY <1>13, <1>16 DEF Named
  <1>18. \A i \in Q : s[i] = kids[i]
    BY <1>4, <1>8, <1>10
  <1> HIDE DEF kids
  <1> QED
    BY <1>8, <1>10, <1>11, <1>17, <1>18 DEF N, Q, J, f, s, w, kids

LEMMA WrappedNames ==
    ASSUME NEW d, Good(d), NEW r, NEW t, WrappedIs(d, r, t), NEW n \in DOMAIN d
    PROVE  n \in DOMAIN t /\ t[n].name = d[n].name /\ t[n].text = d[n].text
  <1>1. d[n] = Node(d[n].name, d[n].text, d[n].kids)
    BY KidFacts
  <1>2. \A new : WithKids(d[n], new).name = d[n].name /\ WithKids(d[n], new).text = d[n].text
    BY <1>1, NodeFacts
  <1>3. n \notin Parents(d, r) => t[n] = d[n]
    BY DEF WrappedIs
  <1>4. n \in Parents(d, r) => t[n] = WithKids(d[n], Outer(d, r, n))
    BY DEF WrappedIs
  <1>5. n \in DOMAIN t
    BY DEF WrappedIs
  <1> QED
    BY <1>2, <1>3, <1>4, <1>5

\* Where r left a node alone, q finds it as it was.
LEMMA SameAfter ==
    ASSUME NEW d, Good(d), NEW t, NEW n \in DOMAIN d, t[n] = d[n], \A m \in DOMAIN d : t[m].name = d[m].name, NEW q
    PROVE  /\ Named(t, n, q.child) = Named(d, n, q.child) /\ Outer(t, q, n) = Outer(d, q, n)
           /\ \A i : Inner(t, q, n, i) = Inner(d, q, n, i)
  <1>1. d[n].kids \in Seq(DOMAIN d)
    BY KidFacts
  <1>2. \A i \in DOMAIN d[n].kids : d[n].kids[i] \in DOMAIN d
    BY <1>1
  <1>3. Named(t, n, q.child) = Named(d, n, q.child)
    BY <1>2 DEF Named
  <1>4. FirstOf(t, q, n) = FirstOf(d, q, n) /\ Staying(t, q, n) = Staying(d, q, n)
    BY <1>3 DEF FirstOf, Staying
  <1>5. Outer(t, q, n) = Outer(d, q, n)
    BY <1>4 DEF Outer
  <1>6. kidsNamed(t, n, q.child) = kidsNamed(d, n, q.child)
    BY <1>3 DEF kidsNamed
  <1> QED
    BY <1>3, <1>5, <1>6 DEF Inner

LEMMA ParentsAfter ==
    ASSUME NEW d, Good(d), NEW r, NEW q, Apart(r, q), Fresh(d, Tag(r)), NEW t, WrappedIs(d, r, t)
    PROVE  Parents(t, q) = Parents(d, q)
  <1>1. \A m \in DOMAIN d : m \in DOMAIN t /\ t[m].name = d[m].name
    BY WrappedNames
  <1>2. ASSUME NEW n \in DOMAIN d, d[n].name = q.parent PROVE Named(t, n, q.child) # {} <=> Named(d, n, q.child) # {}
    <2>1. CASE n \in Parents(d, r)
      <3> DEFINE J == Staying(d, r, n)
                 Q == Named(d, n, q.child)
                 s == Swapped(d[n].kids, FirstOf(d, r, n), Wrapper(r, n, 1))
      <3>1. J \in SUBSET DOMAIN s /\ s \in Seq(DOMAIN d \cup {Wrapper(r, n, 1)})
            /\ Q \in SUBSET J /\ Named(t, n, q.child) = {j \in 1..Cardinality(J) : Nth(J, j) \in Q}
        BY <1>2, <2>1, NamedAfter
      <3> HIDE DEF J, Q, s
      <3>2. J \in SUBSET Nat /\ IsFiniteSet(J)
        BY <3>1, FS_Interval, FS_Subset
      <3>3. \A i \in J : \E j \in 1..Cardinality(J) : Nth(J, j) = i
        BY <3>2, NthFacts
      <3> QED
        BY <3>1, <3>3 DEF Q
    <2>2. CASE n \notin Parents(d, r)
      <3>1. t[n] = d[n]
        BY <2>2 DEF WrappedIs
      <3> QED
        BY <1>1, <3>1, SameAfter
    <2> QED
      BY <2>1, <2>2
  <1>3. ASSUME NEW n \in DOMAIN t, t[n].name = q.parent PROVE n \in DOMAIN d /\ d[n].name = q.parent
    <2>1. CASE n \in DOMAIN d
      BY <1>1, <1>3, <2>1
    <2>2. CASE n \in Wraps(d, r)
      <3>1. PICK m \in Parents(d, r), i \in DOMAIN r.to : n = Wrapper(r, m, i)
        BY <2>2 DEF Wraps
      <3>2. t[n] = Node(r.to[i], NoText, Inner(d, r, m, i))
        BY <3>1 DEF WrappedIs
      <3>3. t[n].name = r.to[i]
        BY <3>2, NodeFacts
      <3>4. r.to[i] \in Range(r.to)
        BY DEF Range
      <3> QED
        BY <1>3, <3>3, <3>4 DEF Apart
    <2> QED
      BY <2>1, <2>2 DEF WrappedIs
  <1>4. \A n : n \in Parents(t, q) <=> n \in Parents(d, q)
    BY <1>1, <1>2, <1>3 DEF Parents, NodesNamed
  <1> QED
    BY <1>4 DEF Parents

LEMMA BothOuter ==
    ASSUME NEW d, Good(d), NEW r, NEW q, Apart(r, q), Fresh(d, Tag(r)), NEW t, WrappedIs(d, r, t),
           NEW n \in Parents(d, r) \cap Parents(d, q)
    PROVE  Outer(t, q, n) = OuterBoth(d, r, q, n) /\ kidsNamed(t, n, q.child) = kidsNamed(d, n, q.child)
  <1> DEFINE kids == d[n].kids
             s == Swapped(kids, FirstOf(d, r, n), Wrapper(r, n, 1))
             J == Staying(d, r, n)
             I == Named(d, n, q.child)
             P == Named(t, n, q.child)
             w == Wrapper(q, n, 1)
             S == DOMAIN d \cup {Wrapper(r, n, 1)}
  <1>1. n \in DOMAIN d /\ d[n].name = q.parent /\ I # {} /\ I \in SUBSET DOMAIN kids
    BY ParentsFacts
  <1>2. /\ s \in Seq(S) /\ J \in SUBSET DOMAIN s /\ t[n].kids = Pick(s, J) /\ I \in SUBSET J
        /\ (\A i \in I : s[i] = kids[i]) /\ P = {j \in 1..Cardinality(J) : Nth(J, j) \in I}
    BY <1>1, NamedAfter
  <1>3. Outer(t, q, n) = Pick(Swapped(t[n].kids, Nth(P, 1), w), DOMAIN t[n].kids \ (P \ {Nth(P, 1)}))
    BY DEF Outer, FirstOf, Staying
  <1>4. kidsNamed(t, n, q.child) = Pick(t[n].kids, P) /\ kidsNamed(d, n, q.child) = Pick(kids, I)
    BY DEF kidsNamed
  <1>5. J \cap Staying(d, q, n) = J \ (I \ {Nth(I, 1)})
    <2>1. Staying(d, q, n) = DOMAIN kids \ (I \ {Nth(I, 1)})
      BY DEF Staying, FirstOf
    <2>2. J \subseteq DOMAIN kids
      BY DEF Staying
    <2> QED
      BY <2>1, <2>2
  <1>6. OuterBoth(d, r, q, n) = Pick(Swapped(s, Nth(I, 1), w), J \cap Staying(d, q, n))
    BY DEF OuterBoth, FirstOf
  <1> HIDE DEF s, J, I, P, w, S, kids
  <1>7. /\ Pick(Pick(s, J), P) = Pick(s, I)
        /\ Pick(Swapped(Pick(s, J), Nth(P, 1), w), DOMAIN Pick(s, J) \ (P \ {Nth(P, 1)}))
                = Pick(Swapped(s, Nth(I, 1), w), J \ (I \ {Nth(I, 1)}))
    <2>1. J \in SUBSET DOMAIN s /\ I \in SUBSET J /\ I # {} /\ P = {j \in 1..Cardinality(J) : Nth(J, j) \in I}
      BY <1>1, <1>2
    <2> QED
      BY <1>2, <2>1, PickWithin
  <1>8. Pick(s, I) = Pick(kids, I)
    <2>1. I \in SUBSET Nat /\ IsFiniteSet(I)
      <3>1. DOMAIN s = 1..Len(s) /\ Len(s) \in Nat
        BY <1>2
      <3>2. IsFiniteSet(DOMAIN s) /\ I \in SUBSET DOMAIN s
        BY <1>2, <3>1, FS_Interval
      <3>3. IsFiniteSet(I)
        BY <3>2, FS_Subset
      <3> QED
        BY <3>1, <3>2, <3>3
    <2> QED
      BY <1>2, <2>1, PickSame
  <1> QED
    BY <1>2, <1>3, <1>4, <1>5, <1>6, <1>7, <1>8

\* What a wrap leaves after another one, of other elements, said in terms of the document before both.
LEMMA WrapTwice ==
    ASSUME NEW d, Good(d), NEW r, NEW q, Apart(r, q), Fresh(d, Tag(r)), NEW t, WrappedIs(d, r, t),
           NEW u, WrappedIs(t, q, u)
    PROVE  WrappedTwice(d, r, q, u)
  <1> DEFINE R == Parents(d, r)
             Q == Parents(d, q)
  <1>1. Parents(t, q) = Q
    BY ParentsAfter
  <1>2. \A n \in DOMAIN d : n \in DOMAIN t /\ t[n].name = d[n].name
    BY WrappedNames
  <1>3. (\A n \in R : n \in DOMAIN d) /\ \A n \in Q : n \in DOMAIN d
    BY ParentsFacts
  <1>4. \A n \in R, i \in DOMAIN r.to : Wrapper(r, n, i) \notin DOMAIN d
    BY AtFacts DEF Fresh, Wrapper
  <1>5. \A n, i : Wrapper(r, n, i) \in Wraps(d, r) => Wrapper(r, n, i) \in DOMAIN t
    BY DEF WrappedIs
  <1>6. DOMAIN u = (DOMAIN d \cup Wraps(d, r)) \cup Wraps(d, q) /\ u = [n \in DOMAIN u |-> u[n]]
    <2>1. Wraps(t, q) = Wraps(d, q)
      BY <1>1 DEF Wraps
    <2>2. DOMAIN t = DOMAIN d \cup Wraps(d, r)
      BY DEF WrappedIs
    <2>3. DOMAIN u = DOMAIN t \cup Wraps(t, q) /\ u = [n \in DOMAIN u |-> u[n]]
      BY DEF WrappedIs
    <2> QED
      BY <2>1, <2>2, <2>3
  <1>7. \A n \in DOMAIN t \ Q : u[n] = t[n]
    BY <1>1 DEF WrappedIs
  <1>8. \A n \in DOMAIN d \ R : t[n] = d[n]
    BY DEF WrappedIs
  <1>9. \A n \in R : t[n] = WithKids(d[n], Outer(d, r, n))
    BY DEF WrappedIs
  <1>10. \A n \in Q : u[n] = WithKids(t[n], Outer(t, q, n))
    BY <1>1 DEF WrappedIs
  <1>11. \A n \in Q, i \in DOMAIN q.to : u[Wrapper(q, n, i)] = Node(q.to[i], NoText, Inner(t, q, n, i))
    BY <1>1 DEF WrappedIs
  <1>12. \A n \in R, i \in DOMAIN r.to : t[Wrapper(r, n, i)] = Node(r.to[i], NoText, Inner(d, r, n, i))
    BY DEF WrappedIs
  <1>13. \A n \in Q \ R : Outer(t, q, n) = Outer(d, q, n) /\ \A i : Inner(t, q, n, i) = Inner(d, q, n, i)
    <2> SUFFICES ASSUME NEW n \in Q \ R
                 PROVE  Outer(t, q, n) = Outer(d, q, n) /\ \A i : Inner(t, q, n, i) = Inner(d, q, n, i)
      OBVIOUS
    <2>1. n \in DOMAIN d /\ t[n] = d[n] /\ \A m \in DOMAIN d : t[m].name = d[m].name
      BY <1>2, <1>3, <1>8
    <2> QED
      BY <2>1, SameAfter
  <1>14. \A n \in Q \cap R : Outer(t, q, n) = OuterBoth(d, r, q, n) /\ \A i : Inner(t, q, n, i) = Inner(d, q, n, i)
    <2>1. \A n \in Q \cap R : Outer(t, q, n) = OuterBoth(d, r, q, n) /\ kidsNamed(t, n, q.child) = kidsNamed(d, n, q.child)
      BY BothOuter
    <2> QED
      BY <2>1 DEF Inner
  <1>15. \A n \in DOMAIN d : \A a, b : WithKids(WithKids(d[n], a), b) = WithKids(d[n], b)
    <2> SUFFICES ASSUME NEW n \in DOMAIN d, NEW a, NEW b PROVE WithKids(WithKids(d[n], a), b) = WithKids(d[n], b)
      OBVIOUS
    <2>1. d[n] = Node(d[n].name, d[n].text, d[n].kids)
      BY KidFacts
    <2>2. WithKids(d[n], a) = Node(d[n].name, d[n].text, a) /\ WithKids(d[n], b) = Node(d[n].name, d[n].text, b)
      BY <2>1, NodeFacts
    <2>3. WithKids(Node(d[n].name, d[n].text, a), b) = Node(d[n].name, d[n].text, b)
      BY NodeFacts
    <2> QED
      BY <2>2, <2>3
  <1> HIDE DEF R, Q
  <1>16. \A n \in DOMAIN d \ (R \cup Q) : u[n] = d[n]
    BY <1>2, <1>7, <1>8
  <1>17. \A n \in R \ Q : u[n] = WithKids(d[n], Outer(d, r, n))
    BY <1>2, <1>3, <1>7, <1>9
  <1>18. \A n \in Q \ R : u[n] = WithKids(d[n], Outer(d, q, n))
    BY <1>3, <1>8, <1>10, <1>13
  <1>19. \A n \in R \cap Q : u[n] = WithKids(d[n], OuterBoth(d, r, q, n))
    BY <1>3, <1>9, <1>10, <1>14, <1>15
  <1>20. \A n \in R, i \in DOMAIN r.to : u[Wrapper(r, n, i)] = Node(r.to[i], NoText, Inner(d, r, n, i))
    <2> SUFFICES ASSUME NEW n \in R, NEW i \in DOMAIN r.to
                 PROVE  u[Wrapper(r, n, i)] = Node(r.to[i], NoText, Inner(d, r, n, i))
      OBVIOUS
    <2>1. Wrapper(r, n, i) \in Wraps(d, r)
      BY DEF Wraps, R
    <2>2. Wrapper(r, n, i) \in DOMAIN t \ Q
      BY <1>3, <1>4, <1>5, <2>1
    <2> QED
      BY <1>7, <1>12, <2>2
  <1>21. \A n \in Q, i \in DOMAIN q.to : u[Wrapper(q, n, i)] = Node(q.to[i], NoText, Inner(d, q, n, i))
    BY <1>11, <1>13, <1>14
  <1> QED
    BY <1>6, <1>16, <1>17, <1>18, <1>19, <1>20, <1>21 DEF WrappedTwice, R, Q

\* A parent of two wraps gets the same children in either order.
LEMMA BothSame ==
    ASSUME NEW d, Good(d), NEW r, NEW q, Apart(r, q), NEW n \in Parents(d, r) \cap Parents(d, q)
    PROVE  OuterBoth(d, r, q, n) = OuterBoth(d, q, r, n)
  <1> DEFINE kids == d[n].kids
             f == FirstOf(d, r, n)
             g == FirstOf(d, q, n)
             v == Wrapper(r, n, 1)
             w == Wrapper(q, n, 1)
  <1>1. /\ f \in Named(d, n, r.child) /\ g \in Named(d, n, q.child) /\ r.child # q.child
    <2>1. d[n].name = r.parent /\ d[n].name = q.parent
      BY ParentsFacts
    <2>2. r.child # q.child
      BY <2>1 DEF Apart, Tag
    <2> QED
      BY <2>2, ParentsFacts
  <1>2. f # g
    BY <1>1 DEF Named
  <1> HIDE DEF f, g, v, w, kids
  <1>3. Swapped(Swapped(kids, f, v), g, w) = Swapped(Swapped(kids, g, w), f, v)
    BY <1>2 DEF Swapped
  <1>4. Staying(d, r, n) \cap Staying(d, q, n) = Staying(d, q, n) \cap Staying(d, r, n)
    OBVIOUS
  <1> QED
    BY <1>3, <1>4 DEF OuterBoth, f, g, v, w, kids

LEMMA WrappedTwiceSame ==
    ASSUME NEW d, Good(d), NEW r, NEW q, Apart(r, q), NEW u, WrappedTwice(d, r, q, u), NEW v, WrappedTwice(d, q, r, v)
    PROVE  u = v
  <1>1. DOMAIN u = DOMAIN v
    BY DEF WrappedTwice
  <1>2. ASSUME NEW n \in DOMAIN u PROVE u[n] = v[n]
    <2>1. CASE n \in Parents(d, r) \cap Parents(d, q)
      BY <2>1, BothSame DEF WrappedTwice
    <2>2. CASE n \in DOMAIN d /\ n \notin Parents(d, r) \cap Parents(d, q)
      BY <2>2 DEF WrappedTwice
    <2>3. CASE n \in Wraps(d, r)
      <3>1. PICK m \in Parents(d, r), i \in DOMAIN r.to : n = Wrapper(r, m, i)
        BY <2>3 DEF Wraps
      <3>2. u[n] = Node(r.to[i], NoText, Inner(d, r, m, i)) /\ v[n] = Node(r.to[i], NoText, Inner(d, r, m, i))
        BY <3>1 DEF WrappedTwice
      <3> QED
        BY <3>2
    <2>4. CASE n \in Wraps(d, q)
      <3>1. PICK m \in Parents(d, q), i \in DOMAIN q.to : n = Wrapper(q, m, i)
        BY <2>4 DEF Wraps
      <3>2. u[n] = Node(q.to[i], NoText, Inner(d, q, m, i)) /\ v[n] = Node(q.to[i], NoText, Inner(d, q, m, i))
        BY <3>1 DEF WrappedTwice
      <3> QED
        BY <3>2
    <2> QED
      BY <2>1, <2>2, <2>3, <2>4 DEF WrappedTwice
  <1>3. u = [n \in DOMAIN u |-> u[n]] /\ v = [n \in DOMAIN v |-> v[n]]
    BY DEF WrappedTwice
  <1> QED
    BY <1>1, <1>2, <1>3

LEMMA FreshAfter ==
    ASSUME NEW d, NEW r, NEW t, WrappedIs(d, r, t) \/ HousedIs(d, r, t), NEW by, by # Tag(r), Fresh(d, by)
    PROVE  Fresh(t, by)
  <1> SUFFICES ASSUME NEW n \in DOMAIN t PROVE By(n) # by
    BY DEF Fresh
  <1>1. n \in DOMAIN d \cup Wraps(d, r) \/ n \in DOMAIN d \cup Houses(d, r)
    BY DEF WrappedIs, HousedIs
  <1>2. \A m, i : By(Wrapper(r, m, i)) = Tag(r)
    BY AtFacts DEF Wrapper
  <1>3. CASE n \in Wraps(d, r)
    BY <1>2, <1>3 DEF Wraps
  <1>4. CASE n \in Houses(d, r)
    BY <1>2, <1>4 DEF Houses
  <1>5. CASE n \in DOMAIN d
    BY <1>5 DEF Fresh
  <1> QED
    BY <1>1, <1>3, <1>4, <1>5

\* Two wrap rules commute.
LEMMA wrapCommutes ==
    ASSUME NEW d, Good(d), NEW r, NEW q, Apart(r, q), Fresh(d, Tag(r)), Fresh(d, Tag(q))
    PROVE  wrap(wrap(d, r), q) = wrap(wrap(d, q), r)
  <1> DEFINE t == wrap(d, r)
             s == wrap(d, q)
  <1>1. Apart(q, r)
    BY DEF Apart
  <1>2. WrappedIs(d, r, t) /\ WrappedIs(d, q, s)
    BY WrapIs
  <1>3. Good(t) /\ Good(s)
    BY <1>2, wrapGood DEF Apart
  <1>4. Fresh(t, Tag(q)) /\ Fresh(s, Tag(r))
    BY <1>2, FreshAfter DEF Apart
  <1> HIDE DEF t, s
  <1>5. WrappedIs(t, q, wrap(t, q)) /\ WrappedIs(s, r, wrap(s, r))
    BY <1>3, <1>4, WrapIs
  <1>6. WrappedTwice(d, r, q, wrap(t, q)) /\ WrappedTwice(d, q, r, wrap(s, r))
    BY <1>1, <1>2, <1>5, WrapTwice
  <1>7. wrap(t, q) = wrap(s, r)
    BY <1>6, WrappedTwiceSame
  <1> QED
    BY <1>7 DEF t, s

\* The same of wrapEach
HousedBoth(d, r, q, n) ==
    [i \in DOMAIN d[n].kids |->
        IF i \in Named(d, n, q.child) THEN Wrapper(q, d[n].kids[i], 1)
        ELSE IF i \in Named(d, n, r.child) THEN Wrapper(r, d[n].kids[i], 1) ELSE d[n].kids[i]]
HousedTwice(d, r, q, u) ==
    /\ DOMAIN u = (DOMAIN d \cup Houses(d, r)) \cup Houses(d, q) /\ u = [n \in DOMAIN u |-> u[n]]
    /\ \A n \in DOMAIN d \ (Parents(d, r) \cup Parents(d, q)) : u[n] = d[n]
    /\ \A n \in Parents(d, r) \ Parents(d, q) : u[n] = WithKids(d[n], Housed(d, r, n))
    /\ \A n \in Parents(d, q) \ Parents(d, r) : u[n] = WithKids(d[n], Housed(d, q, n))
    /\ \A n \in Parents(d, r) \cap Parents(d, q) : u[n] = WithKids(d[n], HousedBoth(d, r, q, n))
    /\ \A k \in Guests(d, r) : u[Wrapper(r, k, 1)] = Node(r.to[1], NoText, <<k>>)
    /\ \A k \in Guests(d, q) : u[Wrapper(q, k, 1)] = Node(q.to[1], NoText, <<k>>)

LEMMA HousedNames ==
    ASSUME NEW d, Good(d), NEW r, NEW t, HousedIs(d, r, t), NEW n \in DOMAIN d
    PROVE  n \in DOMAIN t /\ t[n].name = d[n].name /\ t[n].text = d[n].text
  <1>1. d[n] = Node(d[n].name, d[n].text, d[n].kids)
    BY KidFacts
  <1>2. \A new : WithKids(d[n], new).name = d[n].name /\ WithKids(d[n], new).text = d[n].text
    BY <1>1, NodeFacts
  <1>3. n \notin Parents(d, r) => t[n] = d[n]
    BY DEF HousedIs
  <1>4. n \in Parents(d, r) => t[n] = WithKids(d[n], Housed(d, r, n))
    BY DEF HousedIs
  <1>5. n \in DOMAIN t
    BY DEF HousedIs
  <1> QED
    BY <1>2, <1>3, <1>4, <1>5

\* q finds its children where they were.
Finds(d, q, t, n) ==
    /\ DOMAIN t[n].kids = DOMAIN d[n].kids /\ Named(t, n, q.child) = Named(d, n, q.child)
    /\ Named(d, n, q.child) \in SUBSET DOMAIN d[n].kids
    /\ \A i \in Named(d, n, q.child) : t[n].kids[i] = d[n].kids[i]
LEMMA HousedAfter ==
    ASSUME NEW d, Good(d), NEW r, NEW q, Apart(r, q), NEW t, HousedIs(d, r, t),
           NEW n \in DOMAIN d, d[n].name = q.parent
    PROVE  Finds(d, q, t, n) /\ (n \in Parents(d, r) => t[n].kids = Housed(d, r, n))
  <1> DEFINE kids == d[n].kids
             I == Named(d, n, r.child)
             Q == Named(d, n, q.child)
  <1>1. kids \in Seq(DOMAIN d) /\ d[n] = Node(d[n].name, d[n].text, kids)
    BY KidFacts
  <1>2. \A i \in DOMAIN kids : (i \in I <=> d[kids[i]].name = r.child) /\ (i \in Q <=> d[kids[i]].name = q.child)
    BY DEF Named
  <1>3. Q \in SUBSET DOMAIN kids
    BY DEF Named
  <1>4. \A i \in DOMAIN kids : kids[i] \in DOMAIN d
    BY <1>1
  <1>5. \A m \in DOMAIN d : t[m].name = d[m].name
    BY HousedNames
  <1>6. CASE n \in Parents(d, r)
    <2>1. t[n] = WithKids(d[n], Housed(d, r, n))
      BY <1>6 DEF HousedIs
    <2>2. t[n].kids = Housed(d, r, n)
      <3> DEFINE h == Housed(d, r, n)
      <3> HIDE DEF h
      <3>1. WithKids(d[n], h) = Node(d[n].name, d[n].text, h)
        BY <1>1, NodeFacts
      <3>2. t[n].kids = h
        BY <2>1, <3>1, NodeFacts DEF h
      <3> QED
        BY <3>2 DEF h
    <2>3. d[n].name = r.parent
      BY <1>6, ParentsFacts
    <2>4. q.child # r.child /\ q.child # r.to[1]
      BY <2>3 DEF Apart, Tag
    <2>5. t[n].kids = [i \in DOMAIN kids |-> IF i \in I THEN Wrapper(r, kids[i], 1) ELSE kids[i]]
      BY <2>2 DEF Housed
    <2>6. \A i \in I : kids[i] \in Guests(d, r)
      BY <1>6, GuestFacts
    <2>7. ASSUME NEW i \in I PROVE t[Wrapper(r, kids[i], 1)].name = r.to[1]
      <3>1. t[Wrapper(r, kids[i], 1)] = Node(r.to[1], NoText, <<kids[i]>>)
        BY <2>6 DEF HousedIs
      <3> QED
        BY <3>1, NodeFacts
    <2> HIDE DEF I, Q, kids
    <2>8. DOMAIN t[n].kids = DOMAIN kids
      BY <2>5
    <2>9. ASSUME NEW i \in DOMAIN kids PROVE t[t[n].kids[i]].name = q.child <=> i \in Q
      <3>1. CASE i \in I
        BY <1>2, <2>4, <2>5, <2>7, <3>1
      <3>2. CASE i \notin I
        BY <1>2, <1>4, <1>5, <2>5, <3>2
      <3> QED
        BY <3>1, <3>2
    <2>10. Named(t, n, q.child) = Q
      BY <1>3, <2>8, <2>9 DEF Named
    <2>11. \A i \in Q : t[n].kids[i] = kids[i]
      BY <1>2, <1>3, <2>4, <2>5
    <2> QED
      BY <1>3, <2>2, <2>8, <2>10, <2>11 DEF kids, Q, Finds
  <1>7. CASE n \notin Parents(d, r)
    <2>1. t[n] = d[n]
      BY <1>7 DEF HousedIs
    <2>2. Named(t, n, q.child) = Q
      BY <1>4, <1>5, <2>1 DEF Named
    <2> QED
      BY <1>3, <1>7, <2>1, <2>2 DEF Finds
  <1> QED
    BY <1>6, <1>7

LEMMA GuestsAfter ==
    ASSUME NEW d, Good(d), NEW r, NEW q, Apart(r, q), NEW t, HousedIs(d, r, t)
    PROVE  Parents(t, q) = Parents(d, q) /\ Guests(t, q) = Guests(d, q)
  <1>1. \A m \in DOMAIN d : m \in DOMAIN t /\ t[m].name = d[m].name
    BY HousedNames
  <1>2. \A n \in DOMAIN d : d[n].name = q.parent => Named(t, n, q.child) = Named(d, n, q.child)
    <2>1. \A n \in DOMAIN d : d[n].name = q.parent => Finds(d, q, t, n)
      BY HousedAfter
    <2> QED
      BY <2>1 DEF Finds
  <1>3. ASSUME NEW n \in DOMAIN t, t[n].name = q.parent PROVE n \in DOMAIN d /\ d[n].name = q.parent
    <2>1. CASE n \in DOMAIN d
      BY <1>1, <1>3, <2>1
    <2>2. CASE n \in Houses(d, r)
      <3>1. PICK k \in Guests(d, r) : n = Wrapper(r, k, 1)
        BY <2>2 DEF Houses
      <3>2. t[n] = Node(r.to[1], NoText, <<k>>)
        BY <3>1 DEF HousedIs
      <3>3. t[n].name = r.to[1]
        BY <3>2, NodeFacts
      <3>4. 1 \in DOMAIN r.to
        BY EmptySeq DEF Apart
      <3>5. r.to[1] \in Range(r.to)
        BY <3>4 DEF Range
      <3> QED
        BY <1>3, <3>3, <3>5 DEF Apart
    <2> QED
      BY <2>1, <2>2 DEF HousedIs
  <1>4. \A n : n \in Parents(t, q) <=> n \in Parents(d, q)
    BY <1>1, <1>2, <1>3 DEF Parents, NodesNamed
  <1>5. Parents(t, q) = Parents(d, q)
    BY <1>4 DEF Parents
  <1>6. ASSUME NEW n \in Parents(d, q) PROVE kidsNamed(t, n, q.child) = kidsNamed(d, n, q.child)
    <2> DEFINE Q == Named(d, n, q.child)
    <2>1. n \in DOMAIN d /\ d[n].name = q.parent
      BY ParentsFacts
    <2>2. Named(t, n, q.child) = Q /\ Q \in SUBSET DOMAIN d[n].kids /\ \A i \in Q : t[n].kids[i] = d[n].kids[i]
      <3>1. Finds(d, q, t, n)
        BY <2>1, HousedAfter
      <3> QED
        BY <3>1 DEF Finds
    <2>3. DOMAIN d[n].kids = 1..Len(d[n].kids) /\ Len(d[n].kids) \in Nat
      BY <2>1, KidFacts
    <2> HIDE DEF Q
    <2>4. IsFiniteSet(Q) /\ Q \in SUBSET Nat
      <3>1. IsFiniteSet(DOMAIN d[n].kids)
        BY <2>3, FS_Interval
      <3>2. IsFiniteSet(Q)
        BY <2>2, <3>1, FS_Subset
      <3> QED
        BY <2>2, <2>3, <3>2
    <2>5. Pick(t[n].kids, Q) = Pick(d[n].kids, Q)
      BY <2>2, <2>4, PickSame
    <2> QED
      BY <2>2, <2>5 DEF kidsNamed, Q
  <1>7. Guests(t, q) = Guests(d, q)
    BY <1>5, <1>6 DEF Guests
  <1> QED
    BY <1>5, <1>7

LEMMA HousedOnce ==
    ASSUME NEW d, Good(d), NEW t, NEW n \in DOMAIN d, t[n] = d[n], NEW q, Finds(d, q, t, n)
    PROVE  Housed(t, q, n) = Housed(d, q, n)
  BY DEF Housed, Finds

LEMMA HousedOver ==
    ASSUME NEW d, NEW r, NEW q, NEW t, NEW n, t[n].kids = Housed(d, r, n), Finds(d, q, t, n)
    PROVE  Housed(t, q, n) = HousedBoth(d, r, q, n)
  <1> DEFINE kids == d[n].kids
             I == Named(d, n, r.child)
             Q == Named(d, n, q.child)
  <1>1. t[n].kids = [i \in DOMAIN kids |-> IF i \in I THEN Wrapper(r, kids[i], 1) ELSE kids[i]]
    BY DEF Housed
  <1>2. Named(t, n, q.child) = Q /\ Q \in SUBSET DOMAIN kids /\ \A i \in Q : t[n].kids[i] = kids[i]
    BY DEF Finds
  <1>3. Housed(t, q, n) =
          [i \in DOMAIN t[n].kids |-> IF i \in Named(t, n, q.child) THEN Wrapper(q, t[n].kids[i], 1) ELSE t[n].kids[i]]
    BY DEF Housed
  <1>4. HousedBoth(d, r, q, n) =
          [i \in DOMAIN kids |-> IF i \in Q THEN Wrapper(q, kids[i], 1)
                                 ELSE IF i \in I THEN Wrapper(r, kids[i], 1) ELSE kids[i]]
    BY DEF HousedBoth
  <1> HIDE DEF kids, I, Q
  <1>5. DOMAIN t[n].kids = DOMAIN kids
    BY <1>1
  <1>6. \A i \in DOMAIN kids : (i \in Q => t[n].kids[i] = kids[i])
                               /\ (i \notin Q => t[n].kids[i] = IF i \in I THEN Wrapper(r, kids[i], 1) ELSE kids[i])
    BY <1>1, <1>2
  <1> QED
    BY <1>2, <1>3, <1>4, <1>5, <1>6

\* What a wrapEach leaves after another one, of other elements, said in terms of the document before both.
LEMMA HouseTwice ==
    ASSUME NEW d, Good(d), NEW r, NEW q, Apart(r, q), Fresh(d, Tag(r)), NEW t, HousedIs(d, r, t),
           NEW u, HousedIs(t, q, u)
    PROVE  HousedTwice(d, r, q, u)
  <1> DEFINE R == Parents(d, r)
             Q == Parents(d, q)
             G == Guests(d, r)
             H == Guests(d, q)
  <1>1. Parents(t, q) = Q /\ Guests(t, q) = H
    BY GuestsAfter
  <1>2. \A n \in DOMAIN d : n \in DOMAIN t /\ t[n].name = d[n].name
    BY HousedNames
  <1>3. (\A n \in R : n \in DOMAIN d) /\ \A n \in Q : n \in DOMAIN d /\ d[n].name = q.parent
    BY ParentsFacts
  <1>4. \A k : Wrapper(r, k, 1) \notin DOMAIN d
    BY AtFacts DEF Fresh, Wrapper
  <1>5. \A k \in G : Wrapper(r, k, 1) \in DOMAIN t
    BY DEF HousedIs, Houses
  <1>6. DOMAIN u = (DOMAIN d \cup Houses(d, r)) \cup Houses(d, q) /\ u = [n \in DOMAIN u |-> u[n]]
    <2>1. Houses(t, q) = Houses(d, q)
      BY <1>1 DEF Houses
    <2>2. DOMAIN t = DOMAIN d \cup Houses(d, r)
      BY DEF HousedIs
    <2>3. DOMAIN u = DOMAIN t \cup Houses(t, q) /\ u = [n \in DOMAIN u |-> u[n]]
      BY DEF HousedIs
    <2> QED
      BY <2>1, <2>2, <2>3
  <1>7. \A n \in DOMAIN t \ Q : u[n] = t[n]
    BY <1>1 DEF HousedIs
  <1>8. \A n \in DOMAIN d \ R : t[n] = d[n]
    BY DEF HousedIs
  <1>9. \A n \in R : t[n] = WithKids(d[n], Housed(d, r, n))
    BY DEF HousedIs
  <1>10. \A n \in Q : u[n] = WithKids(t[n], Housed(t, q, n))
    BY <1>1 DEF HousedIs
  <1>11. \A k \in H : u[Wrapper(q, k, 1)] = Node(q.to[1], NoText, <<k>>)
    BY <1>1 DEF HousedIs
  <1>12. \A k \in G : t[Wrapper(r, k, 1)] = Node(r.to[1], NoText, <<k>>)
    BY DEF HousedIs
  <1>13. ASSUME NEW n \in Q PROVE Finds(d, q, t, n)
    BY <1>3, HousedAfter
  <1>14. \A n \in Q \ R : Housed(t, q, n) = Housed(d, q, n)
    BY <1>3, <1>8, <1>13, HousedOnce
  <1>15. ASSUME NEW n \in Q, n \in R PROVE Housed(t, q, n) = HousedBoth(d, r, q, n)
    <2>1. t[n].kids = Housed(d, r, n)
      BY <1>3, <1>15, HousedAfter
    <2> QED
      BY <1>13, <2>1, HousedOver
  <1>16. \A n \in DOMAIN d : \A a, b : WithKids(WithKids(d[n], a), b) = WithKids(d[n], b)
    <2> SUFFICES ASSUME NEW n \in DOMAIN d, NEW a, NEW b PROVE WithKids(WithKids(d[n], a), b) = WithKids(d[n], b)
      OBVIOUS
    <2>1. d[n] = Node(d[n].name, d[n].text, d[n].kids)
      BY KidFacts
    <2>2. WithKids(d[n], a) = Node(d[n].name, d[n].text, a) /\ WithKids(d[n], b) = Node(d[n].name, d[n].text, b)
      BY <2>1, NodeFacts
    <2>3. WithKids(Node(d[n].name, d[n].text, a), b) = Node(d[n].name, d[n].text, b)
      BY NodeFacts
    <2> QED
      BY <2>2, <2>3
  <1> HIDE DEF R, Q, G, H
  <1>17. \A n \in DOMAIN d \ (R \cup Q) : u[n] = d[n]
    BY <1>2, <1>7, <1>8
  <1>18. \A n \in R \ Q : u[n] = WithKids(d[n], Housed(d, r, n))
    BY <1>2, <1>3, <1>7, <1>9
  <1>19. \A n \in Q \ R : u[n] = WithKids(d[n], Housed(d, q, n))
    BY <1>3, <1>8, <1>10, <1>14
  <1>20. \A n \in R \cap Q : u[n] = WithKids(d[n], HousedBoth(d, r, q, n))
    BY <1>3, <1>9, <1>10, <1>15, <1>16
  <1>21. ASSUME NEW k \in G PROVE u[Wrapper(r, k, 1)] = Node(r.to[1], NoText, <<k>>)
    <2>1. Wrapper(r, k, 1) \in DOMAIN t \ Q
      BY <1>3, <1>4, <1>5
    <2> QED
      BY <1>7, <1>12, <2>1
  <1> QED
    BY <1>6, <1>11, <1>17, <1>18, <1>19, <1>20, <1>21 DEF HousedTwice, R, Q, G, H

\* A parent of two wrapEach rules gets the same children in either order.
LEMMA HousedBothSame ==
    ASSUME NEW d, Good(d), NEW r, NEW q, Apart(r, q), NEW n \in Parents(d, r) \cap Parents(d, q)
    PROVE  HousedBoth(d, r, q, n) = HousedBoth(d, q, r, n)
  <1>1. Named(d, n, r.child) \cap Named(d, n, q.child) = {}
    <2>1. d[n].name = r.parent /\ d[n].name = q.parent
      BY ParentsFacts
    <2>2. r.child # q.child
      BY <2>1 DEF Apart, Tag
    <2> QED
      BY <2>2 DEF Named
  <1> QED
    BY <1>1 DEF HousedBoth

LEMMA HousedTwiceSame ==
    ASSUME NEW d, Good(d), NEW r, NEW q, Apart(r, q), NEW u, HousedTwice(d, r, q, u), NEW v, HousedTwice(d, q, r, v)
    PROVE  u = v
  <1>1. DOMAIN u = DOMAIN v
    BY DEF HousedTwice
  <1>2. ASSUME NEW n \in DOMAIN u PROVE u[n] = v[n]
    <2>1. CASE n \in Parents(d, r) \cap Parents(d, q)
      BY <2>1, HousedBothSame DEF HousedTwice
    <2>2. CASE n \in DOMAIN d /\ n \notin Parents(d, r) \cap Parents(d, q)
      BY <2>2 DEF HousedTwice
    <2>3. CASE n \in Houses(d, r)
      <3>1. PICK k \in Guests(d, r) : n = Wrapper(r, k, 1)
        BY <2>3 DEF Houses
      <3>2. u[n] = Node(r.to[1], NoText, <<k>>) /\ v[n] = Node(r.to[1], NoText, <<k>>)
        BY <3>1 DEF HousedTwice
      <3> QED
        BY <3>2
    <2>4. CASE n \in Houses(d, q)
      <3>1. PICK k \in Guests(d, q) : n = Wrapper(q, k, 1)
        BY <2>4 DEF Houses
      <3>2. u[n] = Node(q.to[1], NoText, <<k>>) /\ v[n] = Node(q.to[1], NoText, <<k>>)
        BY <3>1 DEF HousedTwice
      <3> QED
        BY <3>2
    <2> QED
      BY <2>1, <2>2, <2>3, <2>4 DEF HousedTwice
  <1>3. u = [n \in DOMAIN u |-> u[n]] /\ v = [n \in DOMAIN v |-> v[n]]
    BY DEF HousedTwice
  <1> QED
    BY <1>1, <1>2, <1>3

\* Two wrapEach rules commute.
LEMMA wrapEachCommutes ==
    ASSUME NEW d, Good(d), NEW r, NEW q, Apart(r, q), Fresh(d, Tag(r)), Fresh(d, Tag(q))
    PROVE  wrapEach(wrapEach(d, r), q) = wrapEach(wrapEach(d, q), r)
  <1> DEFINE t == wrapEach(d, r)
             s == wrapEach(d, q)
  <1>1. Apart(q, r)
    BY DEF Apart
  <1>2. HousedIs(d, r, t) /\ HousedIs(d, q, s)
    BY wrapEachIs
  <1>3. Good(t) /\ Good(s)
    BY <1>2, wrapEachGood
  <1>4. Fresh(t, Tag(q)) /\ Fresh(s, Tag(r))
    BY <1>2, FreshAfter DEF Apart
  <1> HIDE DEF t, s
  <1>5. HousedIs(t, q, wrapEach(t, q)) /\ HousedIs(s, r, wrapEach(s, r))
    BY <1>3, <1>4, wrapEachIs
  <1>6. HousedTwice(d, r, q, wrapEach(t, q)) /\ HousedTwice(d, q, r, wrapEach(s, r))
    BY <1>1, <1>2, <1>5, HouseTwice
  <1>7. wrapEach(t, q) = wrapEach(s, r)
    BY <1>6, HousedTwiceSame
  <1> QED
    BY <1>7 DEF t, s

--------------------------------------------------------------------------------
(* Ways *)

\* A way goes from the root down, from a node to one of its children.
IsWay(d, w) ==
    /\ w \in Seq(DOMAIN d) /\ w # <<>> /\ w[1] = Root
    /\ \A i \in 1..(Len(w) - 1) : w[i + 1] \in Range(d[w[i]].kids)
Ways(d) == {w \in Seq(DOMAIN d) : IsWay(d, w)}

\* A way down a document goes on to each child of its last node.
LEMMA LongerWay ==
    ASSUME NEW d, Heap(d), NEW w \in Ways(d), NEW k \in Range(d[Last(w)].kids) PROVE Append(w, k) \in Ways(d)
  <1>1. w \in Seq(DOMAIN d) /\ w # <<>> /\ w[1] = Root /\ \A i \in 1..(Len(w) - 1) : w[i + 1] \in Range(d[w[i]].kids)
    BY DEF Ways, IsWay
  <1>2. Len(w) \in Nat /\ Len(w) >= 1 /\ DOMAIN w = 1..Len(w) /\ Last(w) \in DOMAIN d
    BY <1>1 DEF Last
  <1>3. k \in DOMAIN d
    BY <1>2 DEF Heap, Range
  <1> DEFINE v == Append(w, k)
  <1>4. v \in Seq(DOMAIN d) /\ Len(v) = Len(w) + 1 /\ v[Len(w) + 1] = k /\ \A i \in 1..Len(w) : v[i] = w[i]
    BY <1>1, <1>3
  <1> HIDE DEF v
  <1>5. v # <<>> /\ v[1] = Root
    BY <1>1, <1>2, <1>4
  <1>6. ASSUME NEW i \in 1..(Len(v) - 1) PROVE v[i + 1] \in Range(d[v[i]].kids)
    <2>1. CASE i = Len(w)
      BY <1>2, <1>4, <2>1 DEF Last
    <2>2. CASE i # Len(w)
      <3>1. i \in 1..(Len(w) - 1) /\ i \in 1..Len(w) /\ i + 1 \in 1..Len(w)
        <4>1. Len(w) \in Nat /\ Len(v) - 1 = Len(w)
          BY <1>2, <1>4
        <4> QED
          BY <2>2, <4>1
      <3> QED
        BY <1>1, <1>4, <3>1
    <2> QED
      BY <2>1, <2>2
  <1> QED
    BY <1>4, <1>5, <1>6 DEF Ways, IsWay, v

\* What Step works on
Walkers(d) == [todo : Seq(Ways(d)), seen : Seq(Ways(d))]
LEMMA StepFacts == ASSUME NEW d, Heap(d), NEW walk \in Walkers(d) PROVE Step(d, walk) \in Walkers(d)
  <1>1. walk.todo \in Seq(Ways(d)) /\ walk.seen \in Seq(Ways(d))
    BY DEF Walkers
  <1>2. CASE walk.todo = <<>>
    BY <1>2 DEF Step
  <1>3. CASE walk.todo # <<>>
    <2> DEFINE way == Head(walk.todo)
               kids == d[Last(way)].kids
               more == [i \in DOMAIN kids |-> Append(way, kids[i])]
    <2>1. way \in Ways(d) /\ Tail(walk.todo) \in Seq(Ways(d))
      BY <1>1, <1>3
    <2>2. Last(way) \in DOMAIN d
      <3>1. way \in Seq(DOMAIN d) /\ way # <<>>
        BY <2>1 DEF Ways, IsWay
      <3> HIDE DEF way
      <3> QED
        BY <3>1 DEF Last
    <2>3. kids \in Seq(DOMAIN d)
      BY <2>2 DEF Heap
    <2> HIDE DEF way
    <2>4. \A i \in DOMAIN kids : Append(way, kids[i]) \in Ways(d)
      BY <2>1, LongerWay DEF Range
    <2> HIDE DEF kids
    <2>5. more \in Seq(Ways(d))
      <3>1. Len(kids) \in Nat /\ DOMAIN kids = 1..Len(kids)
        BY <2>3
      <3>2. \A i \in 1..Len(kids) : Append(way, kids[i]) \in Ways(d)
        BY <2>4, <3>1
      <3>3. more = [i \in 1..Len(kids) |-> Append(way, kids[i])]
        BY <3>1
      <3> QED
        BY <3>1, <3>2, <3>3, IsASeq
    <2> HIDE DEF more
    <2>6. more \o Tail(walk.todo) \in Seq(Ways(d)) /\ Append(walk.seen, way) \in Seq(Ways(d))
      BY <1>1, <2>1, <2>5
    <2>7. Step(d, walk) = [todo |-> more \o Tail(walk.todo), seen |-> Append(walk.seen, way)]
      BY <1>3 DEF Step, more, kids, way
    <2> QED
      BY <2>6, <2>7 DEF Walkers
  <1> QED
    BY <1>2, <1>3

\* A walk passes ways.
LEMMA WalkFacts == ASSUME NEW d, Heap(d) PROVE Walk(d) \in Seq(Ways(d))
  <1> DEFINE N == Cardinality(DOMAIN d)
             S == Walkers(d)
             a == [todo |-> <<<<Root>>>>, seen |-> <<>>]
             F == [x \in (1..N) \X S |-> Step(d, x[2])]
             X == {i \in Nat : i <= N => Walking(d)[i] \in S}
  <1>1. N \in Nat
    BY FS_CardinalityType DEF Heap
  <1>2. a \in S
    <2>1. <<Root>> \in Seq(DOMAIN d) /\ Len(<<Root>>) = 1 /\ <<Root>>[1] = Root
      BY DEF Heap
    <2>2. <<Root>> \in Ways(d)
      BY <2>1 DEF Ways, IsWay
    <2>3. <<<<Root>>>> \in Seq(Ways(d)) /\ <<>> \in Seq(Ways(d))
      BY <2>2
    <2> QED
      BY <2>3 DEF Walkers
  <1>3. \A i \in 1..N, x \in S : F[<<i, x>>] = Step(d, x)
    OBVIOUS
  <1>4. \A x \in S : Step(d, x) \in S
    BY StepFacts
  <1>5. Stepwise(S, N, F)
    BY <1>3, <1>4 DEF Stepwise
  <1> HIDE DEF N, S, F, a
  <1>6. PICK f : Follows(f, S, a, N, F)
    BY <1>1, <1>2, <1>5, ByRecursion
  <1>7. \A i \in 1..N : f[i - 1] \in S
    BY <1>1, <1>6 DEF Follows
  <1>8. \A i \in 1..N : f[i] = Step(d, f[i - 1])
    BY <1>3, <1>6, <1>7 DEF Follows
  <1>9. f = [i \in 0..N |-> IF i = 0 THEN a ELSE Step(d, f[i - 1])]
    BY <1>1, <1>6, <1>8 DEF Follows
  <1> DEFINE W == Walking(d)
  <1>10. W = [i \in 0..N |-> IF i = 0 THEN a ELSE Step(d, W[i - 1])]
    BY <1>9 DEF Walking, N, a
  <1> HIDE DEF W
  <1>11. W[0] = a
    BY <1>1, <1>10
  <1>12. ASSUME NEW i \in 1..N PROVE W[i] = Step(d, W[i - 1])
    <2>1. i \in 0..N /\ i # 0
      BY <1>1
    <2> QED
      BY <1>10, <2>1
  <1>13. 0 \in X
    BY <1>2, <1>11 DEF W
  <1>14. ASSUME NEW i \in Nat, i \in X PROVE i + 1 \in X
    <2> SUFFICES ASSUME i + 1 <= N PROVE W[i + 1] \in S
      BY DEF W
    <2>1. i + 1 \in 1..N /\ (i + 1) - 1 = i /\ W[i] \in S
      BY <1>1, <1>14 DEF W
    <2> QED
      BY <1>4, <1>12, <2>1
  <1>15. N \in X
    <2> HIDE DEF X
    <2> QED
      BY <1>1, <1>13, <1>14, ByInduction
  <1>16. W[N] \in S
    BY <1>1, <1>15 DEF W
  <1>17. W[N].seen \in Seq(Ways(d))
    BY <1>16 DEF S, Walkers
  <1> QED
    BY <1>17 DEF Walk, W, N

\* A way passes a node once.
LEMMA WayOnce ==
    ASSUME NEW d, Good(d), NEW w \in Ways(d), NEW i \in 1..Len(w), NEW j \in 1..Len(w), i < j
    PROVE  w[i] # w[j]
  <1> DEFINE X == {m \in 1..Len(w) : \E l \in 1..Len(w) : m < l /\ w[m] = w[l]}
  <1>1. w \in Seq(DOMAIN d) /\ w[1] = Root /\ \A m \in 1..(Len(w) - 1) : w[m + 1] \in Range(d[w[m]].kids)
    BY DEF Ways, IsWay
  <1>2. Len(w) \in Nat /\ \A m \in 1..Len(w) : w[m] \in DOMAIN d
    BY <1>1
  <1>3. \A n \in DOMAIN d : Root \notin Range(d[n].kids)
    BY DEF Good, Single
  <1>4. \A m, n \in DOMAIN d : \A k : k \in Range(d[m].kids) /\ k \in Range(d[n].kids) => m = n
    BY DEF Good, Single
  <1> SUFFICES ASSUME X # {} PROVE FALSE
    OBVIOUS
  <1>5. X \subseteq Nat
    BY <1>2
  <1>6. PICK m \in X : \A n \in X : m <= n
    BY <1>5, Least
  <1>7. PICK l \in 1..Len(w) : m < l /\ w[m] = w[l]
    BY <1>6
  <1>8. m \in 1..Len(w)
    BY <1>6
  <1>9. l - 1 \in 1..(Len(w) - 1) /\ (l - 1) + 1 = l /\ l - 1 \in 1..Len(w) /\ m - 1 < l - 1
    BY <1>2, <1>7, <1>8
  <1>10. w[l] \in Range(d[w[l - 1]].kids)
    BY <1>1, <1>9
  <1>11. m # 1
    BY <1>1, <1>2, <1>3, <1>7, <1>9, <1>10
  <1>12. m - 1 \in 1..(Len(w) - 1) /\ (m - 1) + 1 = m /\ m - 1 \in 1..Len(w)
    BY <1>2, <1>7, <1>8, <1>11
  <1>13. w[m] \in Range(d[w[m - 1]].kids)
    BY <1>1, <1>12
  <1>14. w[m - 1] = w[l - 1]
    BY <1>2, <1>4, <1>7, <1>9, <1>10, <1>12, <1>13
  <1>15. m - 1 \in X
    BY <1>9, <1>12, <1>14
  <1> QED
    BY <1>6, <1>8, <1>15

LEMMA ReverseFacts ==
    ASSUME NEW S, NEW s \in Seq(S)
    PROVE  /\ Reverse(s) \in Seq(S) /\ Range(Reverse(s)) = Range(s)
           /\ Len(Reverse(s)) = Len(s)
  <1>1. Len(s) \in Nat /\ DOMAIN s = 1..Len(s) /\ \A i \in 1..Len(s) : s[i] \in S
    OBVIOUS
  <1>2. Reverse(s) = [i \in 1..Len(s) |-> s[(Len(s) - i) + 1]]
    BY DEF Reverse
  <1>3. \A i \in 1..Len(s) : (Len(s) - i) + 1 \in 1..Len(s)
    BY <1>1
  <1>4. \A i \in 1..Len(s) : s[(Len(s) - i) + 1] \in S
    BY <1>1, <1>3
  <1>5. Reverse(s) \in Seq(S) /\ DOMAIN Reverse(s) = 1..Len(s)
    BY <1>1, <1>2, <1>4, IsASeq
  <1>6. ASSUME NEW i \in 1..Len(s) PROVE s[i] \in Range(Reverse(s))
    <2>1. (Len(s) - i) + 1 \in 1..Len(s) /\ (Len(s) - ((Len(s) - i) + 1)) + 1 = i
      BY <1>1
    <2>2. Reverse(s)[(Len(s) - i) + 1] = s[i]
      BY <1>2, <2>1
    <2> QED
      BY <1>5, <2>1, <2>2 DEF Range
  <1>7. ASSUME NEW i \in 1..Len(s) PROVE Reverse(s)[i] \in Range(s)
    BY <1>1, <1>2, <1>3 DEF Range
  <1>8. Range(Reverse(s)) = Range(s)
    BY <1>1, <1>5, <1>6, <1>7 DEF Range
  <1> QED
    BY <1>1, <1>5, <1>8

LEMMA PostOrderFacts == ASSUME NEW d, Heap(d) PROVE PostOrder(d) \in Seq(Ways(d))
  <1> DEFINE m == [n \in DOMAIN d |-> [d[n] EXCEPT !.kids = Reverse(@)]]
  <1>1. ASSUME NEW n \in DOMAIN d
        PROVE  /\ m[n] = Node(d[n].name, d[n].text, Reverse(d[n].kids))
               /\ Reverse(d[n].kids) \in Seq(DOMAIN d) /\ Range(Reverse(d[n].kids)) = Range(d[n].kids) /\ n # None
    <2>1. d[n] = Node(d[n].name, d[n].text, d[n].kids) /\ d[n].kids \in Seq(DOMAIN d) /\ n # None
      BY DEF Heap
    <2>2. [d[n] EXCEPT !.kids = Reverse(@)] = Node(d[n].name, d[n].text, Reverse(d[n].kids))
      BY <2>1 DEF Node
    <2> QED
      BY <2>1, <2>2, ReverseFacts
  <1>2. DOMAIN m = DOMAIN d /\ m = [n \in DOMAIN m |-> m[n]]
    OBVIOUS
  <1>3. PostOrder(d) = Reverse(Walk(m))
    BY DEF PostOrder
  <1> HIDE DEF m
  <1>4. \A n \in DOMAIN d : /\ m[n].name = d[n].name /\ m[n].text = d[n].text /\ m[n].kids = Reverse(d[n].kids)
                            /\ m[n] = Node(m[n].name, m[n].text, m[n].kids)
    BY <1>1, NodeFacts
  <1>5. m = [n \in DOMAIN m |-> Node(m[n].name, m[n].text, m[n].kids)]
    BY <1>2, <1>4
  <1>6. Heap(m)
    BY <1>1, <1>2, <1>4, <1>5 DEF Heap
  <1>7. Walk(m) \in Seq(Ways(m))
    BY <1>6, WalkFacts
  <1>8. Ways(m) \subseteq Ways(d)
    <2> SUFFICES ASSUME NEW w \in Ways(m) PROVE w \in Ways(d)
      OBVIOUS
    <2>1. w \in Seq(DOMAIN d) /\ w # <<>> /\ w[1] = Root
      BY <1>2 DEF Ways, IsWay
    <2>2. ASSUME NEW i \in 1..(Len(w) - 1) PROVE w[i + 1] \in Range(d[w[i]].kids)
      <3>1. w[i + 1] \in Range(m[w[i]].kids)
        BY DEF Ways, IsWay
      <3>2. w[i] \in DOMAIN d
        BY <2>1
      <3> QED
        BY <1>1, <1>4, <3>1, <3>2
    <2> QED
      BY <2>1, <2>2 DEF Ways, IsWay
  <1>9. Reverse(Walk(m)) \in Seq(Ways(m))
    BY <1>7, ReverseFacts
  <1> QED
    BY <1>3, <1>8, <1>9, SeqMonotonic

\* Every way hoist takes is one down the document, with an ancestor of the rule's name above its end.
LEMMA SourcesFacts ==
    ASSUME NEW d, Heap(d), NEW r
    PROVE  /\ Len(Sources(d, r)) \in Nat /\ DOMAIN Sources(d, r) = 1..Len(Sources(d, r))
           /\ \A i \in 1..Len(Sources(d, r)) : Sources(d, r)[i] \in Ways(d) /\ Above(d, r, Sources(d, r)[i]) # {}
  <1> DEFINE all == PostOrder(d)
             I == {i \in DOMAIN all : d[Last(all[i])].name = r.parent /\ Above(d, r, all[i]) # {}}
  <1>1. Sources(d, r) = Pick(all, I)
    BY DEF Sources
  <1>2. all \in Seq(Ways(d))
    BY PostOrderFacts
  <1>3. I \in SUBSET DOMAIN all /\ \A i \in I : Above(d, r, all[i]) # {}
    OBVIOUS
  <1> HIDE DEF all, I
  <1>4. Pick(all, I) \in Seq(Ways(d)) /\ Range(Pick(all, I)) = {all[i] : i \in I}
    BY <1>2, <1>3, PickFacts
  <1>5. \A w \in Range(Pick(all, I)) : Above(d, r, w) # {}
    BY <1>3, <1>4
  <1> DEFINE s == Pick(all, I)
  <1> HIDE DEF s
  <1>6. s \in Seq(Ways(d)) /\ \A w \in Range(s) : Above(d, r, w) # {}
    BY <1>4, <1>5 DEF s
  <1>7. Len(s) \in Nat /\ DOMAIN s = 1..Len(s) /\ \A i \in 1..Len(s) : s[i] \in Ways(d) /\ s[i] \in Range(s)
    BY <1>6 DEF Range
  <1> QED
    BY <1>1, <1>6, <1>7 DEF s

\* A hoist's target is above its source, so it is not the source and has children.
LEMMA TargetFacts ==
    ASSUME NEW d, Good(d), NEW r, NEW w \in Ways(d), Above(d, r, w) # {}
    PROVE  /\ Last(w) \in DOMAIN d /\ Target(d, r, w) \in DOMAIN d
           /\ Target(d, r, w) # Last(w) /\ d[Target(d, r, w)].kids # <<>>
  <1> DEFINE A == Above(d, r, w)
             x == Nth(A, Cardinality(A))
  <1>1. w \in Seq(DOMAIN d) /\ w # <<>> /\ Len(w) \in Nat /\ Len(w) >= 1
    BY DEF Ways, IsWay
  <1>2. A \subseteq 1..(Len(w) - 1)
    BY DEF Above
  <1>3. Target(d, r, w) = w[x]
    BY DEF Target
  <1> HIDE DEF A
  <1>4. IsFiniteSet(A) /\ A \in SUBSET Nat
    <2>1. IsFiniteSet(1..(Len(w) - 1))
      BY <1>1, FS_Interval
    <2>2. IsFiniteSet(A)
      BY <1>2, <2>1, FS_Subset
    <2>3. A \in SUBSET Nat
      BY <1>1, <1>2
    <2> QED
      BY <2>2, <2>3
  <1>5. Cardinality(A) \in Nat /\ \A j \in 1..Cardinality(A) : Nth(A, j) \in A
    BY <1>4, NthFacts
  <1>6. Cardinality(A) # 0
    BY <1>4, FS_EmptySet DEF A
  <1>7. x \in A
    BY <1>5, <1>6
  <1> HIDE DEF x
  <1>8. x \in 1..(Len(w) - 1) /\ x \in 1..Len(w) /\ x < Len(w) /\ Len(w) \in 1..Len(w)
    BY <1>1, <1>2, <1>7
  <1>9. w[x] # w[Len(w)]
    BY <1>8, WayOnce
  <1>10. w[x + 1] \in Range(d[w[x]].kids)
    BY <1>8 DEF Ways, IsWay
  <1>11. d[w[x]].kids # <<>>
    BY <1>10, EmptyFacts
  <1>12. w[x] \in DOMAIN d /\ w[Len(w)] \in DOMAIN d
    BY <1>1, <1>8
  <1> QED
    BY <1>3, <1>9, <1>11, <1>12 DEF Last

--------------------------------------------------------------------------------
(* hoist *)

Stays(t, r, n) == Pick(t[n].kids, DOMAIN t[n].kids \ Named(t, n, r.child))
Fewer(t, r, n, at, i) ==
    /\ t[t[n].kids[i]].text \notin Range(Texts(t, kidsNamed(t, at, r.child)))
    /\ \A j \in Named(t, n, r.child) : j < i => t[t[n].kids[j]].text # t[t[n].kids[i]].text
Taken(t, r, n, at) == {i \in Named(t, n, r.child) : Fewer(t, r, n, at, i)}

Gets(t, r, n, at) == t[at].kids \o Pick(t[n].kids, Taken(t, r, n, at))
\* u is what Up makes of t.
UpOf(t, r, n, at, u) ==
    /\ DOMAIN u = DOMAIN t /\ u = [m \in DOMAIN t |-> u[m]]
    /\ \A m \in DOMAIN t \ {n, at} : u[m] = t[m]
    /\ u[n] = WithKids(t[n], Stays(t, r, n))
    /\ u[at] = WithKids(t[at], Gets(t, r, n, at))

\* What a child's move up does to parent and ancestor, said at once.
LEMMA UpIs ==
    ASSUME NEW t, Good(t), NEW r, NEW n \in DOMAIN t, NEW at \in DOMAIN t, n # at
    PROVE  UpOf(t, r, n, at, Up(t, r, n, at))
  <1> DEFINE some == Taken(t, r, n, at)
             stay == [t EXCEPT ![n].kids = Stays(t, r, n)]
             u == [stay EXCEPT ![at].kids = @ \o Pick(t[n].kids, some)]
  <1>1. Up(t, r, n, at) = u
    BY DEF Up, Moved, Stays, Taken, Fewer
  <1>2. t = [m \in DOMAIN t |-> t[m]]
    BY DEF Good, Heap
  <1> HIDE DEF some
  <1>3. DOMAIN stay = DOMAIN t /\ \A m \in DOMAIN t : stay[m] = IF m = n THEN WithKids(t[n], Stays(t, r, n)) ELSE t[m]
    BY <1>2 DEF WithKids
  <1> HIDE DEF stay
  <1>4. stay[at] = t[at]
    BY <1>3
  <1>5. DOMAIN u = DOMAIN t /\ u = [m \in DOMAIN t |-> u[m]]
    BY <1>3
  <1>6. u[at] = WithKids(t[at], t[at].kids \o Pick(t[n].kids, some))
    BY <1>3, <1>4 DEF WithKids
  <1>7. \A m \in DOMAIN t : m # at => u[m] = stay[m]
    BY <1>3
  <1> HIDE DEF u
  <1>8. u[n] = WithKids(t[n], Stays(t, r, n)) /\ \A m \in DOMAIN t \ {n, at} : u[m] = t[m]
    BY <1>3, <1>7
  <1> QED
    BY <1>1, <1>5, <1>6, <1>8 DEF some, UpOf, Gets

\* What the source of a hoist keeps, and what its target gets
LEMMA UpKids ==
    ASSUME NEW t, Good(t), NEW r, NEW n \in DOMAIN t, NEW at \in DOMAIN t, n # at
    PROVE  /\ Stays(t, r, n) \in Seq(DOMAIN t) /\ IsInjective(Stays(t, r, n))
           /\ Range(Stays(t, r, n)) = {k \in Range(t[n].kids) : t[k].name # r.child}
           /\ Gets(t, r, n, at) \in Seq(DOMAIN t) /\ IsInjective(Gets(t, r, n, at))
           /\ \A k \in Range(t[at].kids) : k \in Range(Gets(t, r, n, at))
           /\ \A k \in Range(Gets(t, r, n, at)) :
                 k \in Range(t[at].kids) \/ (k \in Range(t[n].kids) /\ t[k].name = r.child)
           /\ \A k \in Range(t[n].kids) : t[k].name = r.child =>
                 \E l \in Range(Gets(t, r, n, at)) : t[l].name = r.child /\ t[l].text = t[k].text
  <1> DEFINE N == Named(t, n, r.child)
             T == Taken(t, r, n, at)
             S == DOMAIN t[n].kids \ N
             more == Pick(t[n].kids, T)
  <1>1. /\ t[n].kids \in Seq(DOMAIN t) /\ IsInjective(t[n].kids) /\ t[at].kids \in Seq(DOMAIN t) /\ IsInjective(t[at].kids)
        /\ Range(t[n].kids) \cap Range(t[at].kids) = {} /\ Heap(t) /\ Single(t)
    BY DEF Good, Heap, Single
  <1>2. /\ N \in SUBSET DOMAIN t[n].kids /\ \A i \in DOMAIN t[n].kids : i \in N <=> t[t[n].kids[i]].name = r.child
    BY DEF Named
  <1>3. T \in SUBSET N /\ \A i \in N : i \in T <=> Fewer(t, r, n, at, i)
    BY DEF Taken
  <1>4. S \in SUBSET DOMAIN t[n].kids /\ T \in SUBSET DOMAIN t[n].kids
    BY <1>2, <1>3
  <1>5. Stays(t, r, n) = Pick(t[n].kids, S)
    BY DEF Stays
  <1> HIDE DEF N, T
  <1> HIDE DEF S
  <1>6. /\ Pick(t[n].kids, S) \in Seq(DOMAIN t) /\ IsInjective(Pick(t[n].kids, S))
        /\ Range(Pick(t[n].kids, S)) = {t[n].kids[i] : i \in S}
    BY <1>1, <1>4, PickFacts
  <1>7. more \in Seq(DOMAIN t) /\ IsInjective(more) /\ Range(more) = {t[n].kids[i] : i \in T}
    BY <1>1, <1>4, PickFacts
  <1>8. Range(Stays(t, r, n)) = {k \in Range(t[n].kids) : t[k].name # r.child}
    <2>1. \A k : k \in {t[n].kids[i] : i \in S} <=> k \in Range(t[n].kids) /\ t[k].name # r.child
      BY <1>2 DEF S, Range
    <2> QED
      BY <1>5, <1>6, <2>1
  <1> HIDE DEF more
  <1>9. \A k \in Range(more) : k \in Range(t[n].kids) /\ t[k].name = r.child
    <2>1. \A i \in T : t[n].kids[i] \in Range(t[n].kids) /\ t[t[n].kids[i]].name = r.child
      BY <1>2, <1>3, <1>4 DEF Range
    <2> QED
      BY <1>7, <2>1
  <1>10. Range(t[at].kids) \cap Range(more) = {}
    BY <1>1, <1>9
  <1> DEFINE kids == t[at].kids \o more
  <1>11. kids \in Seq(DOMAIN t) /\ IsInjective(kids) /\ Range(kids) = Range(t[at].kids) \cup Range(more)
    BY <1>1, <1>7, <1>10, ConcatFacts
  <1> HIDE DEF kids
  <1>12. ASSUME NEW k \in Range(t[n].kids), t[k].name = r.child
         PROVE  \E l \in Range(kids) : t[l].name = r.child /\ t[l].text = t[k].text
    <2> DEFINE J == {i \in N : t[t[n].kids[i]].text = t[k].text}
               held == kidsNamed(t, at, r.child)
    <2>1. PICK h \in DOMAIN t[n].kids : t[n].kids[h] = k
      BY DEF Range
    <2>2. h \in J
      BY <1>2, <1>12, <2>1
    <2>3. J \subseteq Nat /\ J \subseteq N
      BY <1>1, <1>2
    <2>4. PICK i \in J : \A j \in J : i <= j
      BY <2>2, <2>3, Least
    <2>5. i \in N /\ t[t[n].kids[i]].text = t[k].text /\ t[t[n].kids[i]].name = r.child
      BY <1>2, <2>4
    <2>6. \A j \in N : j < i => t[t[n].kids[j]].text # t[t[n].kids[i]].text
      <3>1. \A j \in N : j \in J => ~(j < i)
        BY <2>3, <2>4
      <3> QED
        BY <2>5, <3>1
    <2>7. held \in Seq(DOMAIN t) /\ Range(held) = {l \in Range(t[at].kids) : t[l].name = r.child}
      BY <1>1, NamedFacts
    <2>8. CASE Fewer(t, r, n, at, i)
      <3>1. i \in T
        BY <1>3, <2>5, <2>8
      <3>2. t[n].kids[i] \in Range(kids)
        BY <1>7, <1>11, <3>1
      <3> QED
        BY <2>5, <3>2
    <2>9. CASE ~ Fewer(t, r, n, at, i)
      <3>1. t[t[n].kids[i]].text \in Range(Texts(t, held))
        BY <2>6, <2>9 DEF Fewer, N
      <3> HIDE DEF held
      <3>2. PICK x \in DOMAIN held : t[held[x]].text = t[t[n].kids[i]].text
        BY <3>1 DEF Range, Texts
      <3>3. held[x] \in Range(held)
        BY <3>2 DEF Range
      <3> QED
        BY <1>11, <2>5, <2>7, <3>2, <3>3
    <2> QED
      BY <2>8, <2>9
  <1>13. \A k \in Range(t[at].kids) : k \in Range(kids)
    BY <1>11
  <1>14. \A k \in Range(kids) : k \in Range(t[at].kids) \/ (k \in Range(t[n].kids) /\ t[k].name = r.child)
    BY <1>9, <1>11
  <1>15. Stays(t, r, n) \in Seq(DOMAIN t) /\ IsInjective(Stays(t, r, n))
    BY <1>5, <1>6
  <1>16. kids = Gets(t, r, n, at)
    BY DEF kids, more, T, Gets
  <1> QED
    BY <1>8, <1>11, <1>12, <1>13, <1>14, <1>15, <1>16

\* t after a step of a hoist in u: what has moved are children of the hoisted name.
Lifted(t, u, r, n, at) ==
    /\ Good(u) /\ DOMAIN u = DOMAIN t
    /\ \A m \in DOMAIN t : u[m].name = t[m].name /\ u[m].text = t[m].text
    /\ \A m \in DOMAIN t \ {n, at} : u[m].kids = t[m].kids
    /\ Range(u[n].kids) = {k \in Range(t[n].kids) : t[k].name # r.child}
    /\ \A k \in Range(t[at].kids) : k \in Range(u[at].kids)
    /\ \A k \in Range(u[at].kids) : k \in Range(t[at].kids) \/ (k \in Range(t[n].kids) /\ t[k].name = r.child)
    /\ \A k \in Range(t[n].kids) : t[k].name = r.child =>
          \E l \in Range(u[at].kids) : t[l].name = r.child /\ t[l].text = t[k].text

LEMMA UpFacts ==
    ASSUME NEW t, Good(t), NEW r, NEW n \in DOMAIN t, NEW at \in DOMAIN t, n # at
    PROVE  Lifted(t, Up(t, r, n, at), r, n, at)
  <1> DEFINE u == Up(t, r, n, at)
             kids == Gets(t, r, n, at)
             U == [k \in DOMAIN t |-> IF k \in Range(kids) THEN at ELSE Parent(t, k)]
  <1>1. /\ DOMAIN u = DOMAIN t /\ u = [m \in DOMAIN t |-> u[m]]
        /\ \A m \in DOMAIN t \ {n, at} : u[m] = t[m]
        /\ u[n] = WithKids(t[n], Stays(t, r, n))
        /\ u[at] = WithKids(t[at], kids)
    <2>1. UpOf(t, r, n, at, u)
      BY UpIs
    <2> HIDE DEF u
    <2> QED
      BY <2>1 DEF UpOf
  <1>2. /\ Stays(t, r, n) \in Seq(DOMAIN t) /\ IsInjective(Stays(t, r, n))
        /\ Range(Stays(t, r, n)) = {k \in Range(t[n].kids) : t[k].name # r.child}
        /\ kids \in Seq(DOMAIN t) /\ IsInjective(kids)
        /\ \A k \in Range(t[at].kids) : k \in Range(kids)
        /\ \A k \in Range(kids) : k \in Range(t[at].kids) \/ (k \in Range(t[n].kids) /\ t[k].name = r.child)
        /\ \A k \in Range(t[n].kids) : t[k].name = r.child =>
              \E l \in Range(kids) : t[l].name = r.child /\ t[l].text = t[k].text
    BY UpKids
  <1> HIDE DEF u, kids
  <1>3. \A m \in DOMAIN t : /\ t[m] = Node(t[m].name, t[m].text, t[m].kids) /\ m # None
                            /\ t[m].kids \in Seq(DOMAIN t) /\ IsInjective(t[m].kids) /\ Root \notin Range(t[m].kids)
    BY DEF Good, Heap, Single
  <1>4. /\ u[n] = Node(t[n].name, t[n].text, Stays(t, r, n))
        /\ u[at] = Node(t[at].name, t[at].text, kids)
    BY <1>1, <1>3, NodeFacts
  <1>5. /\ u[n].name = t[n].name /\ u[n].text = t[n].text /\ u[n].kids = Stays(t, r, n)
        /\ u[at].name = t[at].name /\ u[at].text = t[at].text /\ u[at].kids = kids
    BY <1>4, NodeFacts
  <1>6. \A m \in DOMAIN t : \A k \in Range(t[m].kids) : k \in DOMAIN t /\ k # Root /\ Parent(t, k) = m
    <2>1. \A m \in DOMAIN t : \A k \in Range(t[m].kids) : Parent(t, k) = m
      BY ParentFacts DEF Good
    <2> QED
      BY <1>3, <2>1 DEF Range
  <1>7. \A k \in Range(kids) : k \in DOMAIN t /\ k # Root /\ U[k] = at
    BY <1>2, <1>6
  <1>8. ASSUME NEW m \in DOMAIN t, m # at PROVE \A k \in Range(u[m].kids) : k # Root /\ U[k] = m
    <2> SUFFICES ASSUME NEW k \in Range(u[m].kids) PROVE k # Root /\ U[k] = m
      OBVIOUS
    <2>1. k \in Range(t[m].kids) /\ (m = n => t[k].name # r.child)
      BY <1>1, <1>2, <1>5, <1>8
    <2>2. k \in DOMAIN t /\ k # Root /\ Parent(t, k) = m
      BY <1>6, <2>1
    <2>3. k \notin Range(kids)
      BY <1>2, <1>6, <1>8, <2>1, <2>2
    <2> QED
      BY <2>2, <2>3
  <1> HIDE DEF U
  <1>9. ASSUME NEW m \in DOMAIN t PROVE Fits(<<m, u[m]>>, DOMAIN t, U)
    <2>1. u[m] = Node(u[m].name, u[m].text, u[m].kids) /\ u[m].kids \in Seq(DOMAIN t) /\ IsInjective(u[m].kids)
      BY <1>1, <1>2, <1>3, <1>4, <1>5
    <2>2. \A k \in Range(u[m].kids) : k # Root /\ U[k] = m
      BY <1>5, <1>7, <1>8
    <2>3. <<m, u[m]>>[1] = m /\ <<m, u[m]>>[2] = u[m] /\ m # None
      BY <1>3
    <2> QED
      BY <2>1, <2>2, <2>3 DEF Fits
  <1>10. IsFiniteSet(DOMAIN u) /\ Root \in DOMAIN u
    BY <1>1 DEF Good, Heap
  <1>11. Good(u)
    BY <1>1, <1>9, <1>10, GoodByHome
  <1>12. \A m \in DOMAIN t : u[m].name = t[m].name /\ u[m].text = t[m].text
    BY <1>1, <1>5
  <1>13. \A m \in DOMAIN t \ {n, at} : u[m].kids = t[m].kids
    BY <1>1
  <1>14. Lifted(t, u, r, n, at)
    BY <1>1, <1>2, <1>5, <1>11, <1>12, <1>13 DEF Lifted
  <1> QED
    BY <1>14 DEF u

Holds(d, r, t, text) ==
    \E m \in DOMAIN d : d[m].kids # <<>> /\ \E l \in Range(t[m].kids) : d[l].name = r.child /\ d[l].text = text
\* What a hoist of r has made of d in t: nothing but children of the name has moved, and each of
\* their texts is still there.
Hoists(d, r, t) ==
    /\ Good(t) /\ DOMAIN t = DOMAIN d
    /\ \A m \in DOMAIN d : t[m].name = d[m].name /\ t[m].text = d[m].text
    /\ \A m \in DOMAIN d : \A k \in Range(d[m].kids) : d[k].name # r.child => k \in Range(t[m].kids)
    /\ \A m \in DOMAIN d : \A k \in Range(d[m].kids) : d[k].name = r.child => Holds(d, r, t, d[k].text)

LEMMA HoistsFirst == ASSUME NEW d, Good(d), NEW r PROVE Hoists(d, r, d)
  <1>1. ASSUME NEW m \in DOMAIN d, NEW k \in Range(d[m].kids), d[k].name = r.child PROVE Holds(d, r, d, d[k].text)
    <2>1. d[m].kids # <<>>
      BY <1>1, EmptyFacts
    <2> QED
      BY <1>1, <2>1 DEF Holds
  <1> QED
    BY <1>1 DEF Hoists

LEMMA HoistsNext ==
    ASSUME NEW d, Good(d), NEW r, NEW t, Hoists(d, r, t), NEW n \in DOMAIN d, NEW at \in DOMAIN d, n # at,
           d[at].kids # <<>>, NEW u, Lifted(t, u, r, n, at)
    PROVE  Hoists(d, r, u)
  <1>1. /\ Good(t) /\ DOMAIN t = DOMAIN d /\ \A m \in DOMAIN d : t[m].name = d[m].name /\ t[m].text = d[m].text
    BY DEF Hoists
  <1>2. \A m \in DOMAIN d : \A k \in Range(t[m].kids) : k \in DOMAIN d
    BY <1>1 DEF Good, Heap, Range
  <1>3. Good(u) /\ DOMAIN u = DOMAIN d /\ \A m \in DOMAIN d : u[m].name = d[m].name /\ u[m].text = d[m].text
    BY <1>1 DEF Lifted
  <1>4. ASSUME NEW m \in DOMAIN d, NEW k \in Range(t[m].kids), m # n \/ d[k].name # r.child PROVE k \in Range(u[m].kids)
    <2>1. k \in DOMAIN d /\ t[k].name = d[k].name
      BY <1>1, <1>2
    <2>2. CASE m = n
      BY <1>4, <2>1, <2>2 DEF Lifted
    <2>3. CASE m = at
      BY <2>3 DEF Lifted
    <2>4. CASE m # n /\ m # at
      BY <1>1, <2>4 DEF Lifted
    <2> QED
      BY <2>2, <2>3, <2>4
  <1>5. ASSUME NEW m \in DOMAIN d, NEW k \in Range(d[m].kids), d[k].name # r.child PROVE k \in Range(u[m].kids)
    <2>1. k \in Range(t[m].kids)
      BY <1>5 DEF Hoists
    <2> QED
      BY <1>4, <1>5, <2>1
  <1>6. ASSUME NEW text, Holds(d, r, t, text) PROVE Holds(d, r, u, text)
    <2>1. PICK m \in DOMAIN d : d[m].kids # <<>> /\ \E l \in Range(t[m].kids) : d[l].name = r.child /\ d[l].text = text
      BY <1>6 DEF Holds
    <2>2. PICK l \in Range(t[m].kids) : d[l].name = r.child /\ d[l].text = text
      BY <2>1
    <2>3. CASE m # n
      <3>1. l \in Range(u[m].kids)
        BY <1>4, <2>3
      <3> QED
        BY <2>1, <2>2, <3>1 DEF Holds
    <2>4. CASE m = n
      <3>1. l \in DOMAIN d /\ t[l].name = r.child /\ t[l].text = text
        BY <1>1, <1>2, <2>2
      <3>2. PICK k \in Range(u[at].kids) : t[k].name = r.child /\ t[k].text = text
        BY <2>4, <3>1 DEF Lifted
      <3>3. k \in DOMAIN d
        BY <1>3 DEF Good, Heap, Range
      <3>4. d[k].name = r.child /\ d[k].text = text
        BY <1>1, <3>2, <3>3
      <3> QED
        BY <3>4 DEF Holds
    <2> QED
      BY <2>3, <2>4
  <1>7. ASSUME NEW m \in DOMAIN d, NEW k \in Range(d[m].kids), d[k].name = r.child PROVE Holds(d, r, u, d[k].text)
    BY <1>6, <1>7 DEF Hoists
  <1> QED
    BY <1>3, <1>5, <1>7 DEF Hoists

LEMMA HoistingFacts == ASSUME NEW d, Good(d), NEW r PROVE Hoists(d, r, Hoisting(d, r)[Len(Sources(d, r))])
  <1> DEFINE ways == Sources(d, r)
             N == Len(ways)
             from(i) == Last(ways[i])
             to(i) == Target(d, r, ways[i])
             M == {Node(d[m].name, d[m].text, kids) : m \in DOMAIN d, kids \in Seq(DOMAIN d)}
             S == {t \in [DOMAIN d -> M] : Hoists(d, r, t)}
             F == [x \in (1..N) \X S |-> Up(x[2], r, from(x[1]), to(x[1]))]
  <1>1. /\ N \in Nat
        /\ \A i \in 1..N : ways[i] \in Ways(d) /\ Above(d, r, ways[i]) # {}
    BY SourcesFacts DEF Good
  <1>2. \A i \in 1..N : from(i) \in DOMAIN d /\ to(i) \in DOMAIN d /\ to(i) # from(i) /\ d[to(i)].kids # <<>>
    BY <1>1, TargetFacts
  <1> HIDE DEF from, to, N
  <1>3. ASSUME NEW t, Hoists(d, r, t) PROVE t \in S
    <2>1. /\ DOMAIN t = DOMAIN d /\ t = [m \in DOMAIN d |-> t[m]]
          /\ \A m \in DOMAIN d : t[m] = Node(d[m].name, d[m].text, t[m].kids) /\ t[m].kids \in Seq(DOMAIN d)
      BY <1>3 DEF Hoists, Good, Heap
    <2>2. \A m \in DOMAIN d : t[m] \in M
      BY <2>1
    <2> HIDE DEF M
    <2>3. t \in [DOMAIN d -> M]
      BY <2>1, <2>2
    <2> QED
      BY <1>3, <2>3
  <1>4. \A t \in S : Hoists(d, r, t)
    OBVIOUS
  <1>5. \A i \in 1..N, t \in S : F[<<i, t>>] = Up(t, r, from(i), to(i))
    OBVIOUS
  <1>6. ASSUME NEW i \in 1..N, NEW t \in S PROVE Up(t, r, from(i), to(i)) \in S
    <2> HIDE DEF S
    <2>1. Hoists(d, r, t) /\ Good(t) /\ DOMAIN t = DOMAIN d
      BY <1>4 DEF Hoists
    <2>2. Lifted(t, Up(t, r, from(i), to(i)), r, from(i), to(i))
      BY <1>2, <2>1, UpFacts
    <2>3. Hoists(d, r, Up(t, r, from(i), to(i)))
      BY <1>2, <2>1, <2>2, HoistsNext
    <2> QED
      BY <1>3, <2>3
  <1> HIDE DEF S, F
  <1>7. Stepwise(S, N, F)
    BY <1>5, <1>6 DEF Stepwise
  <1>8. d \in S
    BY <1>3, HoistsFirst
  <1>9. PICK f : Follows(f, S, d, N, F)
    BY <1>1, <1>7, <1>8, ByRecursion
  <1>10. \A i \in 1..N : f[i - 1] \in S
    BY <1>1, <1>9 DEF Follows
  <1>11. \A i \in 1..N : f[i] = Up(f[i - 1], r, from(i), to(i))
    BY <1>5, <1>9, <1>10 DEF Follows
  <1>12. f = [i \in 0..N |-> IF i = 0 THEN d ELSE Up(f[i - 1], r, from(i), to(i))]
    BY <1>1, <1>9, <1>11 DEF Follows
  <1> DEFINE H == Hoisting(d, r)
             X == {i \in Nat : i <= N => H[i] \in S}
  <1>13. H = [i \in 0..N |-> IF i = 0 THEN d ELSE Up(H[i - 1], r, from(i), to(i))]
    BY <1>12 DEF Hoisting, N, from, to
  <1> HIDE DEF H
  <1>14. H[0] = d
    BY <1>1, <1>13
  <1>15. ASSUME NEW i \in 1..N PROVE H[i] = Up(H[i - 1], r, from(i), to(i))
    <2>1. i \in 0..N /\ i # 0
      BY <1>1
    <2> QED
      BY <1>13, <2>1
  <1>16. 0 \in X
    BY <1>8, <1>14
  <1>17. ASSUME NEW i \in Nat, i \in X PROVE i + 1 \in X
    <2> SUFFICES ASSUME i + 1 <= N PROVE H[i + 1] \in S
      OBVIOUS
    <2>1. i + 1 \in 1..N /\ (i + 1) - 1 = i /\ H[i] \in S
      BY <1>1, <1>17
    <2> QED
      BY <1>6, <1>15, <2>1
  <1>18. N \in X
    <2> HIDE DEF X
    <2> QED
      BY <1>1, <1>16, <1>17, ByInduction
  <1>19. Hoists(d, r, H[N])
    BY <1>1, <1>4, <1>18
  <1> QED
    BY <1>19 DEF H, N

\* A hoist keeps a tree a tree, and makes no nodes.
LEMMA hoistFacts ==
    ASSUME NEW d, Good(d), NEW r
    PROVE  /\ Good(hoist(d, r)) /\ DOMAIN hoist(d, r) \subseteq DOMAIN d
           /\ Nodes(hoist(d, r)) = DOMAIN hoist(d, r)
  <1> DEFINE t == Hoisting(d, r)[Len(Sources(d, r))]
  <1>1. Hoists(d, r, t)
    BY HoistingFacts
  <1>2. hoist(d, r) = Tree(t)
    BY DEF hoist
  <1> HIDE DEF t
  <1>3. Heap(t) /\ Single(t) /\ DOMAIN t = DOMAIN d
    BY <1>1 DEF Hoists, Good
  <1>4. Heap(Tree(t)) /\ DOMAIN Tree(t) = Nodes(t) /\ Nodes(t) \subseteq DOMAIN t /\ Nodes(Tree(t)) = Nodes(t) /\ Single(Tree(t))
    BY <1>3, TreeFacts
  <1> QED
    BY <1>2, <1>3, <1>4 DEF Good

--------------------------------------------------------------------------------
(* What elements say *)

\* A document in which every node is found again, by name and text, says no less.
LEMMA SaidMore ==
    ASSUME NEW d, NEW t,
           \A n \in DOMAIN d : \E m \in DOMAIN t : t[m].name = d[n].name /\ t[m].text = d[n].text
    PROVE  Said(d) \subseteq Said(t)
  <1> SUFFICES ASSUME NEW x \in Said(d) PROVE x \in Said(t)
    OBVIOUS
  <1>1. PICK n \in {m \in DOMAIN d : d[m].text # NoText} : x = <<d[n].name, d[n].text>>
    BY DEF Said
  <1>2. PICK m \in DOMAIN t : t[m].name = d[n].name /\ t[m].text = d[n].text
    BY <1>1
  <1>3. m \in {l \in DOMAIN t : t[l].text # NoText} /\ x = <<t[m].name, t[m].text>>
    BY <1>1, <1>2
  <1> QED
    BY <1>3 DEF Said

LEMMA HasParent ==
    ASSUME NEW d, Good(d), Nodes(d) = DOMAIN d, NEW n \in DOMAIN d, n # Root
    PROVE  \E m \in DOMAIN d : n \in Range(d[m].kids)
  <1> DEFINE X == {k \in DOMAIN d : k = Root \/ \E m \in DOMAIN d : k \in Range(d[m].kids)}
  <1>1. \A m \in DOMAIN d : Range(d[m].kids) \subseteq DOMAIN d
    BY DEF Good, Heap, Range
  <1>2. Root \in X /\ X \in SUBSET DOMAIN d
    BY DEF Good, Heap
  <1>3. Closed(d, X)
    BY <1>1 DEF Closed
  <1> HIDE DEF X
  <1>4. Nodes(d) \subseteq X
    BY <1>2, <1>3, NodesFacts DEF Good
  <1> QED
    BY <1>4 DEF X

\* A hoist of leaves leaves every other node in the document, and of the leaves one of each text.
LEMMA hoistSaid ==
    ASSUME NEW d, Good(d), Nodes(d) = DOMAIN d, NEW r, \A n \in DOMAIN d : d[n].name = r.child => d[n].kids = <<>>
    PROVE  Said(d) \subseteq Said(hoist(d, r))
  <1> DEFINE t == Hoisting(d, r)[Len(Sources(d, r))]
             X == Nodes(t)
             Y == {n \in DOMAIN d : n \in X \/ d[n].name = r.child}
  <1>1. Hoists(d, r, t)
    BY HoistingFacts
  <1>2. hoist(d, r) = Tree(t)
    BY DEF hoist
  <1> HIDE DEF t
  <1>3. /\ Heap(t) /\ DOMAIN t = DOMAIN d
        /\ \A m \in DOMAIN d : t[m].name = d[m].name /\ t[m].text = d[m].text
        /\ \A m \in DOMAIN d : \A k \in Range(d[m].kids) : d[k].name # r.child => k \in Range(t[m].kids)
        /\ \A m \in DOMAIN d : \A k \in Range(d[m].kids) : d[k].name = r.child => Holds(d, r, t, d[k].text)
    BY <1>1 DEF Hoists, Good
  <1>4. DOMAIN Tree(t) = X /\ \A n \in X : Tree(t)[n] = t[n]
    BY <1>3, TreeFacts
  <1>5. X \subseteq DOMAIN t /\ Root \in X /\ Closed(t, X)
    BY <1>3, NodesFacts
  <1> HIDE DEF X
  <1>6. Closed(d, Y)
    <2> SUFFICES ASSUME NEW n \in Y, NEW k \in Range(d[n].kids) PROVE k \in Y
      BY DEF Closed
    <2>1. n \in DOMAIN d /\ k \in DOMAIN d
      BY DEF Good, Heap, Range
    <2>2. d[n].kids # <<>>
      BY EmptyFacts
    <2>3. n \in X
      BY <2>1, <2>2
    <2>4. CASE d[k].name = r.child
      BY <2>1, <2>4
    <2>5. CASE d[k].name # r.child
      <3>1. k \in Range(t[n].kids)
        BY <1>3, <2>1, <2>5
      <3> QED
        BY <1>5, <2>1, <2>3, <3>1 DEF Closed
    <2> QED
      BY <2>4, <2>5
  <1>7. Root \in Y /\ Y \in SUBSET DOMAIN d
    BY <1>3, <1>5
  <1> HIDE DEF Y
  <1>8. DOMAIN d \subseteq Y
    BY <1>6, <1>7, NodesFacts DEF Good
  <1>9. ASSUME NEW n \in DOMAIN d PROVE \E m \in DOMAIN Tree(t) : Tree(t)[m].name = d[n].name /\ Tree(t)[m].text = d[n].text
    <2>1. CASE n \in X
      BY <1>3, <1>4, <2>1
    <2>2. CASE n \notin X
      <3>1. d[n].name = r.child /\ n # Root
        BY <1>5, <1>8, <2>2 DEF Y
      <3>2. PICK p \in DOMAIN d : n \in Range(d[p].kids)
        BY <3>1, HasParent
      <3>3. Holds(d, r, t, d[n].text)
        BY <1>3, <3>1, <3>2
      <3>4. PICK m \in DOMAIN d : d[m].kids # <<>> /\ \E l \in Range(t[m].kids) : d[l].name = r.child /\ d[l].text = d[n].text
        BY <3>3 DEF Holds
      <3>5. PICK l \in Range(t[m].kids) : d[l].name = r.child /\ d[l].text = d[n].text
        BY <3>4
      <3>6. m \in X
        BY <1>8, <3>4 DEF Y
      <3>7. l \in X
        BY <1>5, <3>6 DEF Closed
      <3> QED
        BY <1>3, <1>4, <1>5, <3>1, <3>5, <3>7
    <2> QED
      BY <2>1, <2>2
  <1> QED
    BY <1>2, <1>9, SaidMore

--------------------------------------------------------------------------------
(* The inductive invariant *)

\* Who has made nodes so far
Makers == {<<>>} \cup {<<Structural[i]>> : i \in 1..done} \cup {Tag(r) : r \in Rules \ left}
\* Until the rules are done, what one makes is told apart from all there is.
Told == stage \in {"structural", "rules"} => \A n \in DOMAIN doc : By(n) \in Makers
\* Until the hoist, the document holds nothing that is not reached from its root, and what is
\* hoisted has no children.
Hoistable ==
    stage \in {"structural", "rules"} => \A r \in left : r.kind = "hoist" =>
        Nodes(doc) = DOMAIN doc /\ \A n \in DOMAIN doc : doc[n].name = r.child => doc[n].kids = <<>>
IInv ==
    /\ done \in 0..Len(Structural) /\ left \in SUBSET Rules
    /\ stage = "structural" => left = Rules /\ Nodes(doc) = DOMAIN doc
    /\ Good(doc) /\ Told /\ Hoistable

\* The identifiers of nodes the next structural step makes are not in use yet.
LEMMA FreshTransform ==
    ASSUME IInv, stage = "structural", done < Len(Structural) PROVE Fresh(doc, <<Structural[done + 1]>>)
  <1> SUFFICES ASSUME NEW n \in DOMAIN doc, By(n) = <<Structural[done + 1]>> PROVE FALSE
    BY DEF Fresh
  <1>1. done \in Nat /\ done + 1 \in 1..Len(Structural) /\ Len(Structural) \in Nat
    BY StructuralAssumption DEF IInv
  <1>2. By(n) \in {<<>>} \cup {<<Structural[i]>> : i \in 1..done}
    BY DEF IInv, Told, Makers
  <1>3. <<Structural[done + 1]>> # <<>>
    OBVIOUS
  <1>4. PICK i \in 1..done : <<Structural[done + 1]>> = <<Structural[i]>>
    BY <1>2, <1>3
  <1>5. Structural[done + 1] = Structural[i] /\ i \in 1..Len(Structural) /\ i # done + 1
    BY <1>1, <1>4
  <1>6. \A x, y \in 1..Len(Structural) : Structural[x] = Structural[y] => x = y
    BY StructuralAssumption DEF IsInjective
  <1> QED
    BY <1>1, <1>5, <1>6

\* The identifiers of nodes a rule makes that has not been applied are not in use yet.
LEMMA FreshRule ==
    ASSUME IInv, stage \in {"structural", "rules"}, NEW r \in left PROVE Fresh(doc, Tag(r))
  <1> SUFFICES ASSUME NEW n \in DOMAIN doc, By(n) = Tag(r) PROVE FALSE
    BY DEF Fresh
  <1>1. r \in Rules /\ left \in SUBSET Rules
    BY DEF IInv
  <1>2. By(n) \in Makers
    BY DEF IInv, Told
  <1>3. Tag(r) # <<>> /\ \A x : Tag(r) # <<x>>
    BY DEF Tag
  <1>4. PICK q \in Rules \ left : Tag(r) = Tag(q)
    BY <1>2, <1>3 DEF Makers
  <1>5. r = q
    BY <1>1, <1>4, RulesAssumption
  <1> QED
    BY <1>4, <1>5

\* A step that gives children only to nodes of built names leaves the leaves of other names leaves.
LEMMA LeavesKept ==
    ASSUME NEW d, NEW t, Leaves(d, t), NEW name, name \notin Built,
           \A n \in DOMAIN d : d[n].name = name => d[n].kids = <<>>
    PROVE  \A n \in DOMAIN t : t[n].name = name => t[n].kids = <<>>
  BY DEF Leaves

LEMMA InitIInv == ASSUME Init PROVE IInv
  <1>1. IsTree(doc) /\ \A n \in DOMAIN doc : By(n) = <<>>
    BY DocumentsAssumption DEF Init
  <1>2. Good(doc) /\ Nodes(doc) = DOMAIN doc
    BY <1>1 DEF IsTree, Good, Heap
  <1>3. Told
    BY <1>1 DEF Told, Makers
  <1>4. \A r \in Rules : r.kind = "hoist" => \A n \in DOMAIN doc : doc[n].name = r.child => doc[n].kids = <<>>
    BY HoistedAssumption DEF Init, NodesNamed
  <1>5. Hoistable
    BY <1>2, <1>4 DEF Hoistable, Init
  <1>6. Len(Structural) \in Nat
    BY StructuralAssumption
  <1> QED
    BY <1>2, <1>3, <1>5, <1>6 DEF Init, IInv

LEMMA TransformIInv == ASSUME IInv, Transform PROVE IInv'
  <1> DEFINE by == <<Structural[done + 1]>>
  <1>1. /\ stage = "structural" /\ done \in Nat /\ done + 1 \in 1..Len(Structural) /\ Len(Structural) \in Nat
        /\ doc' = structural(Structural[done + 1], doc) /\ done' = done + 1 /\ stage' = stage /\ left' = left
        /\ left = Rules
    BY StructuralAssumption DEF Transform, IInv
  <1>2. Structural[done + 1] \in {"dated-segments", "unpriced-penalties", "seat-row-number", "definition-owner"}
    BY <1>1, StructuralAssumption
  <1>3. Good(doc) /\ Nodes(doc) = DOMAIN doc /\ Fresh(doc, by)
    BY <1>1, FreshTransform DEF IInv, Transform
  <1>4. Kept(doc, structural(Structural[done + 1], doc), by)
    BY <1>2, <1>3, structuralFacts
  <1> HIDE DEF by
  <1>5. Good(doc') /\ Nodes(doc') = DOMAIN doc' /\ Places(doc, doc', by) /\ Leaves(doc, doc')
    BY <1>1, <1>4 DEF Kept
  <1>6. Told'
    <2> SUFFICES ASSUME NEW n \in DOMAIN doc' PROVE By(n) \in Makers'
      BY DEF Told
    <2>1. CASE n \in DOMAIN doc
      <3>1. By(n) \in Makers
        BY <1>1, <2>1 DEF IInv, Told
      <3>2. Makers \subseteq Makers'
        BY <1>1 DEF Makers
      <3> QED
        BY <3>1, <3>2
    <2>2. CASE By(n) = by
      BY <1>1, <2>2 DEF Makers, by
    <2> QED
      BY <1>5, <2>1, <2>2 DEF Places
  <1>7. Hoistable'
    <2> SUFFICES ASSUME NEW r \in left, r.kind = "hoist"
                 PROVE  \A n \in DOMAIN doc' : doc'[n].name = r.child => doc'[n].kids = <<>>
      BY <1>1, <1>5 DEF Hoistable
    <2>1. r.child \notin Built
      BY <1>1, HoistedAssumption
    <2>2. \A n \in DOMAIN doc : doc[n].name = r.child => doc[n].kids = <<>>
      BY <1>1 DEF IInv, Hoistable
    <2> QED
      BY <1>5, <2>1, <2>2, LeavesKept
  <1> QED
    BY <1>1, <1>5, <1>6, <1>7 DEF IInv

LEMMA ValuesIInv == ASSUME IInv, Values PROVE IInv'
  <1>1. /\ stage = "structural" /\ stage' = "rules" /\ doc' = values(doc) /\ done' = done /\ left' = left
        /\ Good(doc) /\ left = Rules /\ Nodes(doc) = DOMAIN doc
    BY DEF Values, IInv
  <1>2. /\ Good(values(doc)) /\ Nodes(values(doc)) = Nodes(doc) /\ DOMAIN values(doc) = DOMAIN doc
        /\ \A n \in DOMAIN doc : values(doc)[n].name = doc[n].name /\ values(doc)[n].kids = doc[n].kids
    BY <1>1, valuesFacts
  <1>3. Told'
    BY <1>1, <1>2 DEF IInv, Told, Makers
  <1>4. Hoistable'
    BY <1>1, <1>2 DEF IInv, Hoistable
  <1> QED
    BY <1>1, <1>2, <1>3, <1>4 DEF IInv

\* What a rule keeps: a good heap with no new place but its own.
LEMMA applyFacts ==
    ASSUME NEW d, Good(d), NEW r \in Rules, Fresh(d, Tag(r))
    PROVE  Good(apply(d, r)) /\ Places(d, apply(d, r), Tag(r))
  <1>1. r.kind \in {"hoist", "wrap", "wrapEach"} /\ r.to \in Seq(STRING) /\ r.to # <<>>
    BY RulesAssumption
  <1>2. \A k, i : By(Wrapper(r, k, i)) = Tag(r)
    BY AtFacts DEF Wrapper
  <1>3. CASE r.kind = "hoist"
    <2>1. apply(d, r) = hoist(d, r)
      BY <1>3 DEF apply
    <2> QED
      BY <2>1, hoistFacts DEF Places
  <1>4. CASE r.kind = "wrap"
    <2>1. apply(d, r) = wrap(d, r)
      BY <1>4 DEF apply
    <2>2. WrappedIs(d, r, wrap(d, r))
      BY WrapIs
    <2>3. Good(wrap(d, r))
      BY <1>1, <2>2, wrapGood
    <2>4. Places(d, wrap(d, r), Tag(r))
      BY <1>2, <2>2 DEF WrappedIs, Wraps, Places
    <2> QED
      BY <2>1, <2>3, <2>4
  <1>5. CASE r.kind = "wrapEach"
    <2>1. apply(d, r) = wrapEach(d, r)
      BY <1>5 DEF apply
    <2>2. HousedIs(d, r, wrapEach(d, r))
      BY wrapEachIs
    <2>3. Good(wrapEach(d, r))
      BY <2>2, wrapEachGood
    <2>4. Places(d, wrapEach(d, r), Tag(r))
      BY <1>2, <2>2 DEF HousedIs, Houses, Places
    <2> QED
      BY <2>1, <2>3, <2>4
  <1> QED
    BY <1>1, <1>3, <1>4, <1>5

LEMMA RuleIInv == ASSUME IInv, NEW r \in Rules, Rule(r) PROVE IInv'
  <1>1. /\ stage = "rules" /\ r \in left /\ doc' = apply(doc, r) /\ left' = left \ {r} /\ done' = done /\ stage' = stage
        /\ \A q \in left : q.kind \notin Later[r.kind]
    BY DEF Rule
  <1>2. Good(doc) /\ Fresh(doc, Tag(r)) /\ left \in SUBSET Rules
    BY <1>1, FreshRule DEF IInv
  <1>3. Good(doc') /\ Places(doc, doc', Tag(r))
    BY <1>1, <1>2, applyFacts
  <1>4. Told'
    <2> SUFFICES ASSUME NEW n \in DOMAIN doc' PROVE By(n) \in Makers'
      BY DEF Told
    <2>1. CASE n \in DOMAIN doc
      <3>1. By(n) \in Makers
        BY <1>1, <2>1 DEF IInv, Told
      <3>2. Makers \subseteq Makers'
        BY <1>1 DEF Makers
      <3> QED
        BY <3>1, <3>2
    <2>2. CASE By(n) = Tag(r)
      BY <1>1, <2>2 DEF Makers
    <2> QED
      BY <1>3, <2>1, <2>2 DEF Places
  <1>5. Hoistable'
    <2> SUFFICES ASSUME NEW q \in left \ {r}, q.kind = "hoist" PROVE FALSE
      BY <1>1 DEF Hoistable
    <2>1. q \in Rules /\ q \in left /\ q # r
      BY <1>2
    <2>2. r.kind \in {"hoist", "wrap", "wrapEach"}
      BY RulesAssumption
    <2>3. r.kind # "hoist"
      BY <2>1, ApartAssumption
    <2>4. "hoist" \in Later[r.kind]
      BY <2>2, <2>3 DEF Later
    <2> QED
      BY <1>1, <2>1, <2>4
  <1> QED
    BY <1>1, <1>2, <1>3, <1>4, <1>5 DEF IInv

LEMMA DropIInv == ASSUME IInv, Drop PROVE IInv'
  <1>1. Good(doc')
    BY dropFacts DEF Drop, IInv
  <1> QED
    BY <1>1 DEF Drop, IInv, Told, Hoistable

LEMMA RenameIInv == ASSUME IInv, Rename PROVE IInv'
  <1>1. Good(rename(doc))
    BY renameFacts DEF IInv
  <1>2. Good(sortBelowRoot(rename(doc)))
    BY <1>1, sortBelowRootFacts
  <1> QED
    BY <1>2 DEF Rename, IInv, Told, Hoistable

\* Every step keeps the invariant.
LEMMA NextIInv == ASSUME IInv, [Next]_vars PROVE IInv'
  <1>1. CASE Transform
    BY <1>1, TransformIInv
  <1>2. CASE Values
    BY <1>2, ValuesIInv
  <1>3. CASE \E r \in Rules : Rule(r)
    BY <1>3, RuleIInv
  <1>4. CASE Drop
    BY <1>4, DropIInv
  <1>5. CASE Rename
    BY <1>5, RenameIInv
  <1>6. CASE UNCHANGED vars
    BY <1>6 DEF vars, IInv, Told, Hoistable, Makers
  <1> QED
    BY <1>1, <1>2, <1>3, <1>4, <1>5, <1>6 DEF Next

\* The document is a good heap throughout, and each transform and rule finds it as it must.
THEOREM Invariant == Spec => []IInv
  <1>1. Init => IInv
    BY InitIInv
  <1>2. IInv /\ [Next]_vars => IInv'
    BY NextIInv
  <1> QED
    BY <1>1, <1>2, PTL DEF Spec

\* No node is ever in two places of the document.
THEOREM OnePlaceHolds == Spec => []OnePlace
  <1>1. IInv => OnePlace
    BY DEF IInv, Good, OnePlace
  <1> QED
    BY <1>1, Invariant, PTL

\* Two rules of one kind that are left give the same document in either order.
LEMMA RulesCommute ==
    ASSUME IInv, stage = "rules", NEW r \in left, NEW q \in left, r.kind = q.kind
    PROVE  apply(apply(doc, r), q) = apply(apply(doc, q), r)
  <1>1. r \in Rules /\ q \in Rules /\ Good(doc) /\ Fresh(doc, Tag(r)) /\ Fresh(doc, Tag(q))
    BY FreshRule DEF IInv
  <1>2. r.kind \in {"hoist", "wrap", "wrapEach"}
    BY <1>1, RulesAssumption
  <1>3. CASE r = q
    BY <1>3
  <1>4. CASE r # q
    <2>1. r.kind # "hoist"
      BY <1>1, <1>4, ApartAssumption
    <2>2. Tag(r) # Tag(q)
      BY <1>1, <1>4, RulesAssumption
    <2>3. r.to \in Seq(STRING) /\ q.to \in Seq(STRING) /\ r.to # <<>> /\ q.to # <<>>
      BY <1>1, RulesAssumption
    <2>4. /\ q.parent \notin Range(r.to) /\ (q.parent = r.parent => q.child # r.to[1])
          /\ r.parent \notin Range(q.to) /\ (r.parent = q.parent => r.child # q.to[1])
      BY <1>1, <2>1, ApartAssumption
    <2>5. Apart(r, q)
      BY <2>2, <2>3, <2>4 DEF Apart
    <2>6. CASE r.kind = "wrap"
      <3>1. wrap(wrap(doc, r), q) = wrap(wrap(doc, q), r)
        BY <1>1, <2>5, wrapCommutes
      <3>2. \A d : apply(d, r) = wrap(d, r) /\ apply(d, q) = wrap(d, q)
        BY <2>6 DEF apply
      <3> QED
        BY <3>1, <3>2
    <2>7. CASE r.kind = "wrapEach"
      <3>1. wrapEach(wrapEach(doc, r), q) = wrapEach(wrapEach(doc, q), r)
        BY <1>1, <2>5, wrapEachCommutes
      <3>2. \A d : apply(d, r) = wrapEach(d, r) /\ apply(d, q) = wrapEach(d, q)
        BY <2>7 DEF apply
      <3> QED
        BY <3>1, <3>2
    <2> QED
      BY <1>2, <2>1, <2>6, <2>7
  <1> QED
    BY <1>3, <1>4

\* The order in which the maps hand out the rules of a kind makes no difference.
THEOREM EitherOrderHolds == Spec => []EitherOrder
  <1>1. IInv => EitherOrder
    BY RulesCommute DEF EitherOrder
  <1> QED
    BY <1>1, Invariant, PTL

\* No wrap, wrapEach or hoist takes a text from the document.
LEMMA RuleSaid == ASSUME IInv, NEW r \in Rules, Rule(r) PROVE Said(doc) \subseteq Said(doc')
  <1>1. stage = "rules" /\ r \in left /\ doc' = apply(doc, r)
    BY DEF Rule
  <1>2. Good(doc) /\ Fresh(doc, Tag(r))
    BY <1>1, FreshRule DEF IInv
  <1>3. r.kind \in {"hoist", "wrap", "wrapEach"}
    BY RulesAssumption
  <1>4. CASE r.kind = "hoist"
    <2>1. apply(doc, r) = hoist(doc, r)
      BY <1>4 DEF apply
    <2>2. Nodes(doc) = DOMAIN doc /\ \A n \in DOMAIN doc : doc[n].name = r.child => doc[n].kids = <<>>
      BY <1>1, <1>4 DEF IInv, Hoistable
    <2> QED
      BY <1>1, <1>2, <2>1, <2>2, hoistSaid
  <1>5. CASE r.kind = "wrap"
    <2>1. apply(doc, r) = wrap(doc, r)
      BY <1>5 DEF apply
    <2>2. WrappedIs(doc, r, wrap(doc, r))
      BY <1>2, WrapIs
    <2>3. \A n \in DOMAIN doc : n \in DOMAIN wrap(doc, r) /\ wrap(doc, r)[n].name = doc[n].name
                                /\ wrap(doc, r)[n].text = doc[n].text
      BY <1>2, <2>2, WrappedNames
    <2>4. Said(doc) \subseteq Said(wrap(doc, r))
      BY <2>3, SaidMore
    <2> QED
      BY <1>1, <2>1, <2>4
  <1>6. CASE r.kind = "wrapEach"
    <2>1. apply(doc, r) = wrapEach(doc, r)
      BY <1>6 DEF apply
    <2>2. HousedIs(doc, r, wrapEach(doc, r))
      BY <1>2, wrapEachIs
    <2>3. \A n \in DOMAIN doc : n \in DOMAIN wrapEach(doc, r) /\ wrapEach(doc, r)[n].name = doc[n].name
                                /\ wrapEach(doc, r)[n].text = doc[n].text
      BY <1>2, <2>2, HousedNames
    <2>4. Said(doc) \subseteq Said(wrapEach(doc, r))
      BY <2>3, SaidMore
    <2> QED
      BY <1>1, <2>1, <2>4
  <1> QED
    BY <1>3, <1>4, <1>5, <1>6

\* No rule loses what an element says.
THEOREM NothingUnsaidHolds == Spec => NothingUnsaid
  <1>1. ASSUME IInv, [Next]_vars, stage = "rules", stage' = "rules" PROVE Said(doc) \subseteq Said(doc')
    <2>1. CASE \E r \in Rules : Rule(r)
      BY <1>1, <2>1, RuleSaid
    <2>2. CASE UNCHANGED vars
      BY <2>2 DEF vars
    <2> QED
      BY <1>1, <2>1, <2>2 DEF Next, Transform, Values, Drop, Rename
  <1>2. IInv /\ [Next]_vars => [stage = "rules" /\ stage' = "rules" => Said(doc) \subseteq Said(doc')]_vars
    BY <1>1
  <1> QED
    BY <1>2, Invariant, PTL DEF Spec, NothingUnsaid

================================================================================
