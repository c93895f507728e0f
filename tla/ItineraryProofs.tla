------------------------- MODULE ItineraryProofs -------------------------
(***************************************************************************)
(* Proofs about Itinerary: whatever the references and the order in which  *)
(* Go hands out its maps, every version is served from one directory with  *)
(* unique identifiers of legs, and every answer is the trip that was asked *)
(* for, or at least one of its shape, with its next-day arrivals kept.     *)
(*                                                                         *)
(* The first part is about Query: numbering airports by first appearance   *)
(* is a bijection.  What TLAPS has no induction for is taken from the      *)
(* least element of a set of numbers.                                      *)
(***************************************************************************)
EXTENDS Itinerary, FiniteSetTheorems, WellFoundedInduction, SequenceTheorems, TLAPS

--------------------------------------------------------------------------------
(* Sets of numbers *)

\* Any set of naturals with an element has a least one.
LEMMA Least == ASSUME NEW S \in SUBSET Nat, S # {} PROVE \E m \in S : \A k \in S : m <= k
  <1> DEFINE Upto(m) == {k \in S : k <= m}
  <1>1. \A m \in S : Upto(m) \in FiniteSubsetsOf(Nat)
    <2>1. \A m \in S : IsFiniteSet(Upto(m))
      BY FS_BoundedSetOfNaturals
    <2> QED BY <2>1 DEF FiniteSubsetsOf
  <1> DEFINE T == {Upto(m) : m \in S}
  <1>2. \E x \in T : \A y \in T : <<y, x>> \notin StrictSubsetOrdering(Nat)
    <2>1. T \subseteq FiniteSubsetsOf(Nat) /\ T # {}
      BY <1>1
    <2> HIDE DEF T
    <2> QED BY <2>1, FS_StrictSubsetOrderingWellFounded, WFMin
  <1>3. PICK m \in S : \A n \in S : <<Upto(n), Upto(m)>> \notin StrictSubsetOrdering(Nat)
    BY <1>2
  <1>4. ASSUME NEW k \in S, k < m PROVE FALSE
    <2>1. \A n \in S : n \in Nat
      OBVIOUS
    <2>2. m \in Upto(m) /\ m \notin Upto(k)
      <3>1. m <= m /\ ~(m <= k)
        BY <1>4, <2>1
      <3> QED BY <3>1
    <2>3. \A j \in S : j <= k => j <= m
      BY <1>4, <2>1
    <2>4. Upto(k) \in SUBSET Nat /\ Upto(m) \in SUBSET Nat
      OBVIOUS
    <2>5. Upto(k) \subseteq Upto(m)
      BY <2>3
    <2> HIDE DEF Upto
    <2>6. <<Upto(k), Upto(m)>> \in StrictSubsetOrdering(Nat)
      BY <2>2, <2>4, <2>5 DEF StrictSubsetOrdering
    <2> QED BY <2>6, <1>3
  <1> QED BY <1>4

\* And a bounded one has a greatest.
LEMMA Greatest == ASSUME NEW b \in Nat, NEW S \in SUBSET (1..b), S # {} PROVE \E m \in S : \A k \in S : k <= m
  <1> DEFINE T == {b - k : k \in S}
  <1>1. T \in SUBSET Nat /\ T # {}
    <2>1. \A k \in S : b - k \in Nat
      OBVIOUS
    <2> QED BY <2>1
  <1>2. PICK l \in T : \A k \in T : l <= k
    <2> HIDE DEF T
    <2> QED BY <1>1, Least
  <1>3. PICK m \in S : l = b - m
    OBVIOUS
  <1>4. \A k \in S : b - m <= b - k
    BY <1>2, <1>3
  <1> QED BY <1>4

--------------------------------------------------------------------------------
(* Query: airports are numbered by their first appearance. *)

List(s) == DOMAIN s = 1..Len(s) /\ Len(s) \in Nat

LEMMA FirstOf ==
  ASSUME NEW s, List(s), NEW x \in Range(s)
  PROVE  /\ First(s, x) \in DOMAIN s /\ s[First(s, x)] = x
         /\ \A j \in 1..(First(s, x) - 1) : s[j] # x
  <1> DEFINE at == {i \in DOMAIN s : s[i] = x}
  <1>1. at \in SUBSET Nat /\ at # {}
    BY DEF List, Range
  <1>2. PICK m \in at : \A k \in at : m <= k
    <2> HIDE DEF at
    <2> QED BY <1>1, Least
  <1>3. \A j \in 1..(m - 1) : s[j] # x
    BY <1>2 DEF List
  <1> QED BY <1>2, <1>3 DEF First

\* The values that have appeared by the time x does
SoFar(s, x) == {s[j] : j \in 1..First(s, x)}

LEMMA SoFarOf ==
  ASSUME NEW s, List(s)
  PROVE  /\ IsFiniteSet(Range(s))
         /\ \A x \in Range(s) : SoFar(s, x) \subseteq Range(s) /\ x \in SoFar(s, x) /\ IsFiniteSet(SoFar(s, x))
         /\ \A x, y \in Range(s) : First(s, x) < First(s, y) => SoFar(s, x) \subseteq SoFar(s, y) /\ y \notin SoFar(s, x)
  <1>1. IsFiniteSet(Range(s))
    <2> DEFINE f == [i \in 1..Len(s) |-> s[i]]
    <2>1. f \in Surjection(1..Len(s), Range(s))
      BY DEF List, Range, Surjection
    <2>2. IsFiniteSet(1..Len(s))
      BY FS_Interval DEF List
    <2> HIDE DEF f
    <2> QED BY <2>1, <2>2, FS_Surjection
  <1>2. \A x \in Range(s) : SoFar(s, x) \subseteq Range(s) /\ x \in SoFar(s, x)
    BY FirstOf DEF List, Range, SoFar
  <1>3. \A x \in Range(s) : IsFiniteSet(SoFar(s, x))
    BY <1>1, <1>2, FS_Subset
  <1>4. ASSUME NEW x \in Range(s), NEW y \in Range(s), First(s, x) < First(s, y)
        PROVE  SoFar(s, x) \subseteq SoFar(s, y) /\ y \notin SoFar(s, x)
    <2>1. First(s, x) \in Nat /\ First(s, y) \in Nat /\ \A j \in 1..(First(s, y) - 1) : s[j] # y
      BY FirstOf DEF List
    <2> QED BY <2>1, <1>4 DEF SoFar
  <1> QED BY <1>1, <1>2, <1>3, <1>4

LEMMA PlaceOf ==
  ASSUME NEW s, List(s)
  PROVE  /\ Cardinality(Range(s)) \in Nat
         /\ \A x \in Range(s) : Place(s, x) \in 1..Cardinality(Range(s))
         /\ \A x, y \in Range(s) : Place(s, x) = Place(s, y) => x = y
         /\ \A n \in 1..Cardinality(Range(s)) : \E x \in Range(s) : Place(s, x) = n
  <1> DEFINE N == Cardinality(Range(s))
  <1>1. N \in Nat
    BY SoFarOf, FS_CardinalityType
  <1>2. \A x \in Range(s) : Place(s, x) = Cardinality(SoFar(s, x))
    BY DEF Place, SoFar
  <1>3. ASSUME NEW x \in Range(s) PROVE Place(s, x) \in 1..N
    <2>1. Cardinality(SoFar(s, x)) \in Nat /\ Cardinality(SoFar(s, x)) <= N
      BY SoFarOf, FS_Subset, FS_CardinalityType
    <2>2. Cardinality(SoFar(s, x)) # 0
      BY SoFarOf, FS_EmptySet
    <2> QED BY <2>1, <2>2, <1>1, <1>2
  <1>4. ASSUME NEW x \in Range(s), NEW y \in Range(s), First(s, x) < First(s, y)
        PROVE  Place(s, x) # Place(s, y)
    <2>1. SoFar(s, x) \in SUBSET SoFar(s, y) /\ SoFar(s, x) # SoFar(s, y) /\ IsFiniteSet(SoFar(s, y))
      BY <1>4, SoFarOf
    <2>2. Cardinality(SoFar(s, x)) # Cardinality(SoFar(s, y))
      BY <2>1, FS_Subset
    <2> QED BY <2>2, <1>2
  <1>5. ASSUME NEW x \in Range(s), NEW y \in Range(s), Place(s, x) = Place(s, y)
        PROVE  x = y
    <2>1. First(s, x) = First(s, y)
      BY <1>4, <1>5, FirstOf DEF List
    <2> QED BY <2>1, FirstOf
  <1>6. \A n \in 1..N : \E x \in Range(s) : Place(s, x) = n
    <2> DEFINE f == [x \in Range(s) |-> Place(s, x)]
    <2>1. f \in Injection(Range(s), 1..N)
      <3>1. f \in [Range(s) -> 1..N]
        BY <1>3
      <3>2. \A x, y \in Range(s) : f[x] = f[y] => x = y
        BY <1>5
      <3> HIDE DEF f
      <3> QED BY <3>1, <3>2 DEF Injection, IsInjective
    <2>2. IsFiniteSet(1..N) /\ Cardinality(1..N) = N
      BY <1>1, FS_Interval
    <2>3. f \in Surjection(Range(s), 1..N)
      <3> HIDE DEF f
      <3> QED BY <2>1, <2>2, FS_Injection
    <2> QED BY <2>3 DEF Surjection
  <1> QED BY <1>1, <1>3, <1>5, <1>6

LEMMA DistinctOf ==
  ASSUME NEW s, List(s)
  PROVE  /\ DOMAIN Distinct(s) = 1..Cardinality(Range(s))
         /\ \A x \in Range(s) : Place(s, x) \in DOMAIN Distinct(s) /\ Distinct(s)[Place(s, x)] = x
         /\ Range(Distinct(s)) = Range(s) /\ IsInjective(Distinct(s))
         /\ List(Distinct(s)) /\ Len(Distinct(s)) = Cardinality(Range(s))
  <1>1. DOMAIN Distinct(s) = 1..Cardinality(Range(s))
    BY DEF Distinct
  <1>2. ASSUME NEW x \in Range(s)
        PROVE  Place(s, x) \in DOMAIN Distinct(s) /\ Distinct(s)[Place(s, x)] = x
    BY PlaceOf DEF Distinct
  <1>3. \A n \in DOMAIN Distinct(s) : Distinct(s)[n] \in Range(s) /\ Place(s, Distinct(s)[n]) = n
    BY PlaceOf DEF Distinct
  <1>4. Range(Distinct(s)) = Range(s)
    BY <1>2, <1>3 DEF Range
  <1>5. IsInjective(Distinct(s))
    BY <1>3 DEF IsInjective
  <1>6. Len(Distinct(s)) = Cardinality(Range(s))
    <2>1. Distinct(s) \in [1..Cardinality(Range(s)) -> Range(s)]
      BY <1>3 DEF Distinct
    <2>2. Distinct(s) \in Seq(Range(s))
      BY <2>1, PlaceOf, SeqDef
    <2>3. DOMAIN Distinct(s) = 1..Len(Distinct(s)) /\ Len(Distinct(s)) \in Nat
      BY <2>2, LenProperties
    <2> QED BY <2>3, <1>1, PlaceOf
  <1> QED BY <1>1, <1>2, <1>4, <1>5, <1>6, PlaceOf DEF List

LEMMA LegsOf ==
  ASSUME NEW T, NEW legs \in Seq(T), legs # <<>>
  PROVE  List(legs) /\ DOMAIN legs # {} /\ \A i \in DOMAIN legs : legs[i] \in T
  <1>1. Len(legs) # 0
    BY EmptySeq
  <1>2. Len(legs) \in Nat /\ DOMAIN legs = 1..Len(legs) /\ legs \in [1..Len(legs) -> T]
    BY LenProperties
  <1>3. 1 \in 1..Len(legs)
    BY <1>1, <1>2
  <1> QED BY <1>2, <1>3 DEF List

LEMMA ListOf ==
  ASSUME NEW n \in Nat, NEW S, NEW f \in [1..n -> S]
  PROVE  List(f) /\ Len(f) = n
  <1>1. f \in Seq(S)
    BY SeqDef
  <1> QED BY <1>1, LenProperties DEF List

LEMMA SameLength ==
  ASSUME NEW a, NEW b, List(a), List(b), DOMAIN a = DOMAIN b
  PROVE  Len(a) = Len(b)
  <1>1. \A n \in Nat : Cardinality(1..n) = n
    <2>1. \A n \in Nat : Cardinality(1..n) = IF 1 > n THEN 0 ELSE n - 1 + 1
      BY FS_Interval
    <2> QED BY <2>1
  <1> QED BY <1>1 DEF List

LEMMA EndsOf ==
  ASSUME NEW legs, List(legs)
  PROVE  /\ List(Ends(legs)) /\ DOMAIN Ends(legs) = 1..(2 * Len(legs))
         /\ \A i \in DOMAIN legs : legs[i].from \in Range(Ends(legs)) /\ legs[i].to \in Range(Ends(legs))
  <1> DEFINE S == {legs[i].from : i \in DOMAIN legs} \cup {legs[i].to : i \in DOMAIN legs}
  <1>1. 2 * Len(legs) \in Nat
    BY DEF List
  <1>2. \A k \in 1..(2 * Len(legs)) : IF k % 2 = 1 THEN (k + 1) \div 2 \in DOMAIN legs ELSE k \div 2 \in DOMAIN legs
    BY DEF List
  <1>3. Ends(legs) \in [1..(2 * Len(legs)) -> S]
    BY <1>2 DEF Ends
  <1>4. List(Ends(legs))
    <2> HIDE DEF S
    <2> QED BY <1>1, <1>3, ListOf
  <1>5. ASSUME NEW i \in DOMAIN legs
        PROVE  legs[i].from \in Range(Ends(legs)) /\ legs[i].to \in Range(Ends(legs))
    <2>1. /\ 2 * i - 1 \in 1..(2 * Len(legs)) /\ 2 * i \in 1..(2 * Len(legs))
          /\ (2 * i - 1) % 2 = 1 /\ (2 * i - 1 + 1) \div 2 = i /\ (2 * i) % 2 = 0 /\ (2 * i) \div 2 = i
      BY DEF List
    <2>2. \A k \in 1..(2 * Len(legs)) : /\ k % 2 = 1 => Ends(legs)[k] = legs[(k + 1) \div 2].from
                                        /\ k % 2 = 0 => Ends(legs)[k] = legs[k \div 2].to
      BY DEF Ends
    <2>3. Ends(legs)[2 * i - 1] = legs[i].from
      BY <2>1, <2>2
    <2>4. Ends(legs)[2 * i] = legs[i].to
      BY <2>1, <2>2
    <2> QED BY <2>1, <2>3, <2>4 DEF Ends, Range
  <1> QED BY <1>3, <1>4, <1>5

\* The number of an airport says which one it is.
LEMMA AirportAt ==
  ASSUME NEW legs, List(legs), NEW i \in DOMAIN legs, NEW a \in {legs[i].from, legs[i].to}
  PROVE  /\ Place(Ends(legs), a) \in 1..Len(airports(legs))
         /\ airports(legs)[Place(Ends(legs), a)] = a
  <1>1. a \in Range(Ends(legs))
    BY EndsOf
  <1>2. List(Ends(legs))
    BY EndsOf
  <1> HIDE DEF Ends
  <1> QED BY <1>1, <1>2, DistinctOf DEF airports

\* Itineraries of the same shape number their airports the same.
LEMMA SameShape ==
  ASSUME NEW a, NEW b, List(a), List(b), pattern(a) = pattern(b)
  PROVE  /\ Len(a) = Len(b)
         /\ \A i \in DOMAIN a : /\ Place(Ends(a), a[i].from) = Place(Ends(b), b[i].from)
                                /\ Place(Ends(a), a[i].to) = Place(Ends(b), b[i].to)
  <1>1. DOMAIN a = DOMAIN b
    BY DEF pattern
  <1>2. Len(a) = Len(b)
    BY <1>1, SameLength
  <1>3. ASSUME NEW i \in DOMAIN a
        PROVE  /\ Place(Ends(a), a[i].from) = Place(Ends(b), b[i].from)
               /\ Place(Ends(a), a[i].to) = Place(Ends(b), b[i].to)
    <2>1. /\ List(Ends(a)) /\ a[i].from \in Range(Ends(a)) /\ a[i].to \in Range(Ends(a))
          /\ List(Ends(b)) /\ b[i].from \in Range(Ends(b)) /\ b[i].to \in Range(Ends(b))
      BY <1>1, EndsOf
    <2>2. /\ Place(Ends(a), a[i].from) \in Nat /\ Place(Ends(a), a[i].to) \in Nat
          /\ Place(Ends(b), b[i].from) \in Nat /\ Place(Ends(b), b[i].to) \in Nat
      BY <2>1, PlaceOf
    <2>3. pattern(a)[i] = pattern(b)[i]
      OBVIOUS
    <2>4. /\ Place(Ends(a), a[i].from) - 1 = Place(Ends(b), b[i].from) - 1
          /\ Place(Ends(a), a[i].to) - 1 = Place(Ends(b), b[i].to) - 1
      BY <1>1, <2>3 DEF pattern
    <2> QED BY <2>2, <2>4
  <1> QED BY <1>2, <1>3

\* The shape of an itinerary is that of its airports alone.
LEMMA ShapeOfEnds ==
  ASSUME NEW a, NEW b, List(a), List(b), DOMAIN a = DOMAIN b,
         \A i \in DOMAIN a : a[i].from = b[i].from /\ a[i].to = b[i].to
  PROVE  pattern(a) = pattern(b)
  <1>1. Len(a) = Len(b)
    BY SameLength
  <1>2. Ends(a) = Ends(b)
    <2>1. \A k \in 1..(2 * Len(a)) : IF k % 2 = 1 THEN (k + 1) \div 2 \in DOMAIN a ELSE k \div 2 \in DOMAIN a
      BY DEF List
    <2> QED BY <1>1, <2>1 DEF Ends
  <1> QED BY <1>2 DEF pattern

--------------------------------------------------------------------------------
(* template.go: uniqueLegIDs renames repeats apart. *)

\* How many of the identifiers up to i are the one at i
Seen(ids, i) == {j \in 1..i : ids[j] = ids[i]}

LEMMA SeenOf ==
  ASSUME NEW ids, List(ids)
  PROVE  /\ \A i \in DOMAIN ids : Cardinality(Seen(ids, i)) \in 1..Len(ids)
         /\ \A i \in DOMAIN ids : Cardinality(Seen(ids, i)) = 1 <=> ids[i] \notin {ids[j] : j \in 1..(i - 1)}
         /\ \A i, j \in DOMAIN ids : ids[i] = ids[j] /\ i < j => Cardinality(Seen(ids, i)) < Cardinality(Seen(ids, j))
  <1>1. ASSUME NEW i \in DOMAIN ids
        PROVE  IsFiniteSet(Seen(ids, i)) /\ i \in Seen(ids, i) /\ Cardinality(Seen(ids, i)) \in 1..Len(ids)
    <2>1. i \in Nat /\ i >= 1 /\ i <= Len(ids) /\ Len(ids) \in Nat
      BY DEF List
    <2>2. IsFiniteSet(1..i) /\ Cardinality(1..i) = i
      BY <2>1, FS_Interval
    <2>3. Seen(ids, i) \in SUBSET (1..i) /\ i \in Seen(ids, i)
      BY <2>1 DEF Seen
    <2>4. IsFiniteSet(Seen(ids, i)) /\ Cardinality(Seen(ids, i)) <= i /\ Cardinality(Seen(ids, i)) \in Nat
      BY <2>2, <2>3, FS_Subset, FS_CardinalityType
    <2>5. Cardinality(Seen(ids, i)) # 0
      BY <2>3, <2>4, FS_EmptySet
    <2> QED BY <2>1, <2>3, <2>4, <2>5
  <1>2. ASSUME NEW i \in DOMAIN ids
        PROVE  Cardinality(Seen(ids, i)) = 1 <=> ids[i] \notin {ids[j] : j \in 1..(i - 1)}
    <2>1. i \in Nat /\ i >= 1 /\ 1..i = 1..(i - 1) \cup {i} /\ i \notin 1..(i - 1)
      BY DEF List
    <2>2. Seen(ids, i) = {i} <=> ids[i] \notin {ids[j] : j \in 1..(i - 1)}
      BY <2>1 DEF Seen
    <2>3. Cardinality(Seen(ids, i)) = 1 <=> \E x : Seen(ids, i) = {x}
      BY <1>1, FS_Singleton
    <2> QED BY <1>1, <2>2, <2>3
  <1>3. ASSUME NEW i \in DOMAIN ids, NEW j \in DOMAIN ids, ids[i] = ids[j], i < j
        PROVE  Cardinality(Seen(ids, i)) < Cardinality(Seen(ids, j))
    <2>1. i \in Nat /\ j \in Nat /\ j \notin 1..i /\ 1..i \subseteq 1..j
      BY <1>3 DEF List
    <2>2. Seen(ids, i) \in SUBSET Seen(ids, j) /\ Seen(ids, i) # Seen(ids, j)
      BY <1>1, <1>3, <2>1 DEF Seen
    <2>3. Cardinality(Seen(ids, i)) <= Cardinality(Seen(ids, j)) /\ Cardinality(Seen(ids, i)) # Cardinality(Seen(ids, j))
      BY <1>1, <2>2, FS_Subset
    <2> QED BY <1>1, <2>3
  <1> QED BY <1>1, <1>2, <1>3

Identifier == [name : Names, numbers : Seq(Nat)]

LEMMA NumberedOf ==
  ASSUME NEW a \in Identifier, NEW b \in Identifier, NEW m \in Nat, NEW n \in Nat, Numbered(a, m) = Numbered(b, n)
  PROVE  a = b /\ m = n
  <1> DEFINE s == a.numbers
             t == b.numbers
  <1>1. a.name = b.name /\ Append(s, m) = Append(t, n)
    BY DEF Numbered, Identifier
  <1>2. s \in Seq(Nat) /\ t \in Seq(Nat)
    BY DEF Identifier
  <1>3. s = t /\ m = n
    <2> HIDE DEF s, t
    <2> QED BY <1>1, <1>2, AppendInjective
  <1> QED BY <1>1, <1>3 DEF Identifier

LEMMA UniqueLegIDs ==
  ASSUME NEW ids \in Seq(Identifier)
  PROVE  /\ ~Extended(ids) => IsInjective(uniqueLegIDs(ids))
         /\ \A i \in DOMAIN ids : ids[i] \notin {ids[j] : j \in 1..(i - 1)} => uniqueLegIDs(ids)[i] = ids[i]
  <1>1. List(ids) /\ \A i \in DOMAIN ids : ids[i] \in Identifier
    BY LenProperties DEF List
  <1>2. \A i \in DOMAIN ids : uniqueLegIDs(ids)[i] = IF Cardinality(Seen(ids, i)) = 1 THEN ids[i]
                                                    ELSE Numbered(ids[i], Cardinality(Seen(ids, i)))
    BY DEF uniqueLegIDs, Seen
  <1>3. DOMAIN uniqueLegIDs(ids) = DOMAIN ids
    BY DEF uniqueLegIDs
  <1>4. ASSUME ~Extended(ids), NEW i \in DOMAIN ids, NEW j \in DOMAIN ids, uniqueLegIDs(ids)[i] = uniqueLegIDs(ids)[j]
        PROVE  i = j
    <2> DEFINE m == Cardinality(Seen(ids, i))
               n == Cardinality(Seen(ids, j))
    <2>1. m \in 1..Len(ids) /\ n \in 1..Len(ids) /\ Len(ids) \in Nat
      BY <1>1, SeenOf DEF List
    <2>2. /\ m # 1 => \A l \in DOMAIN ids : Numbered(ids[i], m) # ids[l]
          /\ n # 1 => \A l \in DOMAIN ids : Numbered(ids[j], n) # ids[l]
      <3>1. (m # 1 => m \in 2..Len(ids)) /\ (n # 1 => n \in 2..Len(ids))
        BY <2>1
      <3> QED BY <1>4, <3>1 DEF Extended
    <2>3. ids[i] = ids[j] /\ m = n
      <3>1. CASE m = 1 /\ n = 1
        BY <3>1, <1>2, <1>4
      <3>2. CASE m # 1 /\ n # 1
        BY <3>2, <1>1, <1>2, <1>4, <2>1, NumberedOf
      <3>3. CASE (m = 1) # (n = 1)
        BY <3>3, <1>2, <1>4, <2>2
      <3> QED BY <3>1, <3>2, <3>3
    <2>4. ~(i < j) /\ ~(j < i)
      BY <1>1, <2>1, <2>3, SeenOf
    <2> QED BY <1>1, <2>4 DEF List
  <1>5. ~Extended(ids) => IsInjective(uniqueLegIDs(ids))
    BY <1>3, <1>4 DEF IsInjective
  <1>6. \A i \in DOMAIN ids : ids[i] \notin {ids[j] : j \in 1..(i - 1)} => uniqueLegIDs(ids)[i] = ids[i]
    BY <1>1, <1>2, SeenOf
  <1> QED BY <1>5, <1>6

--------------------------------------------------------------------------------
(* main.go: what loadTemplates has read and made so far *)

\* The directory a version claims, if it may claim one
Own(v) == stubs[v] # NoDir \/ v = FlatVersion
Claimed(v) == IF stubs[v] # NoDir THEN stubs[v] ELSE stubs["flat"]

\* What was captured are files of the directories their versions claim, the multi-city
\* ones under their shape.
Captured ==
    /\ stubs \in Stubs /\ todo \subseteq Versions
    /\ \A k \in DOMAIN raws :
          /\ k[1] \in Versions /\ Own(k[1]) /\ k = With(k[1], k)
          /\ raws[k] \in Files(Claimed(k[1]))
          /\ k[2] = "mc" => pattern(raws[k].legs) = k[3]

\* Every template is one made from a captured file under the same kind and shape.
Made ==
    \A k \in DOMAIN templates :
        LET s == templates[k].from
            f == raws[With(s, k)]
        IN  /\ k[1] \in Versions /\ k = With(k[1], k)
            /\ With(s, k) \in DOMAIN raws
            /\ templates[k] = newTemplate(f, s, IF s = k[1] THEN uniqueLegIDs(f.ids) ELSE Distinct(f.ids))

\* All templates of a version are from one other, or from itself when it is native.
FromOne(v) ==
    Of(templates, v) # {} =>
        \E s \in native :
            /\ \A k \in Of(templates, v) : templates[k].from = s
            /\ IF v \in native THEN s = v ELSE <<s, v>> \in Usable
            /\ {With(s, k) : k \in Of(templates, v)} = {k \in Of(raws, s) : s = v \/ v \in raws[k].to}

\* A version yet to be visited has nothing of its own while the native ones load, and
\* nothing translated to it afterwards.
Visited ==
    IF phase = "native"
    THEN /\ DOMAIN templates = DOMAIN raws
         /\ \A k \in DOMAIN raws : k[1] \notin todo /\ templates[k].from = k[1]
    ELSE /\ \A v \in Versions : FromOne(v)
         /\ \A v \in todo \ native : Of(templates, v) = {}

Loading == Captured /\ Made /\ Visited

LEMMA Unchanged ==
  ASSUME templates' = templates, raws' = raws
  PROVE  /\ native' = native
         /\ \A v : Of(templates, v)' = Of(templates, v) /\ (FromOne(v)' <=> FromOne(v))
  <1>1. native' = native /\ \A v : Of(templates, v)' = Of(templates, v) /\ Of(raws, v)' = Of(raws, v)
    BY DEF native, Of
  <1> QED BY <1>1 DEF FromOne

LEMMA KeyOf ==
  ASSUME NEW v, NEW w, NEW k, k = With(w, k)
  PROVE  /\ With(v, k)[1] = v /\ With(v, k)[2] = k[2] /\ With(v, k)[3] = k[3]
         /\ With(v, k) = With(v, With(v, k)) /\ With(w, With(v, k)) = k /\ k[1] = w
  BY DEF With

LEMMA DirectoryOf ==
  ASSUME NEW s \in Stubs, NEW d \in DOMAIN s, s[d] # NoDir
  PROVE  Directory(s[d]) /\ \A e \in DOMAIN s : s[e] # NoDir /\ d # e => Files(s[d]) \cap Files(s[e]) = {}
  BY StubsAssumption

LEMMA ClaimedOf ==
  ASSUME stubs \in Stubs, NEW v \in Versions, Own(v)
  PROVE  /\ Directory(Claimed(v))
         /\ \E d \in DOMAIN stubs : stubs[d] # NoDir /\ Claimed(v) = stubs[d]
         /\ \A w \in Versions : Own(w) /\ v # w => Files(Claimed(v)) \cap Files(Claimed(w)) = {}
  <1>1. "flat" \in DOMAIN stubs /\ "flat" \notin Versions /\ stubs["flat"] # NoDir /\ Versions \subseteq DOMAIN stubs
    BY StubsAssumption
  <1> DEFINE at(w) == IF stubs[w] # NoDir THEN w ELSE "flat"
  <1>2. \A w \in Versions : at(w) \in DOMAIN stubs /\ stubs[at(w)] # NoDir /\ Claimed(w) = stubs[at(w)]
    BY <1>1 DEF Claimed
  <1>3. \A w \in Versions : Own(w) /\ v # w => at(v) # at(w)
    BY <1>1 DEF Own
  <1>4. Directory(Claimed(v))
    BY <1>2, DirectoryOf
  <1>5. \A w \in Versions : Own(w) /\ v # w => Files(Claimed(v)) \cap Files(Claimed(w)) = {}
    <2> HIDE DEF at
    <2> QED BY <1>2, <1>3, DirectoryOf
  <1> QED BY <1>2, <1>4, <1>5

\* References keeps files of its directory only, multi-city ones under their shape.
LEMMA ReferencesOf ==
  ASSUME NEW v, NEW dir, Directory(dir)
  PROVE  \A k \in DOMAIN References(v, dir) :
             /\ k = With(v, k) /\ References(v, dir)[k] \in Files(dir)
             /\ k[2] = "mc" => pattern(References(v, dir)[k].legs) = k[3]
  <1> DEFINE cities == {n \in DOMAIN dir.cities : dir.cities[n].sliced}
             shape(n) == pattern(dir.cities[n].legs)
             last(p) == Max({n \in cities : shape(n) = p})
             named == {n \in DOMAIN dir.named : dir.named[n].sliced}
             keys == {Key(v, n[1], n[2]) : n \in named} \cup {Key(v, "mc", shape(n)) : n \in cities}
             refs == [k \in keys |-> IF k[2] = "mc" THEN dir.cities[last(k[3])] ELSE dir.named[<<k[2], k[3]>>]]
  <1>1. References(v, dir) = refs
    BY DEF References
  <1>2. DOMAIN dir.cities = 1..Len(dir.cities) /\ Len(dir.cities) \in Nat
    <2>1. dir.cities \in Seq(File)
      BY DEF Directory
    <2> HIDE DEF File
    <2> QED BY <2>1, LenProperties
  <1>3. ASSUME NEW n \in cities
        PROVE  last(shape(n)) \in cities /\ shape(last(shape(n))) = shape(n)
    <2> DEFINE same == {m \in cities : shape(m) = shape(n)}
    <2>1. same \in SUBSET (1..Len(dir.cities)) /\ same # {}
      BY <1>2
    <2>2. PICK l \in same : \A m \in same : m <= l
      <3> HIDE DEF same
      <3> QED BY <2>1, <1>2, Greatest
    <2>3. Max(same) \in same
      <3> HIDE DEF same
      <3> QED BY <2>2 DEF Max
    <2> QED BY <2>3
  <1>4. ASSUME NEW n \in named
        PROVE  n = <<n[1], n[2]>> /\ n[1] # "mc"
    BY DEF Directory
  <1>5. ASSUME NEW k \in keys
        PROVE  k = With(v, k) /\ refs[k] \in Files(dir) /\ (k[2] = "mc" => pattern(refs[k].legs) = k[3])
    <2>1. CASE \E n \in named : k = Key(v, n[1], n[2])
      <3>1. PICK n \in named : k = Key(v, n[1], n[2])
        BY <2>1
      <3>2. k = With(v, k) /\ k[2] = n[1] /\ k[3] = n[2]
        BY <3>1 DEF Key, With
      <3>3. k[2] # "mc" /\ refs[k] = dir.named[n]
        BY <3>2, <1>4
      <3>4. dir.named[n] \in Files(dir)
        BY DEF Files, Range
      <3> QED BY <3>2, <3>3, <3>4
    <2>2. CASE \E n \in cities : k = Key(v, "mc", shape(n))
      <3>1. PICK n \in cities : k = Key(v, "mc", shape(n))
        BY <2>2
      <3>2. k = With(v, k) /\ k[2] = "mc" /\ k[3] = shape(n)
        BY <3>1 DEF Key, With
      <3> HIDE DEF last
      <3>3. refs[k] = dir.cities[last(shape(n))]
        BY <3>2
      <3>4. dir.cities[last(shape(n))] \in Files(dir) /\ pattern(dir.cities[last(shape(n))].legs) = k[3]
        BY <1>3, <3>2 DEF Files, Range
      <3> QED BY <3>2, <3>3, <3>4
    <2> QED BY <2>1, <2>2
  <1> HIDE DEF keys
  <1> QED BY <1>1, <1>5

LEMMA LoadingInit == StartInit => Loading
  <1> SUFFICES ASSUME StartInit PROVE Loading
    OBVIOUS
  <1>1. stubs \in Stubs /\ todo = Versions /\ phase = "native" /\ DOMAIN raws = {} /\ DOMAIN templates = {}
    BY DEF StartInit
  <1> QED BY <1>1 DEF Loading, Captured, Made, Visited

\* A version that may claim a directory takes its references from there.
LEMMA LoadingLoad ==
  ASSUME Loading, NEW v \in Versions, Load(v)
  PROVE  Loading'
  <1>1. phase = "native" /\ phase' = "native" /\ v \in todo /\ todo' = todo \ {v} /\ stubs' = stubs
    BY DEF Load
  <1>2. CASE ~Own(v)
    <2>1. templates' = templates /\ raws' = raws
      BY <1>2 DEF Load, Own
    <2>2. Captured'
      BY <1>1, <2>1 DEF Loading, Captured, Own, Claimed
    <2>3. Made'
      BY <2>1 DEF Loading, Made
    <2>4. Visited'
      BY <1>1, <2>1 DEF Loading, Visited
    <2> QED BY <2>2, <2>3, <2>4 DEF Loading
  <1>3. CASE Own(v)
    <2> DEFINE refs == References(v, Claimed(v))
               new == [k \in DOMAIN refs |-> newTemplate(refs[k], v, uniqueLegIDs(refs[k].ids))]
    <2>1. templates' = Over(new, templates) /\ raws' = Over(refs, raws)
      BY <1>3 DEF Load, Own, Claimed, Merged
    <2>2. \A k \in DOMAIN refs : /\ k = With(v, k) /\ k[1] = v /\ refs[k] \in Files(Claimed(v))
                                 /\ k[2] = "mc" => pattern(refs[k].legs) = k[3]
      <3>1. Directory(Claimed(v))
        BY <1>3, ClaimedOf DEF Loading, Captured
      <3> QED BY <3>1, ReferencesOf, KeyOf
    <2> HIDE DEF refs
    <2>3. /\ DOMAIN raws' = DOMAIN refs \cup DOMAIN raws
          /\ \A k \in DOMAIN refs : raws'[k] = refs[k]
          /\ \A k \in DOMAIN raws \ DOMAIN refs : raws'[k] = raws[k]
      BY <2>1 DEF Over
    <2>4. /\ DOMAIN templates' = DOMAIN refs \cup DOMAIN templates
          /\ \A k \in DOMAIN refs : templates'[k] = newTemplate(refs[k], v, uniqueLegIDs(refs[k].ids))
          /\ \A k \in DOMAIN templates \ DOMAIN refs : templates'[k] = templates[k]
      <3>1. DOMAIN new = DOMAIN refs /\ \A k \in DOMAIN refs : new[k] = newTemplate(refs[k], v, uniqueLegIDs(refs[k].ids))
        OBVIOUS
      <3> HIDE DEF new
      <3> QED BY <2>1, <3>1 DEF Over
    <2>5. DOMAIN templates = DOMAIN raws /\ \A k \in DOMAIN raws : k[1] # v /\ templates[k].from = k[1] /\ k = With(k[1], k)
      BY <1>1 DEF Loading, Visited, Captured
    <2>6. \A k \in DOMAIN raws : k \notin DOMAIN refs
      BY <2>2, <2>5
    <2>7. Captured'
      <3>1. stubs' \in Stubs /\ todo' \subseteq Versions
        BY <1>1 DEF Loading, Captured
      <3>2. \A w : Own(w)' = Own(w) /\ Claimed(w)' = Claimed(w)
        BY <1>1 DEF Own, Claimed
      <3>3. ASSUME NEW k \in DOMAIN raws'
            PROVE  /\ k[1] \in Versions /\ Own(k[1]) /\ k = With(k[1], k)
                   /\ raws'[k] \in Files(Claimed(k[1]))
                   /\ k[2] = "mc" => pattern(raws'[k].legs) = k[3]
        <4>1. CASE k \in DOMAIN refs
          BY <4>1, <1>3, <2>2, <2>3
        <4>2. CASE k \in DOMAIN raws \ DOMAIN refs
          BY <4>2, <2>3 DEF Loading, Captured
        <4> QED BY <4>1, <4>2, <2>3
      <3> QED BY <3>1, <3>2, <3>3 DEF Captured
    <2>8. Made'
      <3>1. ASSUME NEW k \in DOMAIN templates'
            PROVE  LET s == templates'[k].from
                       f == raws'[With(s, k)]
                   IN  /\ k[1] \in Versions /\ k = With(k[1], k)
                       /\ With(s, k) \in DOMAIN raws'
                       /\ templates'[k] = newTemplate(f, s, IF s = k[1] THEN uniqueLegIDs(f.ids) ELSE Distinct(f.ids))
        <4>1. CASE k \in DOMAIN refs
          <5>1. templates'[k] = newTemplate(refs[k], v, uniqueLegIDs(refs[k].ids)) /\ templates'[k].from = v
            BY <4>1, <2>4 DEF newTemplate
          <5> QED BY <4>1, <5>1, <2>2, <2>3
        <4>2. CASE k \in DOMAIN templates \ DOMAIN refs
          <5>1. templates'[k] = templates[k] /\ templates[k].from = k[1] /\ k \in DOMAIN raws /\ With(k[1], k) = k
            BY <4>2, <2>4, <2>5
          <5>2. raws'[k] = raws[k] /\ k \in DOMAIN raws'
            BY <5>1, <4>2, <2>3
          <5> QED BY <4>2, <5>1, <5>2 DEF Loading, Made
        <4> QED BY <4>1, <4>2, <2>4
      <3> QED BY <3>1 DEF Made
    <2>9. Visited'
      <3>1. DOMAIN templates' = DOMAIN raws'
        BY <2>3, <2>4, <2>5
      <3>2. ASSUME NEW k \in DOMAIN raws' PROVE k[1] \notin todo' /\ templates'[k].from = k[1]
        <4>1. CASE k \in DOMAIN refs
          BY <4>1, <1>1, <2>2, <2>4 DEF newTemplate
        <4>2. CASE k \in DOMAIN raws \ DOMAIN refs
          BY <4>2, <1>1, <2>4, <2>5 DEF Loading, Visited
        <4> QED BY <4>1, <4>2, <2>3
      <3> QED BY <1>1, <3>1, <3>2 DEF Visited
    <2> QED BY <2>7, <2>8, <2>9 DEF Loading
  <1> QED BY <1>2, <1>3

\* While the native versions load, each of them has its own templates.
LEMMA LoadingLoaded ==
  ASSUME Loading, Loaded
  PROVE  Loading'
  <1>1. phase = "native" /\ phase' = "translate" /\ todo' = Versions /\ stubs' = stubs /\ templates' = templates /\ raws' = raws
    BY DEF Loaded
  <1>2. Captured'
    BY <1>1 DEF Loading, Captured, Own, Claimed
  <1>3. Made'
    BY <1>1 DEF Loading, Made
  <1>4. DOMAIN templates = DOMAIN raws /\ \A k \in DOMAIN raws : templates[k].from = k[1] /\ k = With(k[1], k)
    BY <1>1 DEF Loading, Visited, Captured
  <1>5. \A v : Of(templates, v) = Of(raws, v) /\ (v \notin native => Of(templates, v) = {})
    BY <1>4 DEF Of, native
  <1>6. ASSUME NEW v \in Versions PROVE FromOne(v)
    <2>1. SUFFICES ASSUME Of(templates, v) # {} PROVE FromOne(v)
      BY DEF FromOne
    <2>2. v \in native
      BY <2>1, <1>5
    <2>3. \A k \in Of(templates, v) : templates[k].from = v /\ With(v, k) = k
      BY <1>4 DEF Of
    <2>4. {With(v, k) : k \in Of(templates, v)} = Of(raws, v)
      BY <2>3, <1>5
    <2>5. {k \in Of(raws, v) : v = v \/ v \in raws[k].to} = Of(raws, v)
      OBVIOUS
    <2> QED BY <2>2, <2>3, <2>4, <2>5 DEF FromOne
  <1>7. Visited'
    BY <1>1, <1>5, <1>6, Unchanged DEF Visited
  <1> QED BY <1>2, <1>3, <1>7 DEF Loading

\* Nothing is loaded after that but what is translated.
LEMMA LoadingNative ==
  ASSUME Loading, (\E v \in Versions : Native(v)) \/ Listen
  PROVE  Loading'
  <1>1. /\ phase = "translate" /\ phase' # "native" /\ todo' \subseteq todo
        /\ stubs' = stubs /\ templates' = templates /\ raws' = raws
    BY DEF Native, Listen
  <1>2. Captured'
    BY <1>1 DEF Loading, Captured, Own, Claimed
  <1>3. Made'
    BY <1>1 DEF Loading, Made
  <1>4. Visited'
    BY <1>1, Unchanged DEF Loading, Visited
  <1> QED BY <1>2, <1>3, <1>4 DEF Loading

\* A version without any is translated from one other, whole.
LEMMA LoadingTranslate ==
  ASSUME Loading, NEW v \in Versions, Translate(v)
  PROVE  Loading'
  <1>1. /\ phase = "translate" /\ phase' = "translate" /\ v \in todo /\ v \notin native /\ todo' = todo \ {v}
        /\ stubs' = stubs /\ raws' = raws
    BY DEF Translate
  <1>2. Captured'
    BY <1>1 DEF Loading, Captured, Own, Claimed
  <1>3. CASE Sources(v) = {}
    <2>1. templates' = templates
      BY <1>3 DEF Translate
    <2>2. Made'
      BY <1>1, <2>1 DEF Loading, Made
    <2>3. Visited'
      BY <1>1, <2>1, Unchanged DEF Loading, Visited
    <2> QED BY <1>2, <2>2, <2>3 DEF Loading
  <1>4. CASE Sources(v) # {}
    <2> DEFINE made(s) == {k \in Of(raws, s) : v \in raws[k].to}
               keys(s) == {With(v, m) : m \in made(s)}
               new(s) == [k \in keys(s) |-> LET f == raws[With(s, k)] IN newTemplate(f, s, Distinct(f.ids))]
    <2>1. PICK s \in Sources(v) : templates' = Over(new(s), templates)
      BY <1>4 DEF Translate
    <2>2. s \in native /\ <<s, v>> \in Usable /\ s # v
      BY <1>1 DEF Sources
    <2>3. \A m \in made(s) : m \in DOMAIN raws /\ m = With(s, m) /\ m[1] = s
      BY DEF Of, Loading, Captured
    <2>4. \A m \in made(s) : /\ With(v, m)[1] = v /\ With(v, m) = With(v, With(v, m))
                             /\ With(s, With(v, m)) = m
      BY <2>3, KeyOf
    <2> HIDE DEF made
    <2>5. \A k \in keys(s) : k[1] = v /\ k = With(v, k) /\ With(s, k) \in made(s)
      BY <2>4
    <2>6. {With(s, k) : k \in keys(s)} = made(s)
      BY <2>4
    <2> HIDE DEF keys
    <2>7. /\ DOMAIN templates' = keys(s) \cup DOMAIN templates
          /\ \A k \in keys(s) : templates'[k] = newTemplate(raws[With(s, k)], s, Distinct(raws[With(s, k)].ids))
          /\ \A k \in DOMAIN templates \ keys(s) : templates'[k] = templates[k]
      BY <2>1 DEF Over
    <2>8. \A k \in DOMAIN templates : k[1] # v
      BY <1>1 DEF Loading, Visited, Of
    <2>9. Of(templates, v)' = keys(s)
      BY <2>5, <2>7, <2>8 DEF Of
    <2>10. \A w : w # v => Of(templates, w)' = Of(templates, w)
      BY <2>5, <2>7, <2>8 DEF Of
    <2>11. \A k \in DOMAIN templates : k \in DOMAIN templates' /\ templates'[k] = templates[k]
      BY <2>5, <2>7, <2>8
    <2>12. native' = native /\ \A w : Of(raws, w)' = Of(raws, w)
      BY <1>1 DEF native, Of
    <2>13. Made'
      <3>1. ASSUME NEW k \in DOMAIN templates'
            PROVE  LET src == templates'[k].from
                       f == raws'[With(src, k)]
                   IN  /\ k[1] \in Versions /\ k = With(k[1], k)
                       /\ With(src, k) \in DOMAIN raws'
                       /\ templates'[k] = newTemplate(f, src, IF src = k[1] THEN uniqueLegIDs(f.ids) ELSE Distinct(f.ids))
        <4>1. CASE k \in keys(s)
          <5>1. templates'[k].from = s
            BY <4>1, <2>7 DEF newTemplate
          <5> QED BY <4>1, <5>1, <1>1, <2>2, <2>3, <2>5, <2>7
        <4>2. CASE k \in DOMAIN templates
          BY <4>2, <1>1, <2>11 DEF Loading, Made
        <4> QED BY <4>1, <4>2, <2>7
      <3> QED BY <3>1 DEF Made
    <2>14. Visited'
      <3>1. FromOne(v)'
        <4>1. \A k \in keys(s) : templates'[k].from = s
          BY <2>7 DEF newTemplate
        <4>2. made(s) = {k \in Of(raws, s) : s = v \/ v \in raws[k].to}
          BY <2>2 DEF made
        <4>3. {k \in Of(raws, s) : s = v \/ v \in raws[k].to}' = {k \in Of(raws, s) : s = v \/ v \in raws[k].to}
          BY <1>1, <2>12
        <4> QED BY <1>1, <2>2, <2>6, <2>9, <2>12, <4>1, <4>2, <4>3 DEF FromOne
      <3>2. ASSUME NEW w \in Versions, w # v PROVE FromOne(w)'
        <4>1. FromOne(w)
          BY <1>1 DEF Loading, Visited
        <4>2. \A k \in Of(templates, w) : templates'[k].from = templates[k].from
          BY <2>11 DEF Of
        <4> QED BY <1>1, <3>2, <2>10, <2>12, <4>1, <4>2 DEF FromOne
      <3>3. ASSUME NEW w \in todo' \ native' PROVE Of(templates, w)' = {}
        BY <1>1, <2>10, <2>12 DEF Loading, Visited
      <3> QED BY <1>1, <3>1, <3>2, <3>3 DEF Visited
    <2> QED BY <1>2, <2>13, <2>14 DEF Loading
  <1> QED BY <1>3, <1>4

LEMMA LoadingStep == Loading /\ StartUp => Loading'
  BY LoadingLoad, LoadingLoaded, LoadingNative, LoadingTranslate DEF StartUp

LEMMA LoadingStays == Loading /\ UNCHANGED startVars => Loading'
  <1> SUFFICES ASSUME Loading, UNCHANGED startVars PROVE Loading'
    OBVIOUS
  <1>1. stubs' = stubs /\ templates' = templates /\ raws' = raws /\ todo' = todo /\ phase' = phase
    BY DEF startVars
  <1>2. Captured' /\ Made'
    BY <1>1 DEF Loading, Captured, Made, Own, Claimed
  <1>3. Visited'
    BY <1>1, Unchanged DEF Loading, Visited
  <1> QED BY <1>2, <1>3 DEF Loading

\* The templates of a version come from one directory, and no file belongs to two.
LEMMA LoadingOneSource == Loading => OneSource
  <1> SUFFICES ASSUME Loading, phase = "serving" PROVE OneSource
    BY DEF OneSource
  <1>1. ASSUME NEW v \in Versions PROVE FromOne(v)
    BY DEF Loading, Visited
  <1>2. ASSUME NEW k \in DOMAIN raws, NEW l \in DOMAIN raws, raws[k] = raws[l]
        PROVE  k[1] = l[1]
    <2>1. /\ k[1] \in Versions /\ Own(k[1]) /\ raws[k] \in Files(Claimed(k[1]))
          /\ l[1] \in Versions /\ Own(l[1]) /\ raws[k] \in Files(Claimed(l[1]))
      BY <1>2 DEF Loading, Captured
    <2> QED BY <2>1, ClaimedOf DEF Loading, Captured
  <1> QED BY <1>1, <1>2 DEF OneSource, FromOne

\* A file that is served is one of the directories there are.
LEMMA CapturedFile ==
  ASSUME Loading, NEW k \in DOMAIN raws
  PROVE  raws[k] \in File /\ \E d \in DOMAIN stubs : stubs[d] # NoDir /\ raws[k] \in Files(stubs[d])
                                                     /\ Len(raws[k].nights) = Len(raws[k].legs)
  <1>1. k[1] \in Versions /\ Own(k[1]) /\ raws[k] \in Files(Claimed(k[1])) /\ stubs \in Stubs
    BY DEF Loading, Captured
  <1>2. Directory(Claimed(k[1])) /\ \E d \in DOMAIN stubs : stubs[d] # NoDir /\ Claimed(k[1]) = stubs[d]
    BY <1>1, ClaimedOf
  <1> QED BY <1>1, <1>2 DEF Directory

LEMMA LoadingLegIDsUnique == Loading => LegIDsUnique
  <1> SUFFICES ASSUME Loading, NEW k \in DOMAIN templates
               PROVE  LET was == raws[With(templates[k].from, k)].ids
                          are == templates[k].ids
                      IN  IF templates[k].from = k[1]
                          THEN /\ ~Extended(was) => IsInjective(are)
                               /\ \A i \in DOMAIN was : was[i] \notin {was[j] : j \in 1..(i - 1)} => are[i] = was[i]
                          ELSE IsInjective(are) /\ Range(are) = Range(was)
    BY DEF LegIDsUnique
  <1> DEFINE was == raws[With(templates[k].from, k)].ids
             are == templates[k].ids
  <1>1. With(templates[k].from, k) \in DOMAIN raws
    BY DEF Loading, Made
  <1>2. was \in Seq(Identifier)
    BY <1>1, CapturedFile DEF File, Identifier
  <1>3. List(was)
    BY <1>2, LenProperties DEF List
  <1>4. are = IF templates[k].from = k[1] THEN uniqueLegIDs(was) ELSE Distinct(was)
    BY DEF Loading, Made, newTemplate
  <1> HIDE DEF was, are
  <1>5. templates[k].from = k[1] => /\ ~Extended(was) => IsInjective(are)
                                    /\ \A i \in DOMAIN was : was[i] \notin {was[j] : j \in 1..(i - 1)} => are[i] = was[i]
    BY <1>2, <1>4, UniqueLegIDs
  <1>6. templates[k].from # k[1] => IsInjective(are) /\ Range(are) = Range(was)
    BY <1>3, <1>4, DistinctOf
  <1> QED BY <1>5, <1>6 DEF was, are

--------------------------------------------------------------------------------
(* Every state of the mock is one of these. *)

THEOREM LoadingHolds == Spec => []Loading
  <1>1. Init => Loading
    BY LoadingInit DEF Init
  <1>2. Loading /\ [Next]_vars => Loading'
    BY LoadingStep, LoadingStays DEF Next, Ask, Refuse, Unserved, Serve, vars, startVars
  <1> QED BY <1>1, <1>2, PTL DEF Spec

\* However Go orders its maps, a version is served from one directory, and no file is
\* served by two versions as their own.
THEOREM OneSourceHolds == Spec => []OneSource
  BY LoadingHolds, LoadingOneSource, PTL

\* Identifiers of operated legs are unique in every template that is ever served.
THEOREM LegIDsUniqueHolds == Spec => []LegIDsUnique
  BY LoadingHolds, LoadingLegIDsUnique, PTL

--------------------------------------------------------------------------------
(* template.go: render moves every date with the leg whose date is nearest. *)

\* Itineraries that can be moved from and to
Dates(legs) == List(legs) /\ DOMAIN legs # {} /\ \A i \in DOMAIN legs : legs[i].day \in Nat
Days(legs) == List(legs) /\ DOMAIN legs # {} /\ \A i \in DOMAIN legs : legs[i].day \in Int

LEMMA DistanceOf ==
  /\ \A a, b \in Nat : Distance(a, b) \in Nat /\ Distance(a, b) = Distance(b, a) /\ (Distance(a, b) = 0 <=> a = b)
  /\ \A a, b, c \in Nat : Distance(a, c) <= Distance(a, b) + Distance(b, c)
  /\ \A a, n \in Nat : Distance(a + n, a) = n
  /\ \A a, b \in Nat : b <= a + Distance(a, b)
  BY DEF Distance

LEMMA NearOf ==
  ASSUME NEW ref, Dates(ref.legs), NEW day \in Nat
  PROVE  /\ near(ref, day) \in DOMAIN ref.legs
         /\ \A k \in DOMAIN ref.legs : Distance(day, ref.legs[near(ref, day)].day) <= Distance(day, ref.legs[k].day)
  <1> DEFINE far(k) == Distance(day, ref.legs[k].day)
             all == {far(k) : k \in DOMAIN ref.legs}
  <1>1. \A k \in DOMAIN ref.legs : far(k) \in Nat /\ k \in Nat
    <2>1. \A k \in DOMAIN ref.legs : k \in Nat /\ ref.legs[k].day \in Nat
      BY DEF Dates, List
    <2> QED BY <2>1, DistanceOf
  <1>2. all \in SUBSET Nat /\ all # {}
    BY <1>1 DEF Dates
  <1>3. PICK d \in all : \A e \in all : d <= e
    <2> HIDE DEF all
    <2> QED BY <1>2, Least
  <1> DEFINE best == {k \in DOMAIN ref.legs : far(k) = d}
  <1>4. best \in SUBSET Nat /\ best # {}
    BY <1>1, <1>3
  <1>5. PICK j \in best : \A k \in best : j <= k
    <2> HIDE DEF best
    <2> QED BY <1>4, Least
  <1>6. \A k \in DOMAIN ref.legs : far(j) <= far(k)
    BY <1>3, <1>5
  <1>7. \A k \in DOMAIN ref.legs : k < j => far(j) < far(k)
    <2>1. SUFFICES ASSUME NEW k \in DOMAIN ref.legs, k < j PROVE far(j) < far(k)
      OBVIOUS
    <2>2. k \notin best
      BY <1>1, <1>5, <2>1
    <2>3. far(k) # far(j)
      BY <2>2, <1>5
    <2> HIDE DEF far, best
    <2> QED BY <1>1, <1>6, <2>3, <1>5 DEF best
  <1>8. \E i \in DOMAIN ref.legs : \A k \in DOMAIN ref.legs : far(i) <= far(k) /\ (k < i => far(i) < far(k))
    BY <1>5, <1>6, <1>7
  <1> HIDE DEF Distance
  <1> QED BY <1>8 DEF near

LEMMA LegForOf ==
  ASSUME NEW legs, List(legs), DOMAIN legs # {}, NEW i \in Nat \ {0}
  PROVE  LegFor(legs, i) \in Range(legs) /\ (i \in DOMAIN legs => LegFor(legs, i) = legs[i])
  <1>1. Len(legs) \in DOMAIN legs /\ (i < Len(legs) => i \in DOMAIN legs) /\ (i \in DOMAIN legs /\ ~(i < Len(legs)) => i = Len(legs))
    <2>1. DOMAIN legs = 1..Len(legs) /\ Len(legs) \in Nat
      BY DEF List
    <2> DEFINE n == Len(legs)
    <2> HIDE DEF n
    <2>2. n \in Nat /\ DOMAIN legs = 1..n /\ 1..n # {}
      BY <2>1 DEF n
    <2>3. n \in 1..n /\ (i < n => i \in 1..n) /\ (i \in 1..n /\ ~(i < n) => i = n)
      BY <2>2
    <2> QED BY <2>2, <2>3 DEF n
  <1> QED BY <1>1 DEF LegFor, Range

\* Where a day that moves goes
LEMMA ShiftOf ==
  ASSUME NEW ref, Dates(ref.legs), NEW legs, Days(legs), NEW day \in Nat,
         \A i \in DOMAIN ref.legs : LegFor(legs, i).day \in Nat
  PROVE  \E j \in DOMAIN ref.legs :
            /\ \A k \in DOMAIN ref.legs : Distance(day, ref.legs[j].day) <= Distance(day, ref.legs[k].day)
            /\ shiftDates(ref, legs, day) = day + LegFor(legs, j).day - ref.legs[j].day
  BY NearOf DEF shiftDates

LEMMA StillOf ==
  ASSUME NEW ref, NEW legs, NEW day, ~ \A i \in DOMAIN ref.legs : LegFor(legs, i).day \in Nat
  PROVE  shiftDates(ref, legs, day) = day
  BY DEF shiftDates

\* A flight departs on the day of a leg asked for, and arrives no more than the nights it
\* took earlier than one.
LEMMA ShiftNat ==
  ASSUME NEW ref, Dates(ref.legs), NEW legs, Days(legs), NEW i \in DOMAIN ref.legs, NEW n \in Nat,
         \A leg \in Range(legs) : leg.day \in Nat => n <= leg.day
  PROVE  shiftDates(ref, legs, ref.legs[i].day + n) \in Nat
  <1> DEFINE day == ref.legs[i].day + n
  <1>1. ref.legs[i].day \in Nat /\ day \in Nat /\ Distance(day, ref.legs[i].day) = n
    <2>1. ref.legs[i].day \in Nat
      BY DEF Dates
    <2>2. \A a \in Nat : a + n \in Nat /\ Distance(a + n, a) = n
      BY DistanceOf
    <2> QED BY <2>1, <2>2
  <1>2. CASE ~ \A k \in DOMAIN ref.legs : LegFor(legs, k).day \in Nat
    <2> HIDE DEF day
    <2> QED BY <1>1, <1>2, StillOf DEF day
  <1>3. CASE \A k \in DOMAIN ref.legs : LegFor(legs, k).day \in Nat
    <2>1. PICK j \in DOMAIN ref.legs :
              /\ Distance(day, ref.legs[j].day) <= Distance(day, ref.legs[i].day)
              /\ shiftDates(ref, legs, day) = day + LegFor(legs, j).day - ref.legs[j].day
      <3> HIDE DEF day
      <3> QED BY <1>1, <1>3, ShiftOf
    <2>2. ref.legs[j].day \in Nat /\ j \in Nat \ {0}
      BY DEF Dates, List
    <2>3. LegFor(legs, j).day \in Nat /\ n <= LegFor(legs, j).day
      BY <1>3, <2>2, LegForOf DEF Days
    <2>4. ref.legs[j].day <= day + n
      <3> HIDE DEF day
      <3>1. Distance(day, ref.legs[j].day) <= n /\ Distance(day, ref.legs[j].day) \in Nat
        BY <1>1, <2>1, <2>2, DistanceOf
      <3>2. ref.legs[j].day <= day + Distance(day, ref.legs[j].day)
        BY <1>1, <2>2, DistanceOf
      <3> QED BY <1>1, <2>2, <3>1, <3>2
    <2> HIDE DEF day
    <2>5. day + LegFor(legs, j).day - ref.legs[j].day \in Nat
      BY <1>1, <2>2, <2>3, <2>4
    <2> QED BY <2>1, <2>5 DEF day
  <1> QED BY <1>2, <1>3

--------------------------------------------------------------------------------
(* main.go: what AirShopping answers from *)

\* pick finds a template there is, and for a multi-city request one of its shape.
LEMMA PickOf ==
  ASSUME NEW rq, pick(rq) # NoKey
  PROVE  /\ pick(rq) \in DOMAIN templates
         /\ multiCity(rq.legs) => pick(rq)[2] = "mc" /\ pick(rq)[3] = pattern(rq.legs)
  <1> DEFINE of(kind, what) == Key(rq.version, kind, what)
             wanted == IF multiCity(rq.legs) THEN << of("mc", pattern(rq.legs)) >>
                       ELSE (IF hasReturn(rq.legs) THEN << of("rt", "any") >> ELSE <<>>)
                            \o << of("ow", rq.lang), of("ow", "default") >>
             there == {n \in DOMAIN wanted : wanted[n] \in DOMAIN templates}
  <1>1. there # {} /\ pick(rq) = wanted[Min(there)]
    BY DEF pick
  <1>2. DOMAIN wanted \subseteq Nat
    <2>1. CASE multiCity(rq.legs)
      <3>1. DOMAIN wanted = 1..1
        BY <2>1
      <3> QED BY <3>1
    <2>2. CASE ~multiCity(rq.legs)
      <3> DEFINE K == {of("rt", "any"), of("ow", rq.lang), of("ow", "default")}
      <3>1. << of("rt", "any") >> \in Seq(K) /\ <<>> \in Seq(K) /\ << of("ow", rq.lang), of("ow", "default") >> \in Seq(K)
        OBVIOUS
      <3>2. wanted \in Seq(K)
        <4> HIDE DEF K
        <4> QED BY <2>2, <3>1, ConcatProperties
      <3> HIDE DEF K, wanted
      <3> QED BY <3>2, LenProperties
    <2> QED BY <2>1, <2>2
  <1>3. PICK l \in there : \A m \in there : l <= m
    <2>1. there \in SUBSET Nat
      BY <1>2
    <2> HIDE DEF there
    <2> QED BY <1>1, <2>1, Least
  <1>4. Min(there) \in there
    <2> HIDE DEF there
    <2> QED BY <1>3 DEF Min
  <1>5. pick(rq) \in DOMAIN templates
    <2> HIDE DEF wanted
    <2> QED BY <1>1, <1>4
  <1>6. ASSUME multiCity(rq.legs) PROVE pick(rq)[2] = "mc" /\ pick(rq)[3] = pattern(rq.legs)
    <2> DEFINE key == of("mc", pattern(rq.legs))
    <2>1. wanted = << key >>
      BY <1>6
    <2> HIDE DEF wanted
    <2>2. \A n \in there : wanted[n] = key
      <3> HIDE DEF key
      <3>1. DOMAIN << key >> = {1} /\ << key >>[1] = key
        OBVIOUS
      <3> QED BY <2>1, <3>1
    <2>3. pick(rq) = of("mc", pattern(rq.legs))
      <3> HIDE DEF there, wanted
      <3> QED BY <1>1, <1>4, <2>2
    <2> QED BY <2>3 DEF Key
  <1> QED BY <1>5, <1>6

\* Every template can be moved to every itinerary that may arrive.
LEMMA TemplateOf ==
  ASSUME Loading, NEW k \in DOMAIN templates
  PROVE  /\ Dates(templates[k].legs)
         /\ \A i \in DOMAIN templates[k].legs :
               /\ templates[k].nights[i] \in Nat
               /\ \A rq \in Asked[stubs] : \A leg \in Range(rq.legs) :
                     leg.day \in Nat => templates[k].nights[i] <= leg.day /\ 0 <= leg.day
         /\ k[2] = "mc" => pattern(templates[k].legs) = k[3]
  <1> DEFINE c == With(templates[k].from, k)
             f == raws[c]
  <1>1. /\ c \in DOMAIN raws /\ k = With(k[1], k)
        /\ templates[k].legs = f.legs /\ templates[k].nights = f.nights
    BY DEF Loading, Made, newTemplate
  <1>2. c[2] = k[2] /\ c[3] = k[3]
    BY <1>1 DEF With
  <1>3. k[2] = "mc" => pattern(f.legs) = k[3]
    BY <1>1, <1>2 DEF Loading, Captured
  <1> HIDE DEF c
  <1>4. /\ f \in File
        /\ \E d \in DOMAIN stubs : stubs[d] # NoDir /\ f \in Files(stubs[d]) /\ Len(f.nights) = Len(f.legs)
    BY <1>1, CapturedFile
  <1>5. stubs \in Stubs
    BY DEF Loading, Captured
  <1> HIDE DEF f
  <1>6. /\ f.legs \in Seq([from : Airports, to : Airports, day : Nat]) /\ f.legs # <<>>
        /\ f.nights \in Seq(Nat)
    BY <1>4 DEF File
  <1>7. Dates(f.legs)
    <2> DEFINE Leg == [from : Airports, to : Airports, day : Nat]
    <2>1. \A leg \in Leg : leg.day \in Nat
      OBVIOUS
    <2> HIDE DEF Leg
    <2>2. List(f.legs) /\ DOMAIN f.legs # {} /\ \A i \in DOMAIN f.legs : f.legs[i] \in Leg
      BY <1>6, LegsOf DEF Leg
    <2> QED BY <2>1, <2>2 DEF Dates
  <1>8. ASSUME NEW i \in DOMAIN f.legs
        PROVE  f.nights[i] \in Nat /\ f.nights[i] \in Range(f.nights)
    <2>1. i \in DOMAIN f.nights
      BY <1>4, <1>6, LenProperties
    <2> QED BY <1>6, <2>1, LenProperties DEF Range
  <1>9. \A rq \in Asked[stubs] : \A leg \in Range(rq.legs) : leg.day \in Nat => \A n \in Range(f.nights) : n <= leg.day
    BY <1>4, <1>5, AskedAssumption
  <1> QED BY <1>1, <1>3, <1>7, <1>8, <1>9

LEMMA RequestOf ==
  ASSUME Loading, NEW rq \in Asked[stubs], Readable(rq)
  PROVE  /\ Days(rq.legs)
         /\ \A i \in DOMAIN rq.legs : rq.legs[i] = [from |-> rq.legs[i].from, to |-> rq.legs[i].to, day |-> rq.legs[i].day]
  <1>1. rq \in AirShoppingRQ
    BY AskedAssumption DEF Loading, Captured
  <1> DEFINE Leg == [from : Airports \cup {NoAirport}, to : Airports \cup {NoAirport}, day : Int]
  <1>2. rq.legs \in Seq(Leg) /\ rq.legs # <<>>
    BY <1>1 DEF AirShoppingRQ, Readable
  <1>3. \A leg \in Leg : leg.day \in Int /\ leg = [from |-> leg.from, to |-> leg.to, day |-> leg.day]
    OBVIOUS
  <1> HIDE DEF Leg
  <1>4. List(rq.legs) /\ DOMAIN rq.legs # {} /\ \A i \in DOMAIN rq.legs : rq.legs[i] \in Leg
    BY <1>2, LegsOf
  <1> QED BY <1>3, <1>4 DEF Days

\* An answer is the template that was picked, moved to the request.
Answering ==
    /\ request # <<>> => phase = "serving" /\ request \in Asked[stubs]
    /\ IF Served THEN /\ request # <<>> /\ Readable(request) /\ pick(request) # NoKey
                      /\ answer = render(Source, request.legs)
       ELSE answer.trip = <<>> /\ answer.departs = <<>>

LEMMA PickStays ==
  ASSUME templates' = templates, request' = request
  PROVE  pick(request)' = pick(request) /\ Source' = Source
  BY DEF pick, Source

LEMMA AnsweringStep == Answering /\ [Next]_vars => Answering'
  <1> SUFFICES ASSUME Answering, [Next]_vars PROVE Answering'
    OBVIOUS
  <1>1. ASSUME request # <<>>, startVars' = startVars, request' = request, answer' = answer PROVE Answering'
    <2>1. stubs' = stubs /\ phase' = phase /\ templates' = templates
      BY <1>1 DEF startVars
    <2> QED BY <1>1, <2>1, PickStays DEF Answering, Served
  <1>2. ASSUME request = <<>>, request' = <<>>, answer' = answer PROVE Answering'
    BY <1>2 DEF Answering, Served
  <1>3. CASE UNCHANGED vars
    BY <1>1, <1>2, <1>3 DEF vars
  <1>4. CASE StartUp /\ UNCHANGED <<request, answer>>
    <2>1. phase # "serving"
      BY <1>4 DEF StartUp, Load, Native, Translate, Loaded, Listen
    <2> QED BY <1>2, <1>4, <2>1 DEF Answering
  <1>5. CASE Ask
    BY <1>5 DEF Answering, Ask, Served, startVars
  <1>6. ASSUME Waiting, UNCHANGED <<startVars, request>>, answer'.code # 200, answer'.trip = <<>>, answer'.departs = <<>>
        PROVE  Answering'
    BY <1>6 DEF Answering, Waiting, Served, startVars
  <1>7. CASE Refuse
    BY <1>6, <1>7 DEF Refuse, Nothing
  <1>8. CASE Unserved
    BY <1>6, <1>8 DEF Unserved, Nothing
  <1>9. CASE Serve
    <2>1. /\ request # <<>> /\ request' = request /\ startVars' = startVars
          /\ Readable(request) /\ pick(request) # NoKey /\ answer' = render(Source, request.legs)
      BY <1>9 DEF Serve, Waiting, Source
    <2>2. answer'.code = 200
      BY <2>1 DEF render
    <2>3. stubs' = stubs /\ phase' = phase /\ templates' = templates
      BY <2>1 DEF startVars
    <2>4. pick(request)' = pick(request) /\ Source' = Source
      BY <2>1, <2>3, PickStays
    <2> QED BY <2>1, <2>2, <2>3, <2>4 DEF Answering, Served
  <1> QED BY <1>3, <1>4, <1>5, <1>7, <1>8, <1>9 DEF Next

THEOREM AnsweringHolds == Spec => []Answering
  <1>1. Init => Answering
    BY DEF Init, Answering, Served, Nothing
  <1> QED BY <1>1, AnsweringStep, PTL DEF Spec

--------------------------------------------------------------------------------
(* The properties of an answer *)

LEMMA Answered ==
  ASSUME Loading, Answering, Served
  PROVE  /\ Dates(Source.legs) /\ Days(request.legs)
         /\ \A i \in DOMAIN request.legs :
               request.legs[i] = [from |-> request.legs[i].from, to |-> request.legs[i].to, day |-> request.legs[i].day]
         /\ \A i \in DOMAIN Source.legs :
               /\ Source.nights[i] \in Nat
               /\ \A leg \in Range(request.legs) : leg.day \in Nat => Source.nights[i] <= leg.day /\ 0 <= leg.day
         /\ multiCity(request.legs) => pattern(Source.legs) = pattern(request.legs)
         /\ answer = render(Source, request.legs)
  <1>1. /\ request \in Asked[stubs] /\ Readable(request) /\ pick(request) # NoKey
        /\ answer = render(Source, request.legs)
    BY DEF Answering
  <1>2. /\ pick(request) \in DOMAIN templates
        /\ multiCity(request.legs) => pick(request)[2] = "mc" /\ pick(request)[3] = pattern(request.legs)
    BY <1>1, PickOf
  <1> QED BY <1>1, <1>2, TemplateOf, RequestOf DEF Source

\* With every date there, a date of a flight moves with the leg nearest to it.
LEMMA Moved ==
  ASSUME NEW ref, Dates(ref.legs), NEW legs, Days(legs), \A i \in DOMAIN legs : legs[i].day \in Nat, NEW day \in Nat
  PROVE  \E j \in DOMAIN ref.legs :
            /\ \A k \in DOMAIN ref.legs : Distance(day, ref.legs[j].day) <= Distance(day, ref.legs[k].day)
            /\ shiftDates(ref, legs, day) = day + LegFor(legs, j).day - ref.legs[j].day
            /\ LegFor(legs, j).day \in Nat
  <1>1. \A i \in DOMAIN ref.legs : LegFor(legs, i).day \in Nat
    <2>1. \A i \in DOMAIN ref.legs : i \in Nat \ {0}
      BY DEF Dates, List
    <2>2. \A leg \in Range(legs) : leg.day \in Nat
      BY DEF Range
    <2> QED BY <2>1, <2>2, LegForOf DEF Days
  <1> QED BY <1>1, ShiftOf

LEMMA AnsweringNextDay == Loading /\ Answering => NextDayKeptApart
  <1> SUFFICES ASSUME Loading, Answering, Served, Dated, Apart(Source), NEW i \in DOMAIN answer.departs
               PROVE  answer.arrives[i] - answer.departs[i] = Source.nights[i]
    BY DEF NextDayKeptApart
  <1> DEFINE ref == Source
             legs == request.legs
             a == ref.legs[i].day
             n == ref.nights[i]
  <1>1. /\ Dates(ref.legs) /\ Days(legs) /\ answer = render(ref, legs)
        /\ \A k \in DOMAIN ref.legs : ref.nights[k] \in Nat
    BY Answered
  <1>2. \A k \in DOMAIN legs : legs[k].day \in Nat
    BY DEF Dated
  <1>3. \A k, l \in DOMAIN ref.legs : k # l => Distance(ref.legs[k].day, ref.legs[l].day) > 2 * ref.nights[k]
    BY DEF Apart
  <1> HIDE DEF ref, legs
  <1>4. /\ i \in DOMAIN ref.legs
        /\ answer.departs[i] = shiftDates(ref, legs, a) /\ answer.arrives[i] = shiftDates(ref, legs, a + n)
    BY <1>1 DEF render
  <1>5. a \in Nat /\ n \in Nat /\ \A k \in DOMAIN ref.legs : ref.legs[k].day \in Nat
    BY <1>1, <1>4 DEF Dates
  <1>6. \A j \in DOMAIN ref.legs : j # i => Distance(a, ref.legs[j].day) > 2 * n
    BY <1>3, <1>4
  <1> HIDE DEF a, n
  <1>7. ASSUME NEW m \in Nat, m <= n
        PROVE  shiftDates(ref, legs, a + m) = a + m + LegFor(legs, i).day - a /\ LegFor(legs, i).day \in Nat
    <2>1. PICK j \in DOMAIN ref.legs :
              /\ Distance(a + m, ref.legs[j].day) <= Distance(a + m, ref.legs[i].day)
              /\ shiftDates(ref, legs, a + m) = a + m + LegFor(legs, j).day - ref.legs[j].day
              /\ LegFor(legs, j).day \in Nat
      BY <1>1, <1>2, <1>4, <1>5, Moved
    <2>2. ref.legs[i].day = a
      BY DEF a
    <2>3. Distance(a + m, a) = m /\ Distance(a, a + m) = m
      BY <1>5, DistanceOf
    <2>4. \A b \in Nat : Distance(a, b) <= m + Distance(a + m, b) /\ Distance(a, b) \in Nat /\ Distance(a + m, b) \in Nat
      <3>1. a + m \in Nat
        BY <1>5
      <3> QED BY <1>5, <2>3, <3>1, DistanceOf
    <2>5. j = i
      <3>1. Distance(a, ref.legs[j].day) \in Nat /\ Distance(a + m, ref.legs[j].day) \in Nat
        BY <1>5, <2>4
      <3>2. Distance(a, ref.legs[j].day) <= 2 * n
        BY <1>5, <1>7, <2>1, <2>2, <2>3, <2>4, <3>1
      <3> QED BY <1>5, <1>6, <3>1, <3>2
    <2> QED BY <2>1, <2>2, <2>5
  <1>8. shiftDates(ref, legs, a) = LegFor(legs, i).day /\ LegFor(legs, i).day \in Nat
    BY <1>5, <1>7
  <1>9. shiftDates(ref, legs, a + n) = n + LegFor(legs, i).day
    BY <1>5, <1>7
  <1> QED BY <1>4, <1>5, <1>8, <1>9 DEF n, ref

\* An airport of a reference of the request's shape becomes the request's at its place.
LEMMA AirportsFor ==
  ASSUME NEW ref, NEW legs, List(ref.legs), List(legs), pattern(ref.legs) = pattern(legs), NEW i \in DOMAIN ref.legs
  PROVE  /\ i \in DOMAIN legs
         /\ airportsFor(ref, legs, ref.legs[i].from) = legs[i].from
         /\ airportsFor(ref, legs, ref.legs[i].to) = legs[i].to
  <1>1. /\ i \in DOMAIN legs
        /\ Place(Ends(ref.legs), ref.legs[i].from) = Place(Ends(legs), legs[i].from)
        /\ Place(Ends(ref.legs), ref.legs[i].to) = Place(Ends(legs), legs[i].to)
    BY SameShape DEF List
  <1>2. /\ Place(Ends(legs), legs[i].from) <= Len(airports(legs)) /\ airports(legs)[Place(Ends(legs), legs[i].from)] = legs[i].from
        /\ Place(Ends(legs), legs[i].to) <= Len(airports(legs)) /\ airports(legs)[Place(Ends(legs), legs[i].to)] = legs[i].to
    BY <1>1, AirportAt
  <1> QED BY <1>1, <1>2 DEF airportsFor

LEMMA AnsweringOwnShape == Loading /\ Answering => MultiCityOwnShape
  <1> SUFFICES ASSUME Loading, Answering, Served, multiCity(request.legs)
               PROVE  pattern(answer.trip) = pattern(request.legs)
    BY DEF MultiCityOwnShape
  <1> DEFINE ref == Source
             legs == request.legs
             trip == answer.trip
  <1>1. /\ List(ref.legs) /\ List(legs) /\ pattern(ref.legs) = pattern(legs) /\ answer = render(ref, legs)
    BY Answered DEF Dates, Days
  <1> HIDE DEF ref, legs
  <1>2. DOMAIN trip = DOMAIN ref.legs /\ \A i \in DOMAIN ref.legs :
            trip[i].from = airportsFor(ref, legs, ref.legs[i].from) /\ trip[i].to = airportsFor(ref, legs, ref.legs[i].to)
    BY <1>1 DEF render
  <1>3. List(trip)
    <2>1. trip \in [1..Len(ref.legs) -> Range(trip)]
      <3>1. trip = [i \in DOMAIN ref.legs |-> trip[i]]
        BY <1>1 DEF render
      <3> QED BY <1>1, <1>2, <3>1 DEF List, Range
    <2> HIDE DEF trip
    <2> QED BY <1>1, <2>1, ListOf DEF List
  <1> HIDE DEF trip
  <1>4. \A i \in DOMAIN trip : trip[i].from = legs[i].from /\ trip[i].to = legs[i].to
    BY <1>1, <1>2, AirportsFor
  <1>5. DOMAIN trip = DOMAIN legs
    BY <1>1, <1>2, SameShape DEF List
  <1>6. pattern(trip) = pattern(legs)
    BY <1>1, <1>3, <1>4, <1>5, ShapeOfEnds
  <1> QED BY <1>6 DEF trip, legs

LEMMA AnsweringTrip == Loading /\ Answering => TripAsAsked
  <1> DEFINE ref == Source
             legs == request.legs
  <1>1. ASSUME Loading, Answering, NEW i \in DOMAIN answer.trip
        PROVE  {answer.trip[i].day, answer.departs[i], answer.arrives[i]} \subseteq Nat
    <2>1. Served
      BY <1>1 DEF Answering
    <2>2. /\ Dates(ref.legs) /\ Days(legs) /\ answer = render(ref, legs)
          /\ \A k \in DOMAIN ref.legs :
                /\ ref.nights[k] \in Nat
                /\ \A leg \in Range(legs) : leg.day \in Nat => ref.nights[k] <= leg.day /\ 0 <= leg.day
      BY <1>1, <2>1, Answered
    <2> HIDE DEF ref, legs
    <2>3. /\ i \in DOMAIN ref.legs
          /\ answer.trip[i].day = shiftDates(ref, legs, ref.legs[i].day)
          /\ answer.departs[i] = shiftDates(ref, legs, ref.legs[i].day)
          /\ answer.arrives[i] = shiftDates(ref, legs, ref.legs[i].day + ref.nights[i])
      BY <1>1, <2>2 DEF render
    <2>4. ref.legs[i].day \in Nat
      BY <2>2, <2>3 DEF Dates
    <2>5. shiftDates(ref, legs, ref.legs[i].day + 0) \in Nat
      BY <2>2, <2>3, ShiftNat
    <2>6. shiftDates(ref, legs, ref.legs[i].day + ref.nights[i]) \in Nat
      BY <2>2, <2>3, ShiftNat
    <2>7. ref.legs[i].day + 0 = ref.legs[i].day
      BY <2>4
    <2> QED BY <2>3, <2>5, <2>6, <2>7
  <1>2. ASSUME Loading, Answering, Served, Dated, pattern(Source.legs) = pattern(request.legs), OneADay(Source)
        PROVE  answer.trip = request.legs
    <2>1. /\ Dates(ref.legs) /\ Days(legs) /\ answer = render(ref, legs)
          /\ \A i \in DOMAIN legs : legs[i] = [from |-> legs[i].from, to |-> legs[i].to, day |-> legs[i].day]
      BY <1>2, Answered
    <2>2. /\ \A k \in DOMAIN legs : legs[k].day \in Nat
          /\ \A k, l \in DOMAIN ref.legs : k # l => ref.legs[k].day # ref.legs[l].day
          /\ pattern(ref.legs) = pattern(legs)
      BY <1>2 DEF Dated, OneADay
    <2> HIDE DEF ref, legs
    <2>3. List(ref.legs) /\ List(legs) /\ DOMAIN legs # {} /\ \A k \in DOMAIN ref.legs : ref.legs[k].day \in Nat /\ k \in Nat \ {0}
      BY <2>1 DEF Dates, Days, List
    <2>4. DOMAIN ref.legs = DOMAIN legs
      BY <2>2, <2>3, SameShape DEF List
    <2>5. ASSUME NEW i \in DOMAIN ref.legs
          PROVE  [from |-> airportsFor(ref, legs, ref.legs[i].from),
                  to |-> airportsFor(ref, legs, ref.legs[i].to),
                  day |-> shiftDates(ref, legs, ref.legs[i].day)] = legs[i]
      <3>1. PICK j \in DOMAIN ref.legs :
                /\ Distance(ref.legs[i].day, ref.legs[j].day) <= Distance(ref.legs[i].day, ref.legs[i].day)
                /\ shiftDates(ref, legs, ref.legs[i].day) = ref.legs[i].day + LegFor(legs, j).day - ref.legs[j].day
        BY <2>1, <2>2, <2>3, Moved
      <3>2. j = i
        <4>1. \A a, b \in Nat : Distance(a, b) <= Distance(a, a) => a = b
          BY DEF Distance
        <4> QED BY <2>2, <2>3, <3>1, <4>1
      <3>3. LegFor(legs, i) = legs[i]
        BY <2>3, <2>4, LegForOf
      <3>4. shiftDates(ref, legs, ref.legs[i].day) = legs[i].day
        BY <2>2, <2>3, <2>4, <3>1, <3>2, <3>3
      <3>5. airportsFor(ref, legs, ref.legs[i].from) = legs[i].from /\ airportsFor(ref, legs, ref.legs[i].to) = legs[i].to
        BY <2>2, <2>3, AirportsFor
      <3> QED BY <2>1, <2>4, <3>4, <3>5
    <2>6. answer.trip = [i \in DOMAIN ref.legs |-> legs[i]]
      BY <2>1, <2>5 DEF render
    <2>7. legs = [i \in DOMAIN legs |-> legs[i]]
      <3>1. request \in AirShoppingRQ
        BY <1>2, AskedAssumption DEF Answering, Loading, Captured
      <3>2. \E S : request.legs \in Seq(S)
        BY <3>1 DEF AirShoppingRQ
      <3> QED BY <3>2, LenProperties DEF legs
    <2> QED BY <2>4, <2>6, <2>7 DEF legs
  <1> QED BY <1>1, <1>2 DEF TripAsAsked

\* A reference of the request's shape becomes the very trip that was asked for, however
\* long the itinerary, however its airports recur and in whatever order its days come.
THEOREM TripAsAskedHolds == Spec => []TripAsAsked
  BY LoadingHolds, AnsweringHolds, AnsweringTrip, PTL

\* No multi-city request is answered with a trip of another shape.
THEOREM MultiCityOwnShapeHolds == Spec => []MultiCityOwnShape
  BY LoadingHolds, AnsweringHolds, AnsweringOwnShape, PTL

\* A next-day arrival stays next-day when the legs of the reference are far enough apart.
THEOREM NextDayKeptApartHolds == Spec => []NextDayKeptApart
  BY LoadingHolds, AnsweringHolds, AnsweringNextDay, PTL
====
