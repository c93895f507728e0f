------------------------------ MODULE AgentProofs ------------------------------
(***************************************************************************)
(* Proofs about Agent: only accepted calls reach the mock, and it acts on  *)
(* each of them at most once; it serves every search among them; there is  *)
(* a reply for each request, and it is that of its request; and what the   *)
(* mock answers its own clients refers to what is there and says the same  *)
(* in both formats.                                                        *)
(***************************************************************************)
EXTENDS Agent, FiniteSetTheorems, WellFoundedInduction, SequenceTheorems, TLAPS

Known == Offered \cup {Opaque}

--------------------------------------------------------------------------------
(* Sets and sequences *)

\* Any set of naturals with an element has a least one.
LEMMA Least == ASSUME NEW S \in SUBSET Nat, S # {} PROVE \E m \in S : \A k \in S : m <= k
  <1> DEFINE Upto(m) == {k \in S : k <= m}
  <1>1. \A m \in S : Upto(m) \in FiniteSubsetsOf(Nat)
    <2>1. \A m \in S : IsFiniteSet(Upto(m))
      BY FS_BoundedSetOfNaturals
    <2> QED BY <2>1 DEF FiniteSubsetsOf
  <1> DEFINE T == {Upto(m) : m \in S}
  <1>2. \E x \in T : \A y \in T : <<y, x>> \notin StrictSubsetOrdering(Nat)
    <2>1. T \subseteq FiniteSubsetsOf(Nat) /\ T # {}
      BY <1>1
    <2> HIDE DEF T
    <2> QED BY <2>1, FS_StrictSubsetOrderingWellFounded, WFMin
  <1>3. PICK m \in S : \A n \in S : <<Upto(n), Upto(m)>> \notin StrictSubsetOrdering(Nat)
    BY <1>2
  <1>4. ASSUME NEW k \in S, k < m PROVE FALSE
    <2>1. \A n \in S : n \in Nat
      OBVIOUS
    <2>2. m \in Upto(m) /\ m \notin Upto(k)
      <3>1. m <= m /\ ~(m <= k)
        BY <1>4, <2>1
      <3> QED BY <3>1
    <2>3. \A j \in S : j <= k => j <= m
      BY <1>4, <2>1
    <2>4. Upto(k) \in SUBSET Nat /\ Upto(m) \in SUBSET Nat
      OBVIOUS
    <2>5. Upto(k) \subseteq Upto(m)
      BY <2>3
    <2> HIDE DEF Upto
    <2>6. <<Upto(k), Upto(m)>> \in StrictSubsetOrdering(Nat)
      BY <2>2, <2>4, <2>5 DEF StrictSubsetOrdering
    <2> QED BY <2>6, <1>3
  <1> QED BY <1>4

\* Firsts leaves out repeats and nothing else.
LEMMA FirstsOnce ==
    ASSUME NEW s, DOMAIN s \subseteq Nat \ {0}
    PROVE  IsInjective(Firsts(s))
  <1>1. DOMAIN Firsts(s) = {k \in DOMAIN s : \A j \in 1..(k - 1) : s[j] # s[k]}
        /\ \A k \in DOMAIN Firsts(s) : Firsts(s)[k] = s[k]
    BY DEF Firsts, Restrict
  <1>2. ASSUME NEW a \in DOMAIN Firsts(s), NEW b \in DOMAIN Firsts(s), s[a] = s[b], a < b PROVE FALSE
    <2>1. a \in 1..(b - 1)
      BY <1>1, <1>2
    <2> QED
      BY <1>1, <1>2, <2>1
  <1>3. \A a, b \in DOMAIN Firsts(s) : a \in Nat /\ b \in Nat
    BY <1>1
  <1> QED
    BY <1>1, <1>2, <1>3 DEF IsInjective

LEMMA FirstsAll ==
    ASSUME NEW s, NEW n \in Nat, DOMAIN s = 1..n
    PROVE  \A k \in 1..n : \E j \in DOMAIN Firsts(s) : Firsts(s)[j] = s[k]
  <1> SUFFICES ASSUME NEW k \in 1..n PROVE \E j \in DOMAIN Firsts(s) : Firsts(s)[j] = s[k]
    OBVIOUS
  <1> DEFINE S == {j \in 1..n : s[j] = s[k]}
  <1>1. S \in SUBSET Nat /\ S # {}
    OBVIOUS
  <1>2. PICK m \in S : \A j \in S : m <= j
    BY <1>1, Least
  <1>3. \A j \in 1..(m - 1) : s[j] # s[m]
    <2> SUFFICES ASSUME NEW j \in 1..(m - 1), s[j] = s[m] PROVE FALSE
      OBVIOUS
    <2>1. m \in 1..n /\ s[m] = s[k]
      OBVIOUS
    <2>2. j \in 1..n
      BY <2>1
    <2>3. m <= j
      BY <1>2, <2>1, <2>2
    <2> QED
      BY <2>1, <2>3
  <1> QED
    BY <1>3 DEF Firsts, Restrict

--------------------------------------------------------------------------------
(* Passengers and segments *)

LEMMA KnownInfo ==
    ASSUME NEW i \in Known
    PROVE  /\ i \in Infos /\ i.legs # <<>> /\ Len(i.legs) \in Nat \ {0} /\ DOMAIN i.legs = 1..Len(i.legs)
           /\ Len(i.legs) <= MaxInt /\ MaxInt \in Nat /\ i.flight \in Nat
           /\ i.ADT \in Nat /\ i.CHD \in Nat /\ i.INF \in Nat /\ i.ADT + i.CHD + i.INF > 0
  <1>1. i \in Infos /\ i.legs # <<>> /\ i.ADT + i.CHD + i.INF > 0 /\ Len(i.legs) <= MaxInt /\ MaxInt \in Nat
    BY OfferedAssumption, IntAssumption DEF Known
  <1> DEFINE Leg == UNION {Range(j.legs) : j \in Offered \cup {Opaque}}
  <1>2. i.legs \in Seq(Leg)
    BY <1>1 DEF Infos
  <1> HIDE DEF Leg
  <1>3. Len(i.legs) \in Nat /\ DOMAIN i.legs = 1..Len(i.legs) /\ Len(i.legs) # 0
    BY <1>1, <1>2, LenProperties, EmptySeq
  <1> QED
    BY <1>1, <1>3 DEF Infos

LEMMA EnumeratedSeq ==
    ASSUME NEW type \in {"ADT", "CHD", "INF"}, NEW n \in Nat
    PROVE  /\ Enumerated(type, n) \in Seq({"ADT", "CHD", "INF"} \X Int) /\ Len(Enumerated(type, n)) = n
           /\ \A k \in 1..n : Enumerated(type, n)[k] = <<type, k>>
  <1> DEFINE T == {"ADT", "CHD", "INF"} \X Int
  <1>1. \A k \in 1..n : <<type, k>> \in T
    OBVIOUS
  <1> HIDE DEF T
  <1>2. Enumerated(type, n) \in [1..n -> T]
    BY <1>1 DEF Enumerated
  <1>3. Enumerated(type, n) \in Seq(T)
    BY <1>2
  <1>4. Len(Enumerated(type, n)) = n
    BY <1>2, <1>3, LenProperties
  <1> QED
    BY <1>3, <1>4 DEF T, Enumerated

LEMMA Concatenated ==
    ASSUME NEW T, NEW a \in Seq(T), NEW c \in Seq(T), NEW f \in Seq(T)
    PROVE  /\ a \o c \o f \in Seq(T) /\ Len(a \o c \o f) = Len(a) + Len(c) + Len(f)
           /\ DOMAIN (a \o c \o f) = 1..(Len(a) + Len(c) + Len(f))
           /\ \A k \in 1..(Len(a) + Len(c) + Len(f)) :
                 (a \o c \o f)[k] = IF k <= Len(a) THEN a[k]
                                    ELSE IF k <= Len(a) + Len(c) THEN c[k - Len(a)]
                                    ELSE f[k - (Len(a) + Len(c))]
  <1>1. Len(a) \in Nat /\ Len(c) \in Nat /\ Len(f) \in Nat
    BY LenProperties
  <1>2. PICK b : b = a \o c
    OBVIOUS
  <1>3. b \in Seq(T)
    BY <1>2, ConcatProperties
  <1>4. /\ Len(b) = Len(a) + Len(c)
        /\ \A k \in 1..(Len(a) + Len(c)) : b[k] = IF k <= Len(a) THEN a[k] ELSE c[k - Len(a)]
    BY <1>2, ConcatProperties
  <1>5. PICK d : d = b \o f
    OBVIOUS
  <1>6. /\ d \in Seq(T) /\ Len(d) = Len(b) + Len(f)
        /\ \A k \in 1..(Len(b) + Len(f)) : d[k] = IF k <= Len(b) THEN b[k] ELSE f[k - Len(b)]
    BY <1>3, <1>5, ConcatProperties
  <1>7. DOMAIN d = 1..Len(d)
    BY <1>6, LenProperties
  <1> QED
    BY <1>1, <1>2, <1>4, <1>5, <1>6, <1>7

\* Adults, then children, then infants
LEMMA PaxIDs ==
    ASSUME NEW i \in Known, NEW A \in Nat, NEW C \in Nat, NEW F \in Nat, i.ADT = A, i.CHD = C, i.INF = F
    PROVE  /\ DOMAIN paxIDs(i) = 1..(A + C + F) /\ Len(paxIDs(i)) = A + C + F
           /\ \A k \in 1..(A + C + F) :
                 paxIDs(i)[k] = IF k <= A THEN <<"ADT", k>>
                                ELSE IF k <= A + C THEN <<"CHD", k - A>> ELSE <<"INF", k - (A + C)>>
  <1>1. PICK a, c, f : a = Enumerated("ADT", A) /\ c = Enumerated("CHD", C) /\ f = Enumerated("INF", F)
    OBVIOUS
  <1>2. PICK T : a \in Seq(T) /\ c \in Seq(T) /\ f \in Seq(T)
    BY <1>1, EnumeratedSeq
  <1>3. /\ Len(a) = A /\ \A k \in 1..A : a[k] = <<"ADT", k>>
        /\ Len(c) = C /\ \A k \in 1..C : c[k] = <<"CHD", k>>
        /\ Len(f) = F /\ \A k \in 1..F : f[k] = <<"INF", k>>
    BY <1>1, EnumeratedSeq
  <1>4. paxIDs(i) = a \o c \o f
    BY <1>1 DEF paxIDs
  <1>5. /\ DOMAIN paxIDs(i) = 1..(A + C + F) /\ Len(paxIDs(i)) = A + C + F
        /\ \A k \in 1..(A + C + F) :
              paxIDs(i)[k] = IF k <= A THEN a[k] ELSE IF k <= A + C THEN c[k - A] ELSE f[k - (A + C)]
    <2>1. PICK p : p = a \o c \o f
      OBVIOUS
    <2>2. /\ DOMAIN p = 1..(Len(a) + Len(c) + Len(f)) /\ Len(p) = Len(a) + Len(c) + Len(f)
          /\ \A k \in 1..(Len(a) + Len(c) + Len(f)) :
                p[k] = IF k <= Len(a) THEN a[k]
                       ELSE IF k <= Len(a) + Len(c) THEN c[k - Len(a)] ELSE f[k - (Len(a) + Len(c))]
      BY <1>2, <2>1, Concatenated
    <2> QED
      BY <1>3, <1>4, <2>1, <2>2
  <1>6. ASSUME NEW k \in 1..(A + C + F)
        PROVE  paxIDs(i)[k] = IF k <= A THEN <<"ADT", k>>
                              ELSE IF k <= A + C THEN <<"CHD", k - A>> ELSE <<"INF", k - (A + C)>>
    <2>1. CASE k <= A
      BY <1>3, <1>5, <2>1
    <2>2. CASE ~(k <= A) /\ k <= A + C
      <3>1. k - A \in 1..C
        BY <2>2
      <3> QED
        BY <1>3, <1>5, <2>2, <3>1
    <2>3. CASE ~(k <= A) /\ ~(k <= A + C)
      <3>1. k - (A + C) \in 1..F
        BY <2>3
      <3> QED
        BY <1>3, <1>5, <2>3, <3>1
    <2> QED
      BY <2>1, <2>2, <2>3
  <1> QED
    BY <1>5, <1>6

LEMMA PaxParts ==
    ASSUME NEW i \in Known
    PROVE  \E A, C, F \in Nat : i.ADT = A /\ i.CHD = C /\ i.INF = F
  BY KnownInfo

LEMMA PaxOnce == ASSUME NEW i \in Known PROVE IsInjective(paxIDs(i))
  <1>1. PICK A, C, F \in Nat : i.ADT = A /\ i.CHD = C /\ i.INF = F
    BY PaxParts
  <1>2. /\ DOMAIN paxIDs(i) = 1..(A + C + F)
        /\ \A k \in 1..(A + C + F) :
              paxIDs(i)[k] = IF k <= A THEN <<"ADT", k>>
                             ELSE IF k <= A + C THEN <<"CHD", k - A>> ELSE <<"INF", k - (A + C)>>
    BY <1>1, PaxIDs
  <1>3. ASSUME NEW k \in 1..(A + C + F), NEW l \in 1..(A + C + F), paxIDs(i)[k] = paxIDs(i)[l]
        PROVE  k = l
    BY <1>2, <1>3
  <1> QED
    BY <1>2, <1>3 DEF IsInjective

LEMMA PaxCounted ==
    ASSUME NEW i \in Known
    PROVE  /\ Cardinality({k \in DOMAIN paxIDs(i) : paxIDs(i)[k][1] = "ADT"}) = i.ADT
           /\ Cardinality({k \in DOMAIN paxIDs(i) : paxIDs(i)[k][1] = "CHD"}) = i.CHD
           /\ Cardinality({k \in DOMAIN paxIDs(i) : paxIDs(i)[k][1] = "INF"}) = i.INF
  <1>1. PICK A, C, F \in Nat : i.ADT = A /\ i.CHD = C /\ i.INF = F
    BY PaxParts
  <1>2. /\ DOMAIN paxIDs(i) = 1..(A + C + F)
        /\ \A k \in 1..(A + C + F) :
              paxIDs(i)[k] = IF k <= A THEN <<"ADT", k>>
                             ELSE IF k <= A + C THEN <<"CHD", k - A>> ELSE <<"INF", k - (A + C)>>
    BY <1>1, PaxIDs
  <1>3. {k \in DOMAIN paxIDs(i) : paxIDs(i)[k][1] = "ADT"} = 1..A
    BY <1>2
  <1>4. {k \in DOMAIN paxIDs(i) : paxIDs(i)[k][1] = "CHD"} = (A + 1)..(A + C)
    BY <1>2
  <1>5. {k \in DOMAIN paxIDs(i) : paxIDs(i)[k][1] = "INF"} = (A + C + 1)..(A + C + F)
    BY <1>2
  <1>6. /\ Cardinality(1..A) = A /\ Cardinality((A + 1)..(A + C)) = C
        /\ Cardinality((A + C + 1)..(A + C + F)) = F
    <2>1. Cardinality(1..A) = A
      BY FS_Interval
    <2>2. Cardinality((A + 1)..(A + C)) = C
      <3>1. PICK x, y \in Int : x = A + 1 /\ y = A + C
        OBVIOUS
      <3>2. Cardinality(x..y) = IF x > y THEN 0 ELSE y - x + 1
        BY FS_Interval
      <3> QED
        BY <3>1, <3>2
    <2>3. Cardinality((A + C + 1)..(A + C + F)) = F
      <3>1. PICK x, y \in Int : x = A + C + 1 /\ y = A + C + F
        OBVIOUS
      <3>2. Cardinality(x..y) = IF x > y THEN 0 ELSE y - x + 1
        BY FS_Interval
      <3> QED
        BY <3>1, <3>2
    <2> QED
      BY <2>1, <2>2, <2>3
  <1> QED
    BY <1>1, <1>3, <1>4, <1>5, <1>6

\* One segment a leg, told apart by its ends or else by its flight
LEMMA SegmentsOnce ==
    ASSUME NEW i \in Known,
           \/ IsInjective([n \in DOMAIN i.legs |-> <<i.legs[n].from, i.legs[n].to>>])
           \/ segmentIDs(i)[1][4] <= MaxInt
    PROVE  IsInjective(segmentIDs(i))
  <1>1. /\ DOMAIN i.legs = 1..Len(i.legs) /\ Len(i.legs) \in Nat \ {0} /\ Len(i.legs) <= MaxInt
        /\ MaxInt \in Nat /\ i.flight \in Nat
    BY KnownInfo
  <1>2. /\ DOMAIN segmentIDs(i) = DOMAIN i.legs
        /\ \A n \in DOMAIN i.legs :
              segmentIDs(i)[n] = <<"SEG", i.legs[n].from, i.legs[n].to, bumpFlight(i.flight, n - 1)>>
    BY DEF segmentIDs, flights
  <1>3. ASSUME NEW k \in DOMAIN i.legs, NEW l \in DOMAIN i.legs, segmentIDs(i)[k] = segmentIDs(i)[l]
        PROVE  k = l
    <2>1. /\ i.legs[k].from = i.legs[l].from /\ i.legs[k].to = i.legs[l].to
          /\ bumpFlight(i.flight, k - 1) = bumpFlight(i.flight, l - 1)
      BY <1>2, <1>3
    <2>2. CASE IsInjective([n \in DOMAIN i.legs |-> <<i.legs[n].from, i.legs[n].to>>])
      BY <2>1, <2>2 DEF IsInjective
    <2>3. CASE segmentIDs(i)[1][4] <= MaxInt
      <3>1. bumpFlight(i.flight, 0) <= MaxInt
        BY <1>1, <1>2, <2>3, SMTT(30)
      <3>2. i.flight <= MaxInt
        BY <1>1, <3>1 DEF bumpFlight
      <3>3. PICK f, M, L, x, y \in Int :
               f = i.flight /\ M = MaxInt /\ L = Len(i.legs) /\ x = k - 1 /\ y = l - 1
        BY <1>1
      <3>4. x \in 0..(L - 1) /\ y \in 0..(L - 1) /\ L <= M /\ f <= M /\ f >= 0
        BY <1>1, <3>2, <3>3
      <3>5. /\ bumpFlight(f, x) = IF f + x > M THEN f + x - 2 * (M + 1) ELSE f + x
            /\ bumpFlight(f, y) = IF f + y > M THEN f + y - 2 * (M + 1) ELSE f + y
        <4>1. ~(f > MaxInt)
          BY <3>3, <3>4
        <4> QED
          BY <3>3, <4>1 DEF bumpFlight
      <3>6. bumpFlight(f, x) = bumpFlight(f, y)
        BY <2>1, <3>3
      <3>7. x = y
        BY <3>4, <3>5, <3>6
      <3> QED
        BY <1>1, <3>3, <3>7
    <2> QED
      BY <2>2, <2>3
  <1> QED
    BY <1>2, <1>3 DEF IsInjective

--------------------------------------------------------------------------------
(* The lists and the services of a document *)

\* What a service refers to is in the document.
Refers(d, s) ==
    /\ Range(s.pax) \subseteq Range(d.lists.pax) /\ s.pax # <<>>
    /\ Range(s.segments) \subseteq Range(d.lists.segments)
    /\ Range(s.journeys) \subseteq Range(IDs(d.lists.journeys))
    /\ Range(s.definition) \subseteq Range(d.definitions)

\* What ReferencesResolve says of a document
Resolves(d) ==
    /\ \A ids \in {d.lists.pax, IDs(d.lists.journeys), IDs(d.items), d.definitions} : IsInjective(ids)
    /\ OnceEach(d) \/ d.lists.segments[1][4] <= MaxInt => IsInjective(d.lists.segments)
    /\ \A j \in Range(d.lists.journeys) : j.segment \in Range(d.lists.segments)
    /\ Range(d.lists.ods) = Range(IDs(d.lists.journeys))
    /\ \A s \in Range(Services(d)) : Refers(d, s)
    /\ \A s \in d.seats : s.item \in Range(IDs(d.items))

\* The services are told apart by their identifiers.
Apart(d) == OnceEach(d) => IsInjective(IDs(Services(d)))

LEMMA Lists ==
    ASSUME NEW i \in Known
    PROVE  /\ dataLists(i).pax = paxIDs(i) /\ dataLists(i).segments = segmentIDs(i)
           /\ dataLists(i).ods = journeyIDs(i) /\ IDs(dataLists(i).journeys) = journeyIDs(i)
           /\ DOMAIN dataLists(i).journeys = DOMAIN i.legs
           /\ \A n \in DOMAIN i.legs : dataLists(i).journeys[n].segment = segmentIDs(i)[n]
           /\ DOMAIN segmentIDs(i) = DOMAIN i.legs /\ 1 \in DOMAIN i.legs
           /\ DOMAIN paxIDs(i) # {}
  <1>1. dataLists(i).pax = paxIDs(i) /\ dataLists(i).segments = segmentIDs(i) /\ dataLists(i).ods = journeyIDs(i)
    BY DEF dataLists, journeyIDs
  <1>2. dataLists(i).journeys = [n \in DOMAIN i.legs |-> [id |-> <<"PJ", n>>, segment |-> segmentIDs(i)[n]]]
    BY DEF dataLists
  <1>3. IDs(dataLists(i).journeys) = journeyIDs(i)
    BY <1>2 DEF IDs, journeyIDs
  <1>4. DOMAIN segmentIDs(i) = DOMAIN i.legs /\ 1 \in DOMAIN i.legs
    BY KnownInfo DEF segmentIDs
  <1>5. DOMAIN paxIDs(i) # {}
    <2>1. PICK A, C, F \in Nat : i.ADT = A /\ i.CHD = C /\ i.INF = F
      BY PaxParts
    <2>2. A + C + F > 0
      BY <2>1, KnownInfo
    <2>3. 1 \in 1..(A + C + F)
      BY <2>2
    <2>4. DOMAIN paxIDs(i) = 1..(A + C + F)
      BY <2>1, PaxIDs
    <2> QED
      BY <2>3, <2>4
  <1> QED
    BY <1>1, <1>2, <1>3, <1>4, <1>5

LEMMA ListsResolve ==
    ASSUME NEW i \in Known, NEW d, d.lists = dataLists(i)
    PROVE  /\ IsInjective(d.lists.pax) /\ IsInjective(IDs(d.lists.journeys))
           /\ OnceEach(d) \/ d.lists.segments[1][4] <= MaxInt => IsInjective(d.lists.segments)
           /\ OnceEach(d) => IsInjective([n \in DOMAIN i.legs |-> <<i.legs[n].from, i.legs[n].to>>])
           /\ \A j \in Range(d.lists.journeys) : j.segment \in Range(d.lists.segments)
           /\ Range(d.lists.ods) = Range(IDs(d.lists.journeys))
  <1>1. IsInjective(d.lists.pax)
    BY Lists, PaxOnce
  <1>2. IsInjective(journeyIDs(i))
    BY DEF IsInjective, journeyIDs
  <1>3. ASSUME OnceEach(d) PROVE IsInjective([n \in DOMAIN i.legs |-> <<i.legs[n].from, i.legs[n].to>>])
    <2>1. IsInjective([n \in DOMAIN segmentIDs(i) |-> <<segmentIDs(i)[n][2], segmentIDs(i)[n][3]>>])
      BY <1>3, Lists DEF OnceEach
    <2>2. \A n \in DOMAIN i.legs : segmentIDs(i)[n][2] = i.legs[n].from /\ segmentIDs(i)[n][3] = i.legs[n].to
      BY DEF segmentIDs
    <2>3. [n \in DOMAIN segmentIDs(i) |-> <<segmentIDs(i)[n][2], segmentIDs(i)[n][3]>>]
              = [n \in DOMAIN i.legs |-> <<i.legs[n].from, i.legs[n].to>>]
      BY <2>2, Lists
    <2> QED
      BY <2>1, <2>3
  <1>4. OnceEach(d) \/ d.lists.segments[1][4] <= MaxInt => IsInjective(d.lists.segments)
    BY <1>3, Lists, SegmentsOnce
  <1>5. \A j \in Range(d.lists.journeys) : j.segment \in Range(d.lists.segments)
    BY Lists DEF Range
  <1> QED
    BY <1>1, <1>2, <1>3, <1>4, <1>5, Lists

LEMMA ItemParts ==
    ASSUME NEW id, NEW total, NEW services
    PROVE  /\ Item(id, total, services).id = id /\ Item(id, total, services).services = services
           /\ Item(id, total, services).price = price(total) /\ price(total).total = total
  BY DEF Item, price

LEMMA FlightServiceParts ==
    ASSUME NEW i
    PROVE  /\ flightService(i).pax = paxIDs(i) /\ flightService(i).journeys = journeyIDs(i)
           /\ flightService(i).segments = <<>> /\ flightService(i).definition = <<>>
  BY DEF flightService, Service

LEMMA ALaCarteParts ==
    ASSUME NEW id, NEW definition, NEW pax, NEW segments, NEW total,
           NEW item, item = aLaCarteItem(id, definition, pax, segments, total)
    PROVE  /\ item.id = id /\ item.price = price(total) /\ DOMAIN item.services = {1}
           /\ item.services[1].id = id /\ item.services[1].definition = <<definition>>
           /\ item.services[1].pax = pax /\ item.services[1].segments = segments
           /\ item.services[1].journeys = <<>>
  <1>1. PICK s : s = [Service(id) EXCEPT !.definition = <<definition>>, !.pax = pax, !.segments = segments]
    OBVIOUS
  <1>2. s.id = id /\ s.definition = <<definition>> /\ s.pax = pax /\ s.segments = segments /\ s.journeys = <<>>
    BY <1>1 DEF Service
  <1>3. item = Item(id, total, <<s>>)
    BY <1>1 DEF aLaCarteItem
  <1>4. DOMAIN <<s>> = {1} /\ <<s>>[1] = s
    OBVIOUS
  <1> QED
    BY <1>2, <1>3, <1>4, ItemParts

LEMMA ServicesAt ==
    ASSUME NEW d, NEW z \in DOMAIN Services(d)
    PROVE  \E n \in DOMAIN d.items : \E k \in DOMAIN d.items[n].services :
              z = <<n, k>> /\ Services(d)[z] = d.items[n].services[k]
  <1> DEFINE D(n) == DOMAIN d.items[n].services
             Z == UNION {{n} \X D(n) : n \in DOMAIN d.items}
  <1>1. Services(d) = [x \in Z |-> d.items[x[1]].services[x[2]]]
    BY DEF Services
  <1>2. \A x \in Z : \E n \in DOMAIN d.items : x \in {n} \X D(n)
    OBVIOUS
  <1> HIDE DEF Z
  <1>3. z \in Z
    BY <1>1
  <1>4. PICK n \in DOMAIN d.items : z \in {n} \X D(n)
    BY <1>2, <1>3
  <1>5. PICK k \in D(n) : z = <<n, k>>
    BY <1>4
  <1>6. Services(d)[z] = d.items[z[1]].services[z[2]]
    BY <1>1, <1>3
  <1> QED
    BY <1>5, <1>6

LEMMA ServicesOf ==
    ASSUME NEW d, NEW s \in Range(Services(d))
    PROVE  \E n \in DOMAIN d.items : \E k \in DOMAIN d.items[n].services : s = d.items[n].services[k]
  BY ServicesAt DEF Range

LEMMA ServicesOnce ==
    ASSUME NEW d,
           \A n, m \in DOMAIN d.items :
              \A k \in DOMAIN d.items[n].services, l \in DOMAIN d.items[m].services :
                 d.items[n].services[k].id = d.items[m].services[l].id => n = m /\ k = l
    PROVE  IsInjective(IDs(Services(d)))
  <1> SUFFICES ASSUME NEW x \in DOMAIN Services(d), NEW y \in DOMAIN Services(d),
                      Services(d)[x].id = Services(d)[y].id
               PROVE  x = y
    BY DEF IsInjective, IDs
  <1>1. PICK n \in DOMAIN d.items : \E k \in DOMAIN d.items[n].services :
                  x = <<n, k>> /\ Services(d)[x] = d.items[n].services[k]
    BY ServicesAt
  <1>2. PICK m \in DOMAIN d.items : \E l \in DOMAIN d.items[m].services :
                  y = <<m, l>> /\ Services(d)[y] = d.items[m].services[l]
    BY ServicesAt
  <1> QED
    BY <1>1, <1>2

--------------------------------------------------------------------------------
(* The references of each document *)

\* Documents whose items are of one flight service
LEMMA FlightsResolve ==
    ASSUME NEW i \in Known, NEW d, d.lists = dataLists(i), d.definitions = <<>>, d.seats = {},
           NEW o \in Known, o.legs = i.legs, paxIDs(o) = paxIDs(i),
           \A n \in DOMAIN d.items : d.items[n].services = << flightService(o) >>
    PROVE  \A s \in Range(Services(d)) : Refers(d, s)
  <1> SUFFICES ASSUME NEW s \in Range(Services(d)) PROVE Refers(d, s)
    OBVIOUS
  <1>1. s = flightService(o)
    BY ServicesOf
  <1>2. s.pax = paxIDs(i) /\ s.journeys = journeyIDs(i) /\ s.segments = <<>> /\ s.definition = <<>>
    BY <1>1, FlightServiceParts DEF journeyIDs
  <1>3. paxIDs(i) # <<>>
    BY Lists
  <1> QED
    BY <1>2, <1>3, Lists DEF Refers, Range

LEMMA OfferPriceParts ==
    ASSUME NEW i, NEW d, d = OfferPriceRS(i)
    PROVE  /\ d.lists = dataLists(i) /\ d.definitions = <<>> /\ d.seats = {}
           /\ d.items = << Item(<<"ITEM", 1>>, i.amount, <<flightService(i)>>) >> /\ d.total = <<price(i.amount)>>
  BY DEF OfferPriceRS, Document

LEMMA OfferPriceResolves ==
    ASSUME NEW i \in Known
    PROVE  Resolves(OfferPriceRS(i)) /\ Apart(OfferPriceRS(i))
  <1>1. PICK d : d = OfferPriceRS(i)
    OBVIOUS
  <1>2. /\ d.lists = dataLists(i) /\ d.definitions = <<>> /\ d.seats = {}
        /\ DOMAIN d.items = {1} /\ d.items[1].services = <<flightService(i)>>
    <2>1. d.lists = dataLists(i) /\ d.definitions = <<>> /\ d.seats = {}
      BY <1>1, OfferPriceParts
    <2>2. d.items = << Item(<<"ITEM", 1>>, i.amount, <<flightService(i)>>) >>
      BY <1>1, OfferPriceParts
    <2>3. d.items[1] = Item(<<"ITEM", 1>>, i.amount, <<flightService(i)>>) /\ DOMAIN d.items = {1}
      BY <2>2
    <2>4. d.items[1].services = <<flightService(i)>>
      BY <2>3, ItemParts
    <2> QED
      BY <2>1, <2>3, <2>4
  <1>3. IsInjective(IDs(d.items)) /\ IsInjective(d.definitions)
    BY <1>2 DEF IsInjective, IDs
  <1>4. \A s \in Range(Services(d)) : Refers(d, s)
    BY <1>2, FlightsResolve
  <1>5. IsInjective(IDs(Services(d)))
    BY <1>2, ServicesOnce
  <1> QED
    BY <1>1, <1>2, <1>3, <1>4, <1>5, ListsResolve DEF Resolves, Apart

LEMMA OrderReshopParts ==
    ASSUME NEW o, NEW n, NEW d, d = OrderReshopRS(o, n)
    PROVE  /\ d.lists = dataLists(o.info) /\ d.definitions = <<>> /\ d.seats = {}
           /\ DOMAIN d.items = 1..n
           /\ \A k \in 1..n : LET alt == Alternative(o.info, k)
                              IN  d.items[k] = Item(<<"ITEM", k>>, alt.amount, <<flightService(alt)>>)
  <1> DEFINE items == [k \in 1..n |-> LET alt == Alternative(o.info, k)
                                      IN  Item(<<"ITEM", k>>, alt.amount, <<flightService(alt)>>)]
  <1>1. d = Document(o.info, items)
    BY DEF OrderReshopRS
  <1>2. /\ DOMAIN items = 1..n
        /\ \A k \in 1..n : LET alt == Alternative(o.info, k)
                           IN  items[k] = Item(<<"ITEM", k>>, alt.amount, <<flightService(alt)>>)
    OBVIOUS
  <1> HIDE DEF items
  <1> QED
    BY <1>1, <1>2 DEF Document

\* An alternative is the same trip of the same party.
LEMMA AlternativeSame ==
    ASSUME NEW i \in Known, NEW k
    PROVE  LET alt == Alternative(i, k)
           IN  /\ alt.legs = i.legs /\ alt.flight = i.flight
               /\ alt.ADT = i.ADT /\ alt.CHD = i.CHD /\ alt.INF = i.INF
  <1>1. i \in Infos
    BY KnownInfo
  <1> QED
    BY <1>1 DEF Alternative, Infos

LEMMA OrderReshopResolves ==
    ASSUME NEW o, o.info \in Known, NEW n \in Nat
    PROVE  Resolves(OrderReshopRS(o, n))
  <1>1. PICK d : d = OrderReshopRS(o, n)
    OBVIOUS
  <1>2. PICK i \in Known : i = o.info
    OBVIOUS
  <1>3. /\ d.lists = dataLists(i) /\ d.definitions = <<>> /\ d.seats = {} /\ DOMAIN d.items = 1..n
        /\ \A k \in 1..n : /\ d.items[k].id = <<"ITEM", k>>
                           /\ d.items[k].services = <<flightService(Alternative(i, k))>>
    <2>1. /\ d.lists = dataLists(i) /\ d.definitions = <<>> /\ d.seats = {} /\ DOMAIN d.items = 1..n
          /\ \A k \in 1..n : LET alt == Alternative(i, k)
                             IN  d.items[k] = Item(<<"ITEM", k>>, alt.amount, <<flightService(alt)>>)
      BY <1>1, <1>2, OrderReshopParts
    <2> QED
      <3>1. ASSUME NEW k \in 1..n
            PROVE  d.items[k].id = <<"ITEM", k>> /\ d.items[k].services = <<flightService(Alternative(i, k))>>
        <4>1. d.items[k] = Item(<<"ITEM", k>>, Alternative(i, k).amount, <<flightService(Alternative(i, k))>>)
          BY <2>1
        <4> QED
          BY <4>1, ItemParts
      <3> QED
        BY <2>1, <3>1
  <1>4. IsInjective(IDs(d.items)) /\ IsInjective(d.definitions)
    BY <1>3 DEF IsInjective, IDs
  <1>5. ASSUME NEW s \in Range(Services(d)) PROVE Refers(d, s)
    <2>1. PICK k \in 1..n : s = flightService(Alternative(i, k))
      <3>1. PICK k \in DOMAIN d.items : \E l \in DOMAIN d.items[k].services : s = d.items[k].services[l]
        BY ServicesOf
      <3> QED
        BY <1>3, <3>1
    <2>2. s.pax = paxIDs(i) /\ s.journeys = journeyIDs(i) /\ s.segments = <<>> /\ s.definition = <<>>
      <3>1. PICK alt : alt = Alternative(i, k)
        OBVIOUS
      <3>2. alt.legs = i.legs /\ alt.ADT = i.ADT /\ alt.CHD = i.CHD /\ alt.INF = i.INF
        BY <3>1, AlternativeSame
      <3>3. paxIDs(alt) = paxIDs(i) /\ journeyIDs(alt) = journeyIDs(i)
        BY <3>2 DEF paxIDs, journeyIDs
      <3> QED
        BY <2>1, <3>1, <3>3, FlightServiceParts
    <2>3. paxIDs(i) # <<>>
      BY Lists
    <2> QED
      BY <1>3, <2>2, <2>3, Lists DEF Refers, Range
  <1> QED
    BY <1>1, <1>3, <1>4, <1>5, ListsResolve DEF Resolves

LEMMA OrderViewParts ==
    ASSUME NEW o, NEW d, d = OrderViewRS(o)
    PROVE  /\ d.lists = dataLists(o.info) /\ d.definitions = <<>> /\ d.seats = {}
           /\ d.items = << Item(<<"ITEM", 1>>, o.info.amount, orderServices(o.info)) >>
           /\ d.total = <<price(o.info.amount)>> /\ d.status = <<orderStatus[o.status]>>
  BY DEF OrderViewRS, Document

LEMMA OrderServicesAre ==
    ASSUME NEW i \in Known, NEW x \in DOMAIN orderServices(i)
    PROVE  \E p \in DOMAIN paxIDs(i), n \in DOMAIN i.legs :
              LET s == orderServices(i)[x]
              IN  /\ x = <<p, n>> /\ s.id = <<"SVC", paxIDs(i)[p], i.legs[n]>>
                  /\ s.pax = <<paxIDs(i)[p]>> /\ s.segments = <<segmentIDs(i)[n]>>
                  /\ s.journeys = <<>> /\ s.definition = <<>>
  <1>1. PICK p \in DOMAIN paxIDs(i), n \in DOMAIN i.legs : x = <<p, n>>
    BY DEF orderServices
  <1>2. orderServices(i)[x] = [Service(<<"SVC", paxIDs(i)[p], i.legs[n]>>) EXCEPT
                                  !.pax = <<paxIDs(i)[p]>>, !.segments = <<segmentIDs(i)[n]>>]
    BY <1>1 DEF orderServices
  <1> QED
    BY <1>1, <1>2 DEF Service

LEMMA OrderViewResolves ==
    ASSUME NEW o, o.info \in Known
    PROVE  Resolves(OrderViewRS(o)) /\ Apart(OrderViewRS(o))
  <1>1. PICK d : d = OrderViewRS(o)
    OBVIOUS
  <1>2. PICK i \in Known : i = o.info
    OBVIOUS
  <1>3. /\ d.lists = dataLists(i) /\ d.definitions = <<>> /\ d.seats = {}
        /\ DOMAIN d.items = {1} /\ d.items[1].services = orderServices(i)
    <2>1. d.lists = dataLists(i) /\ d.definitions = <<>> /\ d.seats = {}
      BY <1>1, <1>2, OrderViewParts
    <2>2. d.items = << Item(<<"ITEM", 1>>, i.amount, orderServices(i)) >>
      BY <1>1, <1>2, OrderViewParts
    <2>3. d.items[1] = Item(<<"ITEM", 1>>, i.amount, orderServices(i)) /\ DOMAIN d.items = {1}
      BY <2>2
    <2>4. d.items[1].services = orderServices(i)
      BY <2>3, ItemParts
    <2> QED
      BY <2>1, <2>3, <2>4
  <1>4. IsInjective(IDs(d.items)) /\ IsInjective(d.definitions)
    BY <1>3 DEF IsInjective, IDs
  <1>5. ASSUME NEW s \in Range(Services(d)) PROVE Refers(d, s)
    <2>1. PICK x \in DOMAIN orderServices(i) : s = orderServices(i)[x]
      BY <1>3, ServicesOf
    <2>2. PICK p \in DOMAIN paxIDs(i), n \in DOMAIN i.legs :
             /\ s.pax = <<paxIDs(i)[p]>> /\ s.segments = <<segmentIDs(i)[n]>>
             /\ s.journeys = <<>> /\ s.definition = <<>>
      BY <2>1, OrderServicesAre
    <2> QED
      BY <1>3, <2>2, Lists DEF Refers, Range
  <1>6. ASSUME OnceEach(d) PROVE IsInjective(IDs(Services(d)))
    <2>1. IsInjective([n \in DOMAIN i.legs |-> <<i.legs[n].from, i.legs[n].to>>])
      BY <1>3, <1>6, ListsResolve
    <2>2. \A n, m \in DOMAIN i.legs : i.legs[n] = i.legs[m] => n = m
      BY <2>1 DEF IsInjective
    <2>3. \A p, q \in DOMAIN paxIDs(i) : paxIDs(i)[p] = paxIDs(i)[q] => p = q
      BY PaxOnce DEF IsInjective
    <2>4. \A x, y \in DOMAIN orderServices(i) : orderServices(i)[x].id = orderServices(i)[y].id => x = y
      BY <2>2, <2>3, OrderServicesAre
    <2> QED
      BY <1>3, <2>4, ServicesOnce
  <1> QED
    BY <1>1, <1>3, <1>4, <1>5, <1>6, ListsResolve DEF Resolves, Apart

LEMMA ServiceListParts ==
    ASSUME NEW i, NEW n, NEW d, d = ServiceListRS(i, n)
    PROVE  /\ d.lists = dataLists(i) /\ d.seats = {} /\ d.items = ServiceItems(i, n)
           /\ d.definitions = Firsts(definitions(i, n))
  BY DEF ServiceListRS, Document

\* An item for each service that is made up
LEMMA ServiceItemsAre ==
    ASSUME NEW i, NEW n, NEW k \in 1..n
    PROVE  LET s == synthServices(i, n)[k]
               item == ServiceItems(i, n)[k]
           IN  /\ s.id = <<"SVC", s.code, k>> /\ s.pax = Cycled(paxIDs(i), k)
               /\ item.id = s.id /\ item.price = price(s.amount) /\ DOMAIN item.services = {1}
               /\ item.services[1].id = s.id /\ item.services[1].definition = <<DefinitionOf(s.code)>>
               /\ item.services[1].pax = <<s.pax>> /\ item.services[1].segments = segmentIDs(i)
               /\ item.services[1].journeys = <<>> /\ definitions(i, n)[k] = DefinitionOf(s.code)
  <1>1. PICK s : s = synthServices(i, n)[k]
    OBVIOUS
  <1>2. PICK item : item = ServiceItems(i, n)[k]
    OBVIOUS
  <1>3. s.id = <<"SVC", s.code, k>> /\ s.pax = Cycled(paxIDs(i), k)
    BY <1>1 DEF synthServices
  <1>4. item = aLaCarteItem(s.id, DefinitionOf(s.code), <<s.pax>>, segmentIDs(i), s.amount)
    BY <1>1, <1>2 DEF ServiceItems
  <1>5. definitions(i, n)[k] = DefinitionOf(s.code)
    BY <1>1 DEF definitions
  <1>6. /\ item.id = s.id /\ item.price = price(s.amount) /\ DOMAIN item.services = {1}
        /\ item.services[1].id = s.id /\ item.services[1].definition = <<DefinitionOf(s.code)>>
        /\ item.services[1].pax = <<s.pax>> /\ item.services[1].segments = segmentIDs(i)
        /\ item.services[1].journeys = <<>>
    BY <1>4, ALaCarteParts
  <1> QED
    BY <1>1, <1>2, <1>3, <1>5, <1>6

\* Services are for passengers there are.
LEMMA CycledPax ==
    ASSUME NEW i \in Known, NEW k \in Nat \ {0}
    PROVE  Cycled(paxIDs(i), k) \in Range(paxIDs(i))
  <1>1. PICK A, C, F \in Nat : i.ADT = A /\ i.CHD = C /\ i.INF = F
    BY PaxParts
  <1>2. PICK m \in Nat : m = A + C + F
    OBVIOUS
  <1>3. m > 0
    BY <1>1, <1>2, KnownInfo
  <1>4. DOMAIN paxIDs(i) = 1..m /\ Len(paxIDs(i)) = m
    BY <1>1, <1>2, PaxIDs
  <1>5. ((k - 1) % m) + 1 \in 1..m
    BY <1>3
  <1> QED
    BY <1>4, <1>5 DEF Cycled, Range

LEMMA ServiceListResolves ==
    ASSUME NEW i \in Known, NEW n \in Nat
    PROVE  Resolves(ServiceListRS(i, n)) /\ Apart(ServiceListRS(i, n))
  <1>1. PICK d : d = ServiceListRS(i, n)
    OBVIOUS
  <1>2. /\ d.lists = dataLists(i) /\ d.seats = {} /\ d.items = ServiceItems(i, n)
        /\ d.definitions = Firsts(definitions(i, n)) /\ DOMAIN d.items = 1..n
    BY <1>1, ServiceListParts DEF ServiceItems
  <1>3. DOMAIN definitions(i, n) = 1..n
    BY DEF definitions
  <1>4. ASSUME NEW k \in 1..n, NEW l \in 1..n, d.items[k].id = d.items[l].id PROVE k = l
    <2>1. PICK a, b : d.items[k].id = <<"SVC", a, k>> /\ d.items[l].id = <<"SVC", b, l>>
      BY <1>2, ServiceItemsAre
    <2>2. d.items[k].id[3] = k /\ d.items[l].id[3] = l
      BY <2>1
    <2> QED
      BY <1>4, <2>2
  <1>5. IsInjective(IDs(d.items)) /\ IsInjective(d.definitions)
    BY <1>2, <1>3, <1>4, FirstsOnce DEF IsInjective, IDs
  <1>6. ASSUME NEW s \in Range(Services(d)) PROVE Refers(d, s)
    <2>1. PICK k \in 1..n : s = d.items[k].services[1]
      <3>1. PICK k \in DOMAIN d.items : \E l \in DOMAIN d.items[k].services : s = d.items[k].services[l]
        BY ServicesOf
      <3>2. DOMAIN d.items[k].services = {1}
        BY <1>2, <3>1, ServiceItemsAre
      <3> QED
        BY <1>2, <3>1, <3>2
    <2>2. /\ s.pax = <<Cycled(paxIDs(i), k)>> /\ s.segments = segmentIDs(i) /\ s.journeys = <<>>
          /\ s.definition = <<definitions(i, n)[k]>>
      BY <1>2, <2>1, ServiceItemsAre
    <2>3. Cycled(paxIDs(i), k) \in Range(paxIDs(i))
      BY CycledPax
    <2>4. definitions(i, n)[k] \in Range(d.definitions)
      BY <1>2, <1>3, FirstsAll DEF Range
    <2> QED
      BY <1>2, <2>2, <2>3, <2>4, Lists DEF Refers, Range
  <1>7. IsInjective(IDs(Services(d)))
    <2>1. \A k \in 1..n : DOMAIN d.items[k].services = {1} /\ d.items[k].services[1].id = d.items[k].id
      BY <1>2, ServiceItemsAre
    <2> QED
      BY <1>2, <1>4, <2>1, ServicesOnce
  <1> QED
    BY <1>1, <1>2, <1>5, <1>6, <1>7, ListsResolve DEF Resolves, Apart

LEMMA SeatAvailabilityParts ==
    ASSUME NEW i, NEW n, NEW d, d = SeatAvailabilityRS(i, n)
    PROVE  /\ d.lists = dataLists(i) /\ d.items = SeatItems(i, n) /\ d.definitions = << DefinitionOf("SEAT") >>
           /\ d.seats = {[row |-> r, column |-> c, free |-> ~Occupied(r, c), item |-> Tier(i, r)] :
                            r \in 1..n, c \in Columns}
  BY DEF SeatAvailabilityRS, Document

\* An item for each price of a row, and none twice
LEMMA SeatItemsAre ==
    ASSUME NEW i, NEW n \in Nat
    PROVE  /\ IsInjective(IDs(SeatItems(i, n))) /\ DOMAIN SeatItems(i, n) \subseteq 1..n
           /\ \A r \in 1..n : Tier(i, r) \in Range(IDs(SeatItems(i, n)))
           /\ \A r \in DOMAIN SeatItems(i, n) :
                 LET item == SeatItems(i, n)[r]
                 IN  /\ item.id = Tier(i, r) /\ item.price = price(seatPrice(i, r))
                     /\ DOMAIN item.services = {1} /\ item.services[1].id = item.id
                     /\ item.services[1].definition = <<DefinitionOf("SEAT")>>
                     /\ item.services[1].pax = paxIDs(i) /\ item.services[1].segments = <<segmentIDs(i)[1]>>
                     /\ item.services[1].journeys = <<>>
  <1> DEFINE tiers == [row \in 1..n |-> Tier(i, row)]
             items == SeatItems(i, n)
  <1>1. /\ DOMAIN items = DOMAIN Firsts(tiers)
        /\ \A r \in DOMAIN items :
              items[r] = aLaCarteItem(Tier(i, r), DefinitionOf("SEAT"), paxIDs(i),
                                      <<segmentIDs(i)[1]>>, seatPrice(i, r))
    BY DEF SeatItems
  <1>2. DOMAIN tiers = 1..n /\ \A r \in 1..n : tiers[r] = Tier(i, r)
    OBVIOUS
  <1> HIDE DEF tiers, items
  <1>3. DOMAIN Firsts(tiers) \subseteq 1..n /\ \A r \in DOMAIN Firsts(tiers) : Firsts(tiers)[r] = Tier(i, r)
    BY <1>2 DEF Firsts, Restrict
  <1>4. ASSUME NEW r \in DOMAIN items
        PROVE  /\ items[r].id = Tier(i, r) /\ items[r].price = price(seatPrice(i, r))
               /\ DOMAIN items[r].services = {1} /\ items[r].services[1].id = items[r].id
               /\ items[r].services[1].definition = <<DefinitionOf("SEAT")>>
               /\ items[r].services[1].pax = paxIDs(i)
               /\ items[r].services[1].segments = <<segmentIDs(i)[1]>>
               /\ items[r].services[1].journeys = <<>>
    <2>1. items[r] = aLaCarteItem(Tier(i, r), DefinitionOf("SEAT"), paxIDs(i),
                                  <<segmentIDs(i)[1]>>, seatPrice(i, r))
      BY <1>1
    <2> QED
      BY <2>1, ALaCarteParts
  <1>5. DOMAIN IDs(items) = DOMAIN Firsts(tiers) /\ \A r \in DOMAIN items : IDs(items)[r] = Firsts(tiers)[r]
    BY <1>1, <1>3, <1>4 DEF IDs
  <1>6. IsInjective(IDs(items))
    <2>1. IsInjective(Firsts(tiers))
      BY <1>2, FirstsOnce
    <2> QED
      BY <1>1, <1>5, <2>1 DEF IsInjective
  <1>7. ASSUME NEW r \in 1..n PROVE Tier(i, r) \in Range(IDs(items))
    <2>1. PICK j \in DOMAIN Firsts(tiers) : Firsts(tiers)[j] = tiers[r]
      BY <1>2, FirstsAll
    <2> QED
      BY <1>1, <1>2, <1>5, <2>1 DEF Range
  <1> QED
    BY <1>1, <1>3, <1>4, <1>6, <1>7 DEF items

LEMMA SeatAvailabilityResolves ==
    ASSUME NEW i \in Known, NEW n \in Nat
    PROVE  Resolves(SeatAvailabilityRS(i, n)) /\ Apart(SeatAvailabilityRS(i, n))
  <1>1. PICK d : d = SeatAvailabilityRS(i, n)
    OBVIOUS
  <1>2. d.lists = dataLists(i) /\ d.items = SeatItems(i, n) /\ d.definitions = << DefinitionOf("SEAT") >>
    BY <1>1, SeatAvailabilityParts
  <1>3. \A s \in d.seats : s.item \in Range(IDs(d.items))
    <2>1. \A s \in d.seats : \E r \in 1..n : s.item = Tier(i, r)
      BY <1>1, SeatAvailabilityParts
    <2> QED
      BY <1>2, <2>1, SeatItemsAre
  <1>4. IsInjective(IDs(d.items)) /\ IsInjective(d.definitions)
    BY <1>2, SeatItemsAre DEF IsInjective
  <1>5. \A r \in DOMAIN d.items :
           LET s == d.items[r].services[1]
           IN  /\ DOMAIN d.items[r].services = {1} /\ s.id = d.items[r].id /\ s.definition = d.definitions
               /\ s.pax = paxIDs(i) /\ s.segments = <<segmentIDs(i)[1]>> /\ s.journeys = <<>>
    BY <1>2, SeatItemsAre
  <1>6. ASSUME NEW s \in Range(Services(d)) PROVE Refers(d, s)
    <2>1. PICK r \in DOMAIN d.items : s = d.items[r].services[1]
      BY <1>5, ServicesOf
    <2>2. paxIDs(i) # <<>>
      BY Lists
    <2>3. /\ s.pax = paxIDs(i) /\ s.segments = <<segmentIDs(i)[1]>> /\ s.journeys = <<>>
          /\ s.definition = d.definitions
      BY <1>5, <2>1
    <2> QED
      BY <1>2, <2>2, <2>3, Lists DEF Refers, Range
  <1>7. IsInjective(IDs(Services(d)))
    <2>1. \A r, q \in DOMAIN d.items : d.items[r].id = d.items[q].id => r = q
      BY <1>4 DEF IsInjective, IDs
    <2> QED
      BY <1>5, <2>1, ServicesOnce
  <1> QED
    BY <1>1, <1>2, <1>3, <1>4, <1>6, <1>7, ListsResolve DEF Resolves, Apart

--------------------------------------------------------------------------------
(* The two formats of each document *)

LEMMA SameProjection ==
    ASSUME NEW i \in Known, NEW d, d.lists = dataLists(i), NEW p
    PROVE  Projected(d, p) = [segments |-> segmentIDs(i), price |-> p, pax |-> <<i.ADT, i.CHD, i.INF>>]
  <1>1. d.lists.segments = segmentIDs(i) /\ d.lists.pax = paxIDs(i)
    BY Lists
  <1>2. Count(d, "ADT") = i.ADT /\ Count(d, "CHD") = i.CHD /\ Count(d, "INF") = i.INF
    BY <1>1, PaxCounted DEF Count
  <1> QED
    BY <1>1, <1>2 DEF Projected

LEMMA OfferPriceAgrees ==
    ASSUME NEW i \in Known, NEW d, d = OfferPriceRS(i)
    PROVE  Projected(d, d.items[1].price) = offerToJSON(i)
  <1>1. d.items = << Item(<<"ITEM", 1>>, i.amount, <<flightService(i)>>) >>
    BY OfferPriceParts
  <1>2. d.items[1] = Item(<<"ITEM", 1>>, i.amount, <<flightService(i)>>)
    BY <1>1
  <1>3. d.items[1].price = price(i.amount)
    BY <1>2, ItemParts
  <1>4. d.lists = dataLists(i)
    BY OfferPriceParts
  <1> QED
    BY <1>3, <1>4, SameProjection DEF offerToJSON

LEMMA OrderViewAgrees ==
    ASSUME NEW o, o.info \in Known, NEW d, d = OrderViewRS(o), o.status \in {"Opened", "Changed", "Cancelled"}
    PROVE  /\ Projected(d, d.total[1]) = offerToJSON(o.info)
           /\ d.status = IF o.status = "Cancelled" THEN <<"CLOSED">> ELSE <<"OPENED">>
  <1>1. d.lists = dataLists(o.info) /\ d.total = <<price(o.info.amount)>> /\ d.status = <<orderStatus[o.status]>>
    BY OrderViewParts
  <1>2. Projected(d, d.total[1]) = offerToJSON(o.info)
    BY <1>1, SameProjection DEF offerToJSON
  <1>3. d.status = IF o.status = "Cancelled" THEN <<"CLOSED">> ELSE <<"OPENED">>
    BY <1>1 DEF orderStatus
  <1> QED
    BY <1>2, <1>3

LEMMA OrderReshopAgrees ==
    ASSUME NEW o, o.info \in Known, NEW n, NEW d, d = OrderReshopRS(o, n)
    PROVE  [k \in DOMAIN d.items |-> Projected(d, d.items[k].price)] = AlternativesJSON(o, n).alternatives
  <1>1. d.lists = dataLists(o.info) /\ DOMAIN d.items = 1..n
    BY OrderReshopParts
  <1>2. ASSUME NEW k \in 1..n PROVE Projected(d, d.items[k].price) = offerToJSON(Alternative(o.info, k))
    <2>1. PICK alt : alt = Alternative(o.info, k)
      OBVIOUS
    <2>2. d.items[k] = Item(<<"ITEM", k>>, alt.amount, <<flightService(alt)>>)
      BY <2>1, OrderReshopParts
    <2>3. d.items[k].price = price(alt.amount)
      BY <2>2, ItemParts
    <2>4. /\ alt.legs = o.info.legs /\ alt.flight = o.info.flight
          /\ alt.ADT = o.info.ADT /\ alt.CHD = o.info.CHD /\ alt.INF = o.info.INF
      BY <2>1, AlternativeSame
    <2>5. segmentIDs(alt) = segmentIDs(o.info)
      BY <2>4 DEF segmentIDs, flights
    <2> QED
      BY <1>1, <2>1, <2>3, <2>4, <2>5, SameProjection DEF offerToJSON
  <1>3. AlternativesJSON(o, n).alternatives = [k \in 1..n |-> offerToJSON(Alternative(o.info, k))]
    BY DEF AlternativesJSON
  <1> QED
    BY <1>1, <1>2, <1>3

\* What a document says of its services
SaidServices(d) ==
    [k \in DOMAIN d.items |->
        LET s == d.items[k].services[1]
        IN  [id |-> s.id, code |-> s.definition[1][2], pax |-> s.pax[1], amount |-> d.items[k].price.total]]

LEMMA ServiceListAgrees ==
    ASSUME NEW i \in Known, NEW n, NEW d, d = ServiceListRS(i, n)
    PROVE  SaidServices(d) = ServicesJSON(i, n).services
  <1>1. d.items = ServiceItems(i, n) /\ DOMAIN d.items = 1..n
    BY ServiceListParts DEF ServiceItems
  <1>2. ServicesJSON(i, n).services = synthServices(i, n) /\ DOMAIN synthServices(i, n) = 1..n
    BY DEF ServicesJSON, synthServices
  <1>3. ASSUME NEW k \in 1..n
        PROVE  LET s == d.items[k].services[1]
               IN  [id |-> s.id, code |-> s.definition[1][2], pax |-> s.pax[1],
                    amount |-> d.items[k].price.total] = synthServices(i, n)[k]
    <2>1. PICK v : v = synthServices(i, n)[k]
      OBVIOUS
    <2>2. PICK s : s = d.items[k].services[1]
      OBVIOUS
    <2>3. v = [id |-> v.id, code |-> v.code, pax |-> v.pax, amount |-> v.amount]
      BY <2>1 DEF synthServices
    <2>4. s.id = v.id /\ s.definition = <<DefinitionOf(v.code)>> /\ s.pax = <<v.pax>>
          /\ d.items[k].price = price(v.amount)
      <3>1. d.items[k] = aLaCarteItem(v.id, DefinitionOf(v.code), <<v.pax>>, segmentIDs(i), v.amount)
        BY <1>1, <2>1 DEF ServiceItems
      <3>2. /\ d.items[k].services[1].id = v.id /\ d.items[k].services[1].definition = <<DefinitionOf(v.code)>>
            /\ d.items[k].services[1].pax = <<v.pax>> /\ d.items[k].price = price(v.amount)
        BY <3>1, ALaCarteParts
      <3> QED
        BY <2>2, <3>2
    <2>5. s.definition[1][2] = v.code /\ s.pax[1] = v.pax
      BY <2>4 DEF DefinitionOf
    <2>6. d.items[k].price.total = v.amount
      BY <2>4, ItemParts
    <2> QED
      BY <2>1, <2>2, <2>3, <2>4, <2>5, <2>6
  <1>4. synthServices(i, n) = [k \in 1..n |-> synthServices(i, n)[k]]
    BY DEF synthServices
  <1> QED
    BY <1>1, <1>2, <1>3, <1>4 DEF SaidServices

LEMMA SeatAvailabilityAgrees ==
    ASSUME NEW i \in Known, NEW n \in Nat, NEW d, d = SeatAvailabilityRS(i, n)
    PROVE  {[row |-> s.row, column |-> s.column, available |-> s.free, amount |-> PriceOf(d, s.item)] :
               s \in d.seats}
               = SeatsJSON(i, n).seats
  <1> DEFINE seat(r, c) == [row |-> r, column |-> c, free |-> ~Occupied(r, c), item |-> Tier(i, r)]
             shown(s) == [row |-> s.row, column |-> s.column, available |-> s.free, amount |-> PriceOf(d, s.item)]
             json(r, c) == [row |-> r, column |-> c, available |-> ~Occupied(r, c), amount |-> seatPrice(i, r)]
  <1>1. d.items = SeatItems(i, n) /\ d.seats = {seat(r, c) : r \in 1..n, c \in Columns}
    BY SeatAvailabilityParts
  <1>2. ASSUME NEW r \in 1..n PROVE PriceOf(d, Tier(i, r)) = seatPrice(i, r)
    <2>1. \A item \in Range(d.items) : item.id = Tier(i, r) => item.price.total = seatPrice(i, r)
      <3> SUFFICES ASSUME NEW q \in DOMAIN d.items, d.items[q].id = Tier(i, r)
                   PROVE  d.items[q].price.total = seatPrice(i, r)
        BY DEF Range
      <3>1. d.items[q].id = Tier(i, q) /\ d.items[q].price = price(seatPrice(i, q))
        BY <1>1, SeatItemsAre
      <3>2. Tier(i, q)[2] = seatPrice(i, q) /\ Tier(i, r)[2] = seatPrice(i, r)
        BY DEF Tier
      <3>3. seatPrice(i, q) = seatPrice(i, r)
        BY <3>1, <3>2
      <3> QED
        BY <3>1, <3>3, ItemParts
    <2>2. \E item \in Range(d.items) : item.id = Tier(i, r)
      <3>1. Tier(i, r) \in Range(IDs(d.items))
        BY <1>1, SeatItemsAre
      <3> QED
        BY <3>1 DEF Range, IDs
    <2> QED
      BY <2>1, <2>2 DEF PriceOf
  <1>3. ASSUME NEW r \in 1..n, NEW c \in Columns PROVE shown(seat(r, c)) = json(r, c)
    BY <1>2
  <1>4. SeatsJSON(i, n).seats = {json(r, c) : r \in 1..n, c \in Columns}
    BY DEF SeatsJSON
  <1> HIDE DEF seat, shown, json
  <1>5. {shown(s) : s \in d.seats} = SeatsJSON(i, n).seats
    BY <1>1, <1>3, <1>4
  <1> QED
    BY <1>5 DEF shown

--------------------------------------------------------------------------------
(* The orders and answers of a session *)

Order == [info : Known, status : {"Opened", "Changed", "Cancelled"}]

\* The orders are a list, of offers there are.
Listed == offer \in Known /\ orders \in Seq(Order)

\* The last document is still that of the offer or the order it was made of.
About ==
    Built =>
        \/ answer.op = "offerprice" /\ Doc = OfferPriceRS(offer)
        \/ answer.op = "servicelist" /\ answer.size \in Nat /\ Doc = ServiceListRS(offer, answer.size)
        \/ answer.op = "seatavailability" /\ answer.size \in Nat /\ Doc = SeatAvailabilityRS(offer, answer.size)
        \/ /\ answer.op \in {"ordercreate", "orderretrieve", "orderchange", "orderview"}
           /\ answer.order \in DOMAIN orders /\ Doc = OrderViewRS(orders[answer.order])
        \/ /\ answer.op = "orderreshop" /\ answer.order \in DOMAIN orders /\ answer.size \in Nat
           /\ Doc = OrderReshopRS(orders[answer.order], answer.size)

LEMMA AboutResolves == Listed /\ About => ReferencesResolve
  <1> SUFFICES ASSUME Listed, About, Built PROVE ReferencesResolve
    BY DEF ReferencesResolve
  <1>1. \A k \in DOMAIN orders : orders[k].info \in Known
    <2>1. \A k \in DOMAIN orders : orders[k] \in Order
      BY ElementOfSeq DEF Listed
    <2> QED
      BY <2>1 DEF Order
  <1>2. Resolves(Doc) /\ (answer.op = "orderreshop" \/ Apart(Doc))
    BY <1>1, OfferPriceResolves, ServiceListResolves, SeatAvailabilityResolves, OrderViewResolves,
       OrderReshopResolves DEF About, Listed
  <1> QED
    BY <1>2 DEF ReferencesResolve, Resolves, Refers, Apart

LEMMA AboutAgrees == Listed /\ About => FormatsAgree
  <1> SUFFICES ASSUME Listed, About, Built PROVE FormatsAgree
    BY DEF FormatsAgree
  <1>1. PICK d : d = Doc
    OBVIOUS
  <1>2. \A k \in DOMAIN orders : orders[k].info \in Known /\ orders[k].status \in {"Opened", "Changed", "Cancelled"}
    <2>1. \A k \in DOMAIN orders : orders[k] \in Order
      BY ElementOfSeq DEF Listed
    <2> QED
      BY <2>1 DEF Order
  <1>3. offer \in Known
    BY DEF Listed
  <1>4. CASE answer.op = "offerprice" /\ Doc = OfferPriceRS(offer)
    <2>1. Projected(Doc, Doc.items[1].price) = offerToJSON(offer)
      BY <1>3, <1>4, OfferPriceAgrees
    <2> QED
      BY <1>4, <2>1 DEF FormatsAgree
  <1>5. CASE answer.op = "servicelist" /\ answer.size \in Nat /\ Doc = ServiceListRS(offer, answer.size)
    <2>1. PICK i \in Known, n \in Nat : i = offer /\ n = answer.size
      BY <1>3, <1>5
    <2>2. SaidServices(d) = ServicesJSON(i, n).services
      <3>1. d = ServiceListRS(i, n)
        BY <1>1, <1>5, <2>1
      <3> QED
        BY <3>1, ServiceListAgrees
    <2> QED
      BY <1>1, <1>5, <2>1, <2>2 DEF FormatsAgree, SaidServices
  <1>6. CASE answer.op = "seatavailability" /\ answer.size \in Nat /\ Doc = SeatAvailabilityRS(offer, answer.size)
    <2>1. {[row |-> s.row, column |-> s.column, available |-> s.free, amount |-> PriceOf(Doc, s.item)] :
              s \in Doc.seats}
              = SeatsJSON(offer, answer.size).seats
      BY <1>3, <1>6, SeatAvailabilityAgrees
    <2> QED
      BY <1>6, <2>1 DEF FormatsAgree
  <1>7. CASE /\ answer.op \in {"ordercreate", "orderretrieve", "orderchange", "orderview"}
             /\ answer.order \in DOMAIN orders /\ Doc = OrderViewRS(orders[answer.order])
    <2>1. /\ Projected(Doc, Doc.total[1]) = offerToJSON(orders[answer.order].info)
          /\ Doc.status = IF orders[answer.order].status = "Cancelled" THEN <<"CLOSED">> ELSE <<"OPENED">>
      BY <1>2, <1>7, OrderViewAgrees
    <2> QED
      BY <1>7, <2>1 DEF FormatsAgree
  <1>8. CASE /\ answer.op = "orderreshop" /\ answer.order \in DOMAIN orders /\ answer.size \in Nat
             /\ Doc = OrderReshopRS(orders[answer.order], answer.size)
    <2>1. [k \in DOMAIN Doc.items |-> Projected(Doc, Doc.items[k].price)]
              = AlternativesJSON(orders[answer.order], answer.size).alternatives
      BY <1>2, <1>8, OrderReshopAgrees
    <2> QED
      BY <1>8, <2>1 DEF FormatsAgree
  <1> QED
    BY <1>4, <1>5, <1>6, <1>7, <1>8 DEF About

--------------------------------------------------------------------------------
(* What the mock does to its orders *)

LEMMA ChangedOrders ==
    ASSUME orders \in Seq(Order), NEW k \in DOMAIN orders, NEW s \in {"Changed", "Cancelled"}, Changed(k, s)
    PROVE  orders' \in Seq(Order) /\ Len(orders') = Len(orders)
  <1>1. orders' = [orders EXCEPT ![k] = [orders[k] EXCEPT !.status = s]]
    BY DEF Changed
  <1>2. orders[k] \in Order
    BY ElementOfSeq
  <1>3. [orders[k] EXCEPT !.status = s] \in Order
    BY <1>2 DEF Order
  <1> QED
    BY <1>1, <1>3, ExceptSeq

LEMMA CreatedOrder ==
    ASSUME Listed, NEW format, NEW g, OrderCreate(format, g)
    PROVE  /\ orders' \in Seq(Order) /\ Len(orders') = Len(orders) + 1 /\ Len(orders) + 1 \in DOMAIN orders'
           /\ orders'[Len(orders) + 1] = [info |-> offer, status |-> "Opened"]
  <1>1. orders' = Append(orders, [info |-> offer, status |-> "Opened"])
    BY DEF OrderCreate
  <1>2. [info |-> offer, status |-> "Opened"] \in Order
    BY DEF Listed, Order
  <1>3. orders \in Seq(Order)
    BY DEF Listed
  <1>4. /\ orders' \in Seq(Order) /\ Len(orders') = Len(orders) + 1
        /\ orders'[Len(orders) + 1] = [info |-> offer, status |-> "Opened"]
    BY <1>1, <1>2, <1>3, AppendProperties
  <1>5. Len(orders) + 1 \in DOMAIN orders'
    BY <1>3, <1>4, LenProperties
  <1> QED
    BY <1>4, <1>5

LEMMA FlowListed ==
    ASSUME Listed, Flow PROVE Listed'
  <1>1. ASSUME UNCHANGED <<offer, orders>> PROVE Listed'
    BY <1>1 DEF Listed
  <1>2. ASSUME NEW format, NEW g, OrderCreate(format, g) PROVE Listed'
    <2>1. offer' = offer
      BY <1>2 DEF OrderCreate
    <2> QED
      BY <1>2, <2>1, CreatedOrder DEF Listed
  <1>3. ASSUME NEW k \in DOMAIN orders, NEW s \in {"Changed", "Cancelled"}, Changed(k, s), offer' = offer
        PROVE  Listed'
    BY <1>3, ChangedOrders DEF Listed
  <1>4. ASSUME NEW format, NEW g, OfferPrice(format, g) PROVE Listed'
    BY <1>4, <1>1 DEF OfferPrice
  <1>5. ASSUME NEW format, NEW g, NEW size, ServiceList(format, g, size) \/ SeatAvailability(format, g, size)
        PROVE  Listed'
    BY <1>5, <1>1 DEF ServiceList, SeatAvailability
  <1>6. ASSUME NEW format, NEW g, NEW k \in DOMAIN orders, OrderRetrieve(k, format, g) PROVE Listed'
    BY <1>6, <1>1 DEF OrderRetrieve
  <1>7. ASSUME NEW format, NEW g, NEW k \in DOMAIN orders, OrderChange(k, format, g) PROVE Listed'
    BY <1>7, <1>3 DEF OrderChange
  <1>8. ASSUME NEW format, NEW g, NEW k \in DOMAIN orders, OrderCancel(k, format, g) PROVE Listed'
    BY <1>8, <1>3 DEF OrderCancel
  <1>9. ASSUME NEW format, NEW g, NEW k \in DOMAIN orders, NEW size, OrderReshop(k, format, g, size)
        PROVE  Listed'
    BY <1>9, <1>1 DEF OrderReshop
  <1>10. ASSUME NEW format, Installments(format) PROVE Listed'
    BY <1>10, <1>1 DEF Installments
  <1>11. CASE Adopt
    BY <1>11 DEF Adopt, Listed, Known
  <1> QED
    BY <1>2, <1>4, <1>5, <1>6, <1>7, <1>8, <1>9, <1>10, <1>11 DEF Flow

--------------------------------------------------------------------------------
(* The document of the last answer *)

LEMMA Responded ==
    ASSUME NEW op, NEW format, NEW g, NEW code, NEW size, NEW k, NEW xml, NEW json,
           Respond(op, format, g, code, size, k, xml, json), Built'
    PROVE  /\ answer'.op = op /\ answer'.size = size /\ answer'.order = k
           /\ answer'.format = "xml" /\ format = "xml" /\ answer'.doc = xml
  BY DEF Respond, Built

LEMMA Viewed ==
    ASSUME NEW op \in {"ordercreate", "orderretrieve", "orderchange", "orderview"},
           NEW format, NEW g, NEW code, NEW k \in DOMAIN orders',
           View(op, format, g, code, k, orders'[k])
    PROVE  About'
  <1>1. SUFFICES ASSUME Built'
                 PROVE  answer'.op = op /\ answer'.order = k /\ answer'.doc = OrderViewRS(orders'[k])
    BY DEF About, Doc
  <1> QED
    BY <1>1, Responded DEF View

LEMMA CountType ==
    ASSUME NEW size \in Sizes, NEW default \in Nat PROVE offerCountFor(size, default) \in Nat
  BY SizesAssumption DEF offerCountFor

LEMMA FlowAbout ==
    ASSUME Listed, About, Flow PROVE About'
  <1>1. ASSUME NEW format, NEW g, OfferPrice(format, g) PROVE About'
    BY <1>1, Responded DEF OfferPrice, About, Doc
  <1>2. ASSUME NEW format, NEW g, NEW size \in Sizes, ServiceList(format, g, size) PROVE About'
    <2>1. PICK n \in Nat : n = offerCountFor(size, 12)
      BY CountType
    <2>2. /\ Respond("servicelist", format, g, 200, n, 0, ServiceListRS(offer, n), ServicesJSON(offer, n))
          /\ offer' = offer
      BY <1>2, <2>1 DEF ServiceList
    <2> QED
      BY <2>2, Responded DEF About, Doc
  <1>3. ASSUME NEW format, NEW g, NEW size \in Sizes, SeatAvailability(format, g, size) PROVE About'
    <2>1. PICK n \in Nat : n = offerCountFor(size, 30)
      BY CountType
    <2>2. /\ Respond("seatavailability", format, g, 200, n, 0, SeatAvailabilityRS(offer, n), SeatsJSON(offer, n))
          /\ offer' = offer
      BY <1>3, <2>1 DEF SeatAvailability
    <2> QED
      BY <2>2, Responded DEF About, Doc
  <1>4. ASSUME NEW format, NEW g, OrderCreate(format, g) PROVE About'
    <2>1. PICK k : k = Len(orders) + 1
      OBVIOUS
    <2>2. k \in DOMAIN orders' /\ orders'[k] = [info |-> offer, status |-> "Opened"]
      BY <1>4, <2>1, CreatedOrder
    <2>3. View("ordercreate", format, g, 201, k, orders'[k])
      BY <1>4, <2>1, <2>2 DEF OrderCreate
    <2> QED
      BY <2>2, <2>3, Viewed
  <1>5. ASSUME NEW format, NEW g, NEW k \in DOMAIN orders, OrderRetrieve(k, format, g) PROVE About'
    <2>1. View("orderretrieve", format, g, 200, k, orders'[k]) /\ k \in DOMAIN orders'
      BY <1>5 DEF OrderRetrieve
    <2> QED
      BY <2>1, Viewed
  <1>6. ASSUME NEW format, NEW g, NEW k \in DOMAIN orders, OrderChange(k, format, g) PROVE About'
    <2>1. View("orderchange", format, g, 200, k, orders'[k]) /\ k \in DOMAIN orders'
      BY <1>6 DEF OrderChange, Changed
    <2> QED
      BY <2>1, Viewed
  <1>7. ASSUME NEW format, NEW g, NEW k \in DOMAIN orders, OrderCancel(k, format, g) PROVE About'
    <2>1. k \in DOMAIN orders'
      BY <1>7 DEF OrderCancel, Changed
    <2>2. CASE format = "xml" /\ g = "19.2"
      <3>1. Respond("ordercancel", format, g, 200, 1, k, [order |-> k], Nothing)
        BY <1>7, <2>2 DEF OrderCancel
      <3>2. ~Built'
        BY <3>1 DEF Respond, Built
      <3> QED
        BY <3>2 DEF About
    <2>3. CASE ~(format = "xml" /\ g = "19.2")
      <3>1. View("orderview", format, g, 200, k, orders'[k])
        BY <1>7, <2>3 DEF OrderCancel
      <3> QED
        BY <2>1, <3>1, Viewed
    <2> QED
      BY <2>2, <2>3
  <1>8. ASSUME NEW format, NEW g, NEW k \in DOMAIN orders, NEW size \in Sizes, OrderReshop(k, format, g, size)
        PROVE  About'
    <2>1. PICK n \in Nat : n = offerCountFor(size, 5)
      BY CountType
    <2>2. /\ Respond("orderreshop", format, g, 200, n, k,
                     OrderReshopRS(orders[k], n), AlternativesJSON(orders[k], n))
          /\ orders' = orders
      BY <1>8, <2>1 DEF OrderReshop
    <2> QED
      BY <2>2, Responded DEF About, Doc
  <1>9. ASSUME NEW format, Installments(format) PROVE About'
    <2>1. ~Built'
      BY <1>9 DEF Installments, Respond, Built
    <2> QED
      BY <2>1 DEF About
  <1>10. CASE Adopt
    <2>1. answer.op = "orderreshop" /\ answer' = answer /\ orders' = orders
      BY <1>10 DEF Adopt
    <2>2. Built' <=> Built
      BY <2>1 DEF Built
    <2> QED
      BY <2>1, <2>2 DEF About, Doc
  <1> QED
    BY <1>1, <1>2, <1>3, <1>4, <1>5, <1>6, <1>7, <1>8, <1>9, <1>10 DEF Flow

LEMMA FlowInitAbout == FlowInit => Listed /\ About
  <1> SUFFICES ASSUME FlowInit PROVE Listed /\ About
    OBVIOUS
  <1>1. orders = <<>> /\ offer \in Offered /\ answer.op = "none"
    BY DEF FlowInit
  <1>2. ~Built
    BY <1>1 DEF Built
  <1> QED
    BY <1>1, <1>2, EmptySeq DEF Listed, About, Known

Created == {n \in DOMAIN response : Creates(n)}

--------------------------------------------------------------------------------
(* The inductive invariant *)

\* The lines are numbered as they are read, and a request is either on its way or acted on.
Numbered ==
    /\ lines \in Seq(UNION Range(Lines))
    /\ sent \cup DOMAIN response \subseteq DOMAIN lines
    /\ sent \cap DOMAIN response = {}
    /\ server = "none" => sent = {}

IInv == Listed /\ Numbered /\ IsFiniteSet(Created) /\ ActedOnce

LEMMA InvInit == Init => IInv
  <1> SUFFICES ASSUME Init PROVE IInv
    OBVIOUS
  <1>1. /\ offer \in Offered /\ orders = <<>> /\ lines = <<>> /\ sent = {} /\ response = <<>>
    BY DEF Init, FlowInit
  <1>2. DOMAIN response = {} /\ Created = {}
    BY <1>1 DEF Created
  <1>3. Len(orders) = 0 /\ IsFiniteSet(Created) /\ Cardinality(Created) = 0
    BY <1>1, <1>2, EmptySeq, FS_EmptySet
  <1>4. Listed /\ Numbered
    BY <1>1, <1>2, EmptySeq DEF Listed, Known, Numbered
  <1>5. ActedOnce
    BY <1>1, <1>2, <1>3 DEF ActedOnce, Created
  <1> QED
    BY <1>3, <1>4, <1>5 DEF IInv

--------------------------------------------------------------------------------
(* What the mock does to its orders for a call *)

LEMMA HandledOrders ==
    ASSUME Listed, NEW a, a.tool \in Tools, Handled(a)
    PROVE  /\ Listed'
           /\ Len(orders') = IF a.tool = "ndc_order_create" THEN Len(orders) + 1 ELSE Len(orders)
  <1>1. ASSUME UNCHANGED <<offer, orders>>, a.tool # "ndc_order_create"
        PROVE  Listed' /\ Len(orders') = Len(orders)
    BY <1>1 DEF Listed
  <1>2. CASE a.tool = "ndc_search"
    BY <1>1, <1>2 DEF Handled
  <1>3. CASE a.tool = "ndc_price"
    BY <1>1, <1>3 DEF Handled, OfferPrice
  <1>4. CASE a.tool = "ndc_services"
    BY <1>1, <1>4 DEF Handled, ServiceList
  <1>5. CASE a.tool = "ndc_seats"
    BY <1>1, <1>5 DEF Handled, SeatAvailability
  <1>6. CASE a.tool = "ndc_order_create"
    <2>1. OrderCreate("json", "19.2") /\ offer' = offer
      BY <1>6 DEF Handled, OrderCreate
    <2> QED
      BY <1>6, <2>1, CreatedOrder DEF Listed
  <1>7. CASE a.tool = "ndc_order_retrieve"
    BY <1>1, <1>7 DEF Handled, OrderRetrieve
  <1>8. CASE a.tool = "ndc_order_cancel"
    <2>1. \/ a.order \in DOMAIN orders /\ OrderCancel(a.order, "json", "19.2")
          \/ UNCHANGED <<offer, orders>>
      BY <1>8 DEF Handled
    <2>2. CASE a.order \in DOMAIN orders /\ OrderCancel(a.order, "json", "19.2")
      <3>1. Changed(a.order, "Cancelled") /\ offer' = offer
        BY <2>2 DEF OrderCancel
      <3> QED
        BY <3>1, <2>2, <1>8, ChangedOrders DEF Listed
    <2> QED
      BY <1>1, <1>8, <2>1, <2>2
  <1> QED
    BY <1>2, <1>3, <1>4, <1>5, <1>6, <1>7, <1>8 DEF Tools

--------------------------------------------------------------------------------
(* The steps *)

LEMMA SendsTool == \A l : Sends(l) => l.args.tool \in Tools
  BY DEF Sends, KnownTool

\* Steps that neither send nor act
LEMMA InvQuiet ==
    ASSUME IInv, UNCHANGED <<lines, sent, response>>, Listed', server' = "none" <=> server = "none",
           server # "none" => Len(orders') = Len(orders)
    PROVE  IInv'
  <1>1. Created' = Created /\ \A n : Sends(lines[n])' <=> Sends(lines[n])
    BY DEF Created, Creates
  <1>2. ActedOnce'
    BY <1>1 DEF IInv, ActedOnce, Created
  <1> QED
    BY <1>1, <1>2 DEF IInv, Numbered

LEMMA InvRead ==
    ASSUME IInv, NEW l \in UNION Range(Lines), Read(l) PROVE IInv'
  <1>1. /\ server # "none" /\ server' # "none" /\ lines' = Append(lines, l)
        /\ sent' = IF Sends(l) THEN sent \cup {Len(lines')} ELSE sent
        /\ UNCHANGED <<offer, orders, response>>
    BY DEF Read, docVars
  <1>2. /\ lines' \in Seq(UNION Range(Lines)) /\ Len(lines') = Len(lines) + 1
        /\ lines'[Len(lines) + 1] = l /\ \A n \in DOMAIN lines : lines'[n] = lines[n]
        /\ DOMAIN lines' = DOMAIN lines \cup {Len(lines')} /\ Len(lines') \notin DOMAIN lines
    <2>1. lines \in Seq(UNION Range(Lines)) /\ Len(lines) \in Nat /\ DOMAIN lines = 1..Len(lines)
      BY DEF IInv, Numbered
    <2> QED
      BY <1>1, <2>1, AppendProperties
  <1>3. \A n \in DOMAIN response : n \in DOMAIN lines /\ (Creates(n)' <=> Creates(n))
    BY <1>2 DEF IInv, Numbered, Creates
  <1>4. Created' = Created
    BY <1>1, <1>3 DEF Created
  <1>5. Numbered'
    BY <1>1, <1>2 DEF IInv, Numbered
  <1>6. \A n \in sent' \cup DOMAIN response' : Sends(lines'[n])
    BY <1>1, <1>2 DEF IInv, Numbered, ActedOnce
  <1>7. Len(orders') = Cardinality(Created')
    BY <1>1, <1>4 DEF IInv, ActedOnce, Created
  <1> QED
    BY <1>1, <1>4, <1>5, <1>6, <1>7 DEF IInv, ActedOnce, Listed, Created

LEMMA InvAct ==
    ASSUME IInv, NEW n \in sent, Act(n) PROVE IInv'
  <1> DEFINE a == lines[n].args
  <1>1. /\ Handled(a) /\ sent' = sent \ {n} /\ UNCHANGED <<server, lines>>
        /\ DOMAIN response' = DOMAIN response \cup {n}
    BY DEF Act
  <1>2. server # "none" /\ n \in DOMAIN lines /\ n \notin DOMAIN response /\ Sends(lines[n])
    BY DEF IInv, Numbered, ActedOnce
  <1>3. a.tool \in Tools
    BY <1>2, SendsTool
  <1>4. /\ Listed'
        /\ Len(orders') = IF a.tool = "ndc_order_create" THEN Len(orders) + 1 ELSE Len(orders)
    BY <1>1, <1>3, HandledOrders DEF IInv
  <1>5. Numbered'
    BY <1>1, <1>2 DEF IInv, Numbered
  <1>6. \A k \in sent' \cup DOMAIN response' : Sends(lines'[k])
    BY <1>1, <1>2 DEF IInv, ActedOnce
  <1>7. /\ Created' = IF a.tool = "ndc_order_create" THEN Created \cup {n} ELSE Created
        /\ n \notin Created
    BY <1>1, <1>2 DEF Created, Creates
  <1>8. IsFiniteSet(Created) /\ Cardinality(Created) \in Nat /\ Len(orders) = Cardinality(Created)
    BY <1>2, FS_CardinalityType DEF IInv, ActedOnce, Created
  <1>9. IsFiniteSet(Created') /\ Len(orders') = Cardinality(Created')
    BY <1>4, <1>7, <1>8, FS_AddElement, ZenonT(60)
  <1> QED
    BY <1>4, <1>5, <1>6, <1>9 DEF IInv, ActedOnce, Created

LEMMA InvStep == IInv /\ [Next]_vars => IInv'
  <1> SUFFICES ASSUME IInv, [Next]_vars PROVE IInv'
    OBVIOUS
  <1>1. CASE server = "none" /\ Flow /\ UNCHANGED agentVars
    <2>1. Listed'
      BY <1>1, FlowListed DEF IInv
    <2> QED
      BY <1>1, <2>1, InvQuiet DEF agentVars
  <1>2. ASSUME NEW k \in DOMAIN orders, Meanwhile(k) PROVE IInv'
    <2>1. /\ Changed(k, "Changed") \/ Changed(k, "Cancelled")
          /\ offer' = offer /\ UNCHANGED agentVars
      BY <1>2 DEF Meanwhile
    <2>2. orders' \in Seq(Order) /\ Len(orders') = Len(orders)
      BY <2>1, ChangedOrders DEF IInv, Listed
    <2> QED
      BY <2>1, <2>2, InvQuiet DEF agentVars, IInv, Listed
  <1>3. CASE Close \/ Receive \/ GiveUp \/ UNCHANGED vars
    <2>1. /\ UNCHANGED <<offer, orders, lines, sent, response>>
          /\ server' = "none" <=> server = "none"
      <3>1. CASE Close
        BY <3>1 DEF Close, docVars
      <3>2. CASE Receive
        BY <3>2 DEF Receive, Answered, docVars
      <3>3. CASE GiveUp
        BY <3>3 DEF GiveUp, Answered, docVars
      <3>4. CASE UNCHANGED vars
        BY <3>4 DEF vars, docVars, agentVars
      <3> QED
        BY <1>3, <3>1, <3>2, <3>3, <3>4
    <2> QED
      BY <2>1, InvQuiet DEF IInv, Listed
  <1> QED
    BY <1>1, <1>2, <1>3, InvRead, InvAct DEF Next

\* Nothing but an accepted tool call reaches the mock and none is acted on twice: there is
\* an order for each order call the mock acted on, for every session and every bound.
THEOREM ActedOnceCorrect == Spec => []ActedOnce
  <1>1. IInv => ActedOnce
    BY DEF IInv
  <1> QED
    BY <1>1, InvInit, InvStep, PTL DEF Spec

--------------------------------------------------------------------------------
(* What the client lets through, the mock can read and has a trip for *)

LEMMA FirstIs ==
    ASSUME NEW s, DOMAIN s \subseteq Nat \ {0}, NEW i \in DOMAIN s, \A j \in 1..(i - 1) : s[j] # s[i]
    PROVE  First(s, s[i]) = i
  <1>1. ASSUME NEW k \in DOMAIN s, s[k] = s[i], \A j \in 1..(k - 1) : s[j] # s[i]
        PROVE  k = i
    <2>1. k \in Nat \ {0} /\ i \in Nat \ {0}
      OBVIOUS
    <2>2. ~(k < i)
      BY <1>1, <2>1
    <2>3. ~(i < k)
      BY <1>1, <2>1
    <2> QED
      BY <2>1, <2>2, <2>3
  <1>2. \E k \in DOMAIN s : s[k] = s[i] /\ \A j \in 1..(k - 1) : s[j] # s[i]
    OBVIOUS
  <1> QED
    BY <1>1, <1>2 DEF First

LEMMA PlaceOfPair ==
    ASSUME NEW s, DOMAIN s = 1..2 \/ DOMAIN s = 1..4, s[1] # s[2]
    PROVE  Place(s, s[1]) = 1 /\ Place(s, s[2]) = 2
  <1>1. First(s, s[1]) = 1 /\ First(s, s[2]) = 2
    BY FirstIs
  <1>2. {s[j] : j \in 1..1} = {s[1]} /\ {s[j] : j \in 1..2} = {s[1]} \cup {s[2]}
    OBVIOUS
  <1>3. IsFiniteSet({s[1]}) /\ Cardinality({s[1]}) = 1 /\ s[2] \notin {s[1]}
    BY FS_Singleton
  <1>4. Cardinality({s[1]} \cup {s[2]}) = Cardinality({s[1]}) + 1
    BY <1>3, FS_AddElement
  <1>5. Cardinality({s[1]} \cup {s[2]}) = 2
    BY <1>3, <1>4
  <1> QED
    BY <1>1, <1>2, <1>3, <1>5 DEF Place

LEMMA OneWayShape ==
    ASSUME NEW l, l.from # l.to
    PROVE  pattern(<< l >>) = OneWay
  <1> DEFINE legs == << l >>
  <1>1. DOMAIN legs = {1} /\ Len(legs) = 1 /\ legs[1] = l
    OBVIOUS
  <1> HIDE DEF legs
  <1>2. DOMAIN Ends(legs) = 1..2 /\ Ends(legs)[1] = l.from /\ Ends(legs)[2] = l.to
    BY <1>1 DEF Ends
  <1>3. Place(Ends(legs), l.from) = 1 /\ Place(Ends(legs), l.to) = 2
    BY <1>2, PlaceOfPair
  <1>4. pattern(legs) = [i \in {1} |-> <<0, 1>>]
    <2>1. \A i \in {1} : <<Place(Ends(legs), legs[i].from) - 1, Place(Ends(legs), legs[i].to) - 1>> = <<0, 1>>
      BY <1>1, <1>3
    <2> QED
      BY <1>1, <2>1 DEF pattern
  <1>5. OneWay = [i \in {1} |-> <<0, 1>>]
    BY DEF OneWay
  <1> QED
    BY <1>4, <1>5 DEF legs

LEMMA ReturnShape ==
    ASSUME NEW l, NEW b, l.from # l.to, b.from = l.to, b.to = l.from
    PROVE  pattern(<< l, b >>) = Return
  <1> DEFINE legs == << l, b >>
  <1>1. DOMAIN legs = {1, 2} /\ Len(legs) = 2 /\ legs[1] = l /\ legs[2] = b
    OBVIOUS
  <1> HIDE DEF legs
  <1>2. DOMAIN Ends(legs) = 1..4 /\ Ends(legs)[1] = l.from /\ Ends(legs)[2] = l.to
    BY <1>1 DEF Ends
  <1>3. Place(Ends(legs), l.from) = 1 /\ Place(Ends(legs), l.to) = 2
    BY <1>2, PlaceOfPair
  <1>4. pattern(legs) = [i \in {1, 2} |-> IF i = 1 THEN <<0, 1>> ELSE <<1, 0>>]
    <2>1. \A i \in {1, 2} : <<Place(Ends(legs), legs[i].from) - 1, Place(Ends(legs), legs[i].to) - 1>>
                                = IF i = 1 THEN <<0, 1>> ELSE <<1, 0>>
      BY <1>1, <1>3
    <2> QED
      BY <1>1, <2>1 DEF pattern
  <1>5. Return = [i \in {1, 2} |-> IF i = 1 THEN <<0, 1>> ELSE <<1, 0>>]
    BY DEF Return
  <1> QED
    BY <1>4, <1>5 DEF legs

\* A search the client lets through is one the mock can read, for a one-way trip or a return.
LEMMA ValidatedReadable ==
    ASSUME NEW a, {a.ADT, a.CHD, a.INF} \subseteq Int, validate(a)
    PROVE  Readable(buildAirShopping(a)) /\ ~multiCity(buildAirShopping(a).legs)
  <1> DEFINE there == [from |-> a.from, to |-> a.to, day |-> a.dep]
             back == [from |-> a.to, to |-> a.from, day |-> a.ret]
             legs == IF a.ret = NoDay THEN << there >> ELSE << there, back >>
  <1>1. buildAirShopping(a).legs = legs /\ ~buildAirShopping(a).otherShopping
    BY DEF buildAirShopping
  <1>2. buildAirShopping(a).passengers > 0
    <2>1. buildAirShopping(a).passengers = party(a).ADT + party(a).CHD + party(a).INF
      BY DEF buildAirShopping
    <2>2. LimitsKept(party(a))
      BY DEF validate
    <2>3. party(a).ADT \in Int /\ party(a).CHD \in Int /\ party(a).INF \in Int
          /\ ~(party(a).ADT = 0 /\ party(a).CHD = 0 /\ party(a).INF = 0)
      BY DEF party
    <2> QED
      BY <2>1, <2>2, <2>3 DEF LimitsKept
  <1>3. a.from # a.to /\ a.from # NoAirport /\ a.to # NoAirport /\ a.dep # NoDay
    BY AgentAssumption DEF validate
  <1>4. there.from # there.to /\ back.from = there.to /\ back.to = there.from /\ there.day # NoDay
        /\ there.from # NoAirport /\ there.to # NoAirport
    BY <1>3
  <1> HIDE DEF there, back
  <1>5. legs # <<>> /\ legs[1] = there
    OBVIOUS
  <1>6. legs = << there >> \/ legs = << there, back >>
    OBVIOUS
  <1>7. pattern(legs) = OneWay \/ pattern(legs) = Return
    <2> HIDE DEF legs
    <2> QED
      BY <1>4, <1>6, OneWayShape, ReturnShape
  <1> HIDE DEF legs
  <1> QED
    BY <1>1, <1>2, <1>4, <1>5, <1>7 DEF Readable, multiCity

\* What the mock acted on was let through, so that it served every search.
LEMMA ServableStep ==
    ASSUME IInv, SearchesServable, NEW n \in sent, Act(n)
    PROVE  SearchesServable'
  <1> DEFINE a == lines[n].args
  <1>1. /\ Handled(a) /\ lines' = lines
        /\ response' = [k \in DOMAIN response \cup {n} |-> IF k = n THEN answer' ELSE response[k]]
    BY DEF Act
  <1>2. ASSUME a.tool = "ndc_search" PROVE answer'.code = 200
    <2>1. /\ n \in DOMAIN lines /\ Sends(lines[n]) /\ lines \in Seq(UNION Range(Lines))
      BY DEF IInv, Numbered, ActedOnce
    <2>2. validate(a)
      BY <1>2, <2>1 DEF Sends, Accepted
    <2>3. {a.ADT, a.CHD, a.INF} \subseteq Int
      BY <1>2, <2>1, ElementOfSeq, LinesAssumption
    <2>4. Readable(buildAirShopping(a)) /\ ~multiCity(buildAirShopping(a).legs)
      BY <2>2, <2>3, ValidatedReadable
    <2>5. airshopping(a)
      BY <1>1, <1>2 DEF Handled
    <2> QED
      BY <2>4, <2>5 DEF airshopping, Respond
  <1> QED
    BY <1>1, <1>2 DEF SearchesServable

--------------------------------------------------------------------------------
(* Every reply belongs to its request *)

Replies == \E S : replies \in Seq(S)
Takes(l) == ~Skipped(l) /\ l.kind # "endless"

\* What a reply to line n says
Belongs(n, reply) ==
    /\ reply.id = IF lines[n].kind = "garbled" THEN 0 ELSE n
    /\ reply.kind = "content" =>
          /\ n \in DOMAIN response /\ response[n].code < 400
          /\ reply.body = Shown(lines[n].args, response[n].doc)
    /\ reply.kind \notin {"content", "isError"} => n \notin sent \cup DOMAIN response

\* While the server waits it waits for the last line it read.
Waits == server = "calling" => lines # <<>> /\ Sends(lines[Current])

Matched ==
    /\ Len(replies) = Cardinality(Due) - (IF server = "calling" THEN 1 ELSE 0)
    /\ \A n \in Due : Nth(n) \in DOMAIN replies => Belongs(n, replies[Nth(n)])

Paired == Replies /\ Waits /\ Matched

LEMMA SendsTakes == \A l : Sends(l) => Takes(l) /\ l.kind = "message"
  BY DEF Sends, ToolCall, Takes, Skipped, Notification

LEMMA LinesOf ==
    ASSUME Numbered
    PROVE  /\ DOMAIN lines = 1..Len(lines) /\ Len(lines) \in Nat
           /\ Due \subseteq 1..Len(lines) /\ IsFiniteSet(Due) /\ Cardinality(Due) \in Nat
  <1>1. DOMAIN lines = 1..Len(lines) /\ Len(lines) \in Nat
    BY LenProperties DEF Numbered
  <1>2. IsFiniteSet(1..Len(lines)) /\ Due \in SUBSET (1..Len(lines))
    BY <1>1, FS_Interval DEF Due
  <1> QED
    BY <1>1, <1>2, FS_Subset, FS_CardinalityType

\* The replies are numbered as the lines that take one.
LEMMA NthOf ==
    ASSUME Numbered, NEW n \in Due
    PROVE  /\ Nth(n) \in 1..Cardinality(Due)
           /\ \A m \in Due : m < n => Nth(m) < Nth(n)
           /\ (\A m \in Due : m <= n) => Nth(n) = Cardinality(Due)
  <1> DEFINE before(k) == {m \in Due : m <= k}
  <1>1. \A k : before(k) \subseteq Due /\ IsFiniteSet(before(k)) /\ Cardinality(before(k)) \in Nat
               /\ Cardinality(before(k)) <= Cardinality(Due)
    BY LinesOf, FS_Subset, FS_CardinalityType
  <1>2. n \in before(n)
    BY LinesOf
  <1>3. Cardinality(before(n)) # 0
    BY <1>1, <1>2, FS_EmptySet
  <1>4. ASSUME NEW m \in Due, m < n PROVE Cardinality(before(m)) < Cardinality(before(n))
    <2>1. \A k \in Due : k \in Nat
      BY LinesOf
    <2>2. before(m) \in SUBSET before(n) /\ n \notin before(m)
      BY <1>4, <2>1
    <2> HIDE DEF before
    <2>3. Cardinality(before(m)) <= Cardinality(before(n)) /\ Cardinality(before(m)) # Cardinality(before(n))
      BY <1>1, <1>2, <2>2, FS_Subset
    <2> QED
      BY <1>1, <2>3
  <1>5. ASSUME \A m \in Due : m <= n PROVE before(n) = Due
    BY <1>5
  <1>6. \A k : Nth(k) = Cardinality(before(k))
    BY DEF Nth
  <1>7. Cardinality(Due) \in Nat
    BY LinesOf
  <1> HIDE DEF before
  <1>8. Nth(n) \in 1..Cardinality(Due)
    BY <1>1, <1>3, <1>6, <1>7
  <1> QED
    BY <1>4, <1>5, <1>6, <1>8

\* A line that is read is the last to take a reply, if it takes one.
LEMMA DueGrows ==
    ASSUME Numbered, NEW l \in UNION Range(Lines), lines' = Append(lines, l), NEW n \in Nat, n = Len(lines) + 1
    PROVE  /\ Len(lines') = n /\ lines'[n] = l /\ n \notin DOMAIN lines /\ n \notin Due
           /\ \A m \in DOMAIN lines : lines'[m] = lines[m]
           /\ Due' = IF Takes(l) THEN Due \cup {n} ELSE Due
           /\ \A m \in Due : Nth(m)' = Nth(m)
           /\ Takes(l) => Nth(n)' = Cardinality(Due) + 1 /\ Cardinality(Due') = Cardinality(Due) + 1
  <1>1. /\ DOMAIN lines = 1..Len(lines) /\ Len(lines) \in Nat /\ Due \subseteq 1..Len(lines)
        /\ IsFiniteSet(Due) /\ Cardinality(Due) \in Nat
    BY LinesOf
  <1>2. lines \in Seq(UNION Range(Lines))
    BY DEF Numbered
  <1>3. /\ lines' \in Seq(UNION Range(Lines)) /\ Len(lines') = n
        /\ lines'[n] = l /\ \A m \in 1..Len(lines) : lines'[m] = lines[m]
    BY <1>2, AppendProperties
  <1>4. DOMAIN lines' = 1..n
    BY <1>3, LenProperties
  <1>5. 1..n = 1..Len(lines) \cup {n} /\ n \notin 1..Len(lines)
    BY <1>1
  <1>6. Due' = IF Takes(l) THEN Due \cup {n} ELSE Due
    BY <1>1, <1>3, <1>4, <1>5 DEF Due, Takes
  <1>7. n \in Nat /\ \A m \in Due : m \in Nat /\ m <= n /\ ~(n <= m)
    BY <1>1
  <1>8. ASSUME NEW m \in Due PROVE Nth(m)' = Nth(m)
    <2>1. {k \in Due' : k <= m} = {k \in Due : k <= m}
      BY <1>6, <1>7
    <2> QED
      BY <2>1 DEF Nth
  <1>9. ASSUME Takes(l) PROVE Nth(n)' = Cardinality(Due) + 1 /\ Cardinality(Due') = Cardinality(Due) + 1
    <2>1. Due' = Due \cup {n} /\ n \notin Due
      BY <1>1, <1>5, <1>6, <1>9
    <2>2. {k \in Due' : k <= n} = Due'
      BY <1>7, <2>1
    <2>3. Cardinality(Due') = Cardinality(Due) + 1
      BY <1>1, <2>1, FS_AddElement
    <2> QED
      BY <2>2, <2>3 DEF Nth
  <1> QED
    BY <1>1, <1>3, <1>5, <1>6, <1>8, <1>9

LEMMA ReplyWritten ==
    ASSUME Replies, NEW r, replies' = Append(replies, r)
    PROVE  /\ Replies' /\ Len(replies) \in Nat /\ Len(replies') = Len(replies) + 1
           /\ DOMAIN replies = 1..Len(replies) /\ DOMAIN replies' = 1..Len(replies')
           /\ replies'[Len(replies) + 1] = r /\ \A k \in DOMAIN replies : replies'[k] = replies[k]
  <1>1. PICK S : replies \in Seq(S)
    BY DEF Replies
  <1> DEFINE T == S \cup {r}
  <1>2. replies \in Seq(T) /\ r \in T
    BY <1>1, SeqMonotonic
  <1> HIDE DEF T
  <1>3. replies' \in Seq(T)
    BY <1>2, AppendProperties
  <1> QED
    BY <1>2, <1>3, AppendProperties, LenProperties DEF Replies

LEMMA PairedQuiet ==
    ASSUME Paired, UNCHANGED <<lines, replies>>, sent' \cup DOMAIN response' = sent \cup DOMAIN response,
           \A n \in DOMAIN response : n \in DOMAIN response' /\ response'[n] = response[n],
           server' = "calling" <=> server = "calling"
    PROVE  Paired'
  <1>1. Replies' /\ Waits'
    BY DEF Paired, Replies, Waits, Current
  <1>2. Due' = Due /\ \A n : Nth(n)' = Nth(n)
    BY DEF Due, Nth
  <1>3. ASSUME NEW n, NEW r, Belongs(n, r) PROVE Belongs(n, r)'
    BY <1>3 DEF Belongs
  <1>4. Matched'
    BY <1>2, <1>3 DEF Paired, Matched
  <1> QED
    BY <1>1, <1>4 DEF Paired

\* A line that is no call to be sent is answered at once, if at all.
LEMMA ReadStep ==
    ASSUME IInv, NEW l, Read(l), NEW n, n = Len(lines')
    PROVE  /\ server = "idle" /\ lines' = Append(lines, l) /\ response' = response
           /\ IF Sends(l)
              THEN server' = "calling" /\ sent' = sent \cup {n} /\ replies' = replies
              ELSE /\ server' # "calling" /\ sent' = sent
                   /\ IF Takes(l) THEN replies' = Append(replies, Reply(n, Dispatched(l), Nothing))
                      ELSE replies' = replies
  <1>1. CASE Sends(l)
    BY <1>1 DEF Read
  <1>2. CASE ~Sends(l)
    <2>1. ~Takes(l) <=> Skipped(l) \/ l.kind = "endless"
      BY DEF Takes
    <2> QED
      BY <1>2, <2>1 DEF Read, Write
  <1> QED
    BY <1>1, <1>2

LEMMA DispatchedNot ==
    ASSUME NEW l
    PROVE  (Dispatched(l) = "parse error" <=> l.kind = "garbled") /\ Dispatched(l) # "content"
  <1>1. CASE l.kind = "garbled"
    BY <1>1 DEF Dispatched
  <1>2. CASE l.kind # "garbled"
    BY <1>2 DEF Dispatched, ToolCall
  <1> QED
    BY <1>1, <1>2

LEMMA PairedRead ==
    ASSUME IInv, Paired, NEW l \in UNION Range(Lines), Read(l)
    PROVE  Paired'
  <1>1. PICK n \in Nat : n = Len(lines) + 1
    BY LinesOf DEF IInv
  <1>2. lines' = Append(lines, l) /\ response' = response /\ server = "idle"
    BY DEF Read
  <1>3. /\ Len(lines') = n /\ lines'[n] = l /\ n \notin DOMAIN lines /\ n \notin Due
        /\ \A m \in DOMAIN lines : lines'[m] = lines[m]
        /\ Due' = IF Takes(l) THEN Due \cup {n} ELSE Due
        /\ \A m \in Due : Nth(m)' = Nth(m)
        /\ Takes(l) => Nth(n)' = Cardinality(Due) + 1 /\ Cardinality(Due') = Cardinality(Due) + 1
    BY <1>1, <1>2, DueGrows DEF IInv
  <1>4. IF Sends(l)
        THEN server' = "calling" /\ sent' = sent \cup {n} /\ replies' = replies
        ELSE /\ server' # "calling" /\ sent' = sent
             /\ IF Takes(l) THEN replies' = Append(replies, Reply(n, Dispatched(l), Nothing))
                ELSE replies' = replies
    BY <1>3, ReadStep
  <1>5. /\ Len(replies) = Cardinality(Due) /\ Cardinality(Due) \in Nat /\ DOMAIN replies = 1..Cardinality(Due)
        /\ \A m \in Due : m \in DOMAIN lines /\ Nth(m) \in 1..Cardinality(Due)
    <2>1. Len(replies) = Cardinality(Due) - 0 /\ Cardinality(Due) \in Nat
      BY <1>2, LinesOf DEF Paired, Matched, IInv
    <2>2. DOMAIN replies = 1..Len(replies)
      BY LenProperties DEF Paired, Replies
    <2>3. \A m \in Due : m \in DOMAIN lines
      BY DEF Due
    <2>4. \A m \in Due : Nth(m) \in 1..Cardinality(Due)
      BY NthOf DEF IInv
    <2> QED
      BY <2>1, <2>2, <2>3, <2>4
  <1>6. sent \cup DOMAIN response \subseteq DOMAIN lines
    BY DEF IInv, Numbered
  <1>7. ASSUME NEW m \in Due, NEW r, Belongs(m, r) PROVE Belongs(m, r)'
    <2>1. m \in DOMAIN lines /\ lines'[m] = lines[m] /\ m # n
      BY <1>3, <1>5
    <2>2. m \in sent' <=> m \in sent
      BY <1>4, <2>1
    <2> QED
      BY <1>2, <1>7, <2>1, <2>2 DEF Belongs
  <1>8. \A m \in Due : Belongs(m, replies[Nth(m)])
    BY <1>5 DEF Paired, Matched
  <1>9. CASE Sends(l)
    <2>1. Replies' /\ server' = "calling" /\ replies' = replies
      BY <1>4, <1>9 DEF Paired, Replies
    <2>2. Waits'
      BY <1>1, <1>2, <1>3, <1>9, LinesOf DEF Waits, Current, IInv
    <2>3. Due' = Due \cup {n} /\ Nth(n)' = Cardinality(Due) + 1 /\ Cardinality(Due') = Cardinality(Due) + 1
      BY <1>3, <1>9, SendsTakes
    <2>4. Len(replies') = Cardinality(Due') - 1
      BY <1>5, <2>1, <2>3
    <2>5. ASSUME NEW m \in Due', NEW k, k = Nth(m)', k \in DOMAIN replies' PROVE Belongs(m, replies[k])'
      <3>1. m \in Due /\ k = Nth(m)
        BY <1>3, <1>5, <2>1, <2>3, <2>5
      <3>2. PICK r : r = replies[k] /\ Belongs(m, r)
        BY <1>8, <3>1
      <3>3. Belongs(m, r)' /\ r = replies'[k]
        BY <1>7, <2>1, <3>1, <3>2
      <3> QED
        BY <3>3 DEF Belongs
    <2>6. Matched'
      BY <2>1, <2>4, <2>5 DEF Matched
    <2> QED
      BY <2>1, <2>2, <2>6 DEF Paired
  <1>10. CASE ~Sends(l) /\ Takes(l)
    <2>1. PICK reply : reply = Reply(n, Dispatched(l), Nothing)
      OBVIOUS
    <2>2. replies' = Append(replies, reply) /\ server' # "calling" /\ sent' = sent
      BY <1>4, <1>10, <2>1
    <2>3. /\ Replies' /\ Len(replies') = Len(replies) + 1
          /\ replies'[Len(replies) + 1] = reply /\ \A k \in DOMAIN replies : replies'[k] = replies[k]
      BY <2>2, ReplyWritten DEF Paired
    <2>4. Due' = Due \cup {n} /\ Nth(n)' = Cardinality(Due) + 1 /\ Cardinality(Due') = Cardinality(Due) + 1
      BY <1>3, <1>10
    <2>5. Belongs(n, reply)'
      <3>1. /\ Dispatched(l) = "parse error" <=> l.kind = "garbled"
            /\ Dispatched(l) # "content"
        BY DispatchedNot
      <3>2. n \notin sent' \cup DOMAIN response'
        BY <1>2, <1>3, <1>6, <2>2
      <3> QED
        BY <1>3, <2>1, <3>1, <3>2 DEF Belongs, Reply
    <2>6. ASSUME NEW m \in Due', NEW k, k = Nth(m)' PROVE Belongs(m, replies[k])'
      <3>1. PICK r : r = replies'[k]
        OBVIOUS
      <3>2. Belongs(m, r)'
        <4>1. CASE m = n
          BY <1>5, <2>3, <2>4, <2>5, <2>6, <3>1, <4>1
        <4>2. CASE m \in Due
          <5>1. k = Nth(m) /\ k \in DOMAIN replies /\ r = replies[k]
            BY <1>3, <1>5, <2>3, <2>6, <3>1, <4>2
          <5> QED
            BY <1>7, <1>8, <4>2, <5>1
        <4> QED
          BY <2>4, <4>1, <4>2
      <3> QED
        BY <3>1, <3>2 DEF Belongs
    <2>7. Matched'
      BY <1>5, <2>2, <2>3, <2>4, <2>6 DEF Matched
    <2> QED
      BY <2>2, <2>3, <2>7 DEF Paired, Waits
  <1>11. CASE ~Takes(l)
    <2>1. server' # "calling" /\ sent' = sent /\ replies' = replies /\ Due' = Due
      BY <1>3, <1>4, <1>11, SendsTakes
    <2>2. ASSUME NEW m \in Due', NEW k, k = Nth(m)' PROVE Belongs(m, replies[k])'
      <3>1. m \in Due /\ k = Nth(m)
        BY <1>3, <2>1, <2>2
      <3>2. PICK r : r = replies[k] /\ Belongs(m, r)
        BY <1>8, <3>1
      <3>3. Belongs(m, r)' /\ r = replies'[k]
        BY <1>7, <2>1, <3>1, <3>2
      <3> QED
        BY <3>3 DEF Belongs
    <2>3. Matched'
      BY <1>5, <2>1, <2>2 DEF Matched
    <2> QED
      BY <2>1, <2>3 DEF Paired, Waits, Replies
  <1> QED
    BY <1>9, <1>10, <1>11

\* The answer the server waited for, and the failure it reports instead, are replies to
\* the last line.
LEMMA PairedAnswered ==
    ASSUME IInv, Paired, server = "calling", UNCHANGED <<sent, response>>,
           NEW kind \in {"content", "isError"}, NEW body, Answered(kind, body),
           kind = "content" => /\ Current \in DOMAIN response /\ response[Current].code < 400
                               /\ body = Shown(lines[Current].args, response[Current].doc)
    PROVE  Paired'
  <1>1. PICK n : n = Current
    OBVIOUS
  <1>2. PICK reply : reply = Reply(n, kind, body)
    OBVIOUS
  <1>3. lines' = lines /\ server' = "idle" /\ replies' = Append(replies, reply)
    BY <1>1, <1>2 DEF Answered, Write, Current
  <1>4. /\ Replies' /\ Len(replies') = Len(replies) + 1 /\ DOMAIN replies = 1..Len(replies)
        /\ replies'[Len(replies) + 1] = reply /\ \A k \in DOMAIN replies : replies'[k] = replies[k]
    BY <1>3, ReplyWritten DEF Paired
  <1>5. Due' = Due /\ \A m : Nth(m)' = Nth(m)
    BY <1>3 DEF Due, Nth
  <1>6. n \in Due /\ (\A m \in Due : m <= n /\ m \in Nat) /\ lines[n].kind = "message" /\ n \in Nat
    <2>1. DOMAIN lines = 1..n /\ n \in Nat /\ Due \subseteq 1..n
      BY <1>1, LinesOf DEF IInv, Current
    <2>2. lines # <<>> /\ Sends(lines[n])
      BY <1>1 DEF Paired, Waits
    <2>3. Takes(lines[n]) /\ lines[n].kind = "message"
      BY <2>2, SendsTakes
    <2>4. n # 0
      BY <1>1, <2>2, EmptySeq DEF Current, IInv, Numbered
    <2> QED
      BY <2>1, <2>3, <2>4 DEF Due, Takes
  <1>7. Len(replies) + 1 = Cardinality(Due) /\ Cardinality(Due) \in Nat
    BY <1>4, LinesOf DEF Paired, Matched, IInv
  <1>8. Nth(n) = Cardinality(Due) /\ \A m \in Due : Nth(m) \in 1..Cardinality(Due) /\ (m < n => Nth(m) < Nth(n))
    BY <1>6, NthOf DEF IInv
  <1>9. Belongs(n, reply)
    BY <1>1, <1>2, <1>6 DEF Belongs, Reply
  <1>10. ASSUME NEW m \in Due', NEW k, k = Nth(m)' PROVE Belongs(m, replies[k])'
    <2>1. m \in Due /\ k = Nth(m)
      BY <1>5, <1>10
    <2>2. PICK r : r = replies'[k]
      OBVIOUS
    <2>3. Belongs(m, r)
      <3>1. CASE m = n
        BY <1>4, <1>7, <1>8, <1>9, <2>1, <2>2, <3>1
      <3>2. CASE m # n
        <4>1. k \in DOMAIN replies /\ r = replies[k]
          BY <1>4, <1>6, <1>7, <1>8, <2>1, <2>2, <3>2
        <4> QED
          BY <2>1, <4>1 DEF Paired, Matched
      <3> QED
        BY <3>1, <3>2
    <2> QED
      BY <1>3, <2>2, <2>3 DEF Belongs
  <1>11. Matched'
    BY <1>3, <1>4, <1>5, <1>7, <1>10 DEF Matched
  <1> QED
    BY <1>3, <1>4, <1>11 DEF Paired, Waits

\* The mock answers with a status.
Coded == \A n \in DOMAIN response : response[n].code \in Int

LEMMA HandledCode ==
    ASSUME NEW a, a.tool \in Tools, Handled(a)
    PROVE  answer'.code \in Int
  <1>1. ASSUME NEW op, NEW code \in Int, NEW size, NEW k, NEW xml, NEW json,
               Respond(op, "json", "19.2", code, size, k, xml, json)
        PROVE  answer'.code \in Int
    BY <1>1 DEF Respond
  <1>2. ASSUME NEW op, NEW code \in Int, NEW k, NEW o, View(op, "json", "19.2", code, k, o)
        PROVE  answer'.code \in Int
    BY <1>1, <1>2 DEF View
  <1>3. CASE a.tool = "ndc_search"
    <2> DEFINE code == IF ~Readable(buildAirShopping(a)) THEN 400
                       ELSE IF multiCity(buildAirShopping(a).legs) THEN 501 ELSE 200
    <2>1. airshopping(a)
      BY <1>3 DEF Handled
    <2>2. code \in Int
      OBVIOUS
    <2>3. PICK n \in Held :
             Respond("airshopping", "json", "19.2", code, n, 0, Nothing, [offers |-> [k \in 1..n |-> k]])
      BY <2>1 DEF airshopping
    <2> HIDE DEF code
    <2> QED
      BY <1>1, <2>2, <2>3
  <1>4. CASE a.tool = "ndc_price"
    BY <1>1, <1>4 DEF Handled, OfferPrice
  <1>5. CASE a.tool = "ndc_services"
    BY <1>1, <1>5 DEF Handled, ServiceList
  <1>6. CASE a.tool = "ndc_seats"
    BY <1>1, <1>6 DEF Handled, SeatAvailability
  <1>7. CASE a.tool = "ndc_order_create"
    BY <1>2, <1>7 DEF Handled, OrderCreate
  <1>8. CASE Unknown(a.order)
    BY <1>1, <1>8 DEF Unknown
  <1>9. CASE a.tool = "ndc_order_retrieve"
    <2>1. OrderRetrieve(a.order, "json", "19.2") \/ Unknown(a.order)
      BY <1>9 DEF Handled
    <2> QED
      BY <1>2, <1>8, <2>1 DEF OrderRetrieve
  <1>10. CASE a.tool = "ndc_order_cancel"
    <2>1. OrderCancel(a.order, "json", "19.2") \/ Unknown(a.order)
      BY <1>10 DEF Handled
    <2> QED
      BY <1>2, <1>8, <2>1 DEF OrderCancel
  <1> QED
    BY <1>3, <1>4, <1>5, <1>6, <1>7, <1>9, <1>10 DEF Tools

LEMMA CodedAct ==
    ASSUME IInv, Coded, NEW n \in sent, Act(n) PROVE Coded'
  <1>1. Handled(lines[n].args) /\ Sends(lines[n])
    BY DEF Act, IInv, ActedOnce
  <1>2. answer'.code \in Int
    BY <1>1, SendsTool, HandledCode
  <1>3. response' = [k \in DOMAIN response \cup {n} |-> IF k = n THEN answer' ELSE response[k]]
    BY DEF Act
  <1> QED
    BY <1>2, <1>3 DEF Coded

LEMMA PairedInit == Init => Paired
  <1> SUFFICES ASSUME Init PROVE Paired
    OBVIOUS
  <1>1. replies = <<>> /\ lines = <<>> /\ server # "calling"
    BY DEF Init
  <1>2. Due = {}
    BY <1>1 DEF Due
  <1> QED
    BY <1>1, <1>2, EmptySeq, FS_EmptySet DEF Paired, Replies, Waits, Matched

LEMMA PairedStep == IInv /\ Paired /\ Coded /\ [Next]_vars => Paired'
  <1> SUFFICES ASSUME IInv, Paired, Coded, [Next]_vars PROVE Paired'
    OBVIOUS
  <1>1. ASSUME UNCHANGED <<lines, replies, sent, response>>, server' = "calling" <=> server = "calling"
        PROVE  Paired'
    BY <1>1, PairedQuiet
  <1>2. CASE server = "none" /\ Flow /\ UNCHANGED agentVars
    BY <1>1, <1>2 DEF agentVars
  <1>3. CASE Close
    BY <1>1, <1>3 DEF Close
  <1>4. ASSUME NEW k \in DOMAIN orders, Meanwhile(k) PROVE Paired'
    BY <1>1, <1>4 DEF Meanwhile, agentVars
  <1>5. CASE UNCHANGED vars
    BY <1>1, <1>5 DEF vars, agentVars
  <1>6. ASSUME NEW n \in sent, Act(n) PROVE Paired'
    <2>1. n \notin DOMAIN response
      BY DEF IInv, Numbered
    <2>2. /\ UNCHANGED <<server, lines, replies>> /\ sent' = sent \ {n}
          /\ response' = [k \in DOMAIN response \cup {n} |-> IF k = n THEN answer' ELSE response[k]]
      BY <1>6 DEF Act
    <2>3. sent' \cup DOMAIN response' = sent \cup DOMAIN response
      BY <2>2
    <2>4. \A k \in DOMAIN response : k \in DOMAIN response' /\ response'[k] = response[k]
      BY <2>1, <2>2
    <2> QED
      BY <2>2, <2>3, <2>4, PairedQuiet
  <1>7. CASE Receive
    <2>1. server = "calling" /\ UNCHANGED <<sent, response>> /\ Current \in DOMAIN response
      BY <1>7 DEF Receive
    <2>2. CASE response[Current].code >= 400
      <3>1. Answered("isError", [code |-> response[Current].code])
        BY <1>7, <2>2 DEF Receive
      <3> QED
        BY <2>1, <3>1, PairedAnswered
    <2>3. CASE ~(response[Current].code >= 400)
      <3>1. Answered("content", Shown(lines[Current].args, response[Current].doc))
        BY <1>7, <2>3 DEF Receive
      <3>2. response[Current].code < 400
        BY <2>1, <2>3 DEF Coded
      <3> QED
        BY <2>1, <3>1, <3>2, PairedAnswered
    <2> QED
      BY <2>2, <2>3
  <1>8. CASE GiveUp
    <2>1. server = "calling" /\ UNCHANGED <<sent, response>> /\ Answered("isError", Nothing)
      BY <1>8 DEF GiveUp
    <2> QED
      BY <2>1, PairedAnswered
  <1> QED
    BY <1>2, <1>3, <1>4, <1>5, <1>6, <1>7, <1>8, PairedRead DEF Next

\* The steps that write no answer of the mock
LEMMA AnswersKept ==
    ASSUME IInv, [Next]_vars, \A n \in sent : ~Act(n)
    PROVE  response' = response /\ \A n \in DOMAIN response : lines'[n] = lines[n]
  <1>1. CASE UNCHANGED <<lines, response>>
    BY <1>1
  <1>2. ASSUME NEW l \in UNION Range(Lines), Read(l)
        PROVE  response' = response /\ \A n \in DOMAIN response : lines'[n] = lines[n]
    <2>1. lines' = Append(lines, l) /\ response' = response
      BY <1>2 DEF Read
    <2>2. PICK n \in Nat : n = Len(lines) + 1
      BY LinesOf DEF IInv
    <2>3. \A m \in DOMAIN lines : lines'[m] = lines[m]
      BY <2>1, <2>2, DueGrows DEF IInv
    <2> QED
      BY <2>1, <2>3 DEF IInv, Numbered
  <1>3. CASE server = "none" /\ Flow /\ UNCHANGED agentVars
    BY <1>1, <1>3 DEF agentVars
  <1>4. CASE Close
    BY <1>1, <1>4 DEF Close
  <1>5. ASSUME NEW k \in DOMAIN orders, Meanwhile(k) PROVE UNCHANGED <<lines, response>>
    BY <1>5 DEF Meanwhile, agentVars
  <1>6. CASE Receive
    BY <1>1, <1>6 DEF Receive, Answered
  <1>7. CASE GiveUp
    BY <1>1, <1>7 DEF GiveUp, Answered
  <1>8. CASE UNCHANGED vars
    BY <1>1, <1>8 DEF vars, agentVars
  <1> QED
    BY <1>1, <1>2, <1>3, <1>4, <1>5, <1>6, <1>7, <1>8 DEF Next

LEMMA ServedStep == IInv /\ Coded /\ SearchesServable /\ [Next]_vars => Coded' /\ SearchesServable'
  <1> SUFFICES ASSUME IInv, Coded, SearchesServable, [Next]_vars PROVE Coded' /\ SearchesServable'
    OBVIOUS
  <1>1. ASSUME NEW n \in sent, Act(n) PROVE Coded' /\ SearchesServable'
    BY <1>1, CodedAct, ServableStep
  <1>2. CASE \A n \in sent : ~Act(n)
    BY <1>2, AnswersKept DEF Coded, SearchesServable
  <1> QED
    BY <1>1, <1>2

\* The mock serves every search that the client lets through: it answers none with 400
\* or 501, whatever the airports, the days, the party and the rest of the session are.
THEOREM SearchesServableCorrect == Spec => []SearchesServable
  <1>1. Init => Coded /\ SearchesServable
    BY DEF Init, Coded, SearchesServable
  <1> QED
    BY <1>1, InvInit, InvStep, ServedStep, PTL DEF Spec

\* There is a reply for each request and each reply is that of its request, whatever is
\* lost, late or given up, in sessions of every length.
THEOREM RepliesMatchCorrect == Spec => []RepliesMatch
  <1>1. Init => Coded /\ SearchesServable
    BY DEF Init, Coded, SearchesServable
  <1>2. Paired => RepliesMatch
    BY DEF Paired, Matched, Belongs, RepliesMatch
  <1> QED
    BY <1>1, <1>2, InvInit, InvStep, ServedStep, PairedInit, PairedStep, PTL DEF Spec

--------------------------------------------------------------------------------
(* The documents that the mock answers with *)

\* An agent is answered in JSON.
InJSON == server # "none" => answer.format = "json"

Told == About /\ InJSON

LEMMA HandledFormat ==
    ASSUME NEW a, a.tool \in Tools, Handled(a)
    PROVE  answer'.format = "json"
  <1>1. ASSUME NEW op, NEW code, NEW size, NEW k, NEW xml, NEW json,
               Respond(op, "json", "19.2", code, size, k, xml, json)
        PROVE  answer'.format = "json"
    BY <1>1 DEF Respond
  <1>2. ASSUME NEW op, NEW code, NEW k, NEW o, View(op, "json", "19.2", code, k, o)
        PROVE  answer'.format = "json"
    BY <1>1, <1>2 DEF View
  <1>3. CASE a.tool = "ndc_search"
    <2>1. airshopping(a)
      BY <1>3 DEF Handled
    <2> QED
      BY <1>1, <2>1 DEF airshopping
  <1>4. CASE a.tool = "ndc_price"
    BY <1>1, <1>4 DEF Handled, OfferPrice
  <1>5. CASE a.tool = "ndc_services"
    BY <1>1, <1>5 DEF Handled, ServiceList
  <1>6. CASE a.tool = "ndc_seats"
    BY <1>1, <1>6 DEF Handled, SeatAvailability
  <1>7. CASE a.tool = "ndc_order_create"
    BY <1>2, <1>7 DEF Handled, OrderCreate
  <1>8. CASE Unknown(a.order)
    BY <1>1, <1>8 DEF Unknown
  <1>9. CASE a.tool = "ndc_order_retrieve"
    <2>1. OrderRetrieve(a.order, "json", "19.2") \/ Unknown(a.order)
      BY <1>9 DEF Handled
    <2> QED
      BY <1>2, <1>8, <2>1 DEF OrderRetrieve
  <1>10. CASE a.tool = "ndc_order_cancel"
    <2>1. OrderCancel(a.order, "json", "19.2") \/ Unknown(a.order)
      BY <1>10 DEF Handled
    <2> QED
      BY <1>2, <1>8, <2>1 DEF OrderCancel
  <1> QED
    BY <1>3, <1>4, <1>5, <1>6, <1>7, <1>9, <1>10 DEF Tools

LEMMA ToldStep == IInv /\ Told /\ [Next]_vars => Told'
  <1> SUFFICES ASSUME IInv, Told, [Next]_vars PROVE Told'
    OBVIOUS
  <1>1. ASSUME answer'.format = "json" PROVE Told'
    BY <1>1 DEF Told, InJSON, About, Built
  <1>2. ASSUME UNCHANGED docVars, server' = "none" <=> server = "none" PROVE Told'
    BY <1>2 DEF Told, InJSON, About, Built, Doc, docVars
  <1>3. CASE server = "none" /\ Flow /\ UNCHANGED agentVars
    BY <1>3, FlowAbout DEF Told, InJSON, IInv, agentVars
  <1>4. ASSUME NEW l \in UNION Range(Lines), Read(l) PROVE Told'
    BY <1>2, <1>4 DEF Read
  <1>5. CASE Close
    BY <1>2, <1>5 DEF Close
  <1>6. ASSUME NEW n \in sent, Act(n) PROVE Told'
    <2>1. Handled(lines[n].args) /\ Sends(lines[n])
      BY <1>6 DEF Act, IInv, ActedOnce
    <2> QED
      BY <1>1, <2>1, SendsTool, HandledFormat
  <1>7. ASSUME NEW k \in DOMAIN orders, Meanwhile(k) PROVE Told'
    BY <1>1, <1>7 DEF Meanwhile, Told, InJSON
  <1>8. CASE Receive
    BY <1>2, <1>8 DEF Receive, Answered
  <1>9. CASE GiveUp
    BY <1>2, <1>9 DEF GiveUp, Answered
  <1>10. CASE UNCHANGED vars
    BY <1>2, <1>10 DEF vars, agentVars
  <1> QED
    BY <1>3, <1>4, <1>5, <1>6, <1>7, <1>8, <1>9, <1>10 DEF Next

LEMMA ToldInit == Init => Told
  <1> SUFFICES ASSUME Init PROVE Told
    OBVIOUS
  <1>1. FlowInit /\ answer.format = "json"
    BY DEF Init, FlowInit
  <1> QED
    BY <1>1, FlowInitAbout DEF Told, InJSON

\* In every document the mock answers with, each reference leads to exactly one element, for
\* every trip, party, price and size, but for the two clashes of identifiers it names.
THEOREM ReferencesResolveCorrect == Spec => []ReferencesResolve
  <1>1. IInv /\ Told => ReferencesResolve
    BY AboutResolves DEF IInv, Told
  <1> QED
    BY <1>1, InvInit, InvStep, ToldInit, ToldStep, PTL DEF Spec

\* An NDC document and its JSON projection say the same of the trip, the party, the prices,
\* the services, the seats and the order, for every offer and every order made of one.
THEOREM FormatsAgreeCorrect == Spec => []FormatsAgree
  <1>1. IInv /\ Told => FormatsAgree
    BY AboutAgrees DEF IInv, Told
  <1> QED
    BY <1>1, InvInit, InvStep, ToldInit, ToldStep, PTL DEF Spec
================================================================================
