------------------------------ MODULE OffersProofs ------------------------------
(***************************************************************************)
(* Proofs about Offers: recycled offers differ and stay below the ceiling, *)
(* what is priced is what is ordered, and trip, fare and carrier come      *)
(* through from the search to the order, for every reference, every        *)
(* profile and every table of rates.                                       *)
(***************************************************************************)
EXTENDS Offers, SequenceTheorems, TLAPS

--------------------------------------------------------------------------------
(* Types *)

Fare == [cur : Currencies, amt : Nat]
ID == [trip : {"none", "reference", "asked"}, carrier : Carriers, fare : Fare,
       text : Text \cup {NoText, ItemOne}]
Air == {NoProfile} \cup {Profiles[c] : c \in DOMAIN Profiles}

LEMMA GetType == \A code : get(code) \in Air
  BY DEF get, Air

LEMMA AirType ==
    ASSUME NEW air \in Air
    PROVE  /\ air \in [code : Carriers, currency : Currencies, scale : Nat]
           /\ air = NoProfile <=> air.code = NoCode
  <1>1. CASE air = NoProfile
    BY <1>1, NamesAssumption, UnitsAssumption DEF NoProfile
  <1>2. CASE \E c \in DOMAIN Profiles : air = Profiles[c]
    <2>1. PICK c \in DOMAIN Profiles : air = Profiles[c]
      BY <1>2
    <2>2. air \in [code : {c}, currency : Currencies, scale : Nat] /\ c \in Carriers /\ c # NoCode
      BY <2>1, ProfilesAssumption, NamesAssumption
    <2>3. air.code = c /\ NoProfile.code = NoCode
      BY <2>2 DEF NoProfile
    <2> QED
      BY <2>2, <2>3
  <1> QED
    BY <1>1, <1>2 DEF Air

LEMMA MissingType == Missing \in ID /\ NoFare \in Fare /\ \A t \in {NoText, ItemOne} : Opaque(t) \in ID
  BY NamesAssumption DEF Missing, NoFare, Opaque, ID, Fare

LEMMA IdentifierType ==
    ASSUME NEW id \in Identifier
    PROVE  /\ id \in ID /\ id.trip \in {"none", "reference"}
           /\ id.fare.cur = NoCurrency <=> id.fare = NoFare
           /\ id.fare # NoFare => id.fare.cur \in Currencies \ {NoCurrency}
  BY NamesAssumption DEF Identifier, ID, Fare, NoFare

--------------------------------------------------------------------------------
(* Fares *)

LEMMA Multiples == \A m, a, b \in Nat : a < b => m * a + m <= m * b
  <1> SUFFICES ASSUME NEW m \in Nat, NEW a \in Nat, NEW b \in Nat, a < b PROVE m * a + m <= m * b
    OBVIOUS
  <1>1. PICK d \in Nat : b = a + 1 + d
    <2>1. b - a - 1 \in Nat /\ b = a + 1 + (b - a - 1)
      OBVIOUS
    <2> QED
      BY <2>1
  <1>2. m * b = m * a + m + m * d
    BY <1>1
  <1>3. m * a \in Nat /\ m * d \in Nat
    OBVIOUS
  <1> QED
    BY <1>2, <1>3

LEMMA Quotient ==
    ASSUME NEW q \in Nat, NEW m \in Nat \ {0}, NEW r \in 0..(m - 1) PROVE (m * q + r) \div m = q
  <1> DEFINE n == m * q + r
             k == n \div m
  <1>1. n \in Nat
    OBVIOUS
  <1> HIDE DEF n
  <1>2. k \in Nat /\ m * k <= n /\ n < m * k + m
    BY <1>1
  <1> HIDE DEF k
  <1>3. m * q <= n /\ n < m * q + m
    BY DEF n
  <1>4. m * q \in Nat /\ m * k \in Nat
    BY <1>2
  <1>5. ~ (q < k)
    <2>1. q < k => m * q + m <= m * k
      BY <1>2, Multiples
    <2> QED
      BY <2>1, <1>1, <1>2, <1>3, <1>4
  <1>6. ~ (k < q)
    <2>1. k < q => m * k + m <= m * q
      BY <1>2, Multiples
    <2> QED
      BY <2>1, <1>1, <1>2, <1>3, <1>4
  <1> QED
    BY <1>2, <1>5, <1>6 DEF k, n

LEMMA RoundNat == ASSUME NEW n \in Nat, NEW d \in Nat \ {0} PROVE Round(n, d) \in Nat
  <1>1. 2 * n + d \in Nat /\ 2 * d \in Nat \ {0}
    OBVIOUS
  <1> QED
    BY <1>1 DEF Round

LEMMA RoundBack == ASSUME NEW a \in Nat, NEW d \in Nat \ {0} PROVE Round(a * d, d) = a
  <1>1. 2 * d \in Nat \ {0} /\ d \in 0..(2 * d - 1)
    OBVIOUS
  <1>2. 2 * (a * d) + d = (2 * d) * a + d
    OBVIOUS
  <1> QED
    BY <1>1, <1>2, Quotient DEF Round

LEMMA RateType == \A cur : RateOf(cur) \in Nat \ {0}
  BY RatesAssumption, UnitsAssumption DEF RateOf

LEMMA Positive == \A a, b \in Nat \ {0} : a * b \in Nat \ {0}
  OBVIOUS

LEMMA Product == \A a, b, c \in Nat : a * b * c \in Nat
  OBVIOUS

\* A converted fare is one, in the carrier's currency if that has a rate.
LEMMA ConvertType ==
    ASSUME NEW air \in Air, NEW fare \in Fare
    PROVE  /\ convert(air, fare) \in Fare
           /\ air.currency \in DOMAIN Rates => convert(air, fare).cur = air.currency
           /\ fare.cur # NoCurrency => convert(air, fare).cur # NoCurrency
  <1>1. CASE air.currency \notin DOMAIN Rates
    BY <1>1 DEF convert
  <1>2. CASE air.currency \in DOMAIN Rates
    <2> DEFINE num == fare.amt * RateOf(fare.cur) * air.scale
               den == ScaleUnit * Rates[air.currency]
    <2>1. num \in Nat
      <3>1. fare.amt \in Nat /\ RateOf(fare.cur) \in Nat /\ air.scale \in Nat
        BY RateType, AirType DEF Fare
      <3> QED
        BY <3>1, Product
    <2>2. den \in Nat \ {0}
      <3>1. ScaleUnit \in Nat \ {0} /\ Rates[air.currency] \in Nat \ {0}
        BY <1>2, UnitsAssumption, RatesAssumption
      <3> QED
        BY <3>1, Positive
    <2>3. convert(air, fare) = [cur |-> air.currency, amt |-> Round(num, den)]
      BY <1>2 DEF convert
    <2> HIDE DEF num, den
    <2>4. Round(num, den) \in Nat
      BY <2>1, <2>2, RoundNat
    <2>5. air.currency \in Currencies \ {NoCurrency}
      BY <1>2, NamesAssumption
    <2> QED
      BY <2>3, <2>4, <2>5 DEF Fare
  <1> QED
    BY <1>1, <1>2

\* A profile that does not scale leaves a fare in its own currency as it is.
LEMMA ConvertSame ==
    ASSUME NEW air \in Air, NEW fare \in Fare, air.scale = ScaleUnit,
           air.currency \in DOMAIN Rates => fare.cur = air.currency
    PROVE  convert(air, fare) = fare
  <1>1. CASE air.currency \notin DOMAIN Rates
    BY <1>1 DEF convert
  <1>2. CASE air.currency \in DOMAIN Rates
    <2> DEFINE rate == Rates[air.currency]
               den == ScaleUnit * rate
    <2>1. fare.amt \in Nat /\ rate \in Nat \ {0} /\ ScaleUnit \in Nat \ {0}
      BY <1>2, UnitsAssumption, RatesAssumption DEF Fare
    <2>2. RateOf(fare.cur) = rate
      BY <1>2 DEF RateOf
    <2> HIDE DEF rate
    <2>3. den \in Nat \ {0} /\ fare.amt * rate * ScaleUnit = fare.amt * den
      <3>1. den \in Nat \ {0}
        BY <2>1, Positive
      <3>2. fare.amt * rate * ScaleUnit = fare.amt * (ScaleUnit * rate)
        BY <2>1
      <3> QED
        BY <3>1, <3>2
    <2>4. convert(air, fare) = [cur |-> fare.cur, amt |-> Round(fare.amt * den, den)]
      BY <1>2, <2>2, <2>3 DEF convert, rate
    <2> HIDE DEF den
    <2>5. Round(fare.amt * den, den) = fare.amt
      BY <2>1, <2>3, RoundBack
    <2> QED
      BY <2>4, <2>5 DEF Fare
  <1> QED
    BY <1>1, <1>2

--------------------------------------------------------------------------------
(* The ceiling, and offers that differ *)

LEMMA ReferenceType ==
    ASSUME mock \in Deployments
    PROVE  /\ mock.reference \in Seq([offer : Identifier, item : Identifier])
           /\ Len(mock.reference) \in Nat \ {0}
           /\ mock.offers \in Int /\ mock.maxOffers \in Int
  BY DeploymentsAssumption, EmptySeq

\* Which block of the reference an offer is made of, and how often it was used before
Block(k) == ((k - 1) % Len(mock.reference)) + 1
Cycle(k) == (k - 1) \div Len(mock.reference)

LEMMA BlockType ==
    ASSUME mock \in Deployments, NEW k \in Nat \ {0}
    PROVE  /\ Block(k) \in DOMAIN mock.reference /\ Cycle(k) \in Nat
           /\ Cycled(mock.reference, k) = mock.reference[Block(k)]
           /\ mock.reference[Block(k)].offer \in Identifier
           /\ mock.reference[Block(k)].item \in Identifier
  <1>1. Block(k) \in 1..Len(mock.reference) /\ Cycle(k) \in Nat
    <2>1. PICK n : n = Len(mock.reference)
      OBVIOUS
    <2>2. n \in Nat \ {0}
      BY <2>1, ReferenceType
    <2>3. ((k - 1) % n) + 1 \in 1..n /\ (k - 1) \div n \in Nat
      BY <2>2
    <2> QED
      BY <2>1, <2>3 DEF Block, Cycle
  <1>2. mock.reference[Block(k)] \in [offer : Identifier, item : Identifier]
    BY <1>1, ReferenceType, ElementOfSeq
  <1>3. DOMAIN mock.reference = 1..Len(mock.reference)
    BY ReferenceType
  <1> QED
    BY <1>1, <1>2, <1>3 DEF Cycled, Block

\* The block and the cycle are all there is to an offer's number.
LEMMA SameOffer ==
    ASSUME mock \in Deployments, NEW i \in Nat \ {0}, NEW j \in Nat \ {0},
           Block(i) = Block(j), Cycle(i) = Cycle(j)
    PROVE  i = j
  <1>1. PICK n : n = Len(mock.reference)
    OBVIOUS
  <1>2. n \in Nat \ {0}
    BY <1>1, ReferenceType
  <1>3. (i - 1) % n = (j - 1) % n /\ (i - 1) \div n = (j - 1) \div n
    <2>1. (i - 1) % n \in Nat /\ (j - 1) % n \in Nat
      BY <1>2
    <2>2. ((i - 1) % n) + 1 = ((j - 1) % n) + 1 /\ (i - 1) \div n = (j - 1) \div n
      BY <1>1 DEF Block, Cycle
    <2> QED
      BY <2>1, <2>2
  <1>4. /\ i - 1 = n * ((i - 1) \div n) + ((i - 1) % n)
        /\ j - 1 = n * ((j - 1) \div n) + ((j - 1) % n)
    BY <1>2
  <1>5. i - 1 = j - 1
    BY <1>3, <1>4
  <1> QED
    BY <1>5

\* What rendering does to each part of an identifier
LEMMA RenderParts ==
    ASSUME NEW id \in Identifier, NEW n \in Nat, NEW ref \in Carriers, NEW air \in Air
    PROVE  LET out == render(id, n, ref, air)
           IN  /\ out \in ID /\ out.text = id.text
               /\ out.trip = IF id.trip = "none" THEN "none" ELSE "asked"
               /\ out.carrier = IF id.carrier = ref /\ ref # NoCode /\ air.code # NoCode
                                THEN air.code ELSE id.carrier
               /\ id.fare = NoFare => out.fare = NoFare
               /\ id.fare # NoFare =>
                     /\ out.fare.amt = convert(air, id.fare).amt + 1000 * n
                     /\ out.fare.cur = convert(air, id.fare).cur
  <1> DEFINE fare == convert(air, id.fare)
             new == IF id.fare = NoFare THEN NoFare ELSE [fare EXCEPT !.amt = @ + 1000 * n]
             trip == IF id.trip = "none" THEN "none" ELSE "asked"
             carrier == IF id.carrier = ref /\ ref # NoCode /\ air.code # NoCode THEN air.code ELSE id.carrier
  <1>1. id \in ID /\ id.fare \in Fare
    BY IdentifierType DEF ID
  <1>2. fare \in Fare
    BY <1>1, ConvertType
  <1>3. render(id, n, ref, air) = [trip |-> trip, carrier |-> carrier, fare |-> new, text |-> id.text]
    BY DEF render
  <1>4. trip \in {"none", "asked"} /\ carrier \in Carriers /\ id.text \in Text \cup {NoText, ItemOne}
    BY <1>1, AirType DEF ID
  <1> HIDE DEF fare
  <1>5. new \in Fare /\ (id.fare # NoFare => new.amt = fare.amt + 1000 * n /\ new.cur = fare.cur)
    BY <1>2, MissingType DEF Fare
  <1>6. id.fare = NoFare => new = NoFare
    OBVIOUS
  <1> HIDE DEF trip, carrier, new
  <1>7. render(id, n, ref, air) \in ID
    BY <1>3, <1>4, <1>5 DEF ID
  <1> QED
    BY <1>3, <1>5, <1>6, <1>7 DEF fare, trip, carrier

LEMMA CarrierType == ASSUME mock \in Deployments PROVE Carrier \in Carriers
  <1>1. mock.reference[1] \in [offer : Identifier, item : Identifier]
    <2>1. 1 \in 1..Len(mock.reference)
      BY ReferenceType
    <2> QED
      BY <2>1, ReferenceType, ElementOfSeq
  <1>2. mock.reference[1].offer \in Identifier
    BY <1>1
  <1> QED
    BY <1>2, IdentifierType DEF Carrier, ID

\* The mock is deployed once; what a search answers stays.
Deployed == mock \in Deployments

LEMMA DeployedStep == Deployed /\ [Next]_vars => Deployed'
  BY DEF Deployed, Next, Search, Choose, OfferPrice, OrderCreate, vars

LEMMA NumberType ==
    ASSUME Deployed, NEW hdr \in Counts
    PROVE  LET n == orNatural(resolve(hdr, mock.maxOffers))
           IN  /\ n \in Nat \ {0}
               /\ mock.maxOffers > 0 /\ (hdr > 0 \/ mock.offers > 0) => n <= mock.maxOffers
  <1>1. /\ hdr \in Int /\ mock.offers \in Int /\ mock.maxOffers \in Int
        /\ Len(mock.reference) \in Nat \ {0}
    BY CountsAssumption, ReferenceType DEF Deployed
  <1> QED
    BY <1>1 DEF orNatural, resolve, clampOffers

\* Recycled offers of an XML answer: as many as there are, no two are the same.
LEMMA XMLDiffer ==
    ASSUME Deployed, NEW air \in Air, NEW i \in Nat \ {0}, NEW j \in Nat \ {0}, i # j,
           IsInjective([b \in DOMAIN mock.reference |-> mock.reference[b].offer.text]),
           \A b \in DOMAIN mock.reference : mock.reference[b].offer.fare # NoFare
    PROVE  XMLOffer(i, air).offer # XMLOffer(j, air).offer
  <1> DEFINE id(k) == mock.reference[Block(k)].offer
             out(k) == render(id(k), Cycle(k), Carrier, air)
  <1>1. XMLOffer(i, air).offer = out(i) /\ XMLOffer(j, air).offer = out(j)
    BY BlockType DEF XMLOffer, Cycle, Deployed
  <1>2. /\ Block(i) \in DOMAIN mock.reference /\ Cycle(i) \in Nat /\ id(i) \in Identifier
        /\ Block(j) \in DOMAIN mock.reference /\ Cycle(j) \in Nat /\ id(j) \in Identifier
    BY BlockType DEF Deployed
  <1>3. id(i).fare # NoFare /\ id(j).fare # NoFare
    BY <1>2
  <1>4. Carrier \in Carriers
    BY CarrierType DEF Deployed
  <1>5. CASE Block(i) # Block(j)
    <2>1. id(i).text # id(j).text
      BY <1>2, <1>5 DEF IsInjective
    <2>2. out(i).text = id(i).text /\ out(j).text = id(j).text
      BY <1>2, <1>4, RenderParts
    <2> QED
      BY <1>1, <2>1, <2>2
  <1>6. CASE Block(i) = Block(j)
    <2>1. Cycle(i) # Cycle(j)
      BY <1>6, SameOffer DEF Deployed
    <2>2. /\ out(i).fare.amt = convert(air, id(i).fare).amt + 1000 * Cycle(i)
          /\ out(j).fare.amt = convert(air, id(i).fare).amt + 1000 * Cycle(j)
      BY <1>2, <1>3, <1>4, <1>6, RenderParts
    <2>3. convert(air, id(i).fare).amt \in Nat
      <3>1. id(i).fare \in Fare
        BY <1>2, IdentifierType DEF ID
      <3> QED
        BY <3>1, ConvertType DEF Fare
    <2>4. out(i).fare.amt # out(j).fare.amt
      BY <1>2, <2>1, <2>2, <2>3
    <2> QED
      BY <1>1, <2>4
  <1> QED
    BY <1>5, <1>6

\* A number of offers that was asked for is cut to the ceiling, and recycled offers of an
\* XML answer differ, for every reference, rate, profile and number.
THEOREM RecycledCorrect == Spec => []RecycledDiffer
  <1>1. Init => Deployed /\ RecycledDiffer
    <2> SUFFICES ASSUME Init PROVE Deployed /\ RecycledDiffer
      OBVIOUS
    <2>1. Deployed /\ shown = <<>> /\ search.format # "xml" /\ search.hdr = 0
      BY DEF Init, Deployed
    <2>2. Len(shown) = 0 /\ mock.maxOffers \in Int
      BY <2>1, ReferenceType, EmptySeq DEF Deployed
    <2> QED
      BY <2>1, <2>2 DEF RecycledDiffer
  <1>2. ASSUME Deployed, RecycledDiffer, [Next]_vars PROVE RecycledDiffer'
    <2>1. ASSUME UNCHANGED <<mock, search, shown>> PROVE RecycledDiffer'
      BY <1>2, <2>1 DEF RecycledDiffer
    <2>2. ASSUME NEW format \in {"xml", "json"}, NEW hdr \in Counts, NEW code \in Codes,
                 Search(format, hdr, code)
          PROVE  RecycledDiffer'
      <3> DEFINE air == get(IF code # NoCode THEN code ELSE mock.airline)
                 n == orNatural(resolve(hdr, mock.maxOffers))
      <3>1. /\ mock' = mock /\ search' = [format |-> format, air |-> air, hdr |-> hdr]
            /\ shown' = [k \in 1..n |-> IF format = "json" THEN JSONOffer(k, air) ELSE XMLOffer(k, air)]
        BY <2>2 DEF Search
      <3>2. /\ n \in Nat \ {0} /\ air \in Air
            /\ mock.maxOffers > 0 /\ (hdr > 0 \/ mock.offers > 0) => n <= mock.maxOffers
        BY <1>2, NumberType, GetType
      <3> HIDE DEF air, n
      <3>3. Len(shown') = n /\ DOMAIN shown' = 1..n
        BY <3>1, <3>2
      <3>4. ASSUME format = "xml",
                   IsInjective([b \in DOMAIN mock.reference |-> mock.reference[b].offer.text]),
                   NoFare \notin Range([b \in DOMAIN mock.reference |-> mock.reference[b].offer.fare]),
                   NEW i \in 1..n, NEW j \in 1..n, i # j
            PROVE  shown'[i].offer # shown'[j].offer
        <4>1. \A b \in DOMAIN mock.reference : mock.reference[b].offer.fare # NoFare
          BY <3>4 DEF Range
        <4>2. i \in Nat \ {0} /\ j \in Nat \ {0}
          BY <3>2
        <4>3. XMLOffer(i, air).offer # XMLOffer(j, air).offer
          BY <1>2, <3>2, <3>4, <4>1, <4>2, XMLDiffer
        <4> QED
          BY <3>1, <3>4, <4>3
      <3> QED
        BY <3>1, <3>2, <3>3, <3>4 DEF RecycledDiffer
    <2> QED
      BY <1>2, <2>1, <2>2 DEF Next, Choose, OfferPrice, OrderCreate, vars
  <1> QED
    BY <1>1, <1>2, DeployedStep, PTL DEF Spec

--------------------------------------------------------------------------------
(* What the client holds *)

\* Under the identifiers of an offer that is chosen, the client holds those it chose, or
\* after pricing those of the answer; and who was presented is known from what was answered.
Holding ==
    /\ chosen.offer = 0 => priced = <<>> /\ ordered = <<>>
    /\ chosen.offer # 0 =>
          /\ chosen.offer \in DOMAIN shown
          /\ "item" \in chosen.by => Offer.item # Missing
          /\ hand.offer \in {Missing, Offer.offer, Offer.item}
          /\ hand.item \in {Missing, Offer.item, Opaque(ItemOne)}
          /\ priced = <<>> => /\ hand.item = IF "item" \in chosen.by THEN Offer.item ELSE Missing
                              /\ hand.offer \in {Missing, Offer.offer}
    /\ presented \in Seq(Codes)
    /\ priced = <<>> /\ ordered = <<>> => presented = <<>>
    /\ priced # <<>> /\ ordered = <<>> => Len(presented) = 1
    /\ priced # <<>> /\ ordered = <<>> /\ "item" \in chosen.by /\ Agree
          => priced = <<infoFrom(presented[1])>>

LEMMA HoldingInit == Init => Holding /\ PricedIsOrdered
  BY EmptySeq DEF Init, Holding, PricedIsOrdered

\* Nothing happens once an order is made, and no search is answered twice.
LEMMA Settled ==
    ASSUME Holding, [Next]_vars, chosen.offer # 0
    PROVE  /\ UNCHANGED <<mock, search, shown, chosen>>
           /\ ordered # <<>> => UNCHANGED vars
  <1>1. shown # <<>>
    BY EmptySeq DEF Holding
  <1> QED
    BY <1>1 DEF Next, Search, Choose, OfferPrice, OrderCreate, vars

\* What is not read does not matter.
LEMMA DescribeText ==
    ASSUME NEW id \in ID, NEW t PROVE describe([id EXCEPT !.text = t]) = describe(id)
  BY DEF describe, ID

LEMMA HoldingStep ==
    ASSUME \A k \in DOMAIN shown : shown[k].offer \in ID, Holding, PricedIsOrdered, [Next]_vars
    PROVE  Holding' /\ PricedIsOrdered'
  <1>1. ASSUME UNCHANGED vars PROVE Holding' /\ PricedIsOrdered'
    BY <1>1 DEF Holding, PricedIsOrdered, Agree, Offer, infoFrom, vars
  <1>2. ASSUME NEW format, NEW hdr, NEW code, Search(format, hdr, code)
        PROVE  Holding' /\ PricedIsOrdered'
    <2>1. chosen.offer = 0
      BY <1>2, EmptySeq DEF Search, Holding
    <2> QED
      BY <2>1, <1>2 DEF Search, Holding, PricedIsOrdered
  <1>3. ASSUME NEW k \in DOMAIN shown, NEW elements \in SUBSET {"offer", "item"}, Choose(k, elements)
        PROVE  Holding' /\ PricedIsOrdered'
    <2>1. /\ chosen.offer = 0 /\ chosen' = [offer |-> k, by |-> elements]
          /\ hand' = [e \in {"offer", "item"} |-> IF e \in elements THEN shown[k][e] ELSE Missing]
          /\ UNCHANGED <<shown, presented, priced, ordered>>
          /\ \A e \in elements : shown[k][e] # Missing
      BY <1>3 DEF Choose
    <2>2. priced = <<>> /\ ordered = <<>> /\ presented = <<>>
      BY <2>1 DEF Holding
    <2>3. /\ hand'.offer = IF "offer" \in elements THEN shown[k].offer ELSE Missing
          /\ hand'.item = IF "item" \in elements THEN shown[k].item ELSE Missing
          /\ "item" \in elements => shown[k].item # Missing
      BY <2>1
    <2>4. chosen'.offer = k /\ chosen'.by = elements /\ Offer' = shown[k]
      BY <2>1 DEF Offer
    <2> QED
      BY <2>1, <2>2, <2>3, <2>4 DEF Holding, PricedIsOrdered
  <1>4. ASSUME NEW format \in {"xml", "json"}, NEW code \in Codes, OfferPrice(format, code)
        PROVE  Holding' /\ PricedIsOrdered'
    <2>1. /\ chosen.offer # 0 /\ priced = <<>> /\ ordered = <<>> /\ UNCHANGED <<shown, chosen, ordered>>
          /\ priced' = <<infoFrom(code)>> /\ presented' = Append(presented, code)
          /\ hand' \in {hand, Answered(format)}
      BY <1>4 DEF OfferPrice
    <2>2. presented = <<>> /\ presented' = <<code>>
      BY <2>1 DEF Holding
    <2>3. Offer' = Offer /\ (Agree' <=> Agree)
      BY <2>1 DEF Offer, Agree
    <2>4. /\ hand.item = IF "item" \in chosen.by THEN Offer.item ELSE Missing
          /\ hand.offer \in {Missing, Offer.offer}
          /\ chosen.offer \in DOMAIN shown
          /\ "item" \in chosen.by => Offer.item # Missing
      BY <2>1 DEF Holding
    <2>5. /\ hand'.offer \in {Missing, Offer.offer, Offer.item}
          /\ hand'.item \in {Missing, Offer.item, Opaque(ItemOne)}
      BY <2>1, <2>4 DEF Answered
    <2>6. ASSUME "item" \in chosen.by, Agree PROVE infoFrom(code)' = infoFrom(code)
      <3>1. Offer.item # Missing /\ hand.item = Offer.item
        BY <2>4, <2>6
      <3>2. Offer.item = [Offer.offer EXCEPT !.text = Offer.item.text] /\ Offer.offer \in ID
        BY <2>4, <2>6, <3>1 DEF Agree, Offer
      <3>3. describe(Offer.item) = describe(Offer.offer)
        BY <3>2, DescribeText
      <3>4. Used' \in {Offer.item, Offer.offer}
        BY <2>1, <2>4, <3>1 DEF Answered, Used
      <3>5. describe(Used') = describe(Offer.item) /\ Used = Offer.item
        BY <3>1, <3>3, <3>4 DEF Used
      <3> QED
        BY <3>5 DEF infoFrom, Used
    <2>7. presented' \in Seq(Codes) /\ Len(presented') = 1 /\ presented'[1] = code
      BY <2>2
    <2>8. priced' # <<>>
      BY <2>1
    <2>9. PricedIsOrdered'
      BY <2>1 DEF PricedIsOrdered
    <2> QED
      BY <2>1, <2>3, <2>4, <2>5, <2>6, <2>7, <2>8, <2>9 DEF Holding
  <1>5. ASSUME NEW code \in Codes, OrderCreate(code) PROVE Holding' /\ PricedIsOrdered'
    <2>1. /\ chosen.offer # 0 /\ ordered = <<>> /\ UNCHANGED <<shown, chosen, hand, priced>>
          /\ ordered' = <<infoFrom(code)>> /\ presented' = Append(presented, code)
      BY <1>5 DEF OrderCreate
    <2>2. presented \in Seq(Codes) /\ (priced # <<>> => Len(presented) = 1)
      BY <2>1 DEF Holding
    <2>3. /\ presented' \in Seq(Codes)
          /\ priced # <<>> => presented'[1] = presented[1] /\ presented'[2] = code
      BY <2>1, <2>2, AppendProperties
    <2>4. ordered' # <<>> /\ Offer' = Offer
      BY <2>1 DEF Offer
    <2>5. Holding'
      BY <2>1, <2>3, <2>4 DEF Holding
    <2>6. PricedIsOrdered'
      <3> SUFFICES ASSUME priced # <<>>, "item" \in chosen.by, Agree, presented'[1] = presented'[2]
                   PROVE  ordered' = priced
        BY <2>1, <2>4 DEF PricedIsOrdered, Agree
      <3>1. priced = <<infoFrom(presented[1])>> /\ presented[1] = code
        BY <2>1, <2>3 DEF Holding
      <3> QED
        BY <2>1, <3>1
    <2> QED
      BY <2>5, <2>6
  <1> QED
    BY <1>1, <1>2, <1>3, <1>4, <1>5 DEF Next

--------------------------------------------------------------------------------
(* What an offer says *)

\* Every identifier of the reference names the carrier of the first, or none.
OneCarrier ==
    \A d \in Deployments : \A b \in DOMAIN d.reference :
        d.reference[b].offer.carrier \in {NoCode, d.reference[1].offer.carrier}

\* An offer of a search for a carrier: its identifier says what it is offered at, and
\* that is a fare in the carrier's currency.
Fits(o, format, air) ==
    /\ o.offer \in ID
    /\ o.offer.trip \in {"none", "asked"}
    /\ o.offer.fare.amt # 0 =>
          /\ o.offer.fare.cur # NoCurrency /\ o.at.fare = o.offer.fare
          /\ air.currency \in DOMAIN Rates => o.offer.fare.cur = air.currency
    /\ format = "json" => o.item = Missing
    /\ format # "json" =>
          /\ o.at.carrier = o.offer.carrier
          /\ OneCarrier /\ o.offer.carrier # NoCode /\ air # NoProfile => o.offer.carrier = air.code

Fitting == /\ mock \in Deployments /\ search.air \in Air
           /\ \A k \in DOMAIN shown : Fits(shown[k], search.format, search.air)

LEMMA XMLFits ==
    ASSUME Deployed, NEW k \in Nat \ {0}, NEW air \in Air PROVE Fits(XMLOffer(k, air), "xml", air)
  <1> DEFINE id == mock.reference[Block(k)].offer
             out == render(id, Cycle(k), Carrier, air)
             fare == convert(air, id.fare)
  <1>1. XMLOffer(k, air).offer = out /\ XMLOffer(k, air).at = [trip |-> out.trip, carrier |-> out.carrier, fare |-> out.fare]
    BY BlockType DEF XMLOffer, Cycle, Deployed
  <1>2. id \in Identifier /\ Cycle(k) \in Nat /\ Block(k) \in DOMAIN mock.reference /\ Carrier \in Carriers
    BY BlockType, CarrierType DEF Deployed
  <1> HIDE DEF id
  <1>3. /\ id \in ID /\ id.fare \in Fare /\ id.trip \in {"none", "reference"}
        /\ id.fare # NoFare => id.fare.cur # NoCurrency
    BY <1>2, IdentifierType DEF ID
  <1>4. /\ out \in ID
        /\ out.trip = IF id.trip = "none" THEN "none" ELSE "asked"
        /\ out.carrier = IF id.carrier = Carrier /\ Carrier # NoCode /\ air.code # NoCode
                         THEN air.code ELSE id.carrier
        /\ id.fare = NoFare => out.fare = NoFare
        /\ id.fare # NoFare => out.fare.cur = fare.cur
    BY <1>2, RenderParts
  <1> HIDE DEF out
  <1>5. out.fare.amt # 0 => id.fare # NoFare
    BY <1>4 DEF NoFare
  <1>6. /\ air.currency \in DOMAIN Rates => fare.cur = air.currency
        /\ id.fare.cur # NoCurrency => fare.cur # NoCurrency
    BY <1>3, ConvertType
  <1> HIDE DEF fare
  <1>7. OneCarrier /\ out.carrier # NoCode /\ air # NoProfile => out.carrier = air.code
    <2> SUFFICES ASSUME OneCarrier, out.carrier # NoCode, air # NoProfile PROVE out.carrier = air.code
      OBVIOUS
    <2>1. air.code # NoCode
      BY AirType
    <2>2. id.carrier \in {NoCode, Carrier}
      BY <1>2 DEF OneCarrier, Carrier, Deployed, id
    <2> QED
      BY <2>1, <2>2, <1>4
  <1>8. XMLOffer(k, air).at.carrier = out.carrier /\ XMLOffer(k, air).at.fare = out.fare
    BY <1>1
  <1> QED
    BY <1>1, <1>3, <1>4, <1>5, <1>6, <1>7, <1>8 DEF Fits

\* Every identifier of the reference is one.
LEMMA IdentifiersType ==
    ASSUME Deployed, NEW k \in Nat \ {0} PROVE Cycled(Identifiers, k) \in Identifier
  <1>1. PICK n : n = Len(mock.reference)
    OBVIOUS
  <1>2. n \in Nat \ {0}
    BY <1>1, ReferenceType DEF Deployed
  <1>3. \A i \in 1..n : mock.reference[i] \in [offer : Identifier, item : Identifier]
    BY <1>1, ReferenceType, ElementOfSeq DEF Deployed
  <1>4. ASSUME NEW i \in 1..(2 * n) PROVE Identifiers[i] \in Identifier
    <2>1. (i + 1) \div 2 \in 1..n
      BY <1>2
    <2> DEFINE block == mock.reference[(i + 1) \div 2]
    <2>2. block.offer \in Identifier /\ block.item \in Identifier
      BY <2>1, <1>3
    <2>3. Identifiers[i] = IF i % 2 = 1 THEN block.offer ELSE block.item
      BY <1>1 DEF Identifiers
    <2> QED
      BY <2>2, <2>3
  <1>5. Len(Identifiers) = 2 * n
    BY <1>1, <1>2 DEF Identifiers
  <1>6. ((k - 1) % (2 * n)) + 1 \in 1..(2 * n)
    <2>1. PICK m : m = 2 * n
      OBVIOUS
    <2>2. m \in Nat \ {0}
      BY <1>2, <2>1
    <2>3. ((k - 1) % m) + 1 \in 1..m
      BY <2>2
    <2> QED
      BY <2>1, <2>3
  <1> QED
    BY <1>4, <1>5, <1>6 DEF Cycled

LEMMA JSONFits ==
    ASSUME Deployed, NEW k \in Nat \ {0}, NEW air \in Air PROVE Fits(JSONOffer(k, air), "json", air)
  <1> DEFINE id == Cycled(Identifiers, k)
             told == [describe(id) EXCEPT !.trip = "asked"]
             info == present(air, told)
             out == reencode(id, info)
  <1>1. JSONOffer(k, air) = [offer |-> out, item |-> Missing, at |-> info]
    BY DEF JSONOffer
  <1>2. id \in Identifier
    BY IdentifiersType
  <1> HIDE DEF id
  <1>3. /\ id \in ID /\ id.fare \in Fare /\ id.trip \in {"none", "reference"}
        /\ id.fare.cur = NoCurrency => id.fare.amt = 0
    BY <1>2, IdentifierType DEF ID, NoFare
  <1>4. /\ told.trip = "asked" /\ told.fare = describe(id).fare
        /\ DOMAIN told = {"trip", "carrier", "fare"}
    BY DEF describe
  <1>5. id.fare.cur # NoCurrency => told.fare \in Fare /\ told.fare.cur # NoCurrency
    BY <1>3, <1>4 DEF describe, Fare
  <1> HIDE DEF told
  <1>6. info.trip = "asked" /\ info.fare = IF air = NoProfile THEN told.fare ELSE convert(air, told.fare)
    BY <1>4 DEF present
  <1>7. id.fare.cur # NoCurrency =>
           /\ info.fare \in Fare /\ info.fare.cur # NoCurrency
           /\ air.currency \in DOMAIN Rates => info.fare.cur = air.currency
    <2> SUFFICES ASSUME id.fare.cur # NoCurrency
                 PROVE  /\ info.fare \in Fare /\ info.fare.cur # NoCurrency
                        /\ air.currency \in DOMAIN Rates => info.fare.cur = air.currency
      OBVIOUS
    <2>1. CASE air = NoProfile
      BY <2>1, <1>5, <1>6, NamesAssumption DEF NoProfile
    <2>2. CASE air # NoProfile
      BY <2>2, <1>5, <1>6, ConvertType
    <2> QED
      BY <2>1, <2>2
  <1> HIDE DEF info
  <1>8. /\ out.trip \in {"none", "asked"} /\ out.carrier = id.carrier /\ out.text = id.text
        /\ out.fare = IF id.fare.cur = NoCurrency THEN id.fare ELSE info.fare
    BY <1>3, <1>6 DEF reencode
  <1>9. out \in ID
    <2>1. out.fare \in Fare
      BY <1>3, <1>7, <1>8
    <2>2. out = [trip |-> out.trip, carrier |-> out.carrier, fare |-> out.fare, text |-> out.text]
      BY DEF reencode
    <2>3. id.carrier \in Carriers /\ id.text \in Text \cup {NoText, ItemOne}
      BY <1>3 DEF ID
    <2> HIDE DEF out
    <2> QED
      BY <2>1, <2>2, <2>3, <1>8 DEF ID
  <1> HIDE DEF out
  <1>10. out.fare.amt # 0 => id.fare.cur # NoCurrency
    BY <1>3, <1>8
  <1> QED
    BY <1>1, <1>7, <1>8, <1>9, <1>10 DEF Fits

LEMMA FittingInit == Init => Fitting
  BY EmptySeq DEF Init, Fitting, Air

LEMMA FittingStep == ASSUME Fitting, [Next]_vars PROVE Fitting'
  <1>1. ASSUME UNCHANGED <<mock, search, shown>> PROVE Fitting'
    BY <1>1 DEF Fitting
  <1>2. ASSUME NEW format \in {"xml", "json"}, NEW hdr \in Counts, NEW code \in Codes,
               Search(format, hdr, code)
        PROVE  Fitting'
    <2> DEFINE air == get(IF code # NoCode THEN code ELSE mock.airline)
               n == orNatural(resolve(hdr, mock.maxOffers))
    <2>1. /\ mock' = mock /\ search' = [format |-> format, air |-> air, hdr |-> hdr]
          /\ shown' = [k \in 1..n |-> IF format = "json" THEN JSONOffer(k, air) ELSE XMLOffer(k, air)]
      BY <1>2 DEF Search
    <2>2. Deployed /\ n \in Nat \ {0} /\ air \in Air
      BY NumberType, GetType DEF Fitting, Deployed
    <2> HIDE DEF air, n
    <2>3. ASSUME NEW k \in 1..n PROVE Fits(shown'[k], format, air)
      <3>1. k \in Nat \ {0}
        BY <2>2
      <3>2. CASE format = "json"
        BY <3>1, <3>2, <2>1, <2>2, JSONFits
      <3>3. CASE format = "xml"
        BY <3>1, <3>3, <2>1, <2>2, XMLFits
      <3> QED
        BY <3>2, <3>3
    <2>4. search'.format = format /\ search'.air = air /\ DOMAIN shown' = 1..n
      BY <2>1
    <2> QED
      BY <2>1, <2>2, <2>3, <2>4 DEF Fitting, Deployed
  <1> QED
    BY <1>1, <1>2 DEF Next, Choose, OfferPrice, OrderCreate, vars

\* What is priced with the item of an offer is what is ordered with whichever identifier
\* the client goes on with, in either format, under the same carrier.
THEOREM PricedCorrect == Spec => []PricedIsOrdered
  <1>1. Fitting /\ Holding /\ PricedIsOrdered /\ [Next]_vars => Holding' /\ PricedIsOrdered'
    <2>1. Fitting => \A k \in DOMAIN shown : shown[k].offer \in ID
      BY DEF Fitting, Fits
    <2> QED
      BY <2>1, HoldingStep
  <1> QED
    BY <1>1, FittingInit, FittingStep, HoldingInit, PTL DEF Spec

--------------------------------------------------------------------------------
(* From the search to the order *)

\* The identifier that is read says what is offered, whichever it is.
LEMMA UsedSays ==
    ASSUME Fitting, Holding, chosen.offer # 0, Speaks(Used), Agree
    PROVE  /\ Used.trip = "asked" /\ Used.fare = Offer.at.fare /\ Used.fare \in Fare
           /\ Used.fare.cur # NoCurrency /\ Used.fare.amt # 0 /\ Used.carrier # NoCode
           /\ search.air.currency \in DOMAIN Rates => Used.fare.cur = search.air.currency
           /\ search.format # "json" => Used.carrier = Offer.at.carrier
           /\ search.format # "json" /\ OneCarrier /\ search.air # NoProfile => Used.carrier = search.air.code
  <1>1. ~ Speaks(Missing) /\ ~ Speaks(Opaque(ItemOne))
    BY DEF Speaks, Missing, Opaque
  <1>2. Used \in {Offer.offer, Offer.item} /\ Used # Missing
    BY <1>1 DEF Used, Holding
  <1>3. Fits(Offer, search.format, search.air)
    BY DEF Fitting, Holding, Offer
  <1>4. Used = Offer.offer \/ Used = [Offer.offer EXCEPT !.text = Offer.item.text]
    BY <1>2 DEF Agree
  <1>5. Offer.offer \in ID
    BY <1>3 DEF Fits
  <1>6. Used.trip = Offer.offer.trip /\ Used.fare = Offer.offer.fare /\ Used.carrier = Offer.offer.carrier
    BY <1>4, <1>5 DEF ID
  <1>7. Used.trip # "none" /\ Used.fare.amt # 0 /\ Used.carrier # NoCode
    BY DEF Speaks
  <1>8. Offer.offer.fare \in Fare
    BY <1>5 DEF ID
  <1> QED
    BY <1>3, <1>6, <1>7, <1>8 DEF Fits

\* As long as profiles presented do not scale, presenting one again changes no fare.
LEMMA PresentedAgain ==
    ASSUME Fitting, Holding, chosen.offer # 0, Speaks(Used), Agree, NEW code,
           get(code) = NoProfile \/ (get(code) = search.air /\ search.air.scale = ScaleUnit)
    PROVE  /\ infoFrom(code).trip = "asked" /\ infoFrom(code).fare = Offer.at.fare
           /\ search.format # "json" /\ OneCarrier => infoFrom(code).carrier = Offer.at.carrier
  <1> DEFINE told == describe(Used)
  <1>1. infoFrom(code) = present(get(code), told)
    BY DEF infoFrom, Used
  <1>2. told = [trip |-> Used.trip, carrier |-> Used.carrier, fare |-> Used.fare]
    <2>1. Used.trip # "none" /\ Used.carrier # NoCode /\ Used.fare.cur # NoCurrency /\ Used.fare.amt # 0
      BY UsedSays
    <2>2. Used.fare = [cur |-> Used.fare.cur, amt |-> Used.fare.amt]
      BY UsedSays DEF Fare
    <2> QED
      BY <2>1, <2>2 DEF describe
  <1> HIDE DEF told
  <1>3. CASE get(code) = NoProfile
    BY <1>1, <1>2, <1>3, UsedSays DEF present
  <1>4. CASE get(code) # NoProfile
    <2>1. get(code) = search.air /\ search.air.scale = ScaleUnit /\ search.air \in Air
      BY <1>4 DEF Fitting
    <2>2. convert(search.air, Used.fare) = Used.fare
      BY <2>1, UsedSays, ConvertSame
    <2>3. present(get(code), told) = [trip |-> Used.trip, carrier |-> search.air.code, fare |-> Used.fare]
      BY <2>1, <2>2, <1>2, <1>4 DEF present
    <2> QED
      BY <2>1, <2>3, <1>1, <1>4, UsedSays
  <1> QED
    BY <1>3, <1>4

\* Trip and fare come through intact from the search to the order, and in XML the carrier,
\* if all identifiers of a reference name one carrier, whatever the fares, rates and texts
\* are and whichever identifiers the client holds.
THEOREM OfferedCorrect == OneCarrier => (Spec => []OrderAsOffered)
  <1> SUFFICES ASSUME OneCarrier PROVE Spec => []OrderAsOffered
    OBVIOUS
  <1>1. Init => OrderAsOffered
    BY DEF Init, OrderAsOffered
  <1>2. ASSUME Fitting, Holding, OrderAsOffered, [Next]_vars PROVE OrderAsOffered'
    <2>1. ASSUME chosen.offer = 0 PROVE OrderAsOffered'
      <3>1. ordered = <<>>
        BY <2>1, <1>2 DEF Holding
      <3>2. ordered' = ordered
        BY <2>1, <1>2 DEF Next, Search, Choose, OfferPrice, OrderCreate, vars
      <3> QED
        BY <3>1, <3>2 DEF OrderAsOffered
    <2>2. ASSUME chosen.offer # 0, ordered # <<>> PROVE OrderAsOffered'
      <3>1. UNCHANGED vars
        BY <1>2, <2>2, Settled
      <3> QED
        BY <1>2, <3>1 DEF OrderAsOffered, Used, Agree, Offer, vars
    <2>3. ASSUME NEW code \in Codes, OrderCreate(code) PROVE OrderAsOffered'
      <3>1. /\ chosen.offer # 0 /\ UNCHANGED <<search, shown, chosen, hand>>
            /\ ordered' = <<infoFrom(code)>> /\ presented' = Append(presented, code)
        BY <2>3 DEF OrderCreate
      <3>2. Used' = Used /\ Offer' = Offer /\ (Agree' <=> Agree)
        BY <3>1 DEF Used, Offer, Agree
      <3>3. /\ presented \in Seq(Codes)
            /\ Len(presented) + 1 \in DOMAIN presented' /\ presented'[Len(presented) + 1] = code
        BY <3>1, <1>2, AppendProperties DEF Holding
      <3> SUFFICES ASSUME Speaks(Used), Agree,
                          \A i \in DOMAIN presented' :
                             \/ get(presented'[i]) = NoProfile
                             \/ get(presented'[i]) = search.air /\ search.air.scale = ScaleUnit
                   PROVE  /\ ordered'[1].trip = "asked" /\ ordered'[1].fare = Offer.at.fare
                          /\ search.format = "xml" => ordered'[1].carrier = Offer.at.carrier
        BY <3>1, <3>2 DEF OrderAsOffered
      <3>4. get(code) = NoProfile \/ (get(code) = search.air /\ search.air.scale = ScaleUnit)
        BY <3>3
      <3> QED
        BY <3>1, <3>4, <1>2, PresentedAgain
    <2>4. ASSUME chosen.offer # 0, ordered' = <<>> PROVE OrderAsOffered'
      BY <2>4 DEF OrderAsOffered
    <2> QED
      BY <1>2, <2>1, <2>2, <2>3, <2>4 DEF Next, Search, Choose, OfferPrice, vars
  <1>3. Fitting /\ Holding /\ PricedIsOrdered /\ [Next]_vars => Holding' /\ PricedIsOrdered'
    <2>1. Fitting => \A k \in DOMAIN shown : shown[k].offer \in ID
      BY DEF Fitting, Fits
    <2> QED
      BY <2>1, HoldingStep
  <1> QED
    BY <1>1, <1>2, <1>3, FittingInit, FittingStep, HoldingInit, PTL DEF Spec
================================================================================
