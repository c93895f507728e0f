-------------------------------- MODULE Offers --------------------------------
(***************************************************************************)
(* The chain from search to order (offerid.go, offerinfo.go, airlines.go,  *)
(* airshopping in main.go, infoFrom, offerPrice and orderCreate in         *)
(* handlers.go).  The mock keeps nothing of a search: an offer's           *)
(* identifier carries the trip, the carrier and the fare, and pricing and  *)
(* ordering read them back out of whatever identifiers the client hands    *)
(* over.                                                                   *)
(*                                                                         *)
(* An identifier is a list of text segments, of which the code reads four; *)
(* here it is a record of those, each of them possibly missing, and of the *)
(* text it does not read.  Fares are whole units, rates and scales are     *)
(* ratios of integers (floats in the code), and the trip is either the     *)
(* reference's or the one asked for, which Itinerary tells apart further.  *)
(***************************************************************************)
EXTENDS Integers, Sequences, SequencesExt

CONSTANTS
    Deployments,  \* what the mock may be started with: reference, offers, ceiling, carrier
    Counts,       \* what X-Mock-Offers may ask for, 0 when it is not there
    Codes,        \* what X-Mock-Airline may name, NoCode when it is not there
    NoCode,       \* no carrier
    Profiles,     \* the airline profiles, by code
    Rates,        \* the table of rates: how many RateUnits each currency is worth
    RateUnit,     \* the rate of the currency the others are measured in
    ScaleUnit,    \* the fareScale of a profile that leaves fares as they are
    NoCurrency,   \* a profile without a currency, an identifier without a fare
    Carriers,     \* the codes of carriers, NoCode among them
    Currencies,   \* the currencies, NoCurrency among them
    Text,         \* the segments of an identifier the code does not read
    NoText,       \* the text of an identifier that is not there
    ItemOne       \* "ITEM_1"

ASSUME NamesAssumption == /\ NoCode \in Carriers /\ DOMAIN Profiles \subseteq Carriers \ {NoCode}
                          /\ NoCurrency \in Currencies /\ DOMAIN Rates \subseteq Currencies \ {NoCurrency}
ASSUME UnitsAssumption == RateUnit \in Nat \ {0} /\ ScaleUnit \in Nat \ {0}
ASSUME RatesAssumption == \A c \in DOMAIN Rates : Rates[c] \in Nat \ {0}
ASSUME ProfilesAssumption ==
    \A c \in DOMAIN Profiles : Profiles[c] \in [code : {c}, currency : Currencies, scale : Nat]

\* The identifiers of a reference, which is never empty
Identifier == [trip : {"none", "reference"}, carrier : Carriers, text : Text,
               fare : [cur : Currencies \ {NoCurrency}, amt : Nat] \cup {[cur |-> NoCurrency, amt |-> 0]}]
ASSUME DeploymentsAssumption ==
    \A d \in Deployments :
        /\ d.reference \in Seq([offer : Identifier, item : Identifier]) /\ d.reference # <<>>
        /\ d.offers \in Int /\ d.maxOffers \in Int
ASSUME CountsAssumption == Counts \subseteq Int

VARIABLES
    mock,     \* the deployment
    search,   \* the search: its format, the carrier it is answered for
    shown,    \* the offers of its answer: the identifiers, and what they are offered at
    chosen,   \* the offer the client goes on with, and by which elements; 0 before it chose
    hand,     \* the identifiers the client holds, by element
    presented, \* the carriers presented in pricing and ordering
    priced,   \* what OfferPrice answered
    ordered   \* what OrderCreate stored

vars == <<mock, search, shown, chosen, hand, presented, priced, ordered>>

--------------------------------------------------------------------------------
(* Identifiers and fares *)

NoFare == [cur |-> NoCurrency, amt |-> 0]
Missing == [trip |-> "none", carrier |-> NoCode, fare |-> NoFare, text |-> NoText]
Opaque(t) == [Missing EXCEPT !.text = t]

NoProfile == [code |-> NoCode, currency |-> NoCurrency, scale |-> ScaleUnit]
get(code) == IF code \in DOMAIN Profiles THEN Profiles[code] ELSE NoProfile

Round(n, d) == (2 * n + d) \div (2 * d)

\* The fare in a carrier's currency, scaled; a currency without a rate counts as the one
\* the others are measured in.
RateOf(cur) == IF cur \in DOMAIN Rates THEN Rates[cur] ELSE RateUnit
convert(air, fare) ==
    IF air.currency \notin DOMAIN Rates THEN fare
    ELSE [cur |-> air.currency,
          amt |-> Round(fare.amt * RateOf(fare.cur) * air.scale, ScaleUnit * Rates[air.currency])]

\* offerID.render: the trip is replaced, the reference's carrier swapped, the fare
\* converted and moved on with each cycle.
renderStill(id, cycle, ref, air) ==   \* fault: the fare is not moved on
    [trip |-> IF id.trip = "none" THEN "none" ELSE "asked",
     carrier |-> IF id.carrier = ref /\ ref # NoCode /\ air.code # NoCode THEN air.code ELSE id.carrier,
     fare |-> IF id.fare = NoFare THEN NoFare ELSE convert(air, id.fare),
     text |-> id.text]
render(id, cycle, ref, air) ==
    [trip |-> IF id.trip = "none" THEN "none" ELSE "asked",
     carrier |-> IF id.carrier = ref /\ ref # NoCode /\ air.code # NoCode THEN air.code ELSE id.carrier,
     fare |-> IF id.fare = NoFare THEN NoFare ELSE [convert(air, id.fare) EXCEPT !.amt = @ + 1000 * cycle],
     text |-> id.text]

\* describe: what an identifier says, with defaults for what it does not say.
describe(id) ==
    [trip |-> IF id.trip = "none" THEN "default" ELSE id.trip,
     carrier |-> IF id.carrier = NoCode THEN "XX" ELSE id.carrier,
     fare |-> [cur |-> IF id.fare.cur = NoCurrency THEN "USD" ELSE id.fare.cur,
               amt |-> IF id.fare.amt = 0 THEN 100000 ELSE id.fare.amt]]

\* reencode: the identifier with the trip and fare that are served, where it has them.
reencodeTrip(id, info) ==             \* fault: the fare of the reference stays
    [trip |-> IF id.trip = "none" THEN "none" ELSE info.trip, carrier |-> id.carrier,
     fare |-> id.fare, text |-> id.text]
reencode(id, info) ==
    [trip |-> IF id.trip = "none" THEN "none" ELSE info.trip, carrier |-> id.carrier,
     fare |-> IF id.fare.cur = NoCurrency THEN id.fare ELSE info.fare, text |-> id.text]

\* A carrier's profile on what an identifier says
present(air, info) ==
    IF air = NoProfile THEN info
    ELSE [info EXCEPT !.carrier = air.code, !.fare = convert(air, @)]

--------------------------------------------------------------------------------
(* How many offers *)

clampOffers(n, max) == IF max > 0 /\ n > max THEN max ELSE n
resolve(hdr, max) == clampOffers(IF hdr > 0 THEN hdr ELSE mock.offers, max)
orNatural(n) == IF n <= 0 THEN Len(mock.reference) ELSE n

--------------------------------------------------------------------------------
(* The handlers *)

Init ==
    /\ mock \in Deployments
    /\ search = [format |-> "none", air |-> NoProfile, hdr |-> 0]
    /\ shown = <<>>
    /\ chosen = [offer |-> 0, by |-> {}]
    /\ hand = [offer |-> Missing, item |-> Missing]
    /\ presented = <<>>
    /\ priced = <<>>
    /\ ordered = <<>>

\* The blocks of the reference, over and over
Cycled(s, k) == s[((k - 1) % Len(s)) + 1]
\* Every identifier of the reference in the order of the document
Identifiers ==
    [k \in 1..(2 * Len(mock.reference)) |->
        LET block == mock.reference[(k + 1) \div 2] IN IF k % 2 = 1 THEN block.offer ELSE block.item]
Carrier == mock.reference[1].offer.carrier

XMLOffer(k, air) ==
    LET block == Cycled(mock.reference, k)
        cycle == (k - 1) \div Len(mock.reference)
        id == render(block.offer, cycle, Carrier, air)
    IN  [offer |-> id, item |-> render(block.item, cycle, Carrier, air),
         at |-> [trip |-> id.trip, carrier |-> id.carrier, fare |-> id.fare]]

JSONOffer(k, air) ==
    LET id == Cycled(Identifiers, k)
        info == present(air, [describe(id) EXCEPT !.trip = "asked"])
    IN  [offer |-> reencode(id, info), item |-> Missing, at |-> info]

\* airshopping: the header's carrier, or else the route's or the default one; a code
\* without a profile leaves the reference's carrier.
Search(format, hdr, code) ==
    LET air == get(IF code # NoCode THEN code ELSE mock.airline)
        n == orNatural(resolve(hdr, mock.maxOffers))
    IN  /\ shown = <<>>
        /\ search' = [format |-> format, air |-> air, hdr |-> hdr]
        /\ shown' = [k \in 1..n |-> IF format = "json" THEN JSONOffer(k, air) ELSE XMLOffer(k, air)]
        /\ UNCHANGED <<mock, chosen, hand, presented, priced, ordered>>

\* The client goes on with an offer: with its identifier, its item's, or both.  (A
\* request without either is answered 400 and leaves everything as it is.)
Choose(k, elements) ==
    /\ chosen.offer = 0 /\ k \in DOMAIN shown /\ elements # {}
    /\ \A e \in elements : shown[k][e] # Missing
    /\ chosen' = [offer |-> k, by |-> elements]
    /\ hand' = [e \in {"offer", "item"} |-> IF e \in elements THEN shown[k][e] ELSE Missing]
    /\ UNCHANGED <<mock, search, shown, presented, priced, ordered>>

\* infoFrom: the item's identifier before the offer's, and the profile of the header.
infoFromTwice(code) ==                \* fault: the offer's carrier is presented again
    LET info == describe(IF hand.item # Missing THEN hand.item ELSE hand.offer)
    IN  present(get(code), present(get(info.carrier), info))
infoFrom(code) ==
    present(get(code), describe(IF hand.item # Missing THEN hand.item ELSE hand.offer))

\* offerPrice: the answer has the identifiers it was handed, and in XML an item of its
\* own when it was handed none.  The client goes on with those or with the ones it has.
Answered(format) ==
    [offer |-> IF hand.offer # Missing THEN hand.offer ELSE hand.item,
     item |-> IF format = "json" THEN Missing
              ELSE IF hand.item # Missing THEN hand.item ELSE Opaque(ItemOne)]
OfferPriceNew(format, code) ==        \* fault: the item of the answer is always a new one
    /\ chosen.offer # 0 /\ priced = <<>> /\ ordered = <<>>
    /\ priced' = <<infoFrom(code)>>
    /\ presented' = Append(presented, code)
    /\ hand' \in {hand, [offer |-> hand.offer, item |-> Opaque(ItemOne)]}
    /\ UNCHANGED <<mock, search, shown, chosen, ordered>>
OfferPrice(format, code) ==
    /\ chosen.offer # 0 /\ priced = <<>> /\ ordered = <<>>
    /\ priced' = <<infoFrom(code)>>
    /\ presented' = Append(presented, code)
    /\ hand' \in {hand, Answered(format)}
    /\ UNCHANGED <<mock, search, shown, chosen, ordered>>

\* orderCreate: the order is for what the identifiers say.
OrderCreate(code) ==
    /\ chosen.offer # 0 /\ ordered = <<>>
    /\ ordered' = <<infoFrom(code)>>
    /\ presented' = Append(presented, code)
    /\ UNCHANGED <<mock, search, shown, chosen, hand, priced>>

Next ==
    \/ \E format \in {"xml", "json"}, hdr \in Counts, code \in Codes : Search(format, hdr, code)
    \/ \E k \in DOMAIN shown, elements \in SUBSET {"offer", "item"} : Choose(k, elements)
    \/ \E format \in {"xml", "json"}, code \in Codes : OfferPrice(format, code)
    \/ \E code \in Codes : OrderCreate(code)

Spec == Init /\ [][Next]_vars

--------------------------------------------------------------------------------
(* Properties *)

Offer == shown[chosen.offer]
Used == IF hand.item # Missing THEN hand.item ELSE hand.offer
\* The identifier says everything the code reads
Speaks(id) == id.trip # "none" /\ id.carrier # NoCode /\ id.fare.amt # 0
\* The offer and its item say the same
Agree == Offer.item = Missing \/ Offer.item = [Offer.offer EXCEPT !.text = Offer.item.text]

\* What is ordered is what was offered: trip and fare, and in XML the carrier, come
\* through the identifier intact, over both formats and with pricing in between or not,
\* as long as every profile presented on the way is the one of the search and does not
\* scale fares.
OrderAsOffered ==
    /\ ordered # <<>> /\ Speaks(Used) /\ Agree
    /\ \A i \in DOMAIN presented :
          get(presented[i]) = NoProfile \/ (get(presented[i]) = search.air /\ search.air.scale = ScaleUnit)
    => /\ ordered[1].trip = "asked" /\ ordered[1].fare = Offer.at.fare
       /\ search.format = "xml" => ordered[1].carrier = Offer.at.carrier

\* An offer that is priced and then ordered with its item, under the same carrier, is
\* ordered as it was priced, whichever of the identifiers the client goes on with.
PricedIsOrdered ==
    priced # <<>> /\ ordered # <<>> /\ "item" \in chosen.by /\ Agree /\ presented[1] = presented[2]
    => ordered = priced

\* The reference is gone through as often as it takes to reach the number asked for, but
\* not beyond -max-offers when that number comes from a header or the configuration; and
\* no two offers of an XML answer come out identical, however often that is, when those
\* of the reference have fares and differ in more than that.
RecycledDiffer ==
    LET texts == [i \in DOMAIN mock.reference |-> mock.reference[i].offer.text]
        fares == [i \in DOMAIN mock.reference |-> mock.reference[i].offer.fare]
    IN  /\ mock.maxOffers > 0 /\ (search.hdr > 0 \/ mock.offers > 0) => Len(shown) <= mock.maxOffers
        /\ search.format = "xml" /\ IsInjective(texts) /\ NoFare \notin Range(fares)
           => \A i, j \in DOMAIN shown : i # j => shown[i].offer # shown[j].offer

\* README.md:119-121: hand the identifier of a JSON offer back to price or order "and the
\* trip, carrier and fare come through intact".
OfferComesThrough ==
    ordered # <<>> /\ search.format = "json" /\ Speaks(Offer.offer)
    /\ (\A i \in DOMAIN presented : presented[i] = NoCode)
    => ordered[1] = Offer.at
================================================================================
