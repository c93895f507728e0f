----------------------------- MODULE MCTranslation -----------------------------
EXTENDS Translation

\* Documents are written as nested elements and laid out on the heap by position
E(name, kids) == [name |-> name, text |-> <<>>, kids |-> kids]
L(name, text) == [name |-> name, text |-> IF text = "" THEN <<>> ELSE <<text>>, kids |-> <<>>]
\* The place of an element of the document, by the way to it
Written(way) == At(<<>>, way, "", 0)
RECURSIVE Laid(_, _)
Laid(at, t) ==
    LET place(i) == Append(at, ToString(i))
    IN  FoldLeft(LAMBDA h, i : Laid(place(i), t.kids[i]) @@ h,
                 Written(at) :> Node(t.name, t.text, [i \in DOMAIN t.kids |-> Written(place(i))]), [i \in DOMAIN t.kids |-> i])
MCRoot == Written(<<"R">>)

\* Segments, by their identifier and the legs they fly: without an identifier, with one
\* (the same leg under two segments), with or without ends
Bare == E("DatedOperatingLeg", <<L("OnGroundDuration", "x")>>)
Ended == E("DatedOperatingLeg", <<L("Dep", "GRU"), L("Arrival", "")>>)
Known(id) == E("DatedOperatingLeg", <<L("DatedOperatingLegID", id), L("Arrival", "NAT"), L("Dep", "REC")>>)
Flights == {<<>>, <<Bare>>, <<Known("L1")>>, <<Known("L1"), Ended>>, <<Known("L2"), Known("L1")>>}
Carriers == << <<E("OperatingCarrierInfo", <<L("CarrierDesigCode", "YY")>>), L("CabinType", "M")>>,
               <<E("OperatingCarrierInfo", <<L("CarrierDesigCode", "")>>)>>, <<>> >>
Segment(i, legs, dep) ==
    E("PaxSegment", <<L("Arrival", "NAT")>> \o legs \o <<L("Dep", dep),
        E("MarketingCarrierInfo", <<L("CarrierDesigCode", "XX")>>)>> \o Carriers[((i + Len(legs)) % 3) + 1]
        \o <<L("PaxSegmentID", ToString(i))>>)
Segments(flown) ==
    E("PaxSegmentList", [i \in DOMAIN flown |-> Segment(i, flown[i], <<"BSB", "GRU">>[i])])

\* Penalties with and without a price
Penalty(i, priced) ==
    E("Penalty", <<L("AppCode", "1"), L("PenaltyID", "P" \o ToString(i))>> \o IF priced THEN <<L("Price", "9")>> ELSE <<>>)
Penalties(ps) == IF ps = <<>> THEN <<>> ELSE <<E("PenaltyList", [i \in DOMAIN ps |-> Penalty(i, ps[i])])>>

\* Fares: what the detail refers to itself, and two rules
Refs(name, of) == [i \in DOMAIN of |-> L(name, of[i])]
Fare(own, first, second) ==
    E("FareDetail", Refs("PenaltyRefID", own) \o
        <<E("FareComponent", <<E("FareRule", Refs("PenaltyRefID", first)), E("FareRule", Refs("PenaltyRefID", second))>>),
          L("FarePriceTypeCode", "SELL_AMOUNT")>>)

\* What refers to segments, in each order
Association(order) ==
    E("Service", <<E("ServiceAssociations", [i \in DOMAIN order |-> L(order[i], "1")])>>)
Journeys == {<<"PaxJourneyRefID", "PaxSegmentRefID">>, <<"PaxSegmentRefID", "PaxJourneyRefID", "PaxSegmentRefID">>, <<>>}
Baggage == E("BaggageAllowance", <<E("BaggageFlightAssociations", Refs("PaxSegmentRefID", <<"1", "1">>))>>)
Definition == E("ServiceDefinition", <<L("Name", "seat"), E("ServiceDefinitionRef", Refs("PaxSegmentRefID", <<"1">>))>>)

Response(flown, ps, fare, order, owner) ==
    Laid(<<"R">>, E("IATA_AirShoppingRS", <<E("Response", <<
        E("DataLists", <<E("BaggageAllowance", <<L("ApplicableBagText", "x")>>)>> \o Penalties(ps)
                       \o <<Segments(flown), E("ServiceDefinitionList", <<Definition>>)>>),
        E("Offer", <<L("OwnerCode", owner), Baggage, E("OfferItem", <<fare, Association(order)>>)>>)>>)>>))
Map(deck) ==
    Laid(<<"R">>, E("IATA_SeatAvailabilityRS", <<E("Response", <<E("CabinCompartment", <<L("ColumnID", "A"), L("ColumnID", "C")>>
        \o [i \in DOMAIN deck |-> E("SeatRow", <<L("RowNumber", deck[i]), E("Seat", <<L("ColumnID", "A")>>)>>)])>>)>>))

Plain == Fare(<<>>, <<>>, <<>>)
Some == <<<<Bare>>>>
Cited == {<<"P1">>, <<"P2", "P1">>, <<>>}
MCDocuments ==
    {Response(f, <<TRUE>>, Fare(<<>>, <<"P1">>, <<"P1">>), <<"PaxSegmentRefID">>, "XX") :
        f \in {<<a>> : a \in Flights} \cup {<<a, b>> : a, b \in Flights}}
    \cup {Response(Some, <<a, b>>, Fare(own, first, second), <<"PaxJourneyRefID">>, "") :
             a, b \in BOOLEAN, own \in {<<>>, <<"P2">>}, first, second \in Cited}
    \cup {Response(Some, <<>>, Plain, order, owner) : order \in Journeys, owner \in {"", "XX"}}
    \cup {Map(<<"1", "2">>), Map(<<"">>)}

\* The mapping from 19.2, as far as these documents have what it speaks of
MCStructural == <<"dated-segments", "unpriced-penalties", "seat-row-number", "definition-owner">>
R(kind, parent, kid, to) == [kind |-> kind, parent |-> parent, child |-> kid, to |-> to]
MCRules ==
    { R("hoist", "FareRule", "PenaltyRefID", <<"FareDetail">>),
      R("wrap", "BaggageFlightAssociations", "PaxSegmentRefID", <<"PaxSegmentReferences">>),
      R("wrap", "ServiceAssociations", "PaxJourneyRefID", <<"PaxJourneyRef">>),
      R("wrap", "ServiceAssociations", "PaxSegmentRefID", <<"PaxSegmentRef">>),
      R("wrap", "ServiceDefinitionRef", "PaxSegmentRefID", <<"OfferFlightAssociations", "PaxSegmentReferences">>),
      R("wrapEach", "CabinCompartment", "ColumnID", <<"SeatColumn">>) }
MCCodes == "FarePriceTypeCode" :> (<<"SELL_AMOUNT">> :> <<"Filed">>)
MCDropped == {[parent |-> "", child |-> "ApplicableBagText"], [parent |-> "Penalty", child |-> "AppCode"]}
MCRenames == <<"BaggageFlightAssociations">> :> "OfferFlightAssociations"
          @@ <<"Offer", "BaggageAllowance">> :> "BaggageAssociations"
          @@ <<"OfferItem", "Service", "ServiceAssociations">> :> "OfferServiceAssociation"
Alphabet ==
    << "AppCode", "ApplicableBagText", "Arrival", "BaggageAllowance", "BaggageAssociations",
       "BaggageFlightAssociations", "CabinCompartment", "CabinType", "CabinTypeAssociationChoice",
       "CarrierDesigCode", "ColumnID", "DataLists", "DatedMarketingSegment", "DatedMarketingSegmentId",
       "DatedMarketingSegmentList", "DatedMarketingSegmentRefId", "DatedOperatingLeg",
       "DatedOperatingLegID", "DatedOperatingLegList", "DatedOperatingLegRefID", "DatedOperatingSegment",
       "DatedOperatingSegmentId", "DatedOperatingSegmentList", "DatedOperatingSegmentRefId", "Dep",
       "FareComponent", "FareDetail", "FarePriceTypeCode", "FareRule", "IATA_AirShoppingRS",
       "IATA_SeatAvailabilityRS", "MarketingCarrierInfo", "Name", "Offer", "OfferFlightAssociations",
       "OfferItem", "OfferServiceAssociation", "OnGroundDuration", "OperatingCarrierInfo", "OwnerCode",
       "PaxJourneyRef", "PaxJourneyRefID", "PaxSegment", "PaxSegmentID", "PaxSegmentList",
       "PaxSegmentRef", "PaxSegmentReferences", "PaxSegmentRefID", "Penalty", "PenaltyID", "PenaltyList",
       "PenaltyRefID", "Price", "Response", "RowNumber", "Seat", "SeatColumn", "SeatRow",
       "SegmentCabinType", "Service", "ServiceAssociations", "ServiceDefinition",
       "ServiceDefinitionList", "ServiceDefinitionRef" >>
MCRank == [name \in Range(Alphabet) |-> CHOOSE i \in DOMAIN Alphabet : Alphabet[i] = name]
================================================================================
