------------------------------- MODULE Documents -------------------------------
(***************************************************************************)
(* The answers after AirShopping (handlers.go, xmlbuild.go, format.go):    *)
(* OfferPrice, ServiceList, SeatAvailability, instalments and the order    *)
(* messages, each as an NDC document or as its JSON projection.  All of    *)
(* them are built from what the offer's identifier says (Offers tells how  *)
(* that comes to be) or from the order made of it.                         *)
(*                                                                         *)
(* A document is its lists, its items with their services, and the         *)
(* elements of its own; identifiers are tuples in place of strings, a leg  *)
(* is its two airports, amounts are whole units.  Names, carriers, dates,  *)
(* codes and currencies, which are copied from place to place, are left    *)
(* out, as is the translation to later generations (Translation).          *)
(***************************************************************************)
EXTENDS Integers, Sequences, SequencesExt

CONSTANTS
    Offered,    \* what the identifiers of a search may say: legs, flight, amount, passengers
    Opaque,     \* what the defaults make of an identifier that says nothing
    Catalog,    \* the codes of the ancillaries, in the order of the catalog
    Columns,    \* the seat columns, numbered from the left
    Sizes,      \* what X-Mock-Offers may say, 0 when it is not there
    MaxSize,    \* -max-offers
    MaxInt,     \* the largest int
    MaxOrders   \* bound: orders created

\* What an identifier says: at least one leg and one passenger
Infos == [legs : Seq(UNION {Range(i.legs) : i \in Offered \cup {Opaque}}), flight : Nat, amount : Nat,
          ADT : Nat, CHD : Nat, INF : Nat]

ASSUME OfferedAssumption ==
    \A i \in Offered \cup {Opaque} : i \in Infos /\ i.legs # <<>> /\ i.ADT + i.CHD + i.INF > 0
ASSUME SizesAssumption == MaxSize \in Nat \ {0} /\ Sizes \subseteq Nat /\ MaxOrders \in Nat \ {0}
\* No trip has more legs than there are ints.
ASSUME IntAssumption == MaxInt \in Nat /\ \A i \in Offered \cup {Opaque} : Len(i.legs) <= MaxInt

VARIABLES
    offer,   \* what the identifier the client holds says
    orders,  \* the orders held: what each is for, and its status
    answer   \* the last answer: the operation, the format, the size asked for, the document

docVars == <<offer, orders, answer>>

--------------------------------------------------------------------------------
(* What an offer says: offerinfo.go, and legs in xmlbuild.go *)

Enumerated(type, n) == [k \in 1..n |-> <<type, k>>]
paxIDs(i) == Enumerated("ADT", i.ADT) \o Enumerated("CHD", i.CHD) \o Enumerated("INF", i.INF)

\* The n-th next flight number; one that is no int stays as it is, the largest int wraps.
bumpFlight(f, n) == IF f > MaxInt THEN f ELSE IF f + n > MaxInt THEN f + n - 2 * (MaxInt + 1) ELSE f + n

\* One flight a leg, the first as the identifier has it
flights(i) == [n \in DOMAIN i.legs |-> bumpFlight(i.flight, n - 1)]
segmentIDs(i) == [n \in DOMAIN i.legs |-> <<"SEG", i.legs[n].from, i.legs[n].to, flights(i)[n]>>]

--------------------------------------------------------------------------------
(* Parts of documents: xmlbuild.go *)

Taxes(total) == (total * 18) \div 100
price(total) == [total |-> total, base |-> total - Taxes(total)]

\* dataLists: passengers, segments, a journey of one segment a direction, and the
\* origin-destination pair of each journey
dataLists(i) ==
    [pax |-> paxIDs(i), segments |-> segmentIDs(i),
     journeys |-> [n \in DOMAIN i.legs |-> [id |-> <<"PJ", n>>, segment |-> segmentIDs(i)[n]]],
     ods |-> [n \in DOMAIN i.legs |-> <<"PJ", n>>]]
journeyIDs(i) == [n \in DOMAIN i.legs |-> <<"PJ", n>>]

Service(id) == [id |-> id, pax |-> <<>>, segments |-> <<>>, journeys |-> <<>>, definition |-> <<>>]
Item(id, total, services) == [id |-> id, price |-> price(total), services |-> services]
Document(i, items) == [lists |-> dataLists(i), items |-> items, definitions |-> <<>>, total |-> <<>>,
                        status |-> <<>>, seats |-> {}]

\* flightService: every passenger on every journey
flightService(i) == [Service(<<"SVC", 1>>) EXCEPT !.pax = paxIDs(i), !.journeys = journeyIDs(i)]

\* orderServices: in an order each service is one passenger on one segment.
orderServices(i) ==
    [x \in (DOMAIN paxIDs(i)) \X (DOMAIN i.legs) |->
        [Service(<<"SVC", paxIDs(i)[x[1]], i.legs[x[2]]>>) EXCEPT
            !.pax = <<paxIDs(i)[x[1]]>>, !.segments = <<segmentIDs(i)[x[2]]>>]]

\* aLaCarteItem: an ancillary for the given passengers on the given segments
aLaCarteItem(id, definition, pax, segments, total) ==
    Item(id, total, << [Service(id) EXCEPT !.definition = <<definition>>, !.pax = pax, !.segments = segments] >>)

--------------------------------------------------------------------------------
(* The sizes and prices of what is made up: handlers.go *)

offerCountFor(size, default) == IF size = 0 THEN default ELSE IF size > MaxSize THEN MaxSize ELSE size

seatPrice(i, row) ==
    IF row <= 4 THEN (i.amount \div 40) * 3 ELSE IF row <= 10 THEN (i.amount \div 40) * 2 ELSE i.amount \div 40
Occupied(row, c) == (row + c - 1) % 4 = 0

Cycled(s, k) == s[((k - 1) % Len(s)) + 1]
synthServices(i, n) ==
    [k \in 1..n |-> [id |-> <<"SVC", Cycled(Catalog, k), k>>, code |-> Cycled(Catalog, k),
                     pax |-> Cycled(paxIDs(i), k), amount |-> (i.amount \div 20) * (1 + ((k - 1) % 3))]]

Plans == <<1, 3, 6, 9, 12>>
plan(i, n) == LET total == IF n > 6 THEN (i.amount * 108) \div 100 ELSE i.amount
              IN  [count |-> n, each |-> total \div n, total |-> total, interest |-> n > 6]

--------------------------------------------------------------------------------
(* The documents: handlers.go *)

OfferPriceRS(i) ==
    [Document(i, << Item(<<"ITEM", 1>>, i.amount, <<flightService(i)>>) >>) EXCEPT
        !.total = <<price(i.amount)>>]

\* What is there for the first time, in the place where it is
Firsts(s) == Restrict(s, {k \in DOMAIN s : \A j \in 1..(k - 1) : s[j] # s[k]})

DefinitionOf(code) == <<"SD", code>>
definitions(i, n) == [k \in 1..n |-> DefinitionOf(synthServices(i, n)[k].code)]
ServiceItems(i, n) ==
    [k \in 1..n |-> LET s == synthServices(i, n)[k]
                    IN  aLaCarteItem(s.id, DefinitionOf(s.code), <<s.pax>>, segmentIDs(i), s.amount)]
ServiceListEvery(i, n) ==  \* fault: a definition for every service
    [Document(i, ServiceItems(i, n)) EXCEPT !.definitions = definitions(i, n)]
\* A definition for each code that is there
ServiceListRS(i, n) == [Document(i, ServiceItems(i, n)) EXCEPT !.definitions = Firsts(definitions(i, n))]

TierByRows(i, row) ==      \* fault: tiers by row, one row short of what they cost
    <<"SEAT", IF row <= 4 THEN 3 ELSE IF row <= 9 THEN 2 ELSE 1>>
\* An item for each price there is; a seat of the first segment points at the one of its row.
Tier(i, row) == <<"SEAT", seatPrice(i, row)>>
SeatItems(i, rows) ==
    LET tiers == [row \in 1..rows |-> Tier(i, row)]
    IN  [row \in DOMAIN Firsts(tiers) |->
            aLaCarteItem(Tier(i, row), DefinitionOf("SEAT"), paxIDs(i), <<segmentIDs(i)[1]>>, seatPrice(i, row))]
SeatAvailabilityRS(i, rows) ==
    [Document(i, SeatItems(i, rows)) EXCEPT
        !.definitions = << DefinitionOf("SEAT") >>,
        !.seats = {[row |-> r, column |-> c, free |-> ~Occupied(r, c), item |-> Tier(i, r)] :
                      r \in 1..rows, c \in Columns}]

\* Alternatives are the same trip at a spread of fares.
Alternative(i, k) == [i EXCEPT !.amount = @ + (k - 1) * 15000]
OrderReshopRS(o, n) ==
    Document(o.info, [k \in 1..n |-> LET alt == Alternative(o.info, k)
                                     IN  Item(<<"ITEM", k>>, alt.amount, <<flightService(alt)>>)])

\* In 19.2 and on the wire an order is open or closed.
orderStatus == [Opened |-> "OPENED", Changed |-> "OPENED", Cancelled |-> "CLOSED"]
OrderViewRS(o) == [Document(o.info, << Item(<<"ITEM", 1>>, o.info.amount, orderServices(o.info)) >>) EXCEPT
                      !.total = <<price(o.info.amount)>>, !.status = <<orderStatus[o.status]>>]

--------------------------------------------------------------------------------
(* The JSON projections: format.go, handlers.go *)

offerToJSON(i) == [segments |-> segmentIDs(i), price |-> price(i.amount), pax |-> <<i.ADT, i.CHD, i.INF>>]
SeatsJSON(i, rows) ==
    [seats |-> {[row |-> r, column |-> c, available |-> ~Occupied(r, c), amount |-> seatPrice(i, r)] :
                   r \in 1..rows, c \in Columns}]
AlternativesJSON(o, n) == [alternatives |-> [k \in 1..n |-> offerToJSON(Alternative(o.info, k))]]
ServicesJSON(i, n) == [services |-> synthServices(i, n)]

--------------------------------------------------------------------------------
(* The handlers *)

Nothing == [nothing |-> TRUE]   \* no document

FlowInit ==
    /\ offer \in Offered
    /\ orders = <<>>
    /\ answer = [op |-> "none", format |-> "json", code |-> 0, size |-> 0, order |-> 0, doc |-> Nothing]

Formats == {"xml", "json"}
Generations == {"19.2", "later", "unmapped"}

\* respondNDC has no document for a generation that no mapping leads to.
Respond(op, format, g, code, size, k, xml, json) ==
    answer' = [op |-> op, format |-> format, size |-> size, order |-> k,
               code |-> IF format = "xml" /\ g = "unmapped" THEN 501 ELSE code,
               doc |-> IF format = "json" THEN json ELSE IF g = "unmapped" THEN Nothing ELSE xml]

OfferPrice(format, g) ==
    /\ Respond("offerprice", format, g, 200, 1, 0, OfferPriceRS(offer), offerToJSON(offer))
    /\ UNCHANGED <<offer, orders>>

ServiceList(format, g, size) ==
    /\ LET n == offerCountFor(size, 12)
       IN  Respond("servicelist", format, g, 200, n, 0, ServiceListRS(offer, n), ServicesJSON(offer, n))
    /\ UNCHANGED <<offer, orders>>

SeatAvailability(format, g, size) ==
    /\ LET n == offerCountFor(size, 30)
       IN  Respond("seatavailability", format, g, 200, n, 0, SeatAvailabilityRS(offer, n), SeatsJSON(offer, n))
    /\ UNCHANGED <<offer, orders>>

\* The plans are not translated: they are no IATA message.
Installments(format) ==
    /\ LET plans == [options |-> [k \in DOMAIN Plans |-> plan(offer, Plans[k])]]
       IN  Respond("installments", format, "19.2", 200, 1, 0, plans, plans)
    /\ UNCHANGED <<offer, orders>>

\* respondOrder
View(op, format, g, code, k, o) ==
    Respond(op, format, g, code, 1, k, OrderViewRS(o),
            [offer |-> offerToJSON(o.info), total |-> o.info.amount, status |-> o.status])

OrderCreate(format, g) ==
    /\ Len(orders) < MaxOrders
    /\ LET o == [info |-> offer, status |-> "Opened"]
       IN  /\ orders' = Append(orders, o)
           /\ View("ordercreate", format, g, 201, Len(orders) + 1, o)
    /\ UNCHANGED offer

OrderRetrieve(k, format, g) ==
    /\ View("orderretrieve", format, g, 200, k, orders[k])
    /\ UNCHANGED <<offer, orders>>

\* A change is applied whatever the status is, and before a generation is refused.
Changed(k, status) == orders' = [orders EXCEPT ![k].status = status]
OrderChange(k, format, g) ==
    /\ Changed(k, "Changed")
    /\ View("orderchange", format, g, 200, k, orders'[k])
    /\ UNCHANGED offer

\* In 19.2 a cancelled order is only named.
OrderCancel(k, format, g) ==
    /\ Changed(k, "Cancelled")
    /\ IF format = "xml" /\ g = "19.2"
       THEN Respond("ordercancel", format, g, 200, 1, k, [order |-> k], Nothing)
       ELSE View("orderview", format, g, 200, k, orders'[k])
    /\ UNCHANGED offer

OrderReshop(k, format, g, size) ==
    /\ LET n == offerCountFor(size, 5)
       IN  Respond("orderreshop", format, g, 200, n, k,
                   OrderReshopRS(orders[k], n), AlternativesJSON(orders[k], n))
    /\ UNCHANGED <<offer, orders>>

\* The client goes on with an alternative, whose identifier names the order and says nothing else.
Adopt ==
    /\ answer.op = "orderreshop" /\ answer.code = 200
    /\ offer' = Opaque
    /\ UNCHANGED <<orders, answer>>

Flow ==
    \/ \E format \in Formats, g \in Generations :
          \/ OfferPrice(format, g) \/ OrderCreate(format, g)
          \/ \E size \in Sizes : ServiceList(format, g, size) \/ SeatAvailability(format, g, size)
          \/ \E k \in DOMAIN orders :
                \/ OrderRetrieve(k, format, g) \/ OrderChange(k, format, g) \/ OrderCancel(k, format, g)
                \/ \E size \in Sizes : OrderReshop(k, format, g, size)
    \/ \E format \in Formats : Installments(format)
    \/ Adopt

--------------------------------------------------------------------------------
(* Properties *)

\* An NDC document
Built ==
    /\ answer.format = "xml" /\ answer.code \in {200, 201}
    /\ answer.op \notin {"none", "installments", "ordercancel"}
Doc == answer.doc

IDs(s) == [k \in DOMAIN s |-> s[k].id]
\* The services of all items
Services(d) ==
    [x \in UNION {{n} \X (DOMAIN d.items[n].services) : n \in DOMAIN d.items} |-> d.items[x[1]].services[x[2]]]

\* No pair of airports is flown twice in one direction.
OnceEach(d) ==
    LET s == d.lists.segments IN IsInjective([n \in DOMAIN s |-> <<s[n][2], s[n][3]>>])

\* Within a document every reference leads to exactly one element: passengers, segments,
\* journeys, definitions and items are declared once, and what services, seats, journeys
\* and origin-destination pairs refer to is among them, whatever the trip, the party, the
\* size asked for and the price (which may make seat tiers meet).  Where a pair of airports
\* is flown twice the services of an order are not told apart, as their identifiers do not
\* have the flight (xmlbuild.go:182), nor are the segments of a flight number that is no
\* int, as it is not counted on (xmlbuild.go:42).
ReferencesResolve ==
    Built =>
        /\ \A ids \in {Doc.lists.pax, IDs(Doc.lists.journeys), IDs(Doc.items), Doc.definitions} :
              IsInjective(ids)
        /\ OnceEach(Doc) \/ Doc.lists.segments[1][4] <= MaxInt => IsInjective(Doc.lists.segments)
        /\ \A j \in Range(Doc.lists.journeys) : j.segment \in Range(Doc.lists.segments)
        /\ Range(Doc.lists.ods) = Range(IDs(Doc.lists.journeys))
        /\ \A s \in Range(Services(Doc)) :
              /\ Range(s.pax) \subseteq Range(Doc.lists.pax) /\ s.pax # <<>>
              /\ Range(s.segments) \subseteq Range(Doc.lists.segments)
              /\ Range(s.journeys) \subseteq Range(IDs(Doc.lists.journeys))
              /\ Range(s.definition) \subseteq Range(Doc.definitions)
        /\ \A s \in Doc.seats : s.item \in Range(IDs(Doc.items))
        /\ answer.op # "orderreshop" /\ OnceEach(Doc) => IsInjective(IDs(Services(Doc)))

\* What an NDC document says, the way the JSON projection says it
Count(d, type) == Cardinality({n \in DOMAIN d.lists.pax : d.lists.pax[n][1] = type})
Projected(d, p) ==
    [segments |-> d.lists.segments, price |-> p,
     pax |-> <<Count(d, "ADT"), Count(d, "CHD"), Count(d, "INF")>>]
PriceOf(d, id) == (CHOOSE item \in Range(d.items) : item.id = id).price.total

\* The two formats are built by code of their own from the same offer or order, and agree:
\* the trip, the party and the price of an offer, an order or an alternative, and whether
\* the order is still open; the services with whom they are for and what they cost; and
\* for every seat whether it is free and the price of the item it points at.
FormatsAgree ==
    Built =>
        CASE answer.op = "offerprice" ->
                Projected(Doc, Doc.items[1].price) = offerToJSON(offer)
          [] answer.op \in {"ordercreate", "orderretrieve", "orderchange", "orderview"} ->
                /\ Projected(Doc, Doc.total[1]) = offerToJSON(orders[answer.order].info)
                /\ Doc.status = IF orders[answer.order].status = "Cancelled" THEN <<"CLOSED">> ELSE <<"OPENED">>
          [] answer.op = "orderreshop" ->
                [k \in DOMAIN Doc.items |-> Projected(Doc, Doc.items[k].price)]
                    = AlternativesJSON(orders[answer.order], answer.size).alternatives
          [] answer.op = "servicelist" ->
                [k \in DOMAIN Doc.items |->
                    LET s == Doc.items[k].services[1]
                    IN  [id |-> s.id, code |-> s.definition[1][2], pax |-> s.pax[1],
                         amount |-> Doc.items[k].price.total]]
                    = ServicesJSON(offer, answer.size).services
          [] answer.op = "seatavailability" ->
                {[row |-> s.row, column |-> s.column, available |-> s.free, amount |-> PriceOf(Doc, s.item)] :
                    s \in Doc.seats}
                    = SeatsJSON(offer, answer.size).seats
================================================================================
