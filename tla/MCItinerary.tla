------------------------------ MODULE MCItinerary ------------------------------
EXTENDS Itinerary

CONSTANTS GRU, SCL, LIM, BOG
Cities == {GRU, SCL, LIM, BOG}
Letters == {"A", "B", "C"}

Missing == -2
Broken == -1
L(from, to, day) == [from |-> from, to |-> to, day |-> day]

\* References: the legs, the days after which each flight arrives, the legs' identifiers
Ref(legs, nights, ids) ==
    [legs |-> legs, nights |-> nights, ids |-> ids, sliced |-> TRUE, to |-> {"v213", "v241"}]
ID(n) == [name |-> n, numbers |-> <<>>]
There == Ref(<<L(GRU, SCL, 2)>>, <<1>>, <<ID("A"), ID("A"), ID("B")>>)
ThereES == Ref(<<L(LIM, GRU, 5)>>, <<0>>, <<ID("C")>>)
Elsewhere == Ref(<<L(GRU, SCL, 3)>>, <<0>>, <<ID("C")>>)
AndBack == Ref(<<L(GRU, SCL, 2), L(SCL, GRU, 5)>>, <<1, 1>>, <<ID("A"), ID("B"), ID("A"), ID("A")>>)
Circuit == Ref(<<L(SCL, LIM, 7), L(LIM, BOG, 4), L(BOG, SCL, 1)>>, <<1, 0, 1>>, <<>>)
Through == Ref(<<L(GRU, LIM, 1), L(LIM, SCL, 4)>>, <<1, 1>>, <<>>)
Side == Ref(<<L(GRU, SCL, 3), L(SCL, LIM, 6), L(LIM, SCL, 9)>>, <<0, 1, 0>>, <<>>)
Again == Ref(<<L(LIM, BOG, 1), L(BOG, LIM, 4), L(LIM, BOG, 8)>>, <<1, 0, 1>>, <<>>)
OpenJaw == Ref(<<L(GRU, SCL, 1), L(LIM, GRU, 4)>>, <<0, 1>>, <<>>)
OpenJaw2 == Ref(<<L(SCL, BOG, 2), L(GRU, SCL, 7)>>, <<1, 0>>, <<>>)
Spoilt(file) == [file EXCEPT !.sliced = FALSE]
OnlyTo(file, versions) == [file EXCEPT !.to = versions]

OW(file) == <<"ow", "default">> :> file
ES(file) == <<"ow", "es">> :> file
RT(file) == <<"rt", "any">> :> file
Dir(named, cities) == [named |-> named, cities |-> cities]
Empty == Dir(<<>>, <<>>)

None == [v192 |-> NoDir, v213 |-> NoDir, v241 |-> NoDir, flat |-> Empty]
\* One version has everything; one of its files can be translated to one version only
Whole == [None EXCEPT !.v192 = Dir(OW(There) @@ ES(ThereES) @@ RT(OnlyTo(AndBack, {"v213"})),
                                   <<Circuit, OpenJaw, OpenJaw2, Spoilt(Circuit)>>)]
\* Only the flat layout, some of it spoilt
Flat == [None EXCEPT !.flat = Dir(OW(There) @@ ES(Spoilt(ThereES)) @@ RT(AndBack), <<Through, Side, Again>>)]
\* Two native versions, one of which has but a return, and two ways to the third
Partly == [None EXCEPT !.v192 = Dir(OW(There) @@ RT(OnlyTo(AndBack, {"v241"})), <<OpenJaw>>),
                       !.v213 = Dir(ES(ThereES) @@ RT([AndBack EXCEPT !.ids = <<ID("B")>>]), <<OnlyTo(OpenJaw2, {})>>),
                       !.flat = Dir(OW(Elsewhere), <<>>)]
\* A version no mapping leads to
Late == [None EXCEPT !.v213 = Dir(OW(There), <<>>)]
\* Every way in which identifiers repeat, in one reference
IDs == {ID("A"), Numbered(ID("A"), 2), Numbered(Numbered(ID("A"), 2), 2), ID("B")}
Repeating ==
    {[None EXCEPT !.v192 = Dir(OW([There EXCEPT !.ids = ids]), <<>>)] : ids \in UNION {[1..n -> IDs] : n \in 1..4}}

Contents == {None, Whole, Flat, Partly, Late} \cup Repeating
Mappings == {<<"v192", "v213">>, <<"v192", "v241">>, <<"v213", "v241">>}

\* Requests of one to three legs over three airports
Legs == {L(f, t, d) : f \in {GRU, LIM, BOG}, t \in {GRU, LIM, BOG}, d \in {Broken, 1, 3}}
Proper == {l \in Legs : l.from # l.to}
Odd == {<<>>, <<L(NoAirport, GRU, 1)>>, <<L(GRU, NoAirport, 1), L(LIM, GRU, 3)>>, <<L(GRU, GRU, 1)>>,
        <<L(GRU, LIM, Missing)>>, <<L(GRU, LIM, 1), L(LIM, GRU, Missing)>>}
Itineraries(n) == Odd \cup UNION {[1..k -> Proper] : k \in 1..n}
Request(version, legs, lang) ==
    [version |-> version, legs |-> legs, lang |-> lang, otherShopping |-> FALSE, passengers |-> 1]
One(version) == Request(version, <<L(GRU, LIM, 1)>>, "es")
Requests(versions, n, langs) ==
    {Request(v, legs, lang) : v \in versions, legs \in Itineraries(n), lang \in langs}
Arriving ==
    [s \in Contents |->
        CASE s = Whole -> Requests({"v213"}, 3, {"default", "es"}) \cup Requests({"v192", "v241"}, 2, {"es"})
                          \cup {[One("v192") EXCEPT !.passengers = 0], [One("v192") EXCEPT !.otherShopping = TRUE]}
          [] s = Flat -> Requests({"v192"}, 3, {"es"}) \cup Requests({"v241"}, 2, {"default"})
          [] s = Partly -> Requests(Versions, 2, {"default", "es"})
          [] OTHER -> {One("v192"), One("v213")}]
================================================================================
