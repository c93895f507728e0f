------------------------------- MODULE Itinerary -------------------------------
(***************************************************************************)
(* How AirShopping answers the itinerary it was asked for from a reference *)
(* captured for another one (query.go, template.go, pick in main.go), once *)
(* start-up has loaded the references (Templates).  A reference serves     *)
(* every request of its shape: its airports are replaced position by       *)
(* position, and each of its dates moves with the leg whose date is        *)
(* nearest.                                                                *)
(*                                                                         *)
(* A leg is where from, where to and the day; a day that is missing or no  *)
(* date the code can parse is a negative number.  Prices, carriers and the *)
(* document itself are left out.                                           *)
(***************************************************************************)
EXTENDS Templates

CONSTANTS
    Asked          \* the AirShoppingRQs that may arrive, for each content of -stubs

ASSUME DaysAssumption == NoDay \in Int \ Nat

AirShoppingRQ ==
    [version : Versions, lang : STRING, otherShopping : BOOLEAN, passengers : Int,
     legs : Seq([from : Airports \cup {NoAirport}, to : Airports \cup {NoAirport}, day : Int])]
\* Days are counted from one so early that no flight that is moved arrives before it.
ASSUME AskedAssumption ==
    /\ DOMAIN Asked = Stubs
    /\ \A s \in Stubs : \A rq \in Asked[s] :
          /\ rq \in AirShoppingRQ
          /\ \A d \in {d \in DOMAIN s : s[d] # NoDir}, leg \in Range(rq.legs) : leg.day \in Nat =>
                \A f \in Files(s[d]) : \A n \in Range(f.nights) : n <= leg.day

VARIABLES
    request,    \* the request being answered
    answer      \* the answer: its status, the trip its identifiers carry, the days of its flights

vars == <<startVars, request, answer>>

--------------------------------------------------------------------------------
(* main.go: pick *)

\* The key pick settles on, the first wanted that is there
NoKey == <<>>
pickAnyCity(rq) ==       \* fault: any reference of a kind will do
    LET kind == IF multiCity(rq.legs) THEN "mc" ELSE "ow"
        there == {k \in Of(templates, rq.version) : k[2] = kind}
    IN  IF there = {} THEN NoKey ELSE CHOOSE k \in there : TRUE
pick(rq) ==
    LET of(kind, what) == Key(rq.version, kind, what)
        wanted == IF multiCity(rq.legs) THEN << of("mc", pattern(rq.legs)) >>
                  ELSE (IF hasReturn(rq.legs) THEN << of("rt", "any") >> ELSE <<>>)
                       \o << of("ow", rq.lang), of("ow", "default") >>
        there == {n \in DOMAIN wanted : wanted[n] \in DOMAIN templates}
    IN  IF there = {} THEN NoKey ELSE wanted[Min(there)]

--------------------------------------------------------------------------------
(* template.go: render *)

Distance(a, b) == IF a < b THEN b - a ELSE a - b

\* The first of the legs whose day is nearest
nearNext(ref, day) ==    \* fault: the leg a day comes before, not the one it is nearest to
    LET after == {j \in DOMAIN ref.legs : ref.legs[j].day >= day}
    IN  IF after = {} THEN Len(ref.legs)
        ELSE CHOOSE j \in after : \A k \in after : ref.legs[j].day <= ref.legs[k].day
near(ref, day) ==
    CHOOSE j \in DOMAIN ref.legs : \A k \in DOMAIN ref.legs :
        /\ Distance(day, ref.legs[j].day) <= Distance(day, ref.legs[k].day)
        /\ k < j => Distance(day, ref.legs[j].day) < Distance(day, ref.legs[k].day)

\* The leg of the request that leg i of the reference stands for: the last one when
\* the request has fewer
LegFor(legs, i) == legs[IF i < Len(legs) THEN i ELSE Len(legs)]

\* Every day of the reference moves with its leg; one day that is not a date and none does.
shiftDates(ref, legs, day) ==
    LET j == near(ref, day)
    IN  IF \E i \in DOMAIN ref.legs : LegFor(legs, i).day \notin Nat THEN day
        ELSE day + LegFor(legs, j).day - ref.legs[j].day

\* An airport of the reference becomes the request's at its place, or stays.
airportsForTwo(ref, legs, a) ==   \* fault: only an origin and a destination are replaced
    LET i == Place(Ends(ref.legs), a)
    IN  IF i <= 2 THEN airports(legs)[i] ELSE a
airportsFor(ref, legs, a) ==
    LET want == airports(legs)
        i == Place(Ends(ref.legs), a)
    IN  IF i <= Len(want) THEN want[i] ELSE a

render(ref, legs) ==
    [code |-> 200,
     trip |-> [i \in DOMAIN ref.legs |->
                  [from |-> airportsFor(ref, legs, ref.legs[i].from),
                   to |-> airportsFor(ref, legs, ref.legs[i].to),
                   day |-> shiftDates(ref, legs, ref.legs[i].day)]],
     departs |-> [i \in DOMAIN ref.legs |-> shiftDates(ref, legs, ref.legs[i].day)],
     arrives |-> [i \in DOMAIN ref.legs |-> shiftDates(ref, legs, ref.legs[i].day + ref.nights[i])]]

--------------------------------------------------------------------------------
(* main.go: airshopping *)

Nothing(code) == [code |-> code, trip |-> <<>>, departs |-> <<>>, arrives |-> <<>>]

Init == /\ StartInit
        /\ request = <<>> /\ answer = Nothing(0)

Ask == /\ phase = "serving" /\ request = <<>>
       /\ request' \in Asked[stubs]
       /\ UNCHANGED <<startVars, answer>>

Waiting == request # <<>> /\ answer.code = 0

Refuse == /\ Waiting /\ ~Readable(request)
          /\ answer' = Nothing(400)
          /\ UNCHANGED <<startVars, request>>

Unserved == /\ Waiting /\ Readable(request) /\ pick(request) = NoKey
            /\ answer' = Nothing(501)
            /\ UNCHANGED <<startVars, request>>

Serve == /\ Waiting /\ Readable(request) /\ pick(request) # NoKey
         /\ answer' = render(templates[pick(request)], request.legs)
         /\ UNCHANGED <<startVars, request>>

Next == \/ StartUp /\ UNCHANGED <<request, answer>>
        \/ Ask \/ Refuse \/ Unserved \/ Serve

Spec == Init /\ [][Next]_vars

--------------------------------------------------------------------------------
(* Properties *)

Served == answer.code = 200
Source == templates[pick(request)]
Dated == \A i \in DOMAIN request.legs : request.legs[i].day \in Nat

\* No two legs of the reference are on one day
OneADay(ref) == \A i, j \in DOMAIN ref.legs : i # j => ref.legs[i].day # ref.legs[j].day

\* The legs of the reference are further apart than twice its flights take
Apart(ref) == \A i, j \in DOMAIN ref.legs :
                  i # j => Distance(ref.legs[i].day, ref.legs[j].day) > 2 * ref.nights[i]

\* A reference of the request's shape is turned into the very trip that was asked for,
\* leg by leg: the numbering of airports by first appearance, the replacement by
\* position and the shift by the nearest leg fit together, however the airports recur
\* and in whatever order the days come.  A day that is missing or no date never gets into
\* an answer.
TripAsAsked ==
    /\ \A i \in DOMAIN answer.trip : {answer.trip[i].day, answer.departs[i], answer.arrives[i]} \subseteq Nat
    /\ Served /\ Dated /\ pattern(Source.legs) = pattern(request.legs) /\ OneADay(Source)
       => answer.trip = request.legs

\* A multi-city request is never answered with a trip of another shape: it is answered
\* 501 when no reference of its shape is loaded (errMultiCity in query.go).
MultiCityOwnShape ==
    Served /\ multiCity(request.legs) => pattern(answer.trip) = pattern(request.legs)

\* A next-day arrival stays next-day, when the legs of the reference are far enough
\* apart for each of its days to be nearest to the leg it belongs to.
NextDayKeptApart ==
    Served /\ Dated /\ Apart(Source) =>
        \A i \in DOMAIN answer.departs : answer.arrives[i] - answer.departs[i] = Source.nights[i]
================================================================================
