--------------------------------- MODULE Query ---------------------------------
(***************************************************************************)
(* What the mock reads out of an AirShoppingRQ (query.go): the shape of an *)
(* itinerary, with its airports numbered by first appearance, and which    *)
(* requests it can read at all.  A leg is where from, where to and the     *)
(* day, each of which may be missing.                                      *)
(***************************************************************************)
EXTENDS Integers, FiniteSets, SequencesExt

CONSTANTS
    NoAirport,  \* an empty location in a request
    NoDay       \* an empty date in a request

\* The airports of an itinerary, in order, repeats included
Ends(legs) == [k \in 1..(2 * Len(legs)) |->
                  IF k % 2 = 1 THEN legs[(k + 1) \div 2].from ELSE legs[k \div 2].to]

\* Where x is first in s, and its place among the distinct elements of s as they appear
First(s, x) == CHOOSE i \in DOMAIN s : s[i] = x /\ \A j \in 1..(i - 1) : s[j] # x
Place(s, x) == Cardinality({s[j] : j \in 1..First(s, x)})
Distinct(s) == [n \in 1..Cardinality(Range(s)) |-> CHOOSE x \in Range(s) : Place(s, x) = n]

\* The distinct airports in the order of their first appearance
airports(legs) == Distinct(Ends(legs))

\* The airports are numbered from zero.
pattern(legs) ==
    [i \in DOMAIN legs |-> <<Place(Ends(legs), legs[i].from) - 1, Place(Ends(legs), legs[i].to) - 1>>]

OneWay == << <<0, 1>> >>
Return == << <<0, 1>>, <<1, 0>> >>

multiCity(legs) == pattern(legs) # OneWay /\ pattern(legs) # Return
hasReturn(legs) == pattern(legs) = Return /\ legs[2].day # NoDay

\* parseQuery accepts at least one origin-destination, the first of them complete, and
\* at least one passenger; specific and affinity shopping it does not serve.
Readable(rq) ==
    /\ ~rq.otherShopping
    /\ rq.legs # <<>>
    /\ rq.legs[1].from # NoAirport /\ rq.legs[1].to # NoAirport /\ rq.legs[1].day # NoDay
    /\ rq.passengers > 0
================================================================================
