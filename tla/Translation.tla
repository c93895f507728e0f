------------------------------ MODULE Translation ------------------------------
(***************************************************************************)
(* Translation of a reference response from one IATA generation to another *)
(* (mapping.translateTree in translate.go), which runs at start-up for     *)
(* every version that has no reference of its own.                         *)
(*                                                                         *)
(* The document is a heap of nodes, as in the code: each has a name, a     *)
(* text and its children, and most transforms move nodes about.  hoist,    *)
(* wrap and wrapEach rules come out of Go maps, in any order.              *)
(*                                                                         *)
(* A text is a sequence of strings, so that one derived from another       *)
(* ("DMS_" + id) is longer than it.  A Dep or Arrival element has its      *)
(* location for a text.  Attributes, namespaces and the two transforms     *)
(* that only read attributes (tz-into-datetime, weight-unit) are left out, *)
(* and so is what datedSegments passes on in just the way it passes on     *)
(* the carrier (flight numbers, carrier names, durations, booking codes).  *)
(***************************************************************************)
EXTENDS Naturals, Sequences, SequencesExt, FiniteSets, TLC

CONSTANTS
    Documents,  \* responses of the From generation
    Root,       \* the node a document starts with
    Structural, \* the structural transforms the mapping names, in its order
    Rules,      \* its hoist, wrap and wrapEach rules: kind, parent, child, to
    Codes,      \* the closed code lists: element -> old -> new
    Dropped,    \* what is dropped: parent (or "", for any) and child
    Renames,    \* new names by path suffix
    Rank        \* the place of each name in the alphabet

VARIABLES
    source, \* the response as captured
    doc,    \* the tree it has become
    done,   \* how many structural transforms have been applied
    left,   \* the rules not yet applied
    stage   \* the part of translateTree that is next

vars == <<source, doc, done, left, stage>>

--------------------------------------------------------------------------------
(* Positions in a sequence *)

Nth(I, j) == CHOOSE i \in I : Cardinality({k \in I : k <= i}) = j
Pick(s, I) == [j \in 1..Cardinality(I) |-> s[Nth(I, j)]]

--------------------------------------------------------------------------------
(* Trees *)

None == <<>>
NoText == <<>>
Node(name, text, kids) == [name |-> name, text |-> text, kids |-> kids]

\* A place says who made its node, the document (<<>>), a transform or a rule, next to which
\* other node, and which of those it made there.
At(by, n, what, i) == <<by, n, what, i>>
By(n) == n[1]
Beside(n) == n[2]

\* The nodes at most i steps below the root
Reached(d) ==
    LET reached[i \in 0..Cardinality(DOMAIN d)] ==
            IF i = 0 THEN {Root}
            ELSE LET above == reached[i - 1] IN above \cup UNION {Range(d[n].kids) : n \in above}
    IN  reached
Nodes(d) == Reached(d)[Cardinality(DOMAIN d)]
\* Each node has one parent and is there once; the root has none.
Single(d) ==
    /\ \A n \in DOMAIN d : IsInjective(d[n].kids) /\ Root \notin Range(d[n].kids)
    /\ \A m, n \in DOMAIN d : Range(d[m].kids) \cap Range(d[n].kids) # {} => m = n
IsTree(d) ==
    /\ d = [n \in DOMAIN d |-> Node(d[n].name, d[n].text, d[n].kids)]
    /\ \A n \in DOMAIN d : d[n].kids \in Seq(DOMAIN d) /\ n # None
    /\ IsFiniteSet(DOMAIN d) /\ Root \in DOMAIN d /\ Single(d) /\ Nodes(d) = DOMAIN d
\* The document without what has been taken out of it
Tree(d) == [n \in Nodes(d) |-> d[n]]

NodesNamed(d, name) == {n \in DOMAIN d : d[n].name = name}
Named(d, n, name) == {i \in DOMAIN d[n].kids : d[d[n].kids[i]].name = name}
kidsNamed(d, n, name) == Pick(d[n].kids, Named(d, n, name))
child(d, n, name) == IF Named(d, n, name) = {} THEN None ELSE d[n].kids[Nth(Named(d, n, name), 1)]
childText(d, n, name) == IF child(d, n, name) = None THEN NoText ELSE d[child(d, n, name)].text
\* The child of a name in a sequence, where there is one
AnyChild(d, n, name) == IF child(d, n, name) = None THEN <<>> ELSE <<child(d, n, name)>>
Texts(d, nodes) == [i \in DOMAIN nodes |-> d[nodes[i]].text]

\* The way from the root to each node, in the order of the document
Step(d, walk) ==
    IF walk.todo = <<>> THEN walk
    ELSE LET way == Head(walk.todo)
             kids == d[Last(way)].kids
         IN  [todo |-> [i \in DOMAIN kids |-> Append(way, kids[i])] \o Tail(walk.todo),
              seen |-> Append(walk.seen, way)]
Walking(d) ==
    LET walk[i \in 0..Cardinality(DOMAIN d)] ==
            IF i = 0 THEN [todo |-> <<<<Root>>>>, seen |-> <<>>] ELSE Step(d, walk[i - 1])
    IN  walk
Walk(d) == Walking(d)[Cardinality(DOMAIN d)].seen
\* The same with each node after those below it
PostOrder(d) == Reverse(Walk([n \in DOMAIN d |-> [d[n] EXCEPT !.kids = Reverse(@)]]))

\* d with these <<place, node>> pairs written to it
Put(d, new) ==
    LET at == {x[1] : x \in new}
    IN  [n \in DOMAIN d \cup at |-> IF n \in at THEN (CHOOSE x \in new : x[1] = n)[2] ELSE d[n]]
WithKids(node, kids) == [node EXCEPT !.kids = kids]
removeKids(d, gone) ==
    Tree([n \in DOMAIN d |-> WithKids(d[n], Pick(d[n].kids, {i \in DOMAIN d[n].kids : d[n].kids[i] \notin gone}))])
\* Each of these nodes gets a leaf with its text.
leaf(name, text) == Node(name, text, <<>>)
WithLeaf(d, by, name, text) ==
    Put(d, {<<n, WithKids(d[n], Append(d[n].kids, At(by, n, name, 0)))>> : n \in DOMAIN text}
           \cup {<<At(by, n, name, 0), leaf(name, text[n])>> : n \in DOMAIN text})

--------------------------------------------------------------------------------
(* Structural transforms *)

\* unpricedPenalties: penalties without a price go, with every reference to them and the
\* list that is left empty.
Unpriced(d) == {p \in NodesNamed(d, "Penalty") : child(d, p, "Price") = None}
unpricedHere(d) == {p \in Unpriced(d) : \E n \in NodesNamed(d, "PenaltyList") : p \in Range(d[n].kids)}
unpricedPenaltiesOnly(d) == removeKids(d, unpricedHere(d))   \* fault: the references stay
unpricedPenalties(d) ==
    LET gone == {childText(d, p, "PenaltyID") : p \in unpricedHere(d)}
        kept == removeKids(d, unpricedHere(d))
    IN  IF gone = {} THEN d
        ELSE removeKids(kept, {n \in NodesNamed(kept, "PenaltyRefID") : kept[n].text \in gone}
                              \cup {n \in NodesNamed(kept, "PenaltyList") : kept[n].kids = <<>>})

\* definitionOwner: the carrier of the first offer that names one owns the services.
definitionOwner(d) ==
    LET offers == {i \in DOMAIN Walk(d) : /\ d[Last(Walk(d)[i])].name = "Offer"
                                          /\ childText(d, Last(Walk(d)[i]), "OwnerCode") # NoText}
        bare == {n \in NodesNamed(d, "ServiceDefinition") : child(d, n, "OwnerCode") = None}
        owner == childText(d, Last(Walk(d)[Nth(offers, 1)]), "OwnerCode")
    IN  IF offers = {} THEN d ELSE WithLeaf(d, <<"definition-owner">>, "OwnerCode", [n \in bare |-> owner])

\* seatRowNumber: a seat names its row.
seatRowNumber(d) ==
    LET rows(s) == {r \in NodesNamed(d, "SeatRow") : s \in Range(d[r].kids)}
        number(s) == childText(d, CHOOSE r \in rows(s) : TRUE, "RowNumber")
        seats == {s \in NodesNamed(d, "Seat") :
                     rows(s) # {} /\ number(s) # NoText /\ child(d, s, "RowNumber") = None}
    IN  WithLeaf(d, <<"seat-row-number">>, "RowNumber", [s \in seats |-> number(s)])

\* datedSegments: each PaxSegment is split into a marketing segment, which refers to an
\* operating segment, which refers to the legs; a leg flown under several segments is
\* listed once.  A PaxSegmentList holds nothing but PaxSegments.
Dated(n, what) == At(<<"dated-segments">>, n, what, 0)
Lists(d) == {dl \in NodesNamed(d, "DataLists") : child(d, dl, "PaxSegmentList") # None}
segmentsOf(d, dl) == kidsNamed(d, child(d, dl, "PaxSegmentList"), "PaxSegment")
legsOf(d, ps) == kidsNamed(d, ps, "DatedOperatingLeg")
segID(d, ps) == childText(d, ps, "PaxSegmentID")
legID(d, ps, i) ==
    LET own == childText(d, legsOf(d, ps)[i], "DatedOperatingLegID")
    IN  IF own # NoText THEN own ELSE <<"LEG">> \o segID(d, ps) \o <<ToString(i)>>
\* No leg before has the identifier of the i-th leg of the p-th segment.
First(d, dl, p, i) ==
    \A q \in 1..p : LET ps == segmentsOf(d, dl)[q]
                    IN  \A j \in DOMAIN legsOf(d, ps) :
                            q < p \/ j < i => legID(d, ps, j) # legID(d, segmentsOf(d, dl)[p], i)
FirstLegs(d, dl, p) == {i \in DOMAIN legsOf(d, segmentsOf(d, dl)[p]) : First(d, dl, p, i)}
LegLists(d, dl) ==
    LET listed[p \in 0..Len(segmentsOf(d, dl))] ==
            IF p = 0 THEN <<>> ELSE listed[p - 1] \o Pick(legsOf(d, segmentsOf(d, dl)[p]), FirstLegs(d, dl, p))
    IN  listed

\* A new element: what it keeps before and after its new leaves
Element(at, name, before, leaves, after) ==
    LET place(i) == At(<<"dated-segments">>, at, "leaf", i)
    IN  {<<at, Node(name, NoText, before \o [i \in DOMAIN leaves |-> place(i)] \o after)>>}
        \cup {<<place(i), leaves[i]>> : i \in DOMAIN leaves}

marketed(d, ps) == childText(d, child(d, ps, "MarketingCarrierInfo"), "CarrierDesigCode")
Marketing(d, ps) ==
    Element(Dated(ps, "DMS"), "DatedMarketingSegment", AnyChild(d, ps, "Arrival"),
            << leaf("CarrierDesigCode", marketed(d, ps)),
               leaf("DatedMarketingSegmentId", <<"DMS">> \o segID(d, ps)),
               leaf("DatedOperatingSegmentRefId", <<"DOS">> \o segID(d, ps)) >>, AnyChild(d, ps, "Dep"))
Carrier(d, ps) ==
    LET opr == child(d, ps, "OperatingCarrierInfo")
    IN  IF opr # None /\ childText(d, opr, "CarrierDesigCode") # NoText
        THEN childText(d, opr, "CarrierDesigCode") ELSE marketed(d, ps)
Operating(d, ps, flown) ==
    Element(Dated(ps, "DOS"), "DatedOperatingSegment", <<>>,
            << leaf("CarrierDesigCode", Carrier(d, ps)) >>
            \o [j \in 1..Cardinality(flown) |-> leaf("DatedOperatingLegRefID", legID(d, ps, Nth(flown, j)))]
            \o << leaf("DatedOperatingSegmentId", <<"DOS">> \o segID(d, ps)) >>, <<>>)
\* What PaxSegment keeps
Choice(ps) == Dated(ps, "CabinTypeAssociationChoice")
Keeping(d, ps, ends) ==
    LET cabin == child(d, ps, "CabinType")
    IN  Element(ps, "PaxSegment", IF cabin = None THEN <<>> ELSE <<Choice(ps)>>,
                << leaf("DatedMarketingSegmentRefId", <<"DMS">> \o segID(d, ps)), leaf("PaxSegmentID", segID(d, ps)) >>, ends)
        \cup IF cabin = None THEN {}
             ELSE { <<Choice(ps), Node("CabinTypeAssociationChoice", NoText, <<cabin>>)>>,
                    <<cabin, [d[cabin] EXCEPT !.name = "SegmentCabinType"]>> }
KeepsDep(d, ps) == Keeping(d, ps, AnyChild(d, ps, "Dep"))    \* fault: what has moved stays as well
Keeps(d, ps) == Keeping(d, ps, <<>>)

\* A leg gets an identifier, and the ends it does not say from its segment.
Ends == <<"Dep", "Arrival">>
Leg(d, ps, i) ==
    LET g == legsOf(d, ps)[i]
        names == <<"DatedOperatingLegID", "Dep", "Arrival">>
        text(name) == IF name \in Range(Ends) THEN childText(d, ps, name) ELSE legID(d, ps, i)
        new == Pick(names, {x \in DOMAIN names : IF x = 1 THEN childText(d, g, names[1]) = NoText
                                                 ELSE child(d, g, names[x]) = None})
        stay == Pick(d[g].kids, DOMAIN d[g].kids \ Named(d, g, "OnGroundDuration"))
    IN  {<<g, WithKids(d[g], stay \o [x \in DOMAIN new |-> Dated(g, new[x])])>>}
        \cup {<<Dated(g, new[x]), leaf(new[x], text(new[x]))>> : x \in DOMAIN new}
        \cup {<<n, [d[n] EXCEPT !.text = childText(d, ps, d[n].name)]>> :
                 n \in {child(d, g, Ends[x]) : x \in {y \in DOMAIN Ends :
                           child(d, g, Ends[y]) # None /\ childText(d, g, Ends[y]) = NoText}}}

\* The legs of a segment its operating segment refers to
RefersFirst(d, dl, p) == FirstLegs(d, dl, p)                \* fault: only where a leg comes first
Refers(d, dl, p) == DOMAIN legsOf(d, segmentsOf(d, dl)[p])
Parts(d, ps, flown) ==
    Keeps(d, ps) \cup Marketing(d, ps) \cup Operating(d, ps, flown)
    \cup UNION {Leg(d, ps, i) : i \in DOMAIN legsOf(d, ps)}
Listed(d, dl, lists) ==
    LET some == Pick(lists, {x \in DOMAIN lists : lists[x][2] # <<>>})
    IN  {<<dl, WithKids(d[dl], d[dl].kids \o [x \in DOMAIN some |-> Dated(dl, some[x][1])])>>}
        \cup {<<Dated(dl, some[x][1]), Node(some[x][1], NoText, some[x][2])>> : x \in DOMAIN some}

Gathered(d, dl) ==
    LET segs == segmentsOf(d, dl)
        each(what) == [p \in DOMAIN segs |-> Dated(segs[p], what)]
    IN  << <<"DatedMarketingSegmentList", each("DMS")>>, <<"DatedOperatingSegmentList", each("DOS")>>,
           <<"DatedOperatingLegList", LegLists(d, dl)[Len(segs)]>> >>
Parted(d, dl) ==
    LET segs == segmentsOf(d, dl) IN UNION {Parts(d, segs[p], Refers(d, dl, p)) : p \in DOMAIN segs}
Split(d, dl) == Parted(d, dl) \cup Listed(d, dl, Gathered(d, dl))
datedSegments(d) == Tree(Put(d, UNION {Split(d, dl) : dl \in Lists(d)}))

structural(name, d) ==
    CASE name = "dated-segments" -> datedSegments(d)
      [] name = "unpriced-penalties" -> unpricedPenalties(d)
      [] name = "seat-row-number" -> seatRowNumber(d)
      [] name = "definition-owner" -> definitionOwner(d)

--------------------------------------------------------------------------------
(* Rules *)

Tag(r) == <<r.kind, r.parent, r.child>>

\* hoist: every child of a parent goes up to the nearest ancestor of that name, which
\* takes it unless it has one of that text.
Moved(t, r, n, at, taken) ==
    LET stay == [t EXCEPT ![n].kids = Pick(t[n].kids, DOMAIN t[n].kids \ Named(t, n, r.child))]
    IN  [stay EXCEPT ![at].kids = @ \o Pick(t[n].kids, taken)]
UpAll(t, r, n, at) == Moved(t, r, n, at, Named(t, n, r.child))    \* fault: repeats go up too
UpNew(t, r, n, at) ==                                             \* fault: only the first of the name does
    Moved(t, r, n, at, {i \in Named(t, n, r.child) : Named(t, at, r.child) = {} /\ \A j \in Named(t, n, r.child) : i <= j})
Up(t, r, n, at) ==
    LET text(i) == t[t[n].kids[i]].text
    IN  Moved(t, r, n, at, {i \in Named(t, n, r.child) :
                               /\ text(i) \notin Range(Texts(t, kidsNamed(t, at, r.child)))
                               /\ \A j \in Named(t, n, r.child) : j < i => text(j) # text(i)})
\* The ancestors on the way that have the name
Above(d, r, way) == {i \in 1..(Len(way) - 1) : d[way[i]].name = r.to[1]}
Target(d, r, way) == way[Nth(Above(d, r, way), Cardinality(Above(d, r, way)))]
Sources(d, r) ==
    LET all == PostOrder(d)
    IN  Pick(all, {i \in DOMAIN all : d[Last(all[i])].name = r.parent /\ Above(d, r, all[i]) # {}})
Hoisting(d, r) ==
    LET hoisted[i \in 0..Len(Sources(d, r))] ==
            IF i = 0 THEN d ELSE Up(hoisted[i - 1], r, Last(Sources(d, r)[i]), Target(d, r, Sources(d, r)[i]))
    IN  hoisted
hoist(d, r) == Tree(Hoisting(d, r)[Len(Sources(d, r))])

\* wrap: every such child of a parent goes into one new wrapper, or wrapper in a wrapper,
\* in the place of the first of them.
Parents(d, r) == {n \in NodesNamed(d, r.parent) : Named(d, n, r.child) # {}}
InsideRest(d, r, n) == {i \in DOMAIN d[n].kids : i >= Nth(Named(d, n, r.child), 1)}  \* fault: what follows goes in too
Inside(d, r, n) == Named(d, n, r.child)
Wrapped(d, r, n) ==
    LET at(i) == At(Tag(r), n, "wrapper", i)
        kids == d[n].kids
        in == Inside(d, r, n)
        first == Nth(in, 1)
    IN  {<<n, WithKids(d[n], Pick([kids EXCEPT ![first] = at(1)], DOMAIN kids \ (in \ {first})))>>}
        \cup {<<at(i), Node(r.to[i], NoText, IF i = Len(r.to) THEN Pick(kids, in) ELSE <<at(i + 1)>>)>> : i \in DOMAIN r.to}
wrap(d, r) == Put(d, UNION {Wrapped(d, r, n) : n \in Parents(d, r)})

\* wrapEach: every such child gets a wrapper of its own.
WrappedEach(d, r, n) ==
    LET at(i) == At(Tag(r), d[n].kids[i], "wrapper", 1)
        in == Named(d, n, r.child)
    IN  {<<n, WithKids(d[n], [i \in DOMAIN d[n].kids |-> IF i \in in THEN at(i) ELSE d[n].kids[i]])>>}
        \cup {<<at(i), Node(r.to[1], NoText, <<d[n].kids[i]>>)>> : i \in in}
wrapEach(d, r) == Put(d, UNION {WrappedEach(d, r, n) : n \in Parents(d, r)})

apply(d, r) == CASE r.kind = "hoist" -> hoist(d, r)
                 [] r.kind = "wrap" -> wrap(d, r)
                 [] r.kind = "wrapEach" -> wrapEach(d, r)

--------------------------------------------------------------------------------
(* Values, drops, renames and the order of the children *)

values(d) ==
    [n \in DOMAIN d |-> IF d[n].name \in DOMAIN Codes /\ d[n].text \in DOMAIN Codes[d[n].name]
                        THEN [d[n] EXCEPT !.text = Codes[d[n].name][@]] ELSE d[n]]

drop(d) ==
    removeKids(d, {k \in DOMAIN d : \E n \in DOMAIN d, x \in Dropped :
                      k \in Range(d[n].kids) /\ x.parent \in {"", d[n].name} /\ x.child = d[k].name})

\* The longest suffix of a node's path that has a new name, all taken before any is applied
rename(d) ==
    LET names(w) == [i \in DOMAIN w |-> d[w[i]].name]
        keys(w) == {k \in DOMAIN Renames : IsSuffix(k, names(w))}
        ways == {w \in Range(Walk(d)) : keys(w) # {}}
        longest(w) == CHOOSE k \in keys(w) : \A l \in keys(w) : Len(l) <= Len(k)
        renamed == {Last(w) : w \in ways}
    IN  [n \in DOMAIN d |->
            IF n \in renamed THEN [d[n] EXCEPT !.name = Renames[longest(CHOOSE w \in ways : Last(w) = n)]] ELSE d[n]]

\* Below the root's own children everything is in the order of the alphabet, otherwise as it was
Before(d, kids, i, j) ==
    LET rank(k) == IF d[k].name \in DOMAIN Rank THEN Rank[d[k].name] ELSE 0
    IN  rank(kids[i]) < rank(kids[j]) \/ (rank(kids[i]) = rank(kids[j]) /\ i <= j)
Sorted(d, kids) ==
    [x \in DOMAIN kids |->
        kids[CHOOSE i \in DOMAIN kids : Cardinality({j \in DOMAIN kids : Before(d, kids, j, i)}) = x]]
sortBelowRoot(d) == [n \in DOMAIN d |-> IF n = Root THEN d[n] ELSE WithKids(d[n], Sorted(d, d[n].kids))]

--------------------------------------------------------------------------------
(* translateTree *)

ASSUME DocumentsAssumption == \A d \in Documents : IsTree(d) /\ \A n \in DOMAIN d : By(n) = <<>>
\* loadMappings accepts no other transform; a mapping names each once.
ASSUME StructuralAssumption ==
    /\ Structural \in Seq({"dated-segments", "unpriced-penalties", "seat-row-number", "definition-owner"})
    /\ IsInjective(Structural)
\* The rules are the entries of three maps.
ASSUME RulesAssumption ==
    /\ \A r \in Rules : r.kind \in {"hoist", "wrap", "wrapEach"} /\ r.to \in Seq(STRING) \ {<<>>}
    /\ \A r, q \in Rules : Tag(r) = Tag(q) => r = q
\* What the mappings of translations/ keep to: no wrapper is the parent of a rule, so that a
\* walk that meets it leaves it alone, or the child of a rule with its own parent, and
\* there is one hoist.
ASSUME ApartAssumption ==
    \A r, q \in Rules :
        /\ r.kind # "hoist" => q.parent \notin Range(r.to) /\ (q.parent = r.parent => q.child # r.to[1])
        /\ r.kind = "hoist" /\ q.kind = "hoist" => r = q
ASSUME RankAssumption == \A name \in DOMAIN Rank : Rank[name] \in Nat
\* What is hoisted has no children: it has none in the documents, and the transforms give
\* none to an element of its name.
Built == { "DataLists", "DatedMarketingSegmentList", "DatedOperatingSegmentList", "DatedOperatingLegList",
           "DatedMarketingSegment", "DatedOperatingSegment", "DatedOperatingLeg", "PaxSegment",
           "CabinTypeAssociationChoice", "SegmentCabinType", "ServiceDefinition", "Seat" }
ASSUME HoistedAssumption ==
    \A r \in Rules : r.kind = "hoist" =>
        r.child \notin Built /\ \A d \in Documents : \A n \in NodesNamed(d, r.child) : d[n].kids = <<>>

Init ==
    /\ source \in Documents /\ doc = source
    /\ done = 0 /\ left = Rules /\ stage = "structural"

Transform ==
    /\ stage = "structural" /\ done < Len(Structural)
    /\ doc' = structural(Structural[done + 1], doc) /\ done' = done + 1
    /\ UNCHANGED <<source, left, stage>>

Values ==
    /\ stage = "structural" /\ done = Len(Structural)
    /\ doc' = values(doc) /\ stage' = "rules"
    /\ UNCHANGED <<source, done, left>>

\* The rules of one kind in any order, and those of the kinds in the order hoist, wrap, wrapEach
Later == [hoist |-> {}, wrap |-> {"hoist"}, wrapEach |-> {"hoist", "wrap"}]
Rule(r) ==
    /\ stage = "rules" /\ r \in left
    /\ \A q \in left : q.kind \notin Later[r.kind]
    /\ doc' = apply(doc, r) /\ left' = left \ {r}
    /\ UNCHANGED <<source, done, stage>>

Drop ==
    /\ stage = "rules" /\ left = {}
    /\ doc' = drop(doc) /\ stage' = "names"
    /\ UNCHANGED <<source, done, left>>

Rename ==
    /\ stage = "names"
    /\ doc' = sortBelowRoot(rename(doc)) /\ stage' = "done"
    /\ UNCHANGED <<source, done, left>>

Next == Transform \/ Values \/ (\E r \in Rules : Rule(r)) \/ Drop \/ Rename

Spec == Init /\ [][Next]_vars

--------------------------------------------------------------------------------
(* Properties *)

\* No node is in two places, though transforms and hoists move nodes by pointer.
OnePlace == Single(doc)

\* Two rules give one document in either order, so the order in which the maps hand them out
\* does not matter.
EitherOrder ==
    stage = "rules" => \A r, q \in left : r.kind = q.kind => apply(apply(doc, r), q) = apply(apply(doc, q), r)

\* No rule loses what an element says: there still is an element of that name that says it.
Said(d) == {<<d[n].name, d[n].text>> : n \in {m \in DOMAIN d : d[m].text # NoText}}
NothingUnsaid == [][stage = "rules" /\ stage' = "rules" => Said(doc) \subseteq Said(doc')]_vars

\* The elements of a name in the final document, by the text of their identifier
Refer(ref, name, id) ==
    /\ \A n \in NodesNamed(doc, ref) :
          Cardinality({m \in NodesNamed(doc, name) : childText(doc, m, id) = doc[n].text}) = 1
    /\ \A m, n \in NodesNamed(doc, name) : childText(doc, m, id) = childText(doc, n, id) => m = n

\* Every reference of the final document leads to exactly one element: penalties that
\* are removed take their references along, new identifiers are unique, and a leg flown
\* under several segments is listed once.
RefsResolve ==
    stage = "done" =>
        /\ Refer("PenaltyRefID", "Penalty", "PenaltyID")
        /\ Refer("DatedMarketingSegmentRefId", "DatedMarketingSegment", "DatedMarketingSegmentId")
        /\ Refer("DatedOperatingSegmentRefId", "DatedOperatingSegment", "DatedOperatingSegmentId")
        /\ Refer("DatedOperatingLegRefID", "DatedOperatingLeg", "DatedOperatingLegID")
        /\ Refer("PaxSegmentRefID", "PaxSegment", "PaxSegmentID")

The(name, id, text) == CHOOSE m \in NodesNamed(doc, name) : childText(doc, m, id) = text

\* A segment can be followed through its references to what it was: the same ends, the
\* carrier that operates it, and its legs in their order, each with ends.
FlightsTraceable ==
    stage = "done" => \A ps \in NodesNamed(source, "PaxSegment") :
        LET id == childText(source, ps, "PaxSegmentID")
            marketing == The("DatedMarketingSegment", "DatedMarketingSegmentId",
                             childText(doc, The("PaxSegment", "PaxSegmentID", id), "DatedMarketingSegmentRefId"))
            operating == The("DatedOperatingSegment", "DatedOperatingSegmentId",
                             childText(doc, marketing, "DatedOperatingSegmentRefId"))
            refs == Texts(doc, kidsNamed(doc, operating, "DatedOperatingLegRefID"))
            legs == kidsNamed(source, ps, "DatedOperatingLeg")
            leg(i) == The("DatedOperatingLeg", "DatedOperatingLegID", refs[i])
            said(i, end) == childText(source, legs[i], end)
        IN  /\ \A end \in {"Dep", "Arrival"} : childText(doc, marketing, end) = childText(source, ps, end)
            /\ childText(doc, operating, "CarrierDesigCode") = Carrier(source, ps)
            /\ Len(refs) = Len(legs)
            /\ \A i \in DOMAIN legs, end \in {"Dep", "Arrival"} :
                  childText(doc, leg(i), end) = IF said(i, end) # NoText THEN said(i, end)
                                                ELSE childText(source, ps, end)

\* The penalties of a fare are those of its rules that have a price, each of them once.
PenaltiesKept ==
    stage = "done" => \A fd \in NodesNamed(source, "FareDetail") :
        LET within == {Last(w) : w \in {v \in Range(Walk(source)) : fd \in Range(v)}}
            priced == {childText(source, p, "PenaltyID") :
                          p \in NodesNamed(source, "Penalty") \ Unpriced(source)}
            refs == Texts(doc, kidsNamed(doc, fd, "PenaltyRefID"))
        IN  /\ Range(refs) = {source[n].text : n \in {m \in within : source[m].name = "PenaltyRefID"}} \cap priced
            /\ IsInjective(refs)
================================================================================
