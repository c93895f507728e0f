------------------------------- MODULE Templates -------------------------------
(***************************************************************************)
(* What the mock serves from: loadTemplates in main.go, which runs once at *)
(* start-up.  A version loads the reference responses of its directory, or *)
(* those of the -stubs directory itself if it is the -flat-version; then a *)
(* version without any is translated from one that has some.  Go hands out *)
(* its maps in any order, so versions come in any order, and so does the   *)
(* version a missing one is translated from.                               *)
(*                                                                         *)
(* A file is its itinerary, the days after which its flights arrive, the   *)
(* identifiers of its operated legs, whether it can be sliced into offers, *)
(* and the versions it can be translated to.  An identifier is a name and  *)
(* the numbers after it: "ID_2" is "ID" with <<2>>.                        *)
(***************************************************************************)
EXTENDS Query

CONSTANTS
    Airports,    \* the airports of the references
    Names,       \* the names identifiers of legs begin with
    Versions,    \* path segments of versions.json
    FlatVersion, \* the version that may claim files directly under -stubs
    NoDir,       \* a version directory that is not there
    Usable,      \* <<from, to>> of every mapping that can change something
    Stubs        \* contents of -stubs: version, or "flat", -> directory

ASSUME UsableAssumption == Usable \subseteq Versions \X Versions

\* A reference that can be sliced has legs, all of them with dates.
File == [legs : Seq([from : Airports, to : Airports, day : Nat]) \ {<<>>}, nights : Seq(Nat),
         ids : Seq([name : Names, numbers : Seq(Nat)]), sliced : BOOLEAN, to : SUBSET Versions]
Files(dir) == Range(dir.named) \cup Range(dir.cities)

\* A file is in one directory, and lists as many nights as legs.
Directory(dir) ==
    /\ DOMAIN dir.named \subseteq {"ow", "rt"} \X STRING /\ dir.cities \in Seq(File)
    /\ \A f \in Files(dir) : f \in File /\ Len(f.nights) = Len(f.legs)
ASSUME StubsAssumption ==
    /\ "flat" \notin Versions
    /\ \A s \in Stubs :
          /\ DOMAIN s = Versions \cup {"flat"} /\ s["flat"] # NoDir
          /\ \A d \in DOMAIN s : s[d] # NoDir => Directory(s[d])
          /\ \A d, e \in DOMAIN s : d # e /\ NoDir \notin {s[d], s[e]} => Files(s[d]) \cap Files(s[e]) = {}

VARIABLES
    stubs,      \* the -stubs directory
    templates,  \* what is served, by version, kind of trip, and language or shape
    raws,       \* the references as captured, by the same keys
    todo,       \* versions the current loop has yet to visit
    phase       \* native, translate, serving or stopped

startVars == <<stubs, templates, raws, todo, phase>>

--------------------------------------------------------------------------------
(* template.go: uniqueLegIDs *)

Numbered(id, n) == [id EXCEPT !.numbers = Append(@, n)]

\* The n-th appearance of ID becomes ID_n, the first stays.
uniqueLegIDsAgain(ids) ==    \* fault: every repeat becomes ID_2
    [i \in DOMAIN ids |-> IF \E j \in 1..(i - 1) : ids[j] = ids[i] THEN Numbered(ids[i], 2) ELSE ids[i]]
uniqueLegIDs(ids) ==
    LET seen(i) == Cardinality({j \in 1..i : ids[j] = ids[i]})
    IN  [i \in DOMAIN ids |-> IF seen(i) = 1 THEN ids[i] ELSE Numbered(ids[i], seen(i))]

--------------------------------------------------------------------------------
(* main.go: loadTemplates *)

Key(v, kind, of) == <<v, kind, of>>
With(v, k) == <<v, k[2], k[3]>>
Of(t, v) == {k \in DOMAIN t : k[1] = v}

\* The files of a directory that can be sliced: one a language, one for a return, and
\* the last one of each multi-city shape
References(v, dir) ==
    LET cities == {n \in DOMAIN dir.cities : dir.cities[n].sliced}
        shape(n) == pattern(dir.cities[n].legs)
        last(p) == Max({n \in cities : shape(n) = p})
        named == {n \in DOMAIN dir.named : dir.named[n].sliced}
    IN  [k \in {Key(v, n[1], n[2]) : n \in named} \cup {Key(v, "mc", shape(n)) : n \in cities} |->
            IF k[2] = "mc" THEN dir.cities[last(k[3])] ELSE dir.named[<<k[2], k[3]>>]]

\* Go maps: what is new replaces what was there under the same key.
Over(new, old) == [k \in DOMAIN new \cup DOMAIN old |-> IF k \in DOMAIN new THEN new[k] ELSE old[k]]

newTemplate(f, from, ids) == [legs |-> f.legs, nights |-> f.nights, from |-> from, ids |-> ids]

StartInit ==
    /\ stubs \in Stubs
    /\ templates = <<>> /\ raws = <<>>
    /\ todo = Versions /\ phase = "native"

Merged(v, refs) ==
    /\ templates' = Over([k \in DOMAIN refs |-> newTemplate(refs[k], v, uniqueLegIDs(refs[k].ids))], templates)
    /\ raws' = Over(refs, raws)

\* Visit one version: its own directory, or the flat one if it may claim it
LoadAny(v) ==                \* fault: any version without a directory claims the flat one
    /\ phase = "native" /\ v \in todo
    /\ Merged(v, References(v, IF stubs[v] # NoDir THEN stubs[v] ELSE stubs["flat"]))
    /\ todo' = todo \ {v} /\ UNCHANGED <<stubs, phase>>
Load(v) ==
    /\ phase = "native" /\ v \in todo
    /\ LET dir == IF stubs[v] # NoDir THEN stubs[v] ELSE stubs["flat"]
       IN  IF stubs[v] # NoDir \/ v = FlatVersion THEN Merged(v, References(v, dir))
           ELSE UNCHANGED <<templates, raws>>
    /\ todo' = todo \ {v} /\ UNCHANGED <<stubs, phase>>

Loaded ==
    /\ phase = "native" /\ todo = {}
    /\ todo' = Versions /\ phase' = "translate"
    /\ UNCHANGED <<stubs, templates, raws>>

native == {k[1] : k \in DOMAIN raws}
Sources(v) == {s \in native : <<s, v>> \in Usable}

\* A version with any reference of its own keeps to it.
Native(v) ==
    /\ phase = "translate" /\ v \in todo /\ v \in native
    /\ todo' = todo \ {v} /\ UNCHANGED <<stubs, templates, raws, phase>>

\* Any native version with a usable mapping is the source, and the only one: a reference
\* of it that cannot be translated is left out.
TranslateEach(v) ==          \* fault: the source is looked for again at every reference
    /\ phase = "translate" /\ v \in todo /\ v \notin native
    /\ LET made == {k \in DOMAIN raws : k[1] \in Sources(v) /\ v \in raws[k].to}
       IN  \E pick \in [{With(v, k) : k \in made} -> Sources(v)] :
              /\ \A k \in DOMAIN pick : With(pick[k], k) \in made
              /\ templates' = Over([k \in DOMAIN pick |->
                                       LET f == raws[With(pick[k], k)]
                                       IN  newTemplate(f, pick[k], Distinct(f.ids))], templates)
    /\ todo' = todo \ {v} /\ UNCHANGED <<stubs, raws, phase>>
Translate(v) ==
    /\ phase = "translate" /\ v \in todo /\ v \notin native
    /\ IF Sources(v) = {} THEN UNCHANGED templates
       ELSE \E s \in Sources(v) :
               LET made == {k \in Of(raws, s) : v \in raws[k].to}
               IN  templates' = Over([k \in {With(v, m) : m \in made} |->
                                         LET f == raws[With(s, k)]
                                         IN  newTemplate(f, s, Distinct(f.ids))], templates)
    /\ todo' = todo \ {v} /\ UNCHANGED <<stubs, raws, phase>>

\* The mock serves whatever it has, and stops if that is nothing.
Listen ==
    /\ phase = "translate" /\ todo = {}
    /\ phase' = IF raws = <<>> THEN "stopped" ELSE "serving"
    /\ UNCHANGED <<stubs, templates, raws, todo>>

StartUp == (\E v \in Versions : Load(v) \/ Native(v) \/ Translate(v)) \/ Loaded \/ Listen

--------------------------------------------------------------------------------
(* Properties *)

\* The templates of a version are all made from the directory of one version: its own if
\* any of its files can be used, otherwise one that has references of its own and a
\* usable mapping; and nothing that can be made from that directory is missing.  So only
\* the choice of the source is left to the order of the maps.  No two versions serve the
\* same captured file as their own: "otherwise every version would report ready while
\* serving the same generation" (main.go).
OneSource ==
    phase = "serving" =>
        /\ \A v \in Versions : Of(templates, v) # {} =>
              \E s \in native :
                  /\ \A k \in Of(templates, v) : templates[k].from = s
                  /\ IF v \in native THEN s = v ELSE <<s, v>> \in Usable
                  /\ {With(s, k) : k \in Of(templates, v)} = {k \in Of(raws, s) : s = v \/ v \in raws[k].to}
        /\ \A k, l \in DOMAIN raws : raws[k] = raws[l] => k[1] = l[1]

\* An identifier of a file extends another one by the number of a repeat
Extended(ids) == \E i, j \in DOMAIN ids, n \in 2..Len(ids) : ids[j] = Numbered(ids[i], n)

\* The identifiers of operated legs are unique in every template: repeats are renamed
\* apart, first appearances keep theirs, in a reference where none looks like a renamed
\* other; and a translation, made from the reference as captured, lists each leg once.
LegIDsUnique ==
    \A k \in DOMAIN templates :
        LET was == raws[With(templates[k].from, k)].ids
            are == templates[k].ids
        IN  IF templates[k].from = k[1]
            THEN /\ ~Extended(was) => IsInjective(are)
                 /\ \A i \in DOMAIN was : was[i] \notin {was[j] : j \in 1..(i - 1)} => are[i] = was[i]
            ELSE IsInjective(are) /\ Range(are) = Range(was)
================================================================================
