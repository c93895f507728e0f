# ndc-mock in TLA+

This directory is a verification development beside the code of `ndc-mock`, a mock of an
airline's NDC interface written in Go: a program that answers AirShopping, OfferPrice,
the Order messages, ServiceList and SeatAvailability from captured reference responses, so
that a client can be tested under load without an airline. It holds TLA+ modules of its
components, TLC configurations that check them on small instances, and TLAPS proofs of the
results that matter most. Paths below are relative to the repository (`edge/orders.go:90`).

To check a configuration: `tlc -config OrderStore_calls.cfg MCOrderStore.tla`. To check the
proofs of a module: `tlapm OrderStoreProofs.tla`.

## 1. The system and its parts

One process is one replica. `net/http` runs every call in a goroutine of its own; all of them
share the order store, the pool of render buffers, the recorder's counter and tables that are
read-only after start-up. Replicas share nothing but a network and, when they record, a
directory.

| Component | State it keeps | Operations | What is hard about it | What makes it correct | Module |
|---|---|---|---|---|---|
| **Order store** (`edge/orders.go`, order handlers in `edge/handlers.go`) | `byID`, a map of pointers under a mutex; order objects; the reaper's ticker | `put`, `get`, `mutate`, `clone`, `reap`; OrderCreate/Retrieve/Change/Cancel/Reshop | goroutines share objects through pointers; times and cuts are computed before the lock; an answer is rendered after a delay; a limit and an age, both enforced late | capacity; no lost update; copies are isolated; every removal has a reason; everything is removed in the end; linearizable | `OrderRegistry`, `OrderStore`, `OrderStoreProofs` |
| **Replicas and forwarding** (`lookup`, `forward`, `ownerOf`, `isPeer`) | a store per replica; the owner's address inside each identifier; the marker header | forward once to the owner, relay, 404, 502 | lost requests and answers, a timeout that races the answer, crashes, names that alias one replica | at most one hop; a client is told nothing that is not so; changes are seen through every replica; every call is answered | `Replicas`, `ReplicasProofs` |
| **Proxy and record mode** (`edge/proxy.go`, `withProxy`) | a counter per process; the files of the record directory | forward to the provider, record a 200, relay, fall back | processes and goroutines share file names, numbering restarts, crashes between files, write errors | captures are never lost, mixed or made twice, and are of what was relayed; every exchange is answered | `Proxy`, `ProxyProofs` |
| **Shopping by itinerary** (`edge/query.go`, `edge/template.go`, `pick`) | the references, read-only | parse, pick a reference, shift dates, replace airports | positions, recurring airports, dates near two legs, references of another shape | the trip served is the trip asked for | `Query`, `Itinerary`, `ItineraryProofs` |
| **Response buffers** (`bufs`, end of `airshopping`) | a `sync.Pool` of byte arrays | take, append, write, give back | arrays are memory shared between goroutines, growth moves them | no response holds another's bytes; the pool stays small | `BufferPool`, `BufferPoolProofs` |
| **Template loading** (`loadTemplates`) | `templates` and `raws`, filled at start-up | load each version's directory or the flat one, translate a missing version from another | versions and sources come out of maps in random order; a reference may not be usable, or not translatable | a version is served from one source, whole, and no captured file is served as two generations | `Templates`, `ItineraryProofs` |
| **Offers and fares** (`offerid.go`, `offerinfo.go`, `airlines.go`, `orNatural`, `clampOffers`, `infoFrom`) | none: all state travels in the offer identifier, which the client holds | search, price, order; describe, render, re-encode, convert, recycle | trip and fare must survive search, price and order in whichever identifier the client uses; conversions are repeated; defaults stand in silently for what an identifier does not say | what is ordered is what was offered and priced; recycled offers differ; the ceiling holds | `Offers`, `OffersProofs` |
| **Repeated leg identifiers** (`uniqueLegIDs`) | none | rename repeats | a new name may be taken | identifiers unique after renaming, first appearances unchanged | `Templates`, `ItineraryProofs` |
| **Seats, services, instalments and wire formats** (`handlers.go`, `xmlbuild.go`, `format.go`) | the orders; all else is computed from the offer | OfferPrice, ServiceList, SeatAvailability, instalments, the order messages, each as XML and as JSON | identifiers are put together in one place and referred to in another; two formats are computed by code of their own; a flight number or fare at its edge | every reference leads to one element; the formats agree | `Documents`, `AgentProofs` |
| **Version translation** (`translateTree` in `translate.go`) | the mapping, read-only; the tree it rewrites | structural transforms, values, hoist, wrap, wrapEach, drop, rename, sort | rules are applied in the random order of Go maps; nodes are moved by pointer; elements and the references to them are changed in separate walks | no node in two places; rules commute and lose nothing that was said; references resolve; flights and fares keep what they said | `Translation`, `TranslationProofs` |
| **Go client and MCP server** (`client/`) | the position in stdin; the call under way | read a line, dispatch, validate, call, give up, reply | requests, notifications and garbage in any order; a call that was given up may still be acted on; checks written apart from the server's | one reply for each request and none for a notification; a reply is about its own request and tells what became of it; nothing is sent twice or refused by the mock; every request is answered | `Agent`, `AgentProofs` |
| Latency (`config.go`) | tables | resolve, clamp, sample | - | - | not modelled: numerical |
| Start-up flags and routing (`main.go`), command line client, scripts, samples | - | flags, route tables, printing | nothing over time | - | not modelled |

How they interact. A client shops (`airshopping` parses the request, picks a reference, takes a
buffer, renders into it and gives it back); an offer identifier of that answer, which carries
the price and the passengers, comes back in OfferPrice and OrderCreate; OrderCreate puts an order
into the store of the replica it reached and answers with an identifier that names this replica;
the order calls look the identifier up there, or are forwarded once to the replica it names. An agent
reaches all of this through the MCP server, which turns its tool calls into such requests, one at a
time. With `-upstream`, `withProxy` stands in front of all handlers and asks the provider first.

`PROJECT.json` lists the components again with their status, and the hazards: each place in the
code where a test would hardly reach, with the properties that would notice it going wrong.

## 2. Modules and the code

Every definition that models code is named in the `map` of `PROJECT.json` with the lines it
stands for. Definitions marked `fault:` are not part of a model: each is a plausible bug at the
place of the definition that follows it, and putting it there makes one of the properties
fail. They document what the properties are able to see.

### OrderStore: one replica's store

| Code | Model |
|---|---|
| `orderStore.byID`, a map of `*order` | `byID`, from identifiers to the call that allocated the object, `Nil` when absent |
| the order structs | `heap`, by the call that allocated them: identifier, status, `CreatedAt`, history |
| a goroutine | `pc[r]`, with `op`, `obj` (the object it got hold of), `snap` (its copy), `code` |
| `time.Tick` in `reap` | `tick`, a channel that holds one tick; `reaper` and `cut` |

A critical section of `orderStore.mu` is one action; the code before and after it, which holds no
lock, is an action of its own. So `CreateBuild` (reads the clock) and `CreatePut` are two actions,
the reaper's computation of the cut and its sweep are two, and the clone in `orderCreate`, made
outside the lock, is two reads with anything in between: that is a data race in the code, and the
model gives the copy any of the values the two reads may see. `get` and `mutate` copy under the
lock and are one action. Only the status and the history of an order change over its life, and
only they and its creation time are kept. OrderReshop reads the store exactly as OrderRetrieve.
Eviction picks any oldest order, because the code ranges over a map.

`OrderRegistry` is what a client may rely on: a registry on which each call acts at one instant
and is told what it saw then, and which may forget. `OrderStore` implements it under the
refinement mapping `Registry` (the registry is what the pointers lead to, the outcome of a call
is its copy); the linearization point of a call is its critical section.

### Replicas: several replicas behind a balancer

A call is a chain of handlers, `<<c, 1>>` on the replica the client reached and `<<c, 2>>` on the
one it was forwarded to; both are goroutines and go on without each other. `Forward` may lose the
request, `GiveUp` is the timeout or the broken connection at any point of the owner's progress,
`Relay` passes the owner's answer on. The store behind each replica is the registry: one step per
access, which is what `OrderStore` is shown to implement, and an order is the sequence of the
calls that made it what it is. `Advertise`, `ReplicaAt` and `Peers` are constants, so a
deployment in which a replica has two names, or advertises none, is an instance of the module.
Crashes empty a replica, and it comes back at its address. `marker` is `X-Mock-Forwarded`.

### Proxy: the recorder

An exchange is a goroutine that goes through `withProxy`, `handle` and `record`. The
`-rs.xml` and `-rq.xml` files are functions from names (operation and route, number) to whose they
are; creation with `O_EXCL` is atomic because the file system makes it so. The response is
created empty and then written whole, or left as it is by an error or a crash; an error after the
provider's answer is in does not keep the answer from the client. The request file
may be missing or cut short; what the properties say of it does not depend on which. A process
that dies starts again with its counter at zero; the files stay.

### Query, Templates and Itinerary: what is served, and one search

`Query` has what `query.go` reads out of a request: the shape of an itinerary, with its airports
numbered by first appearance, and which requests are readable. An airport's number is written as what the
loop of `pattern` makes it, how many airports there are up to its first appearance (`Place`), and `airports` as
the inverse of that: no fold over the legs, so that it can be reasoned about for trips of any length. `Templates` is `loadTemplates`: a
-stubs directory is a function from versions, and from `"flat"`, to directories; `Load` visits a
version in any order, as ranging over the map of versions does, `Translate` picks any native version with a
usable mapping, and `newTemplate` renames the repeated leg identifiers of a native reference
(`uniqueLegIDs`; an identifier is a name and the numbers appended to it, so that one with an appended number can be told from
one that has it already). `Over` is assignment into a Go map, which replaces what was under the key. Whether a file can be sliced, and to
which versions it can be translated, is data of the instance; what a translation does to it is `Translation`.

`Itinerary` begins with `StartUp`: whatever was loaded is what a search is answered from.
`pick`, `near` and `shiftDates`, `airportsFor` and `render` are the functions of
`main.go` and `template.go` over legs (airports are model values, days are integers,
with one value for a missing day and one for a day the code cannot parse). The state machine has
one step per way `airshopping` ends. `pick` tries the same keys in the same order; an answer keeps
the legs its identifiers carry and the days its flights depart and arrive.

### Documents: what is answered after a search

A client holds an offer identifier; what it says is one record (`offer`), and every handler after
AirShopping is an action that answers from it or from an order made of it, as an NDC
document or as its JSON projection (`answer`). A document is its data lists, its items with their
services, and elements of its own; identifiers are tuples. The two formats are separate
operators because they are separate code (`offerToJSON` and the loops in the handlers against
`dataLists`, `flightService`, `aLaCarteItem` and `orderNode`). `bumpFlight` keeps the width of an int: the
largest wraps, and a number that is no int stays (n bumps in one formula: a flight number is counted on at most once a leg,
and no trip has more legs than there are ints, `IntAssumption`). `Firsts` is the test against `seen` and `priced` in `serviceList` and
`seatAvailability`; the services of an order, made by a loop over segments in a loop over passengers, are indexed by the two. `Adopt` is a client that goes on with an alternative of
OrderReshop, whose identifier says nothing. Here the order handlers answer in one step;
what may happen between their steps is `OrderStore`.

### Agent: the Go client and the MCP server

`Agent` composes `Documents` and `Query` with the MCP server in front of them. A line of stdin is
blank, garbled, over-long or a message; `Read` is one turn of the loop in `main` with `dispatch`,
`callTool` and the client's checks (`validate`, `validID`). A call that is sent stays in `sent`
until the mock acts on it (`Act`), which it may do before or after the client has given it up
(`GiveUp`: a broken connection, a timeout, a response that is cut short, too long or no JSON) or
never. `Dispatched` asks first whether the line is JSON at all, as `dispatch` does, and only then for the method. `Receive` replies with what the mock answered, or with the error it answered. `Meanwhile` is another
client. The mock's side of a call is the action of `Documents` itself, in JSON; for a search it is
`Readable` and `multiCity` of `Query`. `server = "none"` is a deployment without an agent, in which
clients use the mock directly: it is how the run goes through all of `Documents`.

### Offers: search, price and order

A client shops, goes on with one of the offers, may have it priced, and orders. An identifier is a
record of the segments the code reads (trip, carrier, fare) and of the rest; `describe`, `render`,
`reencode` and `convert` are the functions of the code on it, with the defaults of
`applyDefaults`. Fares are integers, rates and scales ratios of integers (floats in the code),
rounded to the nearest as `math.Round` does. `hand` is what the client holds, and after pricing
that is either what it had or what the answer said: both are legal clients. `Search` is the second
half of `airshopping`, in either format; `Itinerary` models the first, `Documents` what the
answers look like. Every call may present its
own carrier by header.

### Translation: from one generation to another

The document is a heap of nodes with names, texts and children, as `xnode` is, so a node that
is moved and not taken away shows as a node in two places. A node is at a place, which stands for its
address and says who made it: the document, a transform or a rule (`At`). `new` in the code is an address nobody has; here
it is a place of the transform or rule beside a node it works on, so that two orders of the rules can be compared
without renaming addresses. `Put` writes nodes to their places, and `Tree` takes what the root no longer reaches out of the
heap where a transform may have left some, as the garbage collector would. `translateTree` is a state machine with
one step per structural transform and per rule: `Rule(r)` picks any rule of the kind that is
being applied, which is what ranging over a Go map does. `Walk` is the order of the document,
with the way to each node, from which `rename` takes the path; `PostOrder`, in which the
recursion of `hoist` is done with a node, has each node after those below it, and the way gives the nearest ancestor.
The instance has the rules of `translations/19.2-to-21.3.json` that its documents can meet. Left
out are attributes and namespaces (with `tz-into-datetime` and `weight-unit`, which only read
attributes) and what `datedSegments` copies in the way it copies the carrier.

### BufferPool: the render buffers

An array is memory with a capacity, and a response is a number of units, each marked with
the request it belongs to. `AppendUnit` writes in place while there is room and moves to an array
of twice the capacity when there is not, as `append` does; `Write` sends unit after unit, so that
whatever changes in the array between two of them shows. `Get` may return any array of the pool
or a new one, and `Drop` is the garbage collector emptying the pool: both are what `sync.Pool`
allows. Nothing clears a returned buffer; the code relies on rendering from `[:0]`.

## 3. Runs

| Run | Instance | What it shows |
|---|---|---|
| `store_calls` | 3 calls, 3 identifiers that may repeat, limit 2, one call with an unmapped version | `IInv` holds; the limit is never exceeded (`CapacityBound`); every removal is an expiry, a justified eviction or a repeated identifier (`RemovalJustified`); copies are prefixes of their order (`SnapshotsArePast`); a changing call answers with the state it left (`OwnChangeLast`); each change is there exactly once (`NoLostUpdate`); the store implements the registry (`ImplementsRegistry`) |
| `store_expire` | 2 calls, fairness | every stored order is forgotten, even when its put is late and no call follows (`EventuallyForgotten`) |
| `replicas_effect` | 3 calls, 2 replicas that advertise their address, 1 crash | what clients are told agrees with what happened (`AnswersTellEffect`); changes are seen through both replicas (`LaterCallsSeeEarlier`); nobody is told 404 while the owner holds the order (`FoundThroughEveryReplica`) |
| `replicas_alias` | 2 calls, an owner with two names, a resolver that may fail | at most one forward (`AtMostOneForward`); every call is answered (`EveryCallAnswered`) |
| `replicas_bounce` (violated) | a replica with `-peers` and without `-advertise` | a call is forwarded twice |
| `proxy` | 2 exchanges of one operation and route, 2 processes, captures on disk, 2 crashes, fairness | captures are kept (`CapturesKept`), a request on disk stands beside its whole response (`PairsMatch`), a capture is a 200, made once and relayed to its client (`CapturedIsRelayed`), every exchange is answered (`EveryExchangeAnswered`) |
| `itinerary` | start-up over five contents of -stubs, and over those with one reference and any list of up to four leg identifiers; then every itinerary of 1 to 3 legs over 3 airports and 3 kinds of day, and requests that are refused | a version is served from one source, whole (`OneSource`); leg identifiers are unique (`LegIDsUnique`); the trip served is the trip asked for (`TripAsAsked`); a multi-city request gets its own shape or 501 (`MultiCityOwnShape`); next-day arrivals stay so when the reference's legs are far apart (`NextDayKeptApart`) |
| `offers` | 4 references (twins, a fare too small to convert, an offer and an item that disagree, identifiers that say little), 3 profiles and a code without one, both formats, limits and counts of 0 to 5 | trip and fare come through the identifiers, and in XML the carrier (`OrderAsOffered`); what was priced is what is ordered (`PricedIsOrdered`); recycled offers differ, and a number asked for is cut to the ceiling (`RecycledDiffer`) |
| `offers_chain` (violated) | a default carrier or a header at the search | an order for a JSON offer is for another carrier |
| `translation` | 110 documents: one or two segments that share legs, named or not, with ends or without; up to two penalties, priced or not; two fare rules; associations in three orders; seat maps; six rules in every order | no node is ever in two places (`OnePlace`); two rules of a kind give one document in either order (`EitherOrder`); no rule loses what an element says (`NothingUnsaid`); every reference leads to exactly one element (`RefsResolve`); a segment can be followed to its ends, carrier and legs (`FlightsTraceable`); a fare keeps the priced penalties of its rules, once (`PenaltiesKept`) |
| `buffer_pool` | 3 responses that fit, grow and outgrow, 5 arrays | a client gets its own response (`OwnResponse`), the pool holds no large array and no more arrays than were needed (`PoolStaysSmall`) |
| `agent` | 24 offers and the default one, every handler in both formats and three generations, two orders; and sessions of three lines, the middle one out of 47, with an agent, other clients and late answers; fairness | references resolve (`ReferencesResolve`); XML and JSON agree (`FormatsAgree`); replies match their requests and tell what became of them (`RepliesMatch`); no call is acted on twice (`ActedOnce`); the mock can serve every search the client lets through (`SearchesServable`); every request is answered (`EveryLineAnswered`) |

### Bounds, and why they are enough

* Calls: two are needed to interfere, a third to observe, or to fill a store of two orders and make
  a put late. Identifiers: one more than the limit, so that one can be found, missed, evicted
  and repeated. `OrderMax` 2 lets eviction choose; a limit of one or less is covered by the proof.
* Time: `LastArrival` bounds when orders are created and `MaxTime` saturates the clock; `MaxTime`
  exceeds `LastArrival + TTL`, so that every order can become too old, and the ticker goes
  on when the clock stands still. A TTL of 1 and a period of 2 make the period matter.
* Replicas: two, which is what one forward joins; `MaxHops` is three in the runs that ask whether
  there is a second forward, so that it could happen. One crash (with any number of
  restarts after it) lets an owner fail before, during and after a call.
* Proxy: names collide in pairs, so two exchanges of one label on one or two processes suffice; the
  directory holds the first name and one after a gap, so that a draw collides at once and again
  later. Two crashes let both processes, or one twice, number from zero again.
* Start-up: -stubs is empty, or has one version's directory, the flat layout, or two versions and a flat
  layout nobody may claim, or only a version no other can be made from; some references cannot be sliced
  or translated, and one version has two sources. Leg identifiers are lists of up to four over four names, two
  of which look like a renamed other.
* Itinerary: three legs are the shortest with a recurring airport that is neither a return nor a
  one-way; the airports of requests and references overlap, so a replacement can meet an airport
  that is itself to be replaced.
* Offers: two offers and a count of five give two cycles and part of a third, so a nudged fare (1000 a
  cycle) meets the next offer's; the small fare converts to zero; one ceiling is below what
  headers ask for and one is absent. One search, one pricing and one order are the whole
  chain.
* Translation: interference needs two rules on one parent, two segments with one leg, and two rules of a
  fare with one penalty; the documents vary these one at a time, the rules go in every order, and in each state
  every two of those left are tried in both.
  Documents have unique PaxSegmentIDs and PenaltyIDs, as their schema demands, and legs of one
  identifier are the same leg.
* BufferPool: five arrays are one for each request and two that are being moved to.
* Documents: trips of one to three legs, with a pair of airports flown once, back and twice; flight numbers
  that are small, about to reach the largest int (9 in the instance) and no int, each on every trip; fares at which all seat tiers cost
  the same and at which they do not; parties of every kind. `Sizes` has no header and one above `MaxSize` (11),
  which is above the number of columns, codes and rows that matter. Two orders tell an order from another.
* Agent: a session of three lines has a call before and after the one that is late, which is what it takes to
  mistake an answer; the middle line is any of all tools with arguments on both sides of each
  check, the others are about an order. Every offer may be held by a client of its own; the agent's
  session starts from one.
* `SYMMETRY` is used where calls or identifiers are interchangeable and only safety is checked:
  `store_calls` exempts the call with the unmapped version, and no run with a liveness property
  uses it.
* Deadlock is checked wherever time passes (`OrderStore`). In the other modules the system
  may come to rest when every call has been answered, and the configurations say so.

### Fairness

`OrderStore`: weak fairness of each step of a call that is under way, of the reaper's two steps
and of the clock. The Go scheduler runs every goroutine that can run, `applyDelay` sleeps for a
bounded time and a mutex is handed to whoever waits for it (no critical section blocks). That a
client calls is never assumed. `Replicas`: weak fairness of each handler's next step; `GiveUp` is
among its steps because `peerClient` has a timeout; nothing is assumed of restarts, of the
resolver or of the owner. `Proxy`: weak fairness of each exchange; the provider need not do
anything, because `proxyClient` has a timeout. `Agent`: weak fairness of `Receive \/ GiveUp` together, because the HTTP client has a
timeout; the endpoint need not answer and the agent need not write. The search for a free file name ends without any
further assumption: a counter never goes back while its process lives, and the names taken are
finitely many.

## 4. Findings

Each is a run TLC violates, and quotes what it contradicts; `PROJECT.json` has the full text.

1. `replicas_bounce`: "the marker header stops a request from bouncing" (`orders.go:193`), but its
   value is `*advertise`, which is empty on a replica that has none.
2. `offers_chain`: hand the `offerId` of a JSON search back "and the trip, carrier and fare come
   through intact" (`README.md:119-121`), but `reencode` leaves the reference's carrier in it.

Smaller disagreements met on the way, for which there is no run:

* "A next-day arrival stays next-day on every leg" (`README.md:642`), but an arrival on the date
  of the next leg moves with that leg; `NextDayKeptApart` is stated for legs that are further apart.
* A cancellation "is not reversible" (`client/cmd/ndc-mcp/main.go:253`), but OrderChange sets the status
  to Changed whatever it was (`handlers.go:166`), so it reopens a cancelled order.
* `-order-ttl` is "how long a created order stays retrievable" (`main.go:31`), but `get` and `mutate`
  do not look at the age: an order is found until the next sweep.
* `withProxy` falls back "if the provider is unreachable" (`main.go:435-437`), but a late or broken
  answer makes it fall back too, after the provider acted: what the provider has carried out, an
  order for one, is then carried out again by the synthetic handler.
* `OfferPrice` answers a request that carries only an OfferID with the item `ITEM_1`
  (`handlers.go:106`). `infoFrom` reads the item before the offer, so a client that orders with both
  identifiers of that answer orders the default trip AAA-BBB at 100000. `PricedIsOrdered` holds for
  clients that hold the item.
* `OfferPrice` answers `"repriced": false` (`handlers.go:100`), but a profile presented at pricing converts and
  scales the fare in the identifier again, also when it is the profile of the search.
* `-max-offers` is a "hard ceiling on offers per response" (`main.go:33`), but it does not
  bound the offers of the reference when no number is asked for.
* "No two offers come out identical" (`template.go:289-291`): so it is in XML, but a JSON search recycles
  identifiers without a price delta, and lists the OfferID and the OfferItemID of a
  block as two offers.
* A fare that converts to zero counts as missing and becomes 100000 (`offerinfo.go:100`).
* After a restart "the forwarded call answers `502` saying so" (`README.md:586-588`), but the restarted
  owner answers 404 (`handlers.go:378`) and that is relayed.
* "Dates move leg by leg" (`README.md:642`), but two legs of a reference on one date share one slot
  and both move to the day asked for the first.
* "A reference cannot be reshaped into another itinerary" (`README.md:650-651`), but a return search
  is answered from a one-way reference when no return reference is loaded (`main.go:473-481`).

What the models leave as it is, worth knowing for a reader of the code:

* With `-timeout 0` the MCP server's calls all fail at once. An agent that is told of a failure and asks
  again may have a second order: the protocol has nothing against it.
* The services of an order have no flight number in their identifier (`xmlbuild.go:182`), so a trip
  that flies one pair of airports twice has two services of one identifier; a flight number that is no int is not bumped,
  so such a trip has two segments of one identifier. `ReferencesResolve` names both exceptions; the instance
  has documents of both kinds.
* The alternatives of OrderReshop are named `ID-ALT-k`, which says nothing (`handlers.go:201`):
  pricing one prices the default trip.
* A reference whose identifiers look renamed already (`ID` twice, and `ID_2`) still gets two
  legs of one identifier. Of a reference with several carriers only the first is replaced.

## 5. What is proved

For every value of the constants allowed by the named assumptions (finite sets of calls and
identifiers for the store; any limit, TTL and period; any number of replicas, addresses and names; any
references, requests, offers and sessions; any documents and mapping). All safety properties the runs check are theorems,
except three of `Translation`. The types of `Replicas` and `Proxy` are left to the proofs alone: they are
proved for every value of the constants, and no run repeats them.

**OrderStore** (`OrderStoreProofs`): `TypeCorrect`, `CapacityCorrect`, `SnapshotsCorrect`,
`OwnChangeCorrect`, `RemovalCorrect`, `NoLostUpdateCorrect`, `RegistryImplemented` (the refinement)
and `IInvCorrect`. The invariant that carries them is

    IInv == TypeOK /\ CapacityBound /\ PointersOK /\ CallsOK /\ CutOK
            /\ SnapshotsArePast /\ OwnChangeLast

`PointersOK` is needed because the map holds pointers: only if it holds an object under the
identifier the object carries do two identifiers never lead to one object, and only then does a
sweep or an eviction remove what it means to. `CallsOK` ties what a goroutine has done to what it
holds: without it a call might own an object nobody created, and a copy might be compared with an
object that is created later. `CutOK` says that a cut under way is at least a TTL in the past, which
time only makes more true. Capacity is an argument about cardinalities (`PutKeepsCapacity`): a put
adds at most one key, and at the limit takes one away unless the key was there. `NoLostUpdate` is
proved by counting: a change adds one line of its kind and one call that reached the order
(`MutateCounts`). The refinement has a step for each action: `CreatePut`, `Retrieve`, `Mutate`,
`NotFound` and `ReapSweep` are `Create`, `Read`, `Change`, `Read` and `Forget` of the registry, all
others are stutters.

**Replicas** (`ReplicasProofs`): `TypeCorrect`; `ForwardedOnce`: if every replica advertises an address
(any address, right or wrong), no call is forwarded twice, from the invariant `Marked` that a
handler beyond the first serves a marked request; `AnswersCorrect`: what a client is told agrees
with what happened, from the invariant `Effects`, which says where along the chain of handlers
a call that was applied can have been, and that a handler behind one that gave up can still apply
it while the client was told 502. The assumption of `ForwardedOnce` is what finding 1 shows to be
necessary.

The rest of the module is about several calls. `LaterCallsCorrect`: a call sees
what was answered before it was sent, through whichever replicas; from `Placed` (an order is held by one replica
at most, and that is the one its identifier names) and `Seen` (what is held goes on from every
copy that was answered). It needs nothing of the addresses: a call that is led astray shows nothing.
`FoundCorrect`: nobody is told 404 while the owner holds the order, under `OwnAddresses`: the resolver
never fails and each replica advertises a peer address that leads back to it. `Routed` says that a forwarded handler runs at
the replica the identifier names, and that a 404 is told only where the order is gone.

**BufferPool** (`BufferPoolProofs`): `TypeCorrect`, `OwnResponseCorrect`, `PoolStaysSmallCorrect`, for any requests, sizes and
arrays. `Apart` carries them: two busy requests never hold one array and none of
theirs is in the pool; given that, what a request rendered (`Rendering`) and what it has sent (`Sending`) are
its own units, and the pool has one array at most for each request that was done (`Pooled`).

**Proxy** (`ProxyProofs`): `TypeCorrect`, `PairsCorrect`, `CapturedCorrect` and `CapturesCorrect` (an action property).
`Owned`: a file that is being written belongs to the exchange that writes it, and to no other, because
creation is exclusive; then nobody else completes, removes or pairs it. `Recorded`, `Once` and `Moded` tie what is in the directory
to what the provider answered and the client is told.

**Offers** (`OffersProofs`): `RecycledCorrect`, `PricedCorrect`, and `OfferedCorrect` under `OneCarrier` (a reference names one
carrier throughout, because only the first is replaced). `ConvertSame` and `RoundBack` are the arithmetic:
a fare that is in the carrier's currency and unscaled is not moved by a conversion, whatever the rates. `Fitting` says that each offer shown says
what it is offered at, `Holding` what the client can hold after each step. The assumptions are on the
deployments: references are not empty, fares are naturals in a named currency or missing, rates are
positive.

**Start-up and search** (`ItineraryProofs`): `OneSourceHolds`, `LegIDsUniqueHolds`, `TripAsAskedHolds`, `MultiCityOwnShapeHolds`,
`NextDayKeptApartHolds`. The two invariants are

    Loading == Captured /\ Made /\ Visited
    Answering: a request is one that may arrive, and an answer is what render makes of it
               and of the template pick settles on

`Captured` says that what was captured are files of the directory its version claims, `Made` that each template is made of
the file captured under the same key, and `Visited` what `OneSource` needs while the loops are under way: a version they have yet to visit has
nothing of its own in the first and nothing translated to it in the second.
`LegIDsUnique` is an argument about identifiers of any number (`UniqueLegIDs`): of two places that end
up with one identifier the n-th appearance of one name is the n-th of the other, or one extends the other, which `Extended` rules out.

`TripAsAsked` rests on two facts. One is that numbering by first appearance is a bijection: every number up to the number of
airports is some airport's place (`DistinctOf`), the airport that stands where `Place` says is that airport (`AirportAt`), and two itineraries of one shape have, end for end, the same
places (`SameShape`). So replacing by position gives the request's airport at every end, however airports recur.
The other is that the nearest leg of a leg's own day is that leg, if no two legs share a day (`NearOf`), so that a
date moves to the day asked for; and that of a day within half the distance it still is (`ShiftOf`), which is `NextDayKeptApart`. `MultiCityOwnShape`
needs the first only, as the shape of a trip is that of its airports (`ShapeOfEnds`).

Numbers of things are cardinalities, and the library's induction theorems, which take an operator as a parameter, cannot be instantiated:
what would be an induction ("the numbers have no gap", "the last is the greatest") is taken from a least or greatest element of a set of
numbers (`Least`, `Greatest`), which the library's theorem on well-founded sets gives.

Assumptions: `StubsAssumption` (a file is in one directory, has legs, and lists as many nights as legs), `UsableAssumption`, `DaysAssumption`, and `AskedAssumption` (requests are of any shape, with days
counted from one so early that no shifted arrival is before it).

**Documents** (the first part of `AgentProofs`, for the theorems `ReferencesResolveCorrect` and `FormatsAgreeCorrect`): each of the
five kinds of document resolves and agrees with its projection, one lemma a document, whatever the trip, the party, the fare and the size. What they rest on:
`SegmentsOnce` (of two segments of one pair of airports the flight numbers differ, also when counting wraps around the largest int, because
a trip has fewer legs than there are ints), `PaxOnce` and `PaxCounted` (passengers are told apart by type and number, and there are as many of a type as asked for),
`FirstsOnce` and `FirstsAll` (what is declared when first seen is declared once and is declared), and `SeatItemsAre` (where tiers
meet, the one item has the price of every row that points at it). The invariant over the session is `About`: the last document is that of the offer,
or of the order it was made of *as it is now*. That it stays true needs a look at each handler, because orders change: only a
handler that answers at once with the changed order changes one, and `Adopt` changes the offer only after an OrderReshop, whose document is of the order.
With an agent, other clients do change orders under an answer (`Meanwhile`), but it is answered in JSON (`InJSON`).

Assumptions: `OfferedAssumption` (an offer has a leg and a passenger), `SizesAssumption`, `IntAssumption`.

**Agent** (`AgentProofs`): `ActedOnceCorrect`: only accepted calls reach the mock, each is acted on at most once,
and there are as many orders as order calls acted on; from `Numbered` (requests under way and
requests acted on are disjoint, and are lines that were read) and `Listed` (only `OrderCreate` makes the list of orders longer,
and it does so by one), counted over the lines that create.
`RepliesMatchCorrect` is from `Paired`: the n-th line that takes a reply is answered by the n-th reply (`NthOf`, `DueGrows`: numbering is
strictly increasing, and a new line is the last), while the server waits it waits for the last line it read, and what a reply says of
its request no later step can change, because what the mock answered is kept and a line that was refused is never sent.
The proof found `Dispatched` ambiguous for a line that is no JSON and yet had a known method; its order is now that of the code.
`SearchesServableCorrect`: what `validate` lets through, `parseQuery` can read, and its shape is one way or return (`ValidatedReadable`,
`OneWayShape`, `ReturnShape`), which holds because the two airports differ. Assumptions: `AgentAssumption` and `LinesAssumption` (a search counts its passengers in integers).

**Translation** (`TranslationProofs`): `Invariant`, `OnePlaceHolds`, `EitherOrderHolds` and `NothingUnsaidHolds`, for trees of any depth and
width, any transforms in any order and any rules. The invariant is

    IInv == /\ done \in 0..Len(Structural) /\ left \in SUBSET Rules
            /\ stage = "structural" => left = Rules /\ Nodes(doc) = DOMAIN doc
            /\ Good(doc) /\ Told /\ Hoistable

`Good` is that the heap is one, and that each node has one parent and is there once; `OnePlace` is a part of it. That a step keeps it is shown by naming the
one home of every node after the step (`Home` for `datedSegments`, `WrapHome`, `HouseHome`; `PutGood` and `GoodByHome` do the rest): a leg's home
becomes the list of legs, an end's the marketing segment, a wrapped child's the innermost wrapper. `Told` says who can have made the nodes there are;
without it a wrapper might be written over another. `Hoistable` says that until the hoist the root reaches
everything and what is to be hoisted has no children. `EitherOrder` follows from what the document is after two rules,
written so that it is the same for both orders (`WrappedTwice`, `HousedTwice`): the second finds the parents it would have found, with their children in the places
the first left them (`PickWithin`). `NothingUnsaid` is easy for wrappers; for a hoist (`hoistSaid`) it needs that its target is above its source, hence another node (`WayOnce`: a way
down from the root passes no node twice), that nothing but leaves of the name moves (`Hoists`, kept by each step of it), so that all else stays reached, and that each text that was taken away
was held by the target or has been put there.

Recursive definitions (the nodes reached after so many steps, the walk, the list of legs, the steps of a hoist) are functions
with a domain of naturals. `ByInduction` is induction for a set of naturals, from a least element outside it, and `ByRecursion` that a
function defined step by step exists; with these two the prover can say something of a walk or a hoist of any length.

Assumptions: `DocumentsAssumption` (a document is a tree), `StructuralAssumption`, `RulesAssumption` (rules are entries of maps, so two have
different keys), `RankAssumption`, and two that all mappings of `translations/` meet: `ApartAssumption` (no wrapper is the parent of a rule, or is wrapped by a rule of its own parent; there
is one hoist) and `HoistedAssumption` (what is hoisted has no children in a document and is nothing a transform builds). TLC checks them for the mapping of the instance.
`ApartAssumption` is needed: with a wrapper that is itself a parent of a rule, the order would matter.

**Only model-checked**: the liveness properties (fairness is beyond the prover), and `RefsResolve`, `FlightsTraceable` and
`PenaltiesKept` of `Translation`. These do not hold for every mapping and every document, but for the repository's mapping on documents
that follow their schema (identifiers are unique, a reference has something to refer to, no rule or rename touches an
identifier): what would have to be assumed of both is as long as the transforms themselves.

## 6. Plan

Done, in this order: `OrderRegistry`, `OrderStore` and its proofs; `Replicas` and its first proofs;
`Proxy`; `Itinerary`; `BufferPool`; `Offers`; `Translation`; `Templates` with the repeated leg identifiers, and
`Itinerary` on top of them; `Documents`; `Agent` on top of that; the proofs for `BufferPool`, `Proxy`,
`Replicas` (what several calls see) and `Offers`; those for `Templates`, `Itinerary`, `Documents` and `Agent`; `Translation` on a heap of
places, and its proofs. What would add most next:

1. `Agent` in front of `Replicas` in place of one mock, so that a call that was given up can also be one that is forwarded.
2. The attributes `Translation` leaves out (`tz-into-datetime`, `weight-unit`), and the reference file as one of its documents.
3. Of `datedSegments`, a theorem that what it makes can be followed, from a statement of what a schema-following document is.

## 7. What is not modelled, and why

* Bytes: XML and JSON building and parsing, the text of identifiers. They are
  data without control over time; where a property needs one (the owner inside an order identifier,
  the key of a template) it is modelled by what it carries.
* An order's passengers and total are what its offer said (`Documents`) and do not change; its services and
  seats are never set by any handler.
* Latency distributions (`sample`): a delay is a step that may take any time.
* The headers the proxy forwards, and its 64 MB limit on an answer.
* Names, dates, carriers and currencies of the documents after a search, which are copied from place to place;
  the checks of carrier codes; a number of passengers beyond an int.
* Scripts, samples and the command line client, which is one call of the Go client and printing; flags, route tables, the token,
  health and statistics: nothing that runs over time.
* `size()` of the store, which only feeds `/healthz`.
