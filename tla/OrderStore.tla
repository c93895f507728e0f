------------------------------ MODULE OrderStore ------------------------------
(***************************************************************************)
(* The order store of one replica (edge/orders.go) and the handlers that   *)
(* use it (edge/handlers.go).  Every HTTP call runs in a goroutine of its  *)
(* own; the reaper is one more.  A critical section of orderStore.mu is    *)
(* one step, because the mutex makes it one; what happens before it and    *)
(* after it is a step of its own:                                          *)
(*                                                                         *)
(*   OrderCreate    build the order (time.Now) | put | sleep, then a       *)
(*                  clone OUTSIDE the lock, field by field                 *)
(*   other calls    get or mutate, copy included | sleep, answer           *)
(*   reaper         receive a tick and compute the cut | sweep             *)
(*                                                                         *)
(* An order object is named by the call that allocated it, so byID, a map  *)
(* of pointers in the code, maps identifiers to calls here.                *)
(***************************************************************************)
EXTENDS Integers, FiniteSets, SequencesExt

CONSTANTS
    Requests,     \* HTTP calls, one goroutine each
    OrderIDs,     \* identifiers newOrderID can return and clients can send
    NoID,         \* the empty identifier
    Nil,          \* the nil *order
    OrderMax,     \* -order-max
    TTL,          \* -order-ttl, in clock units
    ReapEvery,    \* period of the reaper's time.Tick, in clock units
    Unmapped,     \* calls whose version has no usable mapping (respondNDC: 501)
    IDsMayRepeat, \* whether newOrderID may return an identifier it returned before
    LastArrival,  \* bound: no order is created after this time
    MaxTime       \* bound: the clock saturates here, the ticker goes on

ASSUME RequestsAssumption == IsFiniteSet(Requests) /\ Nil \notin Requests
ASSUME IDsAssumption == IsFiniteSet(OrderIDs) /\ NoID \notin OrderIDs
ASSUME LimitsAssumption == OrderMax \in Int /\ TTL \in Nat /\ ReapEvery \in Nat \ {0}
ASSUME UnmappedAssumption == Unmapped \subseteq Requests /\ IDsMayRepeat \in BOOLEAN
ASSUME BoundsAssumption == /\ LastArrival \in Nat /\ MaxTime \in Nat
                           /\ MaxTime > LastArrival + TTL

VARIABLES
    now,    \* the clock
    tick,   \* the ticker's channel, of capacity one: TRUE when it holds a tick
    reaper, \* "waiting" for a tick, or "sweeping" (cut computed, lock not yet taken)
    cut,    \* what the reaper computed for this sweep
    heap,   \* order objects, by the call that allocated them
    byID,   \* orderStore.byID
    pc,     \* where the goroutine of each call is
    op,     \* the operation a call that reached an order carries out; "none" before it reached one
    obj,    \* the object the call created or found under its identifier
    snap,   \* the copy (clone) the call answers with
    code    \* HTTP status answered, 0 before that

storeVars == <<heap, byID>>
reaperVars == <<tick, reaper, cut>>
callVars == <<pc, op, obj, snap, code>>
vars == <<now, storeVars, reaperVars, callVars>>

Entries == {"Created", "Changed", "Cancelled"}
Order == [id : OrderIDs \cup {NoID}, status : {"none", "Opened", "Changed", "Cancelled"},
          createdAt : 0..MaxTime, history : Seq(Entries)]

\* Go's zero value order{}: an object nobody allocated, a copy not made yet
\* ("none" stands for the empty string)
NoOrder == [id |-> NoID, status |-> "none", createdAt |-> 0, history |-> <<>>]

\* orderReshop reads the store exactly as orderRetrieve does and stands with it
Ops == {"none", "OrderCreate", "OrderRetrieve", "OrderChange", "OrderCancel"}
Changes == {"OrderChange", "OrderCancel"}

\* The identifiers the map holds, and those whose order is the oldest held
Held == {id \in OrderIDs : byID[id] # Nil}
Oldest == {id \in Held : \A other \in Held :
              heap[byID[id]].createdAt <= heap[byID[other]].createdAt}

\* The function a changing handler gives lookup: a new status and a history line
\* (it does not look at the status the order has)
StatusAsNamed(o) == o  \* fault: the operation's name instead of a status
StatusAfter(o) == IF o = "OrderCancel" THEN "Cancelled" ELSE "Changed"
ApplyOver(o, ord) ==   \* fault: the history is replaced, not appended to
    [ord EXCEPT !.status = StatusAfter(o), !.history = <<StatusAfter(o)>>]
Apply(o, ord) == [ord EXCEPT !.status = StatusAfter(o), !.history = Append(@, StatusAfter(o))]

--------------------------------------------------------------------------------

Init ==
    /\ now = 0
    /\ tick = FALSE /\ reaper = "waiting" /\ cut = 0
    /\ heap = [r \in Requests |-> NoOrder]
    /\ byID = [id \in OrderIDs |-> Nil]
    /\ pc = [r \in Requests |-> "idle"]
    /\ op = [r \in Requests |-> "none"]
    /\ obj = [r \in Requests |-> Nil]
    /\ snap = [r \in Requests |-> NoOrder]
    /\ code = [r \in Requests |-> 0]

\* A body that cannot be read, an OrderCreate without an offer, or any other
\* call without an OrderID: answered 400 before the store is touched.
Refuse(r) ==
    /\ pc[r] = "idle"
    /\ pc' = [pc EXCEPT ![r] = "done"]
    /\ code' = [code EXCEPT ![r] = 400]
    /\ UNCHANGED <<now, storeVars, reaperVars, op, obj, snap>>

\* orderCreate up to orders.put: the identifier is random and never looked up
\* in the store, CreatedAt is read before the lock is taken.
CreateBuild(r, id) ==
    /\ pc[r] = "idle" /\ now <= LastArrival
    /\ IDsMayRepeat \/ \A k \in Requests : heap[k].id # id
    /\ heap' = [heap EXCEPT ![r] = [id |-> id, status |-> "Opened", createdAt |-> now,
                                    history |-> <<"Created">>]]
    /\ pc' = [pc EXCEPT ![r] = "built"]
    /\ op' = [op EXCEPT ![r] = "OrderCreate"]
    /\ obj' = [obj EXCEPT ![r] = r]
    /\ UNCHANGED <<now, byID, reaperVars, snap, code>>

\* put: a full map first loses an entry with the oldest CreatedAt (any of them:
\* the map is ranged over in random order), then the order is stored.
VictimsLate ==         \* fault: > where the limit needs >=
    IF Cardinality(Held) > OrderMax /\ Held # {} THEN Oldest ELSE {NoID}
VictimsAny ==          \* fault: the first entry of the range, whatever its age
    IF Cardinality(Held) >= OrderMax /\ Held # {} THEN Held ELSE {NoID}
Victims == IF Cardinality(Held) >= OrderMax /\ Held # {} THEN Oldest ELSE {NoID}

CreatePut(r, victim) ==
    /\ pc[r] = "built"
    /\ victim \in Victims
    /\ byID' = [id \in OrderIDs |-> IF id = heap[r].id THEN r
                                    ELSE IF id = victim THEN Nil ELSE byID[id]]
    /\ pc' = [pc EXCEPT ![r] = "sleeping"]
    /\ UNCHANGED <<now, heap, reaperVars, op, obj, snap, code>>

\* o.clone() in orderCreate holds no lock: the struct is copied first ...
CreateCopy(r) ==
    /\ pc[r] = "sleeping" /\ op[r] = "OrderCreate"
    /\ snap' = [snap EXCEPT ![r] = heap[r]]
    /\ pc' = [pc EXCEPT ![r] = "copying"]
    /\ UNCHANGED <<now, storeVars, reaperVars, op, obj, code>>

\* ... and the history slice, read again, after it.
CreateAnswer(r) ==
    /\ pc[r] = "copying"
    /\ snap' = [snap EXCEPT ![r].history = heap[r].history]
    /\ pc' = [pc EXCEPT ![r] = "done"]
    /\ code' = [code EXCEPT ![r] = IF r \in Unmapped THEN 501 ELSE 201]
    /\ UNCHANGED <<now, storeVars, reaperVars, op, obj>>

\* lookup with no function: get copies the order under the read lock.
Retrieve(r, id) ==
    /\ pc[r] = "idle" /\ id \in Held
    /\ snap' = [snap EXCEPT ![r] = heap[byID[id]]]
    /\ obj' = [obj EXCEPT ![r] = byID[id]]
    /\ op' = [op EXCEPT ![r] = "OrderRetrieve"]
    /\ pc' = [pc EXCEPT ![r] = "sleeping"]
    /\ UNCHANGED <<now, storeVars, reaperVars, code>>

\* lookup with a function: mutate applies it and copies the result under the lock.
MutateCopy(r, o, id) == \* fault: the function is applied to the copy only
    /\ pc[r] = "idle" /\ o \in Changes /\ id \in Held
    /\ snap' = [snap EXCEPT ![r] = Apply(o, heap[byID[id]])]
    /\ obj' = [obj EXCEPT ![r] = byID[id]]
    /\ op' = [op EXCEPT ![r] = o]
    /\ pc' = [pc EXCEPT ![r] = "sleeping"]
    /\ UNCHANGED <<now, storeVars, reaperVars, code>>
Mutate(r, o, id) ==
    /\ pc[r] = "idle" /\ o \in Changes /\ id \in Held
    /\ heap' = [heap EXCEPT ![byID[id]] = Apply(o, @)]
    /\ snap' = [snap EXCEPT ![r] = heap'[byID[id]]]
    /\ obj' = [obj EXCEPT ![r] = byID[id]]
    /\ op' = [op EXCEPT ![r] = o]
    /\ pc' = [pc EXCEPT ![r] = "sleeping"]
    /\ UNCHANGED <<now, byID, reaperVars, code>>

\* lookup of an identifier the map does not hold, on a replica without peers.
NotFound(r, id) ==
    /\ pc[r] = "idle" /\ id \notin Held
    /\ code' = [code EXCEPT ![r] = 404]
    /\ pc' = [pc EXCEPT ![r] = "done"]
    /\ UNCHANGED <<now, storeVars, reaperVars, op, obj, snap>>

\* After the delay the copy is rendered; a version without a usable mapping is
\* answered 501, whatever the call already did to the order.
AnswerLive(r) ==       \* fault: lookup returns the pointer, rendered after the delay
    /\ pc[r] = "sleeping" /\ op[r] # "OrderCreate"
    /\ snap' = [snap EXCEPT ![r] = heap[obj[r]]]
    /\ pc' = [pc EXCEPT ![r] = "done"]
    /\ code' = [code EXCEPT ![r] = 200]
    /\ UNCHANGED <<now, storeVars, reaperVars, op, obj>>
Answer(r) ==
    /\ pc[r] = "sleeping" /\ op[r] # "OrderCreate"
    /\ pc' = [pc EXCEPT ![r] = "done"]
    /\ code' = [code EXCEPT ![r] = IF r \in Unmapped THEN 501 ELSE 200]
    /\ UNCHANGED <<now, storeVars, reaperVars, op, obj, snap>>

\* reap: a tick is received and the cut computed before the lock is taken ...
ReapTickShort ==       \* fault: the TTL is forgotten
    /\ reaper = "waiting" /\ tick
    /\ tick' = FALSE /\ cut' = now /\ reaper' = "sweeping"
    /\ UNCHANGED <<now, storeVars, callVars>>
ReapTick ==
    /\ reaper = "waiting" /\ tick
    /\ tick' = FALSE
    /\ cut' = now - TTL
    /\ reaper' = "sweeping"
    /\ UNCHANGED <<now, storeVars, callVars>>

\* ... and under the lock every order created before it is deleted.
ReapSweepAfter ==      \* fault: After where the code has Before
    /\ reaper = "sweeping"
    /\ byID' = [id \in OrderIDs |-> IF id \in Held /\ heap[byID[id]].createdAt > cut
                                    THEN Nil ELSE byID[id]]
    /\ reaper' = "waiting" /\ cut' = 0
    /\ UNCHANGED <<now, heap, tick, callVars>>
ReapSweep ==
    /\ reaper = "sweeping"
    /\ byID' = [id \in OrderIDs |-> IF id \in Held /\ heap[byID[id]].createdAt < cut
                                    THEN Nil ELSE byID[id]]
    /\ reaper' = "waiting" /\ cut' = 0
    /\ UNCHANGED <<now, heap, tick, callVars>>

\* Time passes.  The ticker drops a tick its channel has no room for.
Advance ==
    /\ now' = IF now < MaxTime THEN now + 1 ELSE MaxTime
    /\ tick' = (tick \/ now' % ReapEvery = 0 \/ now' = MaxTime)
    /\ UNCHANGED <<reaper, cut, storeVars, callVars>>

Step(r) == \/ \E victim \in OrderIDs \cup {NoID} : CreatePut(r, victim)
           \/ CreateCopy(r) \/ CreateAnswer(r) \/ Answer(r)

Call(r) == \/ Refuse(r)
           \/ \E id \in OrderIDs : \/ CreateBuild(r, id) \/ Retrieve(r, id) \/ NotFound(r, id)
                                  \/ \E o \in Changes : Mutate(r, o, id)

Next == (\E r \in Requests : Call(r) \/ Step(r)) \/ ReapTick \/ ReapSweep \/ Advance

\* The Go scheduler runs every goroutine that can run, the sleep of applyDelay
\* ends, the mutex is handed on, and time passes.  No client has to call.
Fairness == /\ \A r \in Requests : WF_vars(Step(r))
            /\ WF_vars(ReapTick) /\ WF_vars(ReapSweep) /\ WF_vars(Advance)

Spec == Init /\ [][Next]_vars /\ Fairness

--------------------------------------------------------------------------------
(* Properties *)

\* Every variable stays in its type.
TypeOK ==
    /\ now \in 0..MaxTime /\ tick \in BOOLEAN
    /\ reaper \in {"waiting", "sweeping"} /\ cut \in Int
    /\ heap \in [Requests -> Order]
    /\ byID \in [OrderIDs -> Requests \cup {Nil}]
    /\ pc \in [Requests -> {"idle", "built", "sleeping", "copying", "done"}]
    /\ op \in [Requests -> Ops]
    /\ obj \in [Requests -> Requests \cup {Nil}]
    /\ snap \in [Requests -> Order]
    /\ code \in [Requests -> {0, 200, 201, 400, 404, 501}]

\* The map never holds more than -order-max orders, whatever order the puts and
\* sweeps come in; a limit below one still lets one order in (put evicts, then
\* stores without looking again).
CapacityBound == Cardinality(Held) <= IF OrderMax < 1 THEN 1 ELSE OrderMax

\* What a call copied is a past or present state of the one order object it
\* found: its history is a prefix of the object's, and no later change to the
\* order shows in a copy already made (get, mutate and clone).
SnapshotsArePast ==
    \A r \in Requests : obj[r] # Nil => /\ IsPrefix(snap[r].history, heap[obj[r]].history)
                                        /\ snap[r] # NoOrder => snap[r].id = heap[obj[r]].id

\* A call that changed an order answers with the state its own change left, not
\* with what another change made of it while the answer was being delayed.
OwnChangeLast ==
    \A r \in Requests : op[r] \in Changes /\ obj[r] # Nil =>
        /\ snap[r].status = StatusAfter(op[r])
        /\ Last(snap[r].history) = StatusAfter(op[r])

\* No change is lost and none is applied twice: an order's history has one line
\* for its creation and one for each call that reached it, counted per kind,
\* however that call was answered (a 501 changed the order, a 404 did not).
Lines(history, entry) == {i \in DOMAIN history : history[i] = entry}
Reachers(k, o) == {r \in Requests : obj[r] = k /\ op[r] = o}
NoLostUpdate ==
    \A k \in Requests : heap[k] # NoOrder => \A o \in Changes :
        Cardinality(Lines(heap[k].history, StatusAfter(o))) = Cardinality(Reachers(k, o))

\* An order leaves the store for one of three reasons: it is older than -order-ttl
\* (the reaper), it is an oldest one and the map is full, the only one to leave
\* in that step (put), or another order was given the same identifier.
JustifiedRemovals ==
    \A id \in Held : byID'[id] # byID[id] =>
        \/ byID'[id] # Nil
        \/ now - heap[byID[id]].createdAt > TTL
        \/ /\ Cardinality(Held) >= OrderMax /\ id \in Oldest
           /\ \A other \in Held \ {id} : byID'[other] # Nil
RemovalJustified == [][JustifiedRemovals]_vars

\* Entries expire so a long load test cannot grow unbounded: every order stored
\* is at some point no longer stored, even if no call comes any more.
Stored(k) == \E id \in OrderIDs : byID[id] = k
EventuallyForgotten == \A k \in Requests : Stored(k) ~> ~Stored(k)

\* The registry the goroutines, pointers and copies implement: a call takes effect
\* when it holds the lock, and what it is told later is what it saw then.
Registry == INSTANCE OrderRegistry WITH
    Pending <- Nil,
    registry <- [id \in OrderIDs |-> IF byID[id] = Nil THEN <<>> ELSE heap[byID[id]].history],
    outcome <- [r \in Requests |-> IF op[r] \in Changes \cup {"OrderRetrieve"} THEN snap[r].history
                                   ELSE IF code[r] = 404 THEN <<>> ELSE Nil]

\* The store implements the registry: each step of the code is one of its steps or
\* none (get, mutate, put, reap and the delayed answers are linearizable).
ImplementsRegistry == Registry!RegistrySpec

--------------------------------------------------------------------------------
(* The inductive invariant behind the theorems of OrderStoreProofs *)

\* The map holds an order under the identifier the order carries, so no two
\* identifiers lead to one object, and only once its handler has put it there.
PointersOK ==
    \A id \in Held : /\ heap[byID[id]].id = id
                     /\ op[byID[id]] = "OrderCreate" /\ pc[byID[id]] \notin {"idle", "built"}

\* What the progress of a call says of its order, its object and its copy.
CallsOK ==
    \A r \in Requests :
        /\ pc[r] = "idle" => op[r] = "none" /\ code[r] = 0
        /\ pc[r] = "sleeping" => op[r] # "none" /\ code[r] = 0
        /\ pc[r] \in {"built", "copying"} => op[r] = "OrderCreate" /\ code[r] = 0
        /\ pc[r] = "built" => heap[r].history = <<"Created">>
        /\ pc[r] = "copying" => snap[r].id = heap[r].id
        /\ op[r] = "none" => obj[r] = Nil
        /\ op[r] # "none" => obj[r] \in Requests /\ op[obj[r]] = "OrderCreate" /\ code[r] # 404
        /\ op[r] = "OrderCreate" => obj[r] = r /\ heap[r].id # NoID /\ heap[r].history # <<>>
        /\ op[r] # "OrderCreate" => heap[r] = NoOrder
        /\ op[r] = "none" \/ (op[r] = "OrderCreate" /\ pc[r] \in {"built", "sleeping"})
              => snap[r] = NoOrder

\* The cut of a sweep under way is no younger than -order-ttl.
CutOK == reaper = "sweeping" => cut <= now - TTL

IInv == TypeOK /\ CapacityBound /\ PointersOK /\ CallsOK /\ CutOK /\ SnapshotsArePast /\ OwnChangeLast
================================================================================
