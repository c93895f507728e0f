------------------------------- MODULE Replicas -------------------------------
(***************************************************************************)
(* Several replicas behind a load balancer (orders.go, lookup in           *)
(* handlers.go).  An order lives in the memory of the replica that created *)
(* it and its identifier carries that replica's address; a replica that    *)
(* does not hold an order forwards the call there once, marked, and relays *)
(* the answer.                                                             *)
(*                                                                         *)
(* A call is served by a chain of handlers: (c, 1) runs on the replica the *)
(* client reached and (c, d + 1) is the one handler (c, d) forwarded to.   *)
(* Each is a goroutine of its own, so one goes on when the other gives up. *)
(* The store of a replica is the registry OrderStore implements: one step  *)
(* per access.  Replicas crash and restart empty at the same address.      *)
(***************************************************************************)
EXTENDS Integers, FiniteSets, SequencesExt

CONSTANTS
    Replica,       \* replicas of the mock
    Calls,         \* client calls
    Address,       \* host:port strings
    NoAddress,     \* the empty string
    Advertise,     \* -advertise of each replica, possibly NoAddress
    ReplicaAt,     \* the replica that listens at each address
    Peers,         \* the addresses the -peers name resolves to
    DNSMayFail,    \* whether LookupHost may fail or leave an address out
    Crafted,       \* identifiers clients send that no replica minted
    MaxOrders,     \* bound: orders minted
    MaxCrashes,    \* bound: crashes
    MaxHops        \* bound: handlers of one call

ASSUME AddressAssumption == /\ NoAddress \notin Address /\ Peers \subseteq Address
                            /\ Advertise \in [Replica -> Address \cup {NoAddress}]
                            /\ ReplicaAt \in [Address -> Replica]
ASSUME ReplicaAssumption == Replica # {}
ASSUME SwitchAssumption == DNSMayFail \in BOOLEAN
ASSUME HopsAssumption == MaxHops \in Nat \ {0}
ASSUME CountsAssumption == MaxOrders \in Nat /\ MaxCrashes \in Nat

\* An identifier: the random part, and the owner's address in its suffix
OrderID == [n : 0..MaxOrders, owner : Address \cup {NoAddress}]
ASSUME CraftedAssumption == Crafted \subseteq OrderID /\ \A id \in Crafted : id.n = 0

Hops == 1..MaxHops
Handler == Calls \X Hops

VARIABLES
    store,    \* per replica, the calls that made each order what it is; <<>> if not held
    up,       \* the replicas that are running
    crashes,  \* crashes so far
    fate,     \* of each identifier: unborn, held, forgotten or lost in a crash
    want,     \* what each call asks for
    at,       \* the replica each handler runs on
    marker,   \* X-Mock-Forwarded of the request each handler serves
    pc,       \* where each handler is
    code,     \* the status each handler answers with
    snap,     \* the order each handler answers with
    applied,  \* how many times each call created or changed an order
    seen      \* the calls answered before each call was sent

callVars == <<want, at, marker, pc, code, snap, applied, seen>>
vars == <<store, up, crashes, fate, callVars>>

Reads == {"OrderRetrieve"}
Writes == {"OrderChange"}   \* OrderChange and OrderCancel alike: lookup with a function
Request == [op : {"OrderCreate"} \cup Reads \cup Writes, id : OrderID]

Minted == {id \in OrderID : fate[id] # "unborn"}
Creating == {c \in Calls : want[c].op = "OrderCreate"}
Answered == {c \in Calls : pc[<<c, 1>>] = "done"}

NoID == [n |-> 0, owner |-> NoAddress]
AnyReplica == CHOOSE p \in Replica : TRUE

--------------------------------------------------------------------------------

Init ==
    /\ store = [p \in Replica |-> [id \in OrderID |-> <<>>]]
    /\ up = Replica /\ crashes = 0
    /\ fate = [id \in OrderID |-> "unborn"]
    /\ want = [c \in Calls |-> [op |-> "OrderRetrieve", id |-> NoID]]
    /\ at = [h \in Handler |-> AnyReplica]
    /\ marker = [h \in Handler |-> NoAddress]
    /\ pc = [h \in Handler |-> "none"]
    /\ code = [h \in Handler |-> 0]
    /\ snap = [h \in Handler |-> <<>>]
    /\ applied = [c \in Calls |-> 0]
    /\ seen = [c \in Calls |-> {}]

\* A client sends a call to whatever replica the balancer picks.  It names an
\* identifier some replica minted, or one it made up.
Send(c, p, op, id) ==
    /\ pc[<<c, 1>>] = "none" /\ p \in up
    /\ op = "OrderCreate" \/ id \in Minted \cup Crafted
    /\ op = "OrderCreate" => id = NoID /\ Cardinality(Creating) < MaxOrders
    /\ want' = [want EXCEPT ![c] = [op |-> op, id |-> id]]
    /\ at' = [at EXCEPT ![<<c, 1>>] = p]
    /\ pc' = [pc EXCEPT ![<<c, 1>>] = "arrived"]
    /\ seen' = [seen EXCEPT ![c] = Answered]
    /\ UNCHANGED <<store, up, crashes, fate, marker, code, snap, applied>>

\* The body cannot be read, or names no offer or order.
Refuse(h) ==
    /\ pc[h] = "arrived"
    /\ code' = [code EXCEPT ![h] = 400]
    /\ pc' = [pc EXCEPT ![h] = "done"]
    /\ UNCHANGED <<store, up, crashes, fate, want, at, marker, snap, applied, seen>>

\* orderCreate: a new identifier, with the replica's own address when it has one.
\* (That a random identifier may repeat is in OrderStore.)
Create(h) ==
    LET c == h[1]
        p == at[h]
    IN  /\ pc[h] = "arrived" /\ want[c].op = "OrderCreate"
        /\ \E n \in 1..MaxOrders :
              LET id == [n |-> n, owner |-> Advertise[p]]
              IN  /\ fate[id] = "unborn"
                  /\ store' = [store EXCEPT ![p][id] = <<c>>]
                  /\ fate' = [fate EXCEPT ![id] = "held"]
                  /\ want' = [want EXCEPT ![c].id = id]
        /\ applied' = [applied EXCEPT ![c] = @ + 1]
        /\ snap' = [snap EXCEPT ![h] = <<c>>]
        /\ code' = [code EXCEPT ![h] = 201]
        /\ pc' = [pc EXCEPT ![h] = "sleeping"]
        /\ UNCHANGED <<up, crashes, at, marker, seen>>

\* lookup finds the order in this replica's store: get, or mutate, with its copy.
FindCopy(h) ==          \* fault: the owner changes the copy and not the order
    LET c == h[1]
        order == store[at[h]][want[c].id]
    IN  /\ pc[h] = "arrived" /\ want[c].op # "OrderCreate" /\ order # <<>>
        /\ applied' = IF want[c].op \in Writes THEN [applied EXCEPT ![c] = @ + 1] ELSE applied
        /\ snap' = [snap EXCEPT ![h] = IF want[c].op \in Writes THEN Append(order, c) ELSE order]
        /\ code' = [code EXCEPT ![h] = 200]
        /\ pc' = [pc EXCEPT ![h] = "sleeping"]
        /\ UNCHANGED <<store, up, crashes, fate, want, at, marker, seen>>
Find(h) ==
    LET c == h[1]
        p == at[h]
        id == want[c].id
        after == IF want[c].op \in Writes THEN Append(store[p][id], c) ELSE store[p][id]
    IN  /\ pc[h] = "arrived" /\ want[c].op # "OrderCreate"
        /\ store[p][id] # <<>>
        /\ store' = [store EXCEPT ![p][id] = after]
        /\ applied' = IF want[c].op \in Writes THEN [applied EXCEPT ![c] = @ + 1] ELSE applied
        /\ snap' = [snap EXCEPT ![h] = after]
        /\ code' = [code EXCEPT ![h] = 200]
        /\ pc' = [pc EXCEPT ![h] = "sleeping"]
        /\ UNCHANGED <<up, crashes, fate, want, at, marker, seen>>

\* lookup misses and the identifier names another replica: the condition of the
\* forward, apart from what the resolver answers.
NamesOtherAgain(h) ==   \* fault: the marker is not looked at
    LET owner == want[h[1]].id.owner
    IN  owner # NoAddress /\ owner # Advertise[at[h]] /\ owner \in Peers
NamesOtherMarked(h) ==  \* fault: the test of the marker is inverted
    LET owner == want[h[1]].id.owner
    IN  owner # NoAddress /\ owner # Advertise[at[h]] /\ marker[h] # NoAddress /\ owner \in Peers
NamesOther(h) ==
    LET owner == want[h[1]].id.owner
    IN  /\ owner # NoAddress /\ owner # Advertise[at[h]]
        /\ marker[h] = NoAddress
        /\ owner \in Peers

Misses(h) == /\ pc[h] = "arrived" /\ want[h[1]].op # "OrderCreate"
             /\ store[at[h]][want[h[1]].id] = <<>>

\* forward: the request is replayed against the owner, marked with this replica's
\* own address.  It arrives, or is lost with the owner down or on the way.
Forward(h) ==
    LET next == <<h[1], h[2] + 1>>
        to == ReplicaAt[want[h[1]].id.owner]
    IN  /\ Misses(h) /\ NamesOther(h) /\ h[2] < MaxHops
        /\ \/ to \in up /\ pc' = [pc EXCEPT ![h] = "forwarding", ![next] = "arrived"]
           \/ pc' = [pc EXCEPT ![h] = "forwarding", ![next] = "lost"]
        /\ at' = [at EXCEPT ![next] = to]
        /\ marker' = [marker EXCEPT ![next] = Advertise[at[h]]]
        /\ UNCHANGED <<store, up, crashes, fate, want, code, snap, applied, seen>>

\* Otherwise the answer is 404.
NotFound(h) ==
    /\ Misses(h) /\ (NamesOther(h) => DNSMayFail)
    /\ code' = [code EXCEPT ![h] = 404]
    /\ pc' = [pc EXCEPT ![h] = "done"]
    /\ UNCHANGED <<store, up, crashes, fate, want, at, marker, snap, applied, seen>>

\* The delay is over and the handler answers with its copy, or with 501 when the
\* message version asked for has no mapping: by then the order is changed.
Reply(h) ==
    /\ pc[h] = "sleeping"
    /\ pc' = [pc EXCEPT ![h] = "done"]
    /\ code' \in {code, [code EXCEPT ![h] = 501]}
    /\ UNCHANGED <<store, up, crashes, fate, want, at, marker, snap, applied, seen>>

\* The owner has answered and its status, headers and body are relayed as they are.
Relay(h) ==
    LET next == <<h[1], h[2] + 1>>
    IN  /\ pc[h] = "forwarding" /\ h[2] < MaxHops /\ pc[next] = "done"
        /\ code' = [code EXCEPT ![h] = code[next]]
        /\ snap' = [snap EXCEPT ![h] = snap[next]]
        /\ pc' = [pc EXCEPT ![h] = "done"]
        /\ UNCHANGED <<store, up, crashes, fate, want, at, marker, applied, seen>>

\* peerClient.Do fails: the owner is down, the connection breaks, or the timeout
\* runs out before the answer is in, wherever the owner's handler then is.
GiveUpAsNotFound(h) ==  \* fault: the failed forward falls through to the 404
    /\ pc[h] = "forwarding"
    /\ code' = [code EXCEPT ![h] = 404]
    /\ pc' = [pc EXCEPT ![h] = "done"]
    /\ UNCHANGED <<store, up, crashes, fate, want, at, marker, snap, applied, seen>>
GiveUpAfterAnswer(h) == \* fault: no timeout, and a broken connection goes unnoticed
    /\ pc[h] = "forwarding" /\ pc[<<h[1], h[2] + 1>>] = "done"
    /\ code' = [code EXCEPT ![h] = 502]
    /\ pc' = [pc EXCEPT ![h] = "done"]
    /\ UNCHANGED <<store, up, crashes, fate, want, at, marker, snap, applied, seen>>
GiveUp(h) ==
    /\ pc[h] = "forwarding"
    /\ code' = [code EXCEPT ![h] = 502]
    /\ pc' = [pc EXCEPT ![h] = "done"]
    /\ UNCHANGED <<store, up, crashes, fate, want, at, marker, snap, applied, seen>>

\* An order expires or is evicted (put's eviction included: the registry's Forget).
Forget(p, id) ==
    /\ store[p][id] # <<>>
    /\ store' = [store EXCEPT ![p][id] = <<>>]
    /\ fate' = [fate EXCEPT ![id] = "forgotten"]
    /\ UNCHANGED <<up, crashes, callVars>>

\* A replica crashes: its orders and its handlers are gone.
Crash(p) ==
    /\ p \in up /\ crashes < MaxCrashes
    /\ up' = up \ {p}
    /\ crashes' = crashes + 1
    /\ store' = [store EXCEPT ![p] = [id \in OrderID |-> <<>>]]
    /\ fate' = [id \in OrderID |-> IF store[p][id] # <<>> THEN "lost" ELSE fate[id]]
    /\ pc' = [h \in Handler |-> IF at[h] = p /\ pc[h] \in {"arrived", "forwarding", "sleeping"}
                                THEN "lost" ELSE pc[h]]
    /\ UNCHANGED <<want, at, marker, code, snap, applied, seen>>

\* It comes back, empty, at the address it had.
Restart(p) ==
    /\ p \notin up
    /\ up' = up \cup {p}
    /\ UNCHANGED <<store, crashes, fate, callVars>>

Serve(h) ==
    \/ Refuse(h) \/ Create(h) \/ Find(h) \/ Forward(h) \/ NotFound(h)
    \/ Reply(h) \/ Relay(h) \/ GiveUp(h)

Next ==
    \/ \E c \in Calls, p \in Replica, op \in {"OrderCreate"} \cup Reads \cup Writes,
          id \in OrderID : Send(c, p, op, id)
    \/ \E h \in Handler : Serve(h)
    \/ \E p \in Replica : Crash(p) \/ Restart(p) \/ \E id \in OrderID : Forget(p, id)

\* Every handler goes on: the scheduler runs it, its delay ends and peerClient's
\* timeout runs out.  No replica has to restart and no order has to be forgotten.
Fairness == \A h \in Handler : WF_vars(Serve(h))

Spec == Init /\ [][Next]_vars /\ Fairness

--------------------------------------------------------------------------------
(* Properties *)

\* Every variable stays in its type.
TypeOK ==
    /\ store \in [Replica -> [OrderID -> Seq(Calls)]]
    /\ up \subseteq Replica /\ crashes \in 0..MaxCrashes
    /\ fate \in [OrderID -> {"unborn", "held", "forgotten", "lost"}]
    /\ want \in [Calls -> Request]
    /\ at \in [Handler -> Replica]
    /\ marker \in [Handler -> Address \cup {NoAddress}]
    /\ pc \in [Handler -> {"none", "arrived", "forwarding", "sleeping", "done", "lost"}]
    /\ code \in [Handler -> {0, 200, 201, 400, 404, 501, 502}]
    /\ snap \in [Handler -> Seq(Calls)]
    /\ applied \in [Calls -> Nat]
    /\ seen \in [Calls -> SUBSET Calls]

\* The marker header stops a request from bouncing between replicas: no call is
\* forwarded a second time, wherever its identifier points and whatever address the
\* replicas are reached at (forward's comment in orders.go).
AtMostOneForward == \A h \in Handler : h[2] > 2 => pc[h] = "none"

\* What the client is told agrees with what happened to the order, over both hops:
\* a call is applied at most once, one that was answered 400 or 404 not at all, a
\* write that was answered 200, 201 or 501 exactly once.  A 502 tells nothing.
AnswersTellEffect ==
    \A c \in Calls :
        /\ applied[c] <= 1
        /\ c \in Answered /\ code[<<c, 1>>] \in {400, 404} => applied[c] = 0
        /\ c \in Answered /\ code[<<c, 1>>] \in {200, 201, 501} =>
              (applied[c] = 1 <=> want[c].op \notin Reads)

\* State stays in one place: a change through one replica is what a later call
\* through another sees, as long as it sees the order at all.
LaterCallsSeeEarlier ==
    \A c \in Calls : \A b \in seen[c] :
        /\ c \in Answered /\ want[b].id = want[c].id
        /\ code[<<b, 1>>] \in {200, 201} /\ code[<<c, 1>>] \in {200, 201}
        => IsPrefix(snap[<<b, 1>>], snap[<<c, 1>>])

\* An order that was created is found through every replica until it expires, is
\* evicted or lost in a crash: nobody is told 404 while its owner holds it.
FoundThroughEveryReplica ==
    \A c \in Calls :
        /\ c \in Answered /\ code[<<c, 1>>] = 404
        /\ want[c].id \notin Crafted
        => fate[want[c].id] # "held"

\* Every call that reached a replica is answered, unless that replica crashes, even
\* when the owner it was forwarded to never answers.
EveryCallAnswered ==
    \A c \in Calls : pc[<<c, 1>>] = "arrived" ~> pc[<<c, 1>>] \in {"done", "lost"}
================================================================================
