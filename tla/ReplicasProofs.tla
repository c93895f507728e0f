----------------------------- MODULE ReplicasProofs -----------------------------
(***************************************************************************)
(* Proofs about Replicas: its types; that a call is forwarded at most once *)
(* when every replica advertises an address; that what a client is told    *)
(* agrees with what happened; that a call sees what the calls answered     *)
(* before it was sent have done to its order, through whichever replica;   *)
(* and that nobody is told 404 while an order is held, if replicas         *)
(* advertise addresses of their own that the resolver knows.  A handler is *)
(* written <<c, d>> here, so that the provers see the call and the hop.    *)
(***************************************************************************)
EXTENDS Replicas, SequenceTheorems, TLAPS

USE DEF Handler, Hops

\* The address an identifier names is one, and its number is in range.
LEMMA NoIDType == NoID \in OrderID
  BY CountsAssumption, SMT DEF NoID, OrderID

LEMMA ReplicaPicked == AnyReplica \in Replica
  BY ReplicaAssumption DEF AnyReplica

LEMMA MintedType ==
    ASSUME NEW p \in Replica, NEW n \in 1..MaxOrders
    PROVE  [n |-> n, owner |-> Advertise[p]] \in OrderID
  BY AddressAssumption, CountsAssumption, SMT DEF OrderID

LEMMA CallSeq == ASSUME NEW c \in Calls PROVE <<c>> \in Seq(Calls)
  OBVIOUS

LEMMA TypeInit == Init => TypeOK
  <1> SUFFICES ASSUME Init PROVE TypeOK
    OBVIOUS
  <1>0. <<>> \in Seq(Calls)
    OBVIOUS
  <1>1. store \in [Replica -> [OrderID -> Seq(Calls)]]
    BY <1>0 DEF Init
  <1>2. up \subseteq Replica /\ crashes \in 0..MaxCrashes
    BY CountsAssumption DEF Init
  <1>3. want \in [Calls -> Request]
    BY NoIDType DEF Init, Request, Reads
  <1>4. at \in [Handler -> Replica]
    BY ReplicaPicked DEF Init
  <1>5. /\ fate \in [OrderID -> {"unborn", "held", "forgotten", "lost"}]
        /\ marker \in [Handler -> Address \cup {NoAddress}]
        /\ pc \in [Handler -> {"none", "arrived", "forwarding", "sleeping", "done", "lost"}]
    BY DEF Init
  <1>6. code \in [Handler -> {0, 200, 201, 400, 404, 501, 502}] /\ applied \in [Calls -> Nat]
    BY DEF Init
  <1>7. snap \in [Handler -> Seq(Calls)] /\ seen \in [Calls -> SUBSET Calls]
    BY <1>0 DEF Init
  <1> QED
    BY <1>1, <1>2, <1>3, <1>4, <1>5, <1>6, <1>7 DEF TypeOK

LEMMA TypeStep == TypeOK /\ [Next]_vars => TypeOK'
  <1> SUFFICES ASSUME TypeOK, [Next]_vars PROVE TypeOK'
    OBVIOUS
  <1> USE DEF TypeOK
  <1>1. ASSUME NEW c \in Calls, NEW p \in Replica,
               NEW op \in {"OrderCreate"} \cup Reads \cup Writes, NEW id \in OrderID,
               Send(c, p, op, id)
        PROVE  TypeOK'
    <2>1. want' \in [Calls -> Request]
      BY <1>1 DEF Send, Request
    <2>2. seen' \in [Calls -> SUBSET Calls]
      BY <1>1 DEF Send, Answered
    <2> QED
      BY <1>1, <2>1, <2>2, HopsAssumption DEF Send
  <1>2. ASSUME NEW h \in Handler, Serve(h) PROVE TypeOK'
    <2> DEFINE c == h[1]
               next == <<h[1], h[2] + 1>>
    <2>a. h[1] \in Calls /\ h[2] \in 1..MaxHops
      OBVIOUS
    <2>b. want[c] \in Request /\ at[h] \in Replica
      BY <2>a
    <2>0. /\ c \in Calls /\ want[c].id \in OrderID /\ at[h] \in Replica
          /\ want[c].op \in {"OrderCreate"} \cup Reads \cup Writes
      BY <2>a, <2>b DEF Request
    <2>1. CASE Refuse(h)
      BY <2>0, <2>1 DEF Refuse
    <2>2. CASE Create(h)
      <3>1. PICK n \in 1..MaxOrders :
              LET id == [n |-> n, owner |-> Advertise[at[h]]]
              IN  /\ store' = [store EXCEPT ![at[h]][id] = <<c>>]
                  /\ fate' = [fate EXCEPT ![id] = "held"]
                  /\ want' = [want EXCEPT ![c].id = id]
        BY <2>0, <2>2 DEF Create
      <3> DEFINE id == [n |-> n, owner |-> Advertise[at[h]]]
      <3>0. id \in OrderID
        BY <2>0, MintedType
      <3>2. want' \in [Calls -> Request]
        <4>1. [want[c] EXCEPT !.id = id] \in Request
          BY <2>0, <2>b, <3>0 DEF Request
        <4> HIDE DEF id
        <4> QED
          BY <2>0, <3>1, <4>1 DEF id
      <3>3. store' \in [Replica -> [OrderID -> Seq(Calls)]]
        <4>1. <<c>> \in Seq(Calls)
          BY <2>0, CallSeq
        <4>2. store' = [store EXCEPT ![at[h]][id] = <<c>>]
          BY <3>1
        <4> HIDE DEF id
        <4> QED
          BY <2>0, <3>0, <4>1, <4>2
      <3>4. fate' \in [OrderID -> {"unborn", "held", "forgotten", "lost"}]
        BY <3>1
      <3>5. applied' \in [Calls -> Nat] /\ code' \in [Handler -> {0, 200, 201, 400, 404, 501, 502}]
        BY <2>0, <2>2 DEF Create
      <3>6. /\ snap' \in [Handler -> Seq(Calls)]
            /\ pc' \in [Handler -> {"none", "arrived", "forwarding", "sleeping", "done", "lost"}]
        BY <2>0, <2>2, CallSeq DEF Create
      <3> QED
        BY <2>2, <3>2, <3>3, <3>4, <3>5, <3>6 DEF Create
    <2>3. CASE Find(h)
      <3> DEFINE after == IF want[c].op \in Writes THEN Append(store[at[h]][want[c].id], c)
                          ELSE store[at[h]][want[c].id]
      <3>1. after \in Seq(Calls)
        BY <2>0
      <3>2. store' \in [Replica -> [OrderID -> Seq(Calls)]] /\ snap' \in [Handler -> Seq(Calls)]
        <4> HIDE DEF after
        <4>1. store' = [store EXCEPT ![at[h]][want[c].id] = after] /\ snap' = [snap EXCEPT ![h] = after]
          BY <2>0, <2>3 DEF Find, after
        <4> QED
          BY <4>1, <3>1, <2>0
      <3>3. applied' \in [Calls -> Nat]
        BY <2>0, <2>3, SMTT(30) DEF Find
      <3>4. code' \in [Handler -> {0, 200, 201, 400, 404, 501, 502}]
        BY <2>3, SMTT(30) DEF Find
      <3> QED
        BY <2>3, <3>2, <3>3, <3>4, SMTT(30) DEF Find
    <2>4. CASE Forward(h)
      <3>1. want[c].id.owner \in Address
        BY <2>0, <2>4, AddressAssumption DEF Forward, NamesOther
      <3>2. ReplicaAt[want[c].id.owner] \in Replica /\ Advertise[at[h]] \in Address \cup {NoAddress}
        BY <2>0, <3>1, AddressAssumption
      <3> QED
        <4>1. marker' \in [Handler -> Address \cup {NoAddress}] /\ at' \in [Handler -> Replica]
          BY <2>4, <3>2, ZenonT(60) DEF Forward
        <4>2. pc' \in [Handler -> {"none", "arrived", "forwarding", "sleeping", "done", "lost"}]
          <5>1. \/ pc' = [pc EXCEPT ![h] = "forwarding", ![next] = "arrived"]
                \/ pc' = [pc EXCEPT ![h] = "forwarding", ![next] = "lost"]
            BY <2>4 DEF Forward
          <5>2. CASE pc' = [pc EXCEPT ![h] = "forwarding", ![next] = "arrived"]
            BY <5>2
          <5>3. CASE pc' = [pc EXCEPT ![h] = "forwarding", ![next] = "lost"]
            BY <5>3
          <5> QED
            BY <5>1, <5>2, <5>3
        <4> QED
          BY <2>4, <4>1, <4>2 DEF Forward
    <2>5. CASE NotFound(h)
      BY <2>0, <2>5 DEF NotFound
    <2>6. CASE Reply(h)
      <3>1. code' \in [Handler -> {0, 200, 201, 400, 404, 501, 502}]
        <4>1. code' = code \/ code' = [code EXCEPT ![h] = 501]
          BY <2>6 DEF Reply
        <4>2. CASE code' = code
          BY <4>2
        <4>3. CASE code' = [code EXCEPT ![h] = 501]
          BY <4>3
        <4> QED
          BY <4>1, <4>2, <4>3
      <3> QED
        BY <2>6, <3>1 DEF Reply
    <2>7. CASE Relay(h)
      <3>1. /\ code' = [code EXCEPT ![h] = code[next]]
            /\ snap' = [snap EXCEPT ![h] = snap[next]]
        BY <2>0, <2>7 DEF Relay
      <3>2. next \in Handler
        BY <2>a, <2>7, HopsAssumption DEF Relay
      <3>3. code' \in [Handler -> {0, 200, 201, 400, 404, 501, 502}] /\ snap' \in [Handler -> Seq(Calls)]
        BY <2>0, <3>1, <3>2
      <3> QED
        BY <2>0, <2>7, <3>3 DEF Relay
    <2>8. CASE GiveUp(h)
      BY <2>0, <2>8 DEF GiveUp
    <2> QED
      BY <1>2, <2>1, <2>2, <2>3, <2>4, <2>5, <2>6, <2>7, <2>8 DEF Serve
  <1>3. ASSUME NEW p \in Replica, Crash(p) PROVE TypeOK'
    <2>1. store' \in [Replica -> [OrderID -> Seq(Calls)]]
      BY <1>3 DEF Crash
    <2>2. /\ fate' \in [OrderID -> {"unborn", "held", "forgotten", "lost"}]
          /\ pc' \in [Handler -> {"none", "arrived", "forwarding", "sleeping", "done", "lost"}]
      BY <1>3 DEF Crash
    <2>3. up' \subseteq Replica /\ crashes' \in 0..MaxCrashes
      BY <1>3, CountsAssumption DEF Crash
    <2> QED
      BY <1>3, <2>1, <2>2, <2>3 DEF Crash
  <1>4. ASSUME NEW p \in Replica, Restart(p) PROVE TypeOK'
    BY <1>4 DEF Restart, callVars
  <1>5. ASSUME NEW p \in Replica, NEW id \in OrderID, Forget(p, id) PROVE TypeOK'
    <2>1. store' \in [Replica -> [OrderID -> Seq(Calls)]]
      BY <1>5 DEF Forget
    <2> QED
      BY <1>5, <2>1 DEF Forget, callVars
  <1>6. CASE UNCHANGED vars
    BY <1>6 DEF vars, callVars
  <1> QED
    BY <1>1, <1>2, <1>3, <1>4, <1>5, <1>6, ZenonT(60) DEF Next

\* The types of the replicas, the calls and their handlers hold in every behaviour.
THEOREM TypeCorrect == Spec => []TypeOK
  BY TypeInit, TypeStep, PTL DEF Spec

--------------------------------------------------------------------------------
(* One forward *)

\* A handler that another one forwarded to has the mark, and does not forward.
Marked ==
    /\ \A h \in Handler : h[2] > 1 /\ pc[h] # "none" => marker[h] # NoAddress
    /\ \A h \in Handler : h[2] > 2 => pc[h] = "none"

\* The call and the hop are all there is to a handler.
LEMMA HandlerParts ==
    ASSUME NEW h \in Handler
    PROVE  h[1] \in Calls /\ h[2] \in 1..MaxHops /\ h = <<h[1], h[2]>>
  OBVIOUS

LEMMA MarkedStep ==
    ASSUME \A p \in Replica : Advertise[p] # NoAddress, TypeOK, Marked, [Next]_vars
    PROVE  Marked'
  <1> USE DEF Marked
  <1>1. ASSUME NEW c \in Calls, NEW p \in Replica, NEW op, NEW id, Send(c, p, op, id)
        PROVE  Marked'
    BY <1>1, HopsAssumption DEF Send, TypeOK
  <1>2. ASSUME NEW h \in Handler, Forward(h) PROVE Marked'
    <2> DEFINE next == <<h[1], h[2] + 1>>
    <2>1. h[1] \in Calls /\ h[2] \in 1..MaxHops /\ at[h] \in Replica
      BY HandlerParts DEF TypeOK
    <2>2. next \in Handler /\ next[2] = h[2] + 1 /\ next # h
      BY <1>2, <2>1, HopsAssumption DEF Forward
    <2>3. h[2] = 1
      BY <1>2, <2>1 DEF Forward, Misses, NamesOther
    <2>4. marker'[next] # NoAddress
      BY <1>2, <2>1, <2>2 DEF Forward, TypeOK
    <2>5. \A g \in Handler : g # next => marker'[g] = marker[g]
      BY <1>2 DEF Forward, TypeOK
    <2>6. \A g \in Handler : g # next /\ g # h => pc'[g] = pc[g]
      BY <1>2 DEF Forward, TypeOK
    <2> HIDE DEF next
    <2> QED
      BY <2>1, <2>2, <2>3, <2>4, <2>5, <2>6
  <1>3. ASSUME NEW h \in Handler, pc[h] # "none", pc' = [pc EXCEPT ![h] = pc'[h]], marker' = marker
        PROVE  Marked'
    <2>1. \A g \in Handler : g # h => pc'[g] = pc[g]
      BY <1>3 DEF TypeOK
    <2> QED
      BY <1>3, <2>1
  <1>4. ASSUME NEW h \in Handler, Serve(h) PROVE Marked'
    <2>1. CASE Refuse(h)
      BY <2>1, <1>3 DEF Refuse, TypeOK
    <2>2. CASE Create(h)
      BY <2>2, <1>3 DEF Create, TypeOK
    <2>3. CASE Find(h)
      BY <2>3, <1>3 DEF Find, TypeOK
    <2>4. CASE NotFound(h)
      BY <2>4, <1>3 DEF NotFound, Misses, TypeOK
    <2>5. CASE Reply(h)
      BY <2>5, <1>3 DEF Reply, TypeOK
    <2>6. CASE Relay(h)
      BY <2>6, <1>3 DEF Relay, TypeOK
    <2>7. CASE GiveUp(h)
      BY <2>7, <1>3 DEF GiveUp, TypeOK
    <2> QED
      BY <1>2, <1>4, <2>1, <2>2, <2>3, <2>4, <2>5, <2>6, <2>7 DEF Serve
  <1>5. ASSUME NEW p \in Replica, Crash(p) PROVE Marked'
    BY <1>5 DEF Crash, TypeOK
  <1>6. ASSUME NEW p \in Replica, NEW id, Restart(p) \/ Forget(p, id) \/ UNCHANGED vars
        PROVE  Marked'
    BY <1>6 DEF Restart, Forget, vars, callVars
  <1> QED
    BY <1>1, <1>4, <1>5, <1>6, ReplicaAssumption DEF Next

\* When every replica advertises an address, no call is forwarded a second time,
\* whatever names stand for the replicas and whatever identifiers clients make up.
THEOREM ForwardedOnce ==
    (\A p \in Replica : Advertise[p] # NoAddress) => (Spec => []AtMostOneForward)
  <1> SUFFICES ASSUME \A p \in Replica : Advertise[p] # NoAddress
               PROVE  Spec => []AtMostOneForward
    OBVIOUS
  <1>1. Init => Marked
    BY DEF Init, Marked
  <1>2. TypeOK /\ Marked /\ [Next]_vars => Marked'
    BY MarkedStep
  <1>3. Marked => AtMostOneForward
    BY DEF Marked, AtMostOneForward
  <1> QED
    BY TypeCorrect, <1>1, <1>2, <1>3, PTL DEF Spec

--------------------------------------------------------------------------------
(* Answers and effects *)

SameCall(g, h) == g[1] = h[1]
Mutating(h) == want[h[1]].op \notin Reads
\* The handler answers, or is about to, with the order it created, read or changed
Told(h) == pc[h] = "sleeping" \/ (pc[h] = "done" /\ code[h] \in {200, 201, 501})
\* The handler answered that the call reached no order
Refused(h) == pc[h] = "done" /\ code[h] \in {400, 404}

\* While one handler of a call may still reach an order no other may, none has, and
\* none has told its caller that the call did or did not.
Effects ==
    /\ \A c \in Calls : applied[c] \in {0, 1} /\ (want[c].op \in Reads => applied[c] = 0)
    /\ \A h \in Handler :
          /\ pc[h] = "sleeping" => code[h] \in {200, 201}
          /\ pc[h] = "arrived" \/ (pc[h] = "none" /\ h[2] = 1) => applied[h[1]] = 0
          /\ Told(h) => (applied[h[1]] = 1 <=> Mutating(h))
          /\ Refused(h) => applied[h[1]] = 0
    /\ \A h, g \in Handler : SameCall(g, h) =>
          /\ pc[h] \in {"none", "arrived"} /\ g[2] > h[2] => pc[g] = "none"
          /\ Refused(h) => pc[g] # "arrived"

LEMMA EffectsInit == Init => Effects
  BY DEF Init, Effects, Told, Refused, Mutating, SameCall

\* A handler that has only arrived is the one place where its call can take effect.
LEMMA OnlyArrived ==
    ASSUME TypeOK, Effects, NEW h \in Handler, pc[h] = "arrived"
    PROVE  /\ applied[h[1]] = 0
           /\ \A g \in Handler : SameCall(g, h) /\ g # h =>
                 /\ pc[g] # "arrived" /\ ~ Refused(g)
                 /\ Told(g) => ~ Mutating(h)
                 /\ ~ (pc[g] = "none" /\ g[2] = 1)
  <1>1. applied[h[1]] = 0
    BY DEF Effects
  <1>2. ASSUME NEW g \in Handler, SameCall(g, h), g # h
        PROVE  /\ pc[g] # "arrived" /\ ~ Refused(g)
               /\ Told(g) => ~ Mutating(h)
               /\ ~ (pc[g] = "none" /\ g[2] = 1)
    <2>1. g[2] > h[2] \/ h[2] > g[2]
      BY <1>2, HandlerParts, HopsAssumption DEF SameCall
    <2>2. SameCall(h, g)
      BY <1>2 DEF SameCall
    <2>3. pc[g] # "arrived"
      BY <1>2, <2>1, <2>2 DEF Effects
    <2>4. ~ (pc[g] = "none" /\ g[2] = 1)
      BY <2>1, <2>2, HandlerParts, HopsAssumption DEF Effects
    <2>5. ~ Refused(g)
      BY <2>2 DEF Effects
    <2>6. Told(g) => ~ Mutating(h)
      BY <1>1, <1>2 DEF Effects, Mutating, SameCall
    <2> QED
      BY <2>3, <2>4, <2>5, <2>6
  <1> QED
    BY <1>1, <1>2

\* A handler that has arrived ends without having reached an order.
LEMMA EffectsEnd ==
    ASSUME TypeOK, Effects, NEW h \in Handler, NEW n \in {400, 404}, pc[h] = "arrived",
           pc' = [pc EXCEPT ![h] = "done"], code' = [code EXCEPT ![h] = n],
           UNCHANGED <<want, applied>>
    PROVE  Effects'
  <1>1. pc'[h] = "done" /\ code'[h] = n /\ \A g \in Handler : g # h => pc'[g] = pc[g] /\ code'[g] = code[g]
    BY DEF TypeOK
  <1>2. \A g \in Handler : SameCall(g, h) /\ g # h => pc[g] # "arrived"
    BY OnlyArrived
  <1> QED
    BY <1>1, <1>2 DEF Effects, Told, Refused, Mutating, SameCall

\* A handler that has arrived reaches the order: it creates, reads or changes it.
LEMMA EffectsReach ==
    ASSUME TypeOK, Effects, NEW h \in Handler, NEW n \in {200, 201}, pc[h] = "arrived",
           pc' = [pc EXCEPT ![h] = "sleeping"], code' = [code EXCEPT ![h] = n],
           applied' = IF Mutating(h) THEN [applied EXCEPT ![h[1]] = @ + 1] ELSE applied,
           \A c \in Calls : want'[c].op = want[c].op
    PROVE  Effects'
  <1>1. pc'[h] = "sleeping" /\ code'[h] = n /\ \A g \in Handler : g # h => pc'[g] = pc[g] /\ code'[g] = code[g]
    BY DEF TypeOK
  <1>2. /\ applied[h[1]] = 0 /\ h[1] \in Calls
        /\ \A g \in Handler : SameCall(g, h) /\ g # h =>
              /\ pc[g] # "arrived" /\ ~ Refused(g)
              /\ Told(g) => ~ Mutating(h)
              /\ ~ (pc[g] = "none" /\ g[2] = 1)
    BY OnlyArrived, HandlerParts
  <1>3. /\ applied'[h[1]] = IF Mutating(h) THEN 1 ELSE 0
        /\ \A c \in Calls : c # h[1] => applied'[c] = applied[c]
    BY <1>2 DEF TypeOK
  <1>4. \A c \in Calls : applied'[c] \in {0, 1} /\ (want'[c].op \in Reads => applied'[c] = 0)
    BY <1>2, <1>3 DEF Effects, Mutating
  <1>5. ASSUME NEW g \in Handler
        PROVE  /\ pc'[g] = "sleeping" => code'[g] \in {200, 201}
               /\ pc'[g] = "arrived" \/ (pc'[g] = "none" /\ g[2] = 1) => applied'[g[1]] = 0
               /\ Told(g)' => (applied'[g[1]] = 1 <=> Mutating(g)')
               /\ Refused(g)' => applied'[g[1]] = 0
    <2>1. CASE g = h
      BY <2>1, <1>1, <1>2, <1>3 DEF Told, Refused, Mutating
    <2>2. CASE g # h /\ SameCall(g, h)
      BY <2>2, <1>1, <1>2, <1>3 DEF Effects, Told, Refused, Mutating, SameCall
    <2>3. CASE ~ SameCall(g, h)
      <3>1. g # h /\ g[1] \in Calls /\ applied'[g[1]] = applied[g[1]] /\ want'[g[1]].op = want[g[1]].op
        BY <2>3, <1>3, HandlerParts DEF SameCall
      <3> QED
        BY <3>1, <1>1 DEF Effects, Told, Refused, Mutating
    <2> QED
      BY <2>1, <2>2, <2>3
  <1>6. ASSUME NEW f \in Handler, NEW g \in Handler, SameCall(g, f)
        PROVE  /\ pc'[f] \in {"none", "arrived"} /\ g[2] > f[2] => pc'[g] = "none"
               /\ Refused(f)' => pc'[g] # "arrived"
    BY <1>1, <1>2, <1>6 DEF Effects, Refused, SameCall
  <1> QED
    BY <1>4, <1>5, <1>6 DEF Effects, SameCall

LEMMA EffectsForward == ASSUME TypeOK, Effects, NEW h \in Handler, Forward(h) PROVE Effects'
  <1> DEFINE next == <<h[1], h[2] + 1>>
  <1>1. h[1] \in Calls /\ h[2] \in 1..MaxHops /\ next \in Handler
        /\ next[1] = h[1] /\ next[2] = h[2] + 1 /\ next # h
    BY HandlerParts, HopsAssumption DEF Forward
  <1>2. pc[h] = "arrived" /\ UNCHANGED <<want, code, applied>>
    BY DEF Forward, Misses
  <1>3. pc'[h] = "forwarding" /\ pc'[next] \in {"arrived", "lost"}
    BY <1>1 DEF Forward, TypeOK
  <1>4. \A g \in Handler : g # h /\ g # next => pc'[g] = pc[g]
    BY DEF Forward, TypeOK
  <1>5. /\ applied[h[1]] = 0
        /\ \A g \in Handler : SameCall(g, h) /\ g # h => pc[g] # "arrived" /\ ~ Refused(g)
    BY <1>2, OnlyArrived
  <1>6. \A g \in Handler : SameCall(g, h) /\ g[2] > h[2] => pc[g] = "none"
    BY <1>2 DEF Effects
  <1> HIDE DEF next
  <1>7. ASSUME NEW g \in Handler
        PROVE  /\ pc'[g] = "sleeping" => code'[g] \in {200, 201}
               /\ pc'[g] = "arrived" \/ (pc'[g] = "none" /\ g[2] = 1) => applied'[g[1]] = 0
               /\ Told(g)' => (applied'[g[1]] = 1 <=> Mutating(g)')
               /\ Refused(g)' => applied'[g[1]] = 0
    BY <1>1, <1>2, <1>3, <1>4, <1>5 DEF Effects, Told, Refused, Mutating
  <1>8. ASSUME NEW f \in Handler, NEW g \in Handler, SameCall(g, f)
        PROVE  /\ pc'[f] \in {"none", "arrived"} /\ g[2] > f[2] => pc'[g] = "none"
               /\ Refused(f)' => pc'[g] # "arrived"
    <2>1. CASE SameCall(f, h)
      <3>1. SameCall(g, h)
        BY <1>8, <2>1 DEF SameCall
      <3>2. f[2] \in Int /\ g[2] \in Int /\ h[2] \in Int
        BY <1>1, HandlerParts, HopsAssumption
      <3>3. f[2] = h[2] => f = h
        BY <2>1, HandlerParts DEF SameCall
      <3>4. g[2] = next[2] => g = next
        BY <3>1, <1>1, HandlerParts DEF SameCall
      <3>5. Refused(f)' => Refused(f)
        BY <1>2, <1>3, <1>4, <1>1 DEF Refused
      <3>6. Refused(f)' => pc'[g] # "arrived"
        BY <3>5, <1>5, <2>1, <1>2, <1>3 DEF Refused
      <3>7. pc'[f] \in {"none", "arrived"} /\ g[2] > f[2] => pc'[g] = "none"
        <4>1. SUFFICES ASSUME pc'[f] \in {"none", "arrived"}, g[2] > f[2] PROVE pc'[g] = "none"
          OBVIOUS
        <4>2. f[2] > h[2]
          <5>1. f # h
            BY <4>1, <1>3
          <5>2. f[2] # h[2]
            BY <5>1, <3>3
          <5>3. ~ (h[2] > f[2])
            <6>1. SUFFICES ASSUME h[2] > f[2] PROVE FALSE
              OBVIOUS
            <6>2. f # next
              BY <6>1, <1>1, <3>2
            <6>3. pc[f] \in {"none", "arrived"}
              BY <4>1, <5>1, <6>2, <1>4
            <6>4. pc[h] = "none"
              <7>1. SameCall(h, f)
                BY <2>1 DEF SameCall
              <7> QED
                BY <6>1, <6>3, <7>1 DEF Effects
            <6> QED
              BY <6>4, <1>2
          <5> QED
            BY <5>2, <5>3, <3>2
        <4>3. g[2] > h[2] /\ g # h /\ g # next
          BY <4>1, <4>2, <3>2, <1>1
        <4> QED
          BY <4>3, <3>1, <1>4, <1>6
      <3> QED
        BY <3>6, <3>7
    <2>2. CASE ~ SameCall(f, h)
      <3>1. f # h /\ f # next /\ g # h /\ g # next
        BY <1>8, <2>2, <1>1 DEF SameCall
      <3> QED
        BY <3>1, <1>8, <1>2, <1>4 DEF Effects, Refused
    <2> QED
      BY <2>1, <2>2
  <1> QED
    BY <1>2, <1>7, <1>8 DEF Effects, SameCall

\* What holds when handler h answers with status n
Honest(h, n) ==
    /\ n \in {200, 201, 501} => (applied[h[1]] = 1 <=> Mutating(h))
    /\ n \in {400, 404} => /\ applied[h[1]] = 0
                           /\ \A g \in Handler : SameCall(g, h) => pc[g] # "arrived"

\* A handler that is past the order answers; only Relay takes over an answer.
LEMMA EffectsAnswer ==
    ASSUME TypeOK, Effects, NEW h \in Handler, pc[h] \in {"sleeping", "forwarding"},
           pc' = [pc EXCEPT ![h] = "done"], code' = [code EXCEPT ![h] = code'[h]],
           UNCHANGED <<want, applied>>,
           Honest(h, code'[h])
    PROVE  Effects'
  <1>1. pc'[h] = "done" /\ \A g \in Handler : g # h => pc'[g] = pc[g] /\ code'[g] = code[g]
    BY DEF TypeOK
  <1>2. ASSUME NEW g \in Handler
        PROVE  /\ pc'[g] = "sleeping" => code'[g] \in {200, 201}
               /\ pc'[g] = "arrived" \/ (pc'[g] = "none" /\ g[2] = 1) => applied'[g[1]] = 0
               /\ Told(g)' => (applied'[g[1]] = 1 <=> Mutating(g)')
               /\ Refused(g)' => applied'[g[1]] = 0
    <2>1. CASE g = h
      BY <2>1, <1>1 DEF Told, Refused, Mutating, Honest
    <2>2. CASE g # h
      BY <2>2, <1>1 DEF Effects, Told, Refused, Mutating
    <2> QED
      BY <2>1, <2>2
  <1>3. ASSUME NEW f \in Handler, NEW g \in Handler, SameCall(g, f)
        PROVE  /\ pc'[f] \in {"none", "arrived"} /\ g[2] > f[2] => pc'[g] = "none"
               /\ Refused(f)' => pc'[g] # "arrived"
    <2>1. pc[h] # "none" /\ pc'[g] = "arrived" => pc[g] = "arrived"
      BY <1>1
    <2>2. pc'[f] \in {"none", "arrived"} /\ g[2] > f[2] => pc'[g] = "none"
      BY <1>1, <1>3 DEF Effects
    <2>3. CASE f = h
      BY <2>1, <2>2, <2>3, <1>1, <1>3 DEF Refused, Honest
    <2>4. CASE f # h
      BY <2>1, <2>2, <2>4, <1>1, <1>3 DEF Effects, Refused
    <2> QED
      BY <2>3, <2>4
  <1> QED
    BY <1>2, <1>3 DEF Effects, SameCall

LEMMA EffectsServe == ASSUME TypeOK, Effects, NEW h \in Handler, Serve(h) PROVE Effects'
  <1>0. h[1] \in Calls /\ want[h[1]].op \in {"OrderCreate"} \cup Reads \cup Writes
    BY HandlerParts DEF TypeOK, Request
  <1>1. CASE Refuse(h)
    BY <1>1, EffectsEnd, ZenonT(60) DEF Refuse
  <1>2. CASE NotFound(h)
    BY <1>2, EffectsEnd DEF NotFound, Misses
  <1>3. CASE Create(h)
    <2>1. Mutating(h) /\ \A c \in Calls : want'[c].op = want[c].op
      BY <1>0, <1>3 DEF Create, Mutating, Reads, TypeOK, Request
    <2> QED
      BY <1>3, <2>1, EffectsReach DEF Create
  <1>4. CASE Find(h)
    <2>1. Mutating(h) <=> want[h[1]].op \in Writes
      BY <1>0, <1>4 DEF Find, Mutating, Reads, Writes
    <2>2. applied' = IF Mutating(h) THEN [applied EXCEPT ![h[1]] = @ + 1] ELSE applied
      BY <1>4, <2>1 DEF Find
    <2> QED
      BY <1>4, <2>2, EffectsReach DEF Find
  <1>5. CASE Forward(h)
    BY <1>5, EffectsForward
  <1>6. CASE Reply(h)
    <2>1. code[h] \in {200, 201} /\ (applied[h[1]] = 1 <=> Mutating(h))
      BY <1>6 DEF Reply, Effects, Told
    <2>2. code' = [code EXCEPT ![h] = code'[h]] /\ code'[h] \in {200, 201, 501}
      BY <1>6, <2>1 DEF Reply, TypeOK
    <2>3. Honest(h, code'[h])
      BY <2>1, <2>2 DEF Honest
    <2>4. pc' = [pc EXCEPT ![h] = "done"] /\ UNCHANGED <<want, applied>> /\ pc[h] = "sleeping"
      BY <1>6 DEF Reply
    <2> QED
      BY <2>2, <2>3, <2>4, EffectsAnswer
  <1>7. CASE Relay(h)
    <2> DEFINE next == <<h[1], h[2] + 1>>
    <2>1. next \in Handler /\ next[1] = h[1] /\ pc[next] = "done"
      BY <1>7, HandlerParts, HopsAssumption DEF Relay
    <2>2. code' = [code EXCEPT ![h] = code'[h]] /\ code'[h] = code[next]
      BY <1>7 DEF Relay, TypeOK
    <2>3. Honest(h, code'[h])
      <3>1. code[next] \in {200, 201, 501} => (applied[h[1]] = 1 <=> Mutating(h))
        BY <2>1 DEF Effects, Told, Mutating
      <3>2. code[next] \in {400, 404} => /\ applied[h[1]] = 0
                                        /\ \A g \in Handler : SameCall(g, h) => pc[g] # "arrived"
        BY <2>1 DEF Effects, Refused, SameCall
      <3> QED
        BY <2>2, <3>1, <3>2 DEF Honest
    <2>4. pc' = [pc EXCEPT ![h] = "done"] /\ UNCHANGED <<want, applied>> /\ pc[h] = "forwarding"
      BY <1>7 DEF Relay
    <2> QED
      BY <2>2, <2>3, <2>4, EffectsAnswer
  <1>8. CASE GiveUp(h)
    <2>1. code' = [code EXCEPT ![h] = code'[h]] /\ code'[h] = 502
      BY <1>8 DEF GiveUp, TypeOK
    <2>2. Honest(h, code'[h])
      BY <2>1 DEF Honest
    <2>3. pc' = [pc EXCEPT ![h] = "done"] /\ UNCHANGED <<want, applied>> /\ pc[h] = "forwarding"
      BY <1>8 DEF GiveUp
    <2> QED
      BY <2>1, <2>2, <2>3, EffectsAnswer
  <1> QED
    BY <1>1, <1>2, <1>3, <1>4, <1>5, <1>6, <1>7, <1>8 DEF Serve

LEMMA EffectsSend ==
    ASSUME TypeOK, Effects, NEW c \in Calls, NEW p \in Replica, NEW op, NEW id, Send(c, p, op, id)
    PROVE  Effects'
  <1> DEFINE h == <<c, 1>>
  <1>1. h \in Handler /\ h[1] = c /\ h[2] = 1 /\ pc[h] = "none" /\ applied[c] = 0
    BY HopsAssumption DEF Send, Effects
  <1>2. \A g \in Handler : g[1] = c => pc[g] = "none"
    BY <1>1, HandlerParts DEF Effects, SameCall
  <1>3. pc' = [pc EXCEPT ![h] = "arrived"] /\ UNCHANGED <<code, applied>>
    BY DEF Send
  <1>4. \A b \in Calls : b # c => want'[b] = want[b]
    BY DEF Send, TypeOK
  <1> HIDE DEF h
  <1>5. pc'[h] = "arrived" /\ \A g \in Handler : g # h => pc'[g] = pc[g]
    BY <1>1, <1>3 DEF TypeOK
  <1>6. ASSUME NEW g \in Handler
        PROVE  /\ pc'[g] = "sleeping" => code'[g] \in {200, 201}
               /\ pc'[g] = "arrived" \/ (pc'[g] = "none" /\ g[2] = 1) => applied'[g[1]] = 0
               /\ Told(g)' => (applied'[g[1]] = 1 <=> Mutating(g)')
               /\ Refused(g)' => applied'[g[1]] = 0
    <2>1. CASE g[1] = c
      BY <2>1, <1>1, <1>2, <1>3, <1>5 DEF Told, Refused
    <2>2. CASE g[1] # c
      <3>1. g # h /\ want'[g[1]] = want[g[1]]
        BY <2>2, <1>1, <1>4, HandlerParts
      <3> QED
        BY <3>1, <1>3, <1>5 DEF Effects, Told, Refused, Mutating
    <2> QED
      BY <2>1, <2>2
  <1>7. ASSUME NEW f \in Handler, NEW g \in Handler, SameCall(g, f)
        PROVE  /\ pc'[f] \in {"none", "arrived"} /\ g[2] > f[2] => pc'[g] = "none"
               /\ Refused(f)' => pc'[g] # "arrived"
    <2>1. f[2] \in Nat \ {0} /\ g[2] \in Nat \ {0}
      BY HandlerParts, HopsAssumption
    <2>2. CASE f[1] = c
      BY <2>1, <2>2, <1>1, <1>2, <1>5, <1>7 DEF SameCall, Refused
    <2>3. CASE f[1] # c
      BY <2>3, <1>1, <1>3, <1>5, <1>7 DEF Effects, SameCall, Refused
    <2> QED
      BY <2>2, <2>3
  <1>8. \A b \in Calls : applied'[b] \in {0, 1} /\ (want'[b].op \in Reads => applied'[b] = 0)
    BY <1>1, <1>3, <1>4 DEF Effects
  <1> QED
    BY <1>6, <1>7, <1>8 DEF Effects, SameCall

LEMMA EffectsStep == TypeOK /\ Effects /\ [Next]_vars => Effects'
  <1> SUFFICES ASSUME TypeOK, Effects, [Next]_vars PROVE Effects'
    OBVIOUS
  <1>1. ASSUME NEW p \in Replica, Crash(p) PROVE Effects'
    <2>1. /\ UNCHANGED <<want, code, applied>>
          /\ \A g \in Handler : pc'[g] = pc[g] \/ (pc'[g] = "lost" /\ pc[g] # "none")
      BY <1>1 DEF Crash
    <2>2. \A g \in Handler : pc[g] = "none" => pc'[g] = "none"
      BY <2>1
    <2> QED
      BY <2>1, <2>2 DEF Effects, Told, Refused, Mutating, SameCall
  <1>2. ASSUME NEW p \in Replica, NEW id, Restart(p) \/ Forget(p, id) \/ UNCHANGED vars
        PROVE  Effects'
    BY <1>2 DEF Restart, Forget, vars, callVars, Effects, Told, Refused, Mutating, SameCall
  <1> QED
    BY <1>1, <1>2, EffectsSend, EffectsServe, ReplicaAssumption DEF Next

\* What a client is told agrees with what happened to the order, for any number of
\* replicas, calls, hops, crashes, lost and late answers.
THEOREM AnswersCorrect == Spec => []AnswersTellEffect
  <1>1. TypeOK /\ Effects => AnswersTellEffect
    <2> SUFFICES ASSUME TypeOK, Effects, NEW c \in Calls
                 PROVE  /\ applied[c] <= 1
                        /\ c \in Answered /\ code[<<c, 1>>] \in {400, 404} => applied[c] = 0
                        /\ c \in Answered /\ code[<<c, 1>>] \in {200, 201, 501} =>
                              (applied[c] = 1 <=> want[c].op \notin Reads)
      BY DEF AnswersTellEffect
    <2>1. <<c, 1>> \in Handler /\ <<c, 1>>[1] = c
      BY HopsAssumption
    <2>2. applied[c] <= 1
      BY DEF Effects
    <2> QED
      BY <2>1, <2>2 DEF Effects, Answered, Told, Refused, Mutating
  <1> QED
    BY <1>1, TypeCorrect, EffectsInit, EffectsStep, PTL DEF Spec

--------------------------------------------------------------------------------
(* Calls of one order, in the order they were sent *)

Named(h) == want[h[1]].id

--------------------------------------------------------------------------------
(* Where an order is *)

\* An order is held by one replica, the one its identifier names, or by none.
Placed ==
    /\ \A p \in Replica, id \in OrderID :
          store[p][id] # <<>> => fate[id] = "held" /\ id.owner = Advertise[p]
    /\ \A p, q \in Replica, id \in OrderID : store[p][id] # <<>> /\ store[q][id] # <<>> => p = q
    /\ \A id \in OrderID : fate[id] = "held" => \E p \in Replica : store[p][id] # <<>>

\* No order comes back, and none is unborn again.
Ageing ==
    \A id \in OrderID : /\ fate'[id] = "unborn" => fate[id] = "unborn"
                        /\ fate'[id] = "held" => fate[id] \in {"unborn", "held"}

LEMMA PlacedInit == Init => Placed
  BY DEF Init, Placed

LEMMA PlacedStep == TypeOK /\ Placed /\ [Next]_vars => Placed' /\ Ageing
  <1> SUFFICES ASSUME TypeOK, Placed, [Next]_vars PROVE Placed' /\ Ageing
    OBVIOUS
  <1>1. ASSUME UNCHANGED <<store, fate>> PROVE Placed' /\ Ageing
    BY <1>1 DEF Placed, Ageing
  <1>2. ASSUME NEW h \in Handler, Create(h) PROVE Placed' /\ Ageing
    <2> DEFINE p == at[h]
    <2>1. PICK id \in OrderID :
             /\ id.owner = Advertise[p] /\ fate[id] = "unborn"
             /\ store' = [store EXCEPT ![p][id] = <<h[1]>>]
             /\ fate' = [fate EXCEPT ![id] = "held"]
      <3>1. PICK n \in 1..MaxOrders :
               /\ fate[[n |-> n, owner |-> Advertise[p]]] = "unborn"
               /\ store' = [store EXCEPT ![p][[n |-> n, owner |-> Advertise[p]]] = <<h[1]>>]
               /\ fate' = [fate EXCEPT ![[n |-> n, owner |-> Advertise[p]]] = "held"]
        BY <1>2 DEF Create
      <3>2. [n |-> n, owner |-> Advertise[p]] \in OrderID
        BY MintedType DEF TypeOK
      <3> QED
        BY <3>1, <3>2
    <2>2. p \in Replica
      BY DEF TypeOK
    <2> HIDE DEF p
    <2>3. /\ store'[p][id] # <<>>
          /\ \A q \in Replica, i \in OrderID : q # p \/ i # id => store'[q][i] = store[q][i]
      <3>1. store'[p] = [store[p] EXCEPT ![id] = <<h[1]>>]
        BY <2>1, <2>2 DEF TypeOK
      <3>2. \A q \in Replica : q # p => store'[q] = store[q]
        BY <2>1, <2>2 DEF TypeOK
      <3>3. store[p] \in [OrderID -> Seq(Calls)]
        BY <2>2 DEF TypeOK
      <3>4. store'[p][id] = <<h[1]>>
        BY <3>1, <3>3
      <3> QED
        BY <3>1, <3>2, <3>3, <3>4
    <2>4. \A q \in Replica : store[q][id] = <<>>
      BY <2>1 DEF Placed
    <2>5. fate'[id] = "held" /\ \A i \in OrderID : i # id => fate'[i] = fate[i]
      BY <2>1 DEF TypeOK
    <2> QED
      BY <2>1, <2>2, <2>3, <2>4, <2>5 DEF Placed, Ageing
  <1>3. ASSUME NEW h \in Handler, Find(h) PROVE Placed' /\ Ageing
    <2> DEFINE p == at[h]
               id == want[h[1]].id
    <2>1. p \in Replica /\ id \in OrderID /\ h[1] \in Calls
      BY HandlerParts DEF TypeOK, Request
    <2>2. PICK after \in Seq(Calls) : store' = [store EXCEPT ![p][id] = after] /\ after # <<>>
      <3> DEFINE new == IF want[h[1]].op \in Writes THEN Append(store[p][id], h[1]) ELSE store[p][id]
      <3>1. store' = [store EXCEPT ![p][id] = new]
        BY <1>3 DEF Find
      <3>2. store[p][id] \in Seq(Calls) /\ store[p][id] # <<>>
        BY <1>3, <2>1 DEF Find, TypeOK
      <3>3. Append(store[p][id], h[1]) \in Seq(Calls) /\ Append(store[p][id], h[1]) # <<>>
        BY <2>1, <3>2, AppendProperties
      <3>4. new \in Seq(Calls) /\ new # <<>>
        BY <3>2, <3>3
      <3> HIDE DEF new
      <3> QED
        BY <3>1, <3>4
    <2>3. store[p][id] # <<>> /\ fate' = fate
      BY <1>3 DEF Find
    <2> HIDE DEF p, id
    <2>4. /\ store'[p][id] # <<>>
          /\ \A q \in Replica, i \in OrderID : q # p \/ i # id => store'[q][i] = store[q][i]
      <3>1. store'[p] = [store[p] EXCEPT ![id] = after] /\ \A q \in Replica : q # p => store'[q] = store[q]
        BY <2>1, <2>2 DEF TypeOK
      <3>2. store[p] \in [OrderID -> Seq(Calls)]
        BY <2>1 DEF TypeOK
      <3> QED
        BY <3>1, <3>2, <2>1, <2>2
    <2>5. \A q \in Replica, i \in OrderID : store'[q][i] # <<>> <=> store[q][i] # <<>>
      BY <2>1, <2>3, <2>4
    <2> QED
      BY <2>3, <2>5 DEF Placed, Ageing
  <1>4. ASSUME NEW p \in Replica, NEW id \in OrderID, Forget(p, id) PROVE Placed' /\ Ageing
    <2>1. /\ store[p][id] # <<>> /\ store' = [store EXCEPT ![p][id] = <<>>]
          /\ fate' = [fate EXCEPT ![id] = "forgotten"]
      BY <1>4 DEF Forget
    <2>2. /\ store'[p][id] = <<>>
          /\ \A q \in Replica, i \in OrderID : q # p \/ i # id => store'[q][i] = store[q][i]
      <3>1. store'[p] = [store[p] EXCEPT ![id] = <<>>] /\ \A q \in Replica : q # p => store'[q] = store[q]
        BY <2>1 DEF TypeOK
      <3>2. store[p] \in [OrderID -> Seq(Calls)]
        BY DEF TypeOK
      <3> QED
        BY <3>1, <3>2
    <2>3. fate'[id] = "forgotten" /\ \A i \in OrderID : i # id => fate'[i] = fate[i]
      BY <2>1 DEF TypeOK
    <2>4. \A q \in Replica : store'[q][id] = <<>>
      BY <2>1, <2>2 DEF Placed
    <2> QED
      BY <2>2, <2>3, <2>4 DEF Placed, Ageing
  <1>5. ASSUME NEW p \in Replica, Crash(p) PROVE Placed' /\ Ageing
    <2>1. /\ \A i \in OrderID : store'[p][i] = <<>>
          /\ \A q \in Replica : q # p => store'[q] = store[q]
          /\ \A i \in OrderID : fate'[i] = IF store[p][i] # <<>> THEN "lost" ELSE fate[i]
      BY <1>5 DEF Crash, TypeOK
    <2> QED
      BY <2>1 DEF Placed, Ageing
  <1>6. ASSUME NEW h \in Handler, Serve(h) PROVE Placed' /\ Ageing
    BY <1>1, <1>2, <1>3, <1>6 DEF Serve, Refuse, Forward, NotFound, Reply, Relay, GiveUp
  <1>7. ASSUME NEW c \in Calls, NEW p \in Replica, NEW op, NEW id, Send(c, p, op, id)
        PROVE  Placed' /\ Ageing
    BY <1>1, <1>7 DEF Send
  <1>8. ASSUME NEW p \in Replica, Restart(p) PROVE Placed' /\ Ageing
    BY <1>1, <1>8 DEF Restart
  <1>9. ASSUME UNCHANGED vars PROVE Placed' /\ Ageing
    BY <1>1, <1>9 DEF vars
  <1> QED
    BY <1>4, <1>5, <1>6, <1>7, <1>8, <1>9 DEF Next

--------------------------------------------------------------------------------
(* What calls see of an order *)

\* The handler answers, or is about to, with a copy of the order.
Shows(h) == pc[h] \in {"sleeping", "done"} /\ code[h] \in {200, 201}

\* A copy is of an order there is or was, of which all that is held goes on from it, and
\* goes on itself from what was answered before its call was sent.
Seen ==
    /\ \A h \in Handler : Shows(h) => fate[Named(h)] # "unborn"
    /\ \A h \in Handler, p \in Replica :
          Shows(h) /\ store[p][Named(h)] # <<>> => IsPrefix(snap[h], store[p][Named(h)])
    /\ \A h \in Handler : \A b \in seen[h[1]] :
          Shows(h) /\ Shows(<<b, 1>>) /\ want[b].id = Named(h) => IsPrefix(snap[<<b, 1>>], snap[h])
    /\ \A c \in Calls : \A b \in seen[c] : pc[<<b, 1>>] = "done"

LEMMA FirstHandler == \A c \in Calls : <<c, 1>> \in Handler /\ <<c, 1>>[1] = c /\ <<c, 1>>[2] = 1
  BY HopsAssumption

LEMMA PrefixSelf == \A s \in Seq(Calls) : IsPrefix(s, s)
  BY DEF IsPrefix

LEMMA PrefixAppend ==
    ASSUME NEW s \in Seq(Calls), NEW t \in Seq(Calls), NEW c \in Calls, IsPrefix(s, t)
    PROVE  IsPrefix(s, Append(t, c))
  <1>1. Len(s) \in Nat /\ Len(t) \in Nat /\ Len(s) <= Len(t)
    BY LenProperties DEF IsPrefix
  <1>2. Append(t, c) = t \o <<c>> /\ Len(Append(t, c)) = Len(t) + 1
    BY AppendIsConcat, AppendProperties
  <1>3. SubSeq(Append(t, c), 1, Len(s)) = SubSeq(t, 1, Len(s))
    <2>1. CASE Len(s) = 0
      BY <2>1, SubSeqEmpty
    <2>2. CASE Len(s) > 0
      <3>1. 1 \in 1..Len(t) /\ Len(s) \in 1..Len(t) /\ <<c>> \in Seq(Calls)
        BY <1>1, <2>2
      <3> QED
        BY <1>2, <3>1, SubSeqOfConcat1
    <2> QED
      BY <1>1, <2>1, <2>2
  <1> QED
    BY <1>1, <1>2, <1>3 DEF IsPrefix

LEMMA SeenInit == Init => Seen
  BY DEF Init, Seen, Shows

\* Steps that change no order: whoever shows a copy takes it from a handler of its call.
LEMMA SeenQuiet ==
    ASSUME TypeOK, Seen, Ageing, UNCHANGED <<want, seen>>,
           \A p \in Replica, id \in OrderID : store'[p][id] \in {store[p][id], <<>>},
           \A h \in Handler : Shows(h)' =>
               \E g \in Handler : g[1] = h[1] /\ Shows(g) /\ snap'[h] = snap[g],
           \A h \in Handler : pc[h] = "done" =>
               pc'[h] = "done" /\ snap'[h] = snap[h] /\ code'[h] = code[h]
    PROVE  Seen'
  <1>1. ASSUME NEW h \in Handler, Shows(h)'
        PROVE  /\ fate'[Named(h)'] # "unborn"
               /\ \A p \in Replica : store'[p][Named(h)'] # <<>> => IsPrefix(snap'[h], store'[p][Named(h)'])
               /\ \A b \in seen'[h[1]] :
                     Shows(<<b, 1>>)' /\ want'[b].id = Named(h)' => IsPrefix(snap'[<<b, 1>>], snap'[h])
    <2>1. PICK g \in Handler : g[1] = h[1] /\ Shows(g) /\ snap'[h] = snap[g]
      BY <1>1
    <2>2. Named(h)' = Named(g) /\ Named(g) \in OrderID
      BY <2>1, HandlerParts DEF Named, TypeOK, Request
    <2>3. fate'[Named(g)] # "unborn"
      BY <2>1, <2>2 DEF Seen, Ageing
    <2>4. \A p \in Replica : store'[p][Named(g)] # <<>> => IsPrefix(snap[g], store'[p][Named(g)])
      BY <2>1, <2>2 DEF Seen
    <2>5. ASSUME NEW b \in seen'[h[1]], Shows(<<b, 1>>)', want'[b].id = Named(h)'
          PROVE  IsPrefix(snap'[<<b, 1>>], snap'[h])
      <3>1. b \in seen[g[1]] /\ b \in Calls /\ g[1] \in Calls
        BY <2>1, <2>5, HandlerParts DEF TypeOK
      <3>2. <<b, 1>> \in Handler /\ pc[<<b, 1>>] = "done"
        BY <3>1, FirstHandler DEF Seen
      <3>3. Shows(<<b, 1>>) /\ snap'[<<b, 1>>] = snap[<<b, 1>>]
        BY <2>5, <3>2 DEF Shows
      <3> QED
        BY <2>1, <2>2, <2>5, <3>1, <3>3 DEF Seen
    <2> QED
      BY <2>1, <2>2, <2>3, <2>4, <2>5
  <1>2. \A c \in Calls : \A b \in seen'[c] : pc'[<<b, 1>>] = "done"
    <2>1. ASSUME NEW c \in Calls, NEW b \in seen[c] PROVE pc'[<<b, 1>>] = "done"
      <3>1. b \in Calls /\ <<b, 1>> \in Handler
        BY FirstHandler DEF TypeOK
      <3> QED
        BY <3>1 DEF Seen
    <2> QED
      BY <2>1
  <1> QED
    BY <1>1, <1>2 DEF Seen

\* The order is read or changed: its copies so far are prefixes of what it is now.
LEMMA SeenFind ==
    ASSUME TypeOK, Placed, Seen, NEW h \in Handler, Find(h) PROVE Seen'
  <1> DEFINE p == at[h]
             id == Named(h)
  <1>1. p \in Replica /\ id \in OrderID /\ h[1] \in Calls /\ store[p][id] \in Seq(Calls)
    BY HandlerParts DEF TypeOK, Request, Named
  <1>2. PICK after \in {store[p][id], Append(store[p][id], h[1])} :
           /\ store' = [store EXCEPT ![p][id] = after]
           /\ snap' = [snap EXCEPT ![h] = after]
    BY DEF Find, Named
  <1>3. /\ store[p][id] # <<>> /\ pc[h] = "arrived" /\ UNCHANGED <<fate, want, seen>>
        /\ pc' = [pc EXCEPT ![h] = "sleeping"] /\ code' = [code EXCEPT ![h] = 200]
    BY DEF Find, Named
  <1> HIDE DEF p, id
  <1>4. after \in Seq(Calls) /\ \A s \in Seq(Calls) : IsPrefix(s, store[p][id]) => IsPrefix(s, after)
    <2>1. CASE after = store[p][id]
      BY <1>1, <2>1
    <2>2. CASE after = Append(store[p][id], h[1])
      <3>1. after \in Seq(Calls)
        BY <1>1, <2>2, AppendProperties
      <3>2. ASSUME NEW s \in Seq(Calls), IsPrefix(s, store[p][id]) PROVE IsPrefix(s, after)
        BY <1>1, <2>2, <3>2, PrefixAppend
      <3> QED
        BY <3>1, <3>2
    <2> QED
      BY <1>2, <2>1, <2>2
  <1>5. /\ store'[p][id] = after
        /\ \A q \in Replica, i \in OrderID : q # p \/ i # id => store'[q][i] = store[q][i]
    <2>1. store'[p] = [store[p] EXCEPT ![id] = after] /\ \A q \in Replica : q # p => store'[q] = store[q]
      BY <1>1, <1>2 DEF TypeOK
    <2>2. store[p] \in [OrderID -> Seq(Calls)]
      BY <1>1 DEF TypeOK
    <2> QED
      BY <2>1, <2>2, <1>1
  <1>6. /\ snap'[h] = after /\ Named(h)' = id
        /\ \A g \in Handler : g # h => /\ pc'[g] = pc[g] /\ code'[g] = code[g] /\ snap'[g] = snap[g]
                                       /\ Named(g)' = Named(g)
    BY <1>2, <1>3, SMTT(30) DEF TypeOK, Named, id
  <1>7. \A g \in Handler : snap[g] \in Seq(Calls) /\ Named(g) \in OrderID /\ g[1] \in Calls
    BY HandlerParts DEF TypeOK, Named, Request
  <1>8. \A g \in Handler : g # h => (Shows(g)' <=> Shows(g))
    BY <1>6 DEF Shows
  <1>9. \A g \in Handler : Shows(g)' => fate'[Named(g)'] # "unborn"
    <2>1. fate[id] = "held"
      BY <1>1, <1>3 DEF Placed
    <2> QED
      BY <2>1, <1>3, <1>6, <1>8 DEF Seen
  <1>10. ASSUME NEW g \in Handler, NEW q \in Replica, Shows(g)', store'[q][Named(g)'] # <<>>
         PROVE  IsPrefix(snap'[g], store'[q][Named(g)'])
    <2>1. CASE g = h
      <3>1. q = p
        BY <2>1, <1>1, <1>3, <1>5, <1>6, <1>10 DEF Placed
      <3> QED
        BY <2>1, <3>1, <1>4, <1>5, <1>6, PrefixSelf
    <2>2. CASE g # h /\ q = p /\ Named(g) = id
      BY <2>2, <1>3, <1>4, <1>5, <1>6, <1>7, <1>8, <1>10 DEF Seen
    <2>3. CASE g # h /\ ~ (q = p /\ Named(g) = id)
      BY <2>3, <1>5, <1>6, <1>7, <1>8, <1>10 DEF Seen
    <2> QED
      BY <2>1, <2>2, <2>3
  <1>11. ASSUME NEW g \in Handler, NEW b \in seen'[g[1]], Shows(g)', Shows(<<b, 1>>)', want'[b].id = Named(g)'
         PROVE  IsPrefix(snap'[<<b, 1>>], snap'[g])
    <2>1. b \in seen[g[1]] /\ b \in Calls /\ <<b, 1>> \in Handler /\ pc[<<b, 1>>] = "done"
      BY <1>3, <1>7, <1>11, FirstHandler DEF Seen, TypeOK
    <2>2. <<b, 1>> # h
      BY <2>1, <1>3
    <2>3. Shows(<<b, 1>>) /\ snap'[<<b, 1>>] = snap[<<b, 1>>] /\ want[b].id = Named(g)'
      BY <2>1, <2>2, <1>3, <1>6, <1>8, <1>11
    <2>4. CASE g = h
      <3>1. Named(<<b, 1>>) = id
        BY <2>1, <2>3, <2>4, <1>6, FirstHandler DEF Named
      <3>2. IsPrefix(snap[<<b, 1>>], store[p][id])
        BY <2>1, <2>3, <3>1, <1>1, <1>3 DEF Seen
      <3> QED
        BY <2>1, <2>3, <2>4, <3>2, <1>4, <1>6, <1>7
    <2>5. CASE g # h
      BY <2>1, <2>3, <2>5, <1>6, <1>8, <1>11 DEF Seen
    <2> QED
      BY <2>4, <2>5
  <1>12. \A c \in Calls : \A b \in seen'[c] : pc'[<<b, 1>>] = "done"
    <2>1. ASSUME NEW c \in Calls, NEW b \in seen[c] PROVE pc'[<<b, 1>>] = "done"
      <3>1. b \in Calls /\ <<b, 1>> \in Handler /\ pc[<<b, 1>>] = "done"
        BY FirstHandler DEF TypeOK, Seen
      <3> QED
        BY <3>1, <1>3, <1>6
    <2> QED
      BY <2>1, <1>3
  <1> QED
    BY <1>9, <1>10, <1>11, <1>12 DEF Seen

\* A new identifier is one nobody has a copy under.
LEMMA SeenCreate ==
    ASSUME TypeOK, Effects, Placed, Seen, NEW h \in Handler, Create(h) PROVE Seen'
  <1> DEFINE p == at[h]
             c == h[1]
  <1>1. p \in Replica /\ c \in Calls /\ <<c>> \in Seq(Calls)
    BY HandlerParts, CallSeq DEF TypeOK
  <1>2. PICK id \in OrderID :
           /\ fate[id] = "unborn"
           /\ store' = [store EXCEPT ![p][id] = <<c>>]
           /\ fate' = [fate EXCEPT ![id] = "held"]
           /\ want' = [want EXCEPT ![c].id = id]
    <2>1. PICK n \in 1..MaxOrders :
             /\ fate[[n |-> n, owner |-> Advertise[p]]] = "unborn"
             /\ store' = [store EXCEPT ![p][[n |-> n, owner |-> Advertise[p]]] = <<c>>]
             /\ fate' = [fate EXCEPT ![[n |-> n, owner |-> Advertise[p]]] = "held"]
             /\ want' = [want EXCEPT ![c].id = [n |-> n, owner |-> Advertise[p]]]
      BY DEF Create
    <2>2. [n |-> n, owner |-> Advertise[p]] \in OrderID
      BY <1>1, MintedType
    <2> QED
      BY <2>1, <2>2
  <1>3. /\ pc[h] = "arrived" /\ Mutating(h) /\ UNCHANGED seen
        /\ snap' = [snap EXCEPT ![h] = <<c>>]
        /\ pc' = [pc EXCEPT ![h] = "sleeping"] /\ code' = [code EXCEPT ![h] = 201]
    BY DEF Create, Mutating, Reads
  <1>4. \A g \in Handler : g # h /\ g[1] = c => ~ Shows(g)
    BY <1>3, OnlyArrived DEF SameCall, Shows, Told
  <1> HIDE DEF p, c
  <1>5. /\ \A i \in OrderID : i # id => fate'[i] = fate[i]
        /\ fate'[id] = "held"
        /\ \A b \in Calls : b # c => want'[b] = want[b]
        /\ want'[c].id = id
    BY <1>1, <1>2 DEF TypeOK, Request
  <1>6. /\ store'[p][id] = <<c>>
        /\ \A q \in Replica, i \in OrderID : q # p \/ i # id => store'[q][i] = store[q][i]
    <2>1. store'[p] = [store[p] EXCEPT ![id] = <<c>>] /\ \A q \in Replica : q # p => store'[q] = store[q]
      BY <1>1, <1>2 DEF TypeOK
    <2>2. store[p] \in [OrderID -> Seq(Calls)]
      BY <1>1 DEF TypeOK
    <2> QED
      BY <2>1, <2>2, <1>1
  <1>7. snap'[h] = <<c>> /\ \A g \in Handler : g # h => pc'[g] = pc[g] /\ code'[g] = code[g] /\ snap'[g] = snap[g]
    BY <1>3 DEF TypeOK
  <1>8. \A g \in Handler : Named(g) \in OrderID /\ g[1] \in Calls
    BY HandlerParts DEF TypeOK, Named, Request
  <1>9. ASSUME NEW g \in Handler, g # h, Shows(g)'
        PROVE  Shows(g) /\ Named(g)' = Named(g) /\ Named(g) # id
    <2>1. Shows(g)
      BY <1>7, <1>9 DEF Shows
    <2>2. g[1] # c
      BY <2>1, <1>4, <1>9
    <2> QED
      BY <2>1, <2>2, <1>2, <1>5, <1>8 DEF Named, Seen
  <1>10. Named(h)' = id
    BY <1>5 DEF Named, c
  <1>11. \A g \in Handler : Shows(g)' => fate'[Named(g)'] # "unborn"
    BY <1>5, <1>8, <1>9, <1>10 DEF Seen
  <1>12. ASSUME NEW g \in Handler, NEW q \in Replica, Shows(g)', store'[q][Named(g)'] # <<>>
         PROVE  IsPrefix(snap'[g], store'[q][Named(g)'])
    <2>1. CASE g = h
      <3>1. \A r \in Replica : store[r][id] = <<>>
        BY <1>2 DEF Placed
      <3>2. q = p
        BY <2>1, <3>1, <1>6, <1>10, <1>12
      <3> QED
        BY <2>1, <3>2, <1>1, <1>6, <1>7, <1>10, PrefixSelf
    <2>2. CASE g # h
      BY <2>2, <1>6, <1>7, <1>8, <1>9, <1>12 DEF Seen
    <2> QED
      BY <2>1, <2>2
  <1>13. ASSUME NEW g \in Handler, NEW b \in seen'[g[1]], Shows(g)', Shows(<<b, 1>>)', want'[b].id = Named(g)'
         PROVE  IsPrefix(snap'[<<b, 1>>], snap'[g])
    <2>1. b \in seen[g[1]] /\ b \in Calls /\ <<b, 1>> \in Handler /\ pc[<<b, 1>>] = "done"
      BY <1>3, <1>8, <1>13, FirstHandler DEF Seen, TypeOK
    <2>2. <<b, 1>> # h
      BY <2>1, <1>3
    <2>3. /\ Shows(<<b, 1>>) /\ snap'[<<b, 1>>] = snap[<<b, 1>>]
          /\ Named(<<b, 1>>)' = Named(<<b, 1>>) /\ Named(<<b, 1>>) # id
      BY <2>1, <2>2, <1>7, <1>9, <1>13
    <2>4. Named(<<b, 1>>)' = want'[b].id /\ Named(<<b, 1>>) = want[b].id
      BY <2>1, FirstHandler DEF Named
    <2>5. g # h
      BY <2>3, <2>4, <1>10, <1>13
    <2> QED
      BY <2>1, <2>3, <2>4, <2>5, <1>7, <1>9, <1>13 DEF Seen
  <1>14. \A a \in Calls : \A b \in seen'[a] : pc'[<<b, 1>>] = "done"
    <2>1. ASSUME NEW a \in Calls, NEW b \in seen[a] PROVE pc'[<<b, 1>>] = "done"
      <3>1. b \in Calls /\ <<b, 1>> \in Handler /\ pc[<<b, 1>>] = "done"
        BY FirstHandler DEF TypeOK, Seen
      <3> QED
        BY <3>1, <1>3, <1>7
    <2> QED
      BY <2>1, <1>3
  <1> QED
    BY <1>11, <1>12, <1>13, <1>14 DEF Seen

\* A call that is sent has shown nothing yet.
LEMMA SeenSend ==
    ASSUME TypeOK, Effects, Seen, NEW c \in Calls, NEW p \in Replica, NEW op, NEW id, Send(c, p, op, id)
    PROVE  Seen'
  <1> DEFINE h == <<c, 1>>
  <1>1. h \in Handler /\ h[1] = c /\ h[2] = 1 /\ pc[h] = "none"
    BY FirstHandler DEF Send
  <1>2. \A g \in Handler : g[1] = c => pc[g] = "none"
    <2>1. ASSUME NEW g \in Handler, g[1] = c, g # h PROVE pc[g] = "none"
      <3>1. g[2] > h[2]
        BY <2>1, <1>1, HandlerParts, HopsAssumption
      <3> QED
        BY <2>1, <3>1, <1>1 DEF Effects, SameCall
    <2> QED
      BY <2>1, <1>1
  <1>3. /\ pc' = [pc EXCEPT ![h] = "arrived"] /\ seen' = [seen EXCEPT ![c] = Answered]
        /\ UNCHANGED <<store, fate, code, snap>>
        /\ \A b \in Calls : b # c => want'[b] = want[b]
    BY DEF Send, TypeOK
  <1> HIDE DEF h
  <1>4. pc'[h] = "arrived" /\ \A g \in Handler : g # h => pc'[g] = pc[g]
    BY <1>1, <1>3 DEF TypeOK
  <1>5. ASSUME NEW g \in Handler, Shows(g)'
        PROVE  Shows(g) /\ g[1] # c /\ g[1] \in Calls /\ Named(g)' = Named(g) /\ seen'[g[1]] = seen[g[1]]
    <2>1. g # h
      BY <1>4, <1>5 DEF Shows
    <2>2. Shows(g)
      BY <2>1, <1>3, <1>4, <1>5 DEF Shows
    <2>3. g[1] # c
      BY <2>2, <1>2 DEF Shows
    <2> QED
      BY <2>2, <2>3, <1>3, HandlerParts DEF Named, TypeOK
  <1>6. ASSUME NEW g \in Handler, NEW b \in seen'[g[1]], Shows(g)', Shows(<<b, 1>>)', want'[b].id = Named(g)'
        PROVE  IsPrefix(snap'[<<b, 1>>], snap'[g])
    <2>1. b \in seen[g[1]] /\ b \in Calls /\ <<b, 1>> \in Handler /\ <<b, 1>>[1] = b
      BY <1>5, <1>6, FirstHandler DEF TypeOK
    <2>2. Shows(<<b, 1>>) /\ want'[b] = want[b]
      BY <2>1, <1>3, <1>5, <1>6
    <2> QED
      BY <2>1, <2>2, <1>3, <1>5, <1>6 DEF Seen
  <1>7. \A a \in Calls : \A b \in seen'[a] : pc'[<<b, 1>>] = "done"
    <2>1. ASSUME NEW a \in Calls, NEW b \in seen'[a] PROVE pc'[<<b, 1>>] = "done"
      <3>1. b \in Calls /\ <<b, 1>> \in Handler /\ pc[<<b, 1>>] = "done"
        BY <2>1, <1>3, FirstHandler DEF TypeOK, Seen, Answered
      <3> QED
        BY <3>1, <1>1, <1>4
    <2> QED
      BY <2>1
  <1> QED
    BY <1>3, <1>5, <1>6, <1>7 DEF Seen

LEMMA SeenStep == TypeOK /\ Effects /\ Placed /\ Seen /\ [Next]_vars => Seen'
  <1> SUFFICES ASSUME TypeOK, Effects, Placed, Seen, [Next]_vars PROVE Seen'
    OBVIOUS
  <1>0. Ageing
    BY PlacedStep
  <1>1. ASSUME NEW h \in Handler, pc[h] # "done", UNCHANGED <<store, want, seen>>,
               \A g \in Handler : g # h => pc'[g] = pc[g] \/ (~ Shows(g)' /\ pc[g] # "done"),
               \A g \in Handler : g # h => snap'[g] = snap[g] /\ code'[g] = code[g],
               Shows(h)' => \E g \in Handler : g[1] = h[1] /\ Shows(g) /\ snap'[h] = snap[g]
        PROVE  Seen'
    <2>1. \A g \in Handler : Shows(g)' => \E f \in Handler : f[1] = g[1] /\ Shows(f) /\ snap'[g] = snap[f]
      BY <1>1 DEF Shows
    <2>2. \A g \in Handler : pc[g] = "done" => pc'[g] = "done" /\ snap'[g] = snap[g] /\ code'[g] = code[g]
      BY <1>1
    <2> QED
      BY <2>1, <2>2, <1>0, <1>1, SeenQuiet
  <1>2. ASSUME NEW h \in Handler, Refuse(h) PROVE Seen'
    <2>1. /\ pc[h] = "arrived" /\ pc'[h] = "done" /\ code'[h] = 400 /\ UNCHANGED <<store, want, seen>>
          /\ \A g \in Handler : g # h => pc'[g] = pc[g] /\ code'[g] = code[g] /\ snap'[g] = snap[g]
      BY <1>2 DEF Refuse, TypeOK
    <2>2. ~ Shows(h)'
      BY <2>1 DEF Shows
    <2> QED
      BY <2>1, <2>2, <1>1
  <1>3. ASSUME NEW h \in Handler, NotFound(h) PROVE Seen'
    <2>1. /\ pc[h] = "arrived" /\ pc'[h] = "done" /\ code'[h] = 404 /\ UNCHANGED <<store, want, seen>>
          /\ \A g \in Handler : g # h => pc'[g] = pc[g] /\ code'[g] = code[g] /\ snap'[g] = snap[g]
      BY <1>3 DEF NotFound, Misses, TypeOK
    <2>2. ~ Shows(h)'
      BY <2>1 DEF Shows
    <2> QED
      BY <2>1, <2>2, <1>1
  <1>4. ASSUME NEW h \in Handler, GiveUp(h) PROVE Seen'
    <2>1. /\ pc[h] = "forwarding" /\ pc'[h] = "done" /\ code'[h] = 502 /\ UNCHANGED <<store, want, seen>>
          /\ \A g \in Handler : g # h => pc'[g] = pc[g] /\ code'[g] = code[g] /\ snap'[g] = snap[g]
      BY <1>4 DEF GiveUp, TypeOK
    <2>2. ~ Shows(h)'
      BY <2>1 DEF Shows
    <2> QED
      BY <2>1, <2>2, <1>1
  <1>5. ASSUME NEW h \in Handler, Reply(h) PROVE Seen'
    <2>1. /\ pc[h] = "sleeping" /\ pc'[h] = "done" /\ code[h] \in {200, 201} /\ snap' = snap
          /\ code'[h] \in {code[h], 501} /\ UNCHANGED <<store, want, seen>>
          /\ \A g \in Handler : g # h => pc'[g] = pc[g] /\ code'[g] = code[g]
      BY <1>5 DEF Reply, TypeOK, Effects
    <2>2. Shows(h)
      BY <2>1 DEF Shows
    <2> QED
      BY <2>1, <2>2, <1>1
  <1>6. ASSUME NEW h \in Handler, Relay(h) PROVE Seen'
    <2> DEFINE next == <<h[1], h[2] + 1>>
    <2>1. next \in Handler /\ next[1] = h[1] /\ pc[next] = "done"
      BY <1>6, HandlerParts, HopsAssumption DEF Relay
    <2>2. /\ pc[h] = "forwarding" /\ code'[h] = code[next] /\ snap'[h] = snap[next] /\ UNCHANGED <<store, want, seen>>
          /\ \A g \in Handler : g # h => pc'[g] = pc[g] /\ code'[g] = code[g] /\ snap'[g] = snap[g]
      BY <1>6 DEF Relay, TypeOK
    <2> HIDE DEF next
    <2>3. Shows(h)' => Shows(next)
      BY <2>1, <2>2 DEF Shows
    <2> QED
      BY <2>1, <2>2, <2>3, <1>1
  <1>7. ASSUME NEW h \in Handler, Forward(h) PROVE Seen'
    <2> DEFINE next == <<h[1], h[2] + 1>>
    <2>1. next \in Handler /\ next[1] = h[1] /\ next[2] > h[2] /\ next # h /\ pc[h] = "arrived"
      BY <1>7, HandlerParts, HopsAssumption DEF Forward, Misses
    <2>2. pc[next] = "none"
      BY <2>1 DEF Effects, SameCall
    <2>3. /\ pc'[h] = "forwarding" /\ pc'[next] \in {"arrived", "lost"}
          /\ \A g \in Handler : g # h /\ g # next => pc'[g] = pc[g]
      BY <1>7, <2>1 DEF Forward, TypeOK
    <2>4. UNCHANGED <<store, want, seen, snap, code>>
      BY <1>7 DEF Forward
    <2> HIDE DEF next
    <2> QED
      BY <2>1, <2>2, <2>3, <2>4, <1>1 DEF Shows
  <1>8. ASSUME NEW h \in Handler, Serve(h) PROVE Seen'
    BY <1>2, <1>3, <1>4, <1>5, <1>6, <1>7, <1>8, SeenFind, SeenCreate DEF Serve
  <1>9. ASSUME NEW p \in Replica, Crash(p) PROVE Seen'
    <2>1. /\ UNCHANGED <<want, seen, snap, code>>
          /\ \A q \in Replica, i \in OrderID : store'[q][i] \in {store[q][i], <<>>}
      BY <1>9 DEF Crash, TypeOK
    <2>2. \A g \in Handler : pc'[g] = pc[g] \/ (pc'[g] = "lost" /\ pc[g] # "done")
      BY <1>9 DEF Crash
    <2>3. \A g \in Handler : Shows(g)' => Shows(g)
      BY <2>1, <2>2 DEF Shows
    <2> QED
      BY <2>1, <2>2, <2>3, <1>0, SeenQuiet
  <1>10. ASSUME NEW p \in Replica, NEW id \in OrderID, Forget(p, id) PROVE Seen'
    <2>1. UNCHANGED <<want, seen, snap, code, pc>>
      BY <1>10 DEF Forget, callVars
    <2>2. \A q \in Replica, i \in OrderID : store'[q][i] \in {store[q][i], <<>>}
      <3>1. store'[p] = [store[p] EXCEPT ![id] = <<>>] /\ \A q \in Replica : q # p => store'[q] = store[q]
        BY <1>10 DEF Forget, TypeOK
      <3>2. store[p] \in [OrderID -> Seq(Calls)]
        BY DEF TypeOK
      <3> QED
        BY <3>1, <3>2
    <2> QED
      BY <2>1, <2>2, <1>0, SeenQuiet DEF Shows
  <1>11. ASSUME NEW p \in Replica, Restart(p) \/ UNCHANGED vars PROVE Seen'
    <2>1. UNCHANGED <<store, want, seen, snap, code, pc>>
      BY <1>11 DEF Restart, vars, callVars
    <2> QED
      BY <2>1, <1>0, SeenQuiet DEF Shows
  <1> QED
    BY <1>8, <1>9, <1>10, <1>11, SeenSend, ReplicaAssumption DEF Next

\* State stays in one place: a change through one replica is what a later call through
\* another sees, for any number of replicas and calls, and whatever the addresses are.
THEOREM LaterCallsCorrect == Spec => []LaterCallsSeeEarlier
  <1>1. TypeOK /\ Seen => LaterCallsSeeEarlier
    <2> SUFFICES ASSUME TypeOK, Seen, NEW c \in Calls, NEW b \in seen[c],
                        c \in Answered, want[b].id = want[c].id,
                        code[<<b, 1>>] \in {200, 201}, code[<<c, 1>>] \in {200, 201}
                 PROVE  IsPrefix(snap[<<b, 1>>], snap[<<c, 1>>])
      BY DEF LaterCallsSeeEarlier
    <2>1. <<c, 1>> \in Handler /\ <<c, 1>>[1] = c /\ pc[<<c, 1>>] = "done" /\ pc[<<b, 1>>] = "done"
      BY FirstHandler DEF Seen, Answered
    <2> QED
      BY <2>1 DEF Seen, Shows, Named
  <1> QED
    BY <1>1, TypeCorrect, EffectsInit, EffectsStep, PlacedInit, PlacedStep, SeenInit, SeenStep, PTL DEF Spec

--------------------------------------------------------------------------------
(* Nobody misses an order that is held *)

\* The owner's address in an identifier leads back to the owner, and the resolver
\* always tells.
OwnAddresses ==
    /\ ~ DNSMayFail
    /\ \A p \in Replica : Advertise[p] \in Peers /\ ReplicaAt[Advertise[p]] = p

Gone(id) == id \in Crafted \/ fate[id] \notin {"unborn", "held"}

\* A handler that was forwarded to runs where the identifier points, only a first one
\* is unmarked, and none has been answered 404 for an order that may be there.
Routed ==
    /\ \A h \in Handler : pc[h] # "none" /\ want[h[1]].op # "OrderCreate" =>
          Named(h) \in Crafted \/ fate[Named(h)] # "unborn"
    /\ \A h \in Handler : pc[h] # "none" /\ h[2] > 1 =>
          want[h[1]].op # "OrderCreate" /\ at[h] = ReplicaAt[Named(h).owner]
    /\ \A h \in Handler : h[2] = 1 => marker[h] = NoAddress
    /\ \A h \in Handler : pc[h] = "done" /\ code[h] = 404 =>
          want[h[1]].op # "OrderCreate" /\ Gone(Named(h))

LEMMA RoutedInit == Init => Routed
  BY DEF Init, Routed

\* Steps in which no handler starts, no call is given another order, and a new 404 is
\* justified.
LEMMA RoutedQuiet ==
    ASSUME TypeOK, Routed, Ageing, UNCHANGED <<at, marker>>,
           \A h \in Handler : pc'[h] # "none" => pc[h] # "none" /\ want'[h[1]].op = want[h[1]].op,
           \A h \in Handler : pc'[h] # "none" /\ want[h[1]].op # "OrderCreate" => want'[h[1]] = want[h[1]],
           \A h \in Handler : pc'[h] = "done" /\ code'[h] = 404 =>
               \/ pc[h] = "done" /\ code[h] = 404
               \/ want[h[1]].op # "OrderCreate" /\ Gone(Named(h))
    PROVE  Routed'
  <1>1. ASSUME NEW h \in Handler, pc'[h] # "none", want'[h[1]].op # "OrderCreate"
        PROVE  Named(h)' \in Crafted \/ fate'[Named(h)'] # "unborn"
    <2>1. pc[h] # "none" /\ want[h[1]].op # "OrderCreate" /\ Named(h)' = Named(h)
      BY <1>1 DEF Named
    <2>2. Named(h) \in OrderID
      BY HandlerParts DEF Named, TypeOK, Request
    <2> QED
      BY <2>1, <2>2 DEF Routed, Ageing
  <1>2. ASSUME NEW h \in Handler, pc'[h] # "none", h[2] > 1
        PROVE  want'[h[1]].op # "OrderCreate" /\ at'[h] = ReplicaAt[Named(h)'.owner]
    <2>1. pc[h] # "none" /\ want[h[1]].op # "OrderCreate" /\ at[h] = ReplicaAt[Named(h).owner]
      BY <1>2 DEF Routed
    <2>2. want'[h[1]] = want[h[1]] /\ at'[h] = at[h]
      BY <1>2, <2>1
    <2> QED
      BY <2>1, <2>2 DEF Named
  <1>3. \A h \in Handler : h[2] = 1 => marker'[h] = NoAddress
    BY DEF Routed
  <1>4. ASSUME NEW h \in Handler, pc'[h] = "done", code'[h] = 404
        PROVE  want'[h[1]].op # "OrderCreate" /\ Gone(Named(h))'
    <2>1. want[h[1]].op # "OrderCreate" /\ Gone(Named(h))
      BY <1>4 DEF Routed
    <2>2. want'[h[1]] = want[h[1]] /\ Named(h)' = Named(h)
      BY <1>4, <2>1 DEF Named
    <2>3. Named(h) \in OrderID
      BY HandlerParts DEF Named, TypeOK, Request
    <2> QED
      BY <2>1, <2>2, <2>3 DEF Gone, Ageing
  <1> QED
    BY <1>1, <1>2, <1>3, <1>4 DEF Routed

\* A miss that is not forwarded is of an order nobody holds.
LEMMA MissedIsGone ==
    ASSUME OwnAddresses, TypeOK, Placed, Routed, NEW h \in Handler, NotFound(h)
    PROVE  Gone(Named(h))
  <1> DEFINE id == Named(h)
  <1>1. /\ pc[h] = "arrived" /\ want[h[1]].op # "OrderCreate" /\ store[at[h]][id] = <<>>
        /\ ~ NamesOther(h)
    BY DEF NotFound, Misses, OwnAddresses, Named
  <1>2. id \in OrderID /\ at[h] \in Replica /\ h[2] \in 1..MaxHops
    BY HandlerParts DEF Named, TypeOK, Request
  <1>3. id \in Crafted \/ fate[id] # "unborn"
    BY <1>1 DEF Routed
  <1>4. ASSUME fate[id] = "held" PROVE FALSE
    <2>1. PICK p \in Replica : store[p][id] # <<>> /\ id.owner = Advertise[p]
      BY <1>2, <1>4 DEF Placed
    <2>2. id.owner \in Peers /\ id.owner # NoAddress /\ ReplicaAt[id.owner] = p
      BY <2>1, AddressAssumption DEF OwnAddresses
    <2>3. at[h] # p
      BY <2>1, <1>1
    <2>4. CASE h[2] = 1
      <3>1. marker[h] = NoAddress
        BY <2>4 DEF Routed
      <3>2. id.owner = Advertise[at[h]]
        BY <3>1, <2>2, <1>1 DEF NamesOther, Named
      <3> QED
        BY <3>2, <1>2, <2>2, <2>3 DEF OwnAddresses
    <2>5. CASE h[2] > 1
      BY <2>5, <1>1, <2>2, <2>3 DEF Routed
    <2> QED
      BY <2>4, <2>5, <1>2, HopsAssumption
  <1> QED
    BY <1>3, <1>4 DEF Gone

LEMMA RoutedForward ==
    ASSUME TypeOK, Effects, Routed, Ageing, NEW h \in Handler, Forward(h) PROVE Routed'
  <1> DEFINE next == <<h[1], h[2] + 1>>
  <1>1. next \in Handler /\ next[1] = h[1] /\ next[2] > 1 /\ next # h /\ pc[h] = "arrived"
    BY HandlerParts, HopsAssumption DEF Forward, Misses
  <1>2. /\ pc'[h] = "forwarding" /\ pc'[next] \in {"arrived", "lost"}
        /\ \A g \in Handler : g # h /\ g # next => pc'[g] = pc[g]
        /\ at'[next] = ReplicaAt[Named(h).owner] /\ \A g \in Handler : g # next => at'[g] = at[g]
        /\ \A g \in Handler : g # next => marker'[g] = marker[g]
    BY <1>1 DEF Forward, TypeOK, Named
  <1>3. UNCHANGED <<want, fate, code>> /\ want[h[1]].op # "OrderCreate"
    BY DEF Forward, Misses
  <1> HIDE DEF next
  <1>4. Named(next) = Named(h) /\ \A g \in Handler : Named(g)' = Named(g)
    BY <1>1, <1>3 DEF Named
  <1>5. ASSUME NEW g \in Handler, pc'[g] # "none", want'[g[1]].op # "OrderCreate"
        PROVE  Named(g)' \in Crafted \/ fate'[Named(g)'] # "unborn"
    <2>1. CASE g = next
      BY <2>1, <1>1, <1>3, <1>4 DEF Routed
    <2>2. CASE g # next
      BY <2>2, <1>1, <1>2, <1>3, <1>4, <1>5 DEF Routed
    <2> QED
      BY <2>1, <2>2
  <1>6. ASSUME NEW g \in Handler, pc'[g] # "none", g[2] > 1
        PROVE  want'[g[1]].op # "OrderCreate" /\ at'[g] = ReplicaAt[Named(g)'.owner]
    <2>1. CASE g = next
      BY <2>1, <1>1, <1>2, <1>3, <1>4
    <2>2. CASE g # next
      BY <2>2, <1>1, <1>2, <1>3, <1>4, <1>6 DEF Routed
    <2> QED
      BY <2>1, <2>2
  <1>7. \A g \in Handler : g[2] = 1 => marker'[g] = NoAddress
    BY <1>1, <1>2 DEF Routed
  <1>8. ASSUME NEW g \in Handler, pc'[g] = "done", code'[g] = 404
        PROVE  want'[g[1]].op # "OrderCreate" /\ Gone(Named(g))'
    <2>1. pc[g] = "done" /\ code[g] = 404
      BY <1>1, <1>2, <1>3, <1>8
    <2> QED
      BY <2>1, <1>3, <1>4 DEF Routed, Gone
  <1> QED
    BY <1>5, <1>6, <1>7, <1>8 DEF Routed

LEMMA RoutedSend ==
    ASSUME TypeOK, Effects, Routed, NEW c \in Calls, NEW p \in Replica, NEW op, NEW id \in OrderID,
           Send(c, p, op, id)
    PROVE  Routed'
  <1> DEFINE h == <<c, 1>>
  <1>1. h \in Handler /\ h[1] = c /\ h[2] = 1 /\ pc[h] = "none"
    BY FirstHandler DEF Send
  <1>2. \A g \in Handler : g[1] = c => pc[g] = "none"
    <2>1. ASSUME NEW g \in Handler, g[1] = c, g # h PROVE pc[g] = "none"
      <3>1. g[2] > h[2]
        BY <2>1, <1>1, HandlerParts, HopsAssumption
      <3> QED
        BY <2>1, <3>1, <1>1 DEF Effects, SameCall
    <2> QED
      BY <2>1, <1>1
  <1>3. /\ UNCHANGED <<fate, code, marker>>
        /\ want'[c] = [op |-> op, id |-> id] /\ \A b \in Calls : b # c => want'[b] = want[b]
        /\ op # "OrderCreate" => id \in Crafted \/ fate[id] # "unborn"
    BY DEF Send, TypeOK, Minted
  <1>4. /\ pc'[h] = "arrived" /\ \A g \in Handler : g # h => pc'[g] = pc[g] /\ at'[g] = at[g]
    BY <1>1 DEF Send, TypeOK
  <1> HIDE DEF h
  <1>5. ASSUME NEW g \in Handler, pc'[g] # "none", g # h
        PROVE  /\ pc[g] # "none" /\ pc'[g] = pc[g] /\ at'[g] = at[g]
               /\ want'[g[1]] = want[g[1]] /\ Named(g)' = Named(g)
    <2>1. pc[g] # "none" /\ g[1] # c /\ g[1] \in Calls
      BY <1>2, <1>4, <1>5, HandlerParts
    <2> QED
      BY <2>1, <1>3, <1>4, <1>5 DEF Named
  <1>6. Named(h)' = id /\ want'[h[1]].op = op
    BY <1>1, <1>3 DEF Named
  <1>7. \A g \in Handler : pc'[g] # "none" /\ want'[g[1]].op # "OrderCreate" =>
           Named(g)' \in Crafted \/ fate'[Named(g)'] # "unborn"
    BY <1>3, <1>5, <1>6 DEF Routed
  <1>8. \A g \in Handler : pc'[g] # "none" /\ g[2] > 1 =>
           want'[g[1]].op # "OrderCreate" /\ at'[g] = ReplicaAt[Named(g)'.owner]
    BY <1>1, <1>5 DEF Routed
  <1>9. \A g \in Handler : g[2] = 1 => marker'[g] = NoAddress
    BY <1>3 DEF Routed
  <1>10. \A g \in Handler : pc'[g] = "done" /\ code'[g] = 404 =>
            want'[g[1]].op # "OrderCreate" /\ Gone(Named(g))'
    BY <1>3, <1>4, <1>5 DEF Routed, Gone
  <1> QED
    BY <1>7, <1>8, <1>9, <1>10 DEF Routed

LEMMA RoutedStep ==
    ASSUME OwnAddresses, TypeOK, Effects, Placed, Routed, [Next]_vars PROVE Routed'
  <1>0. Ageing
    BY PlacedStep
  <1>1. ASSUME NEW h \in Handler, pc[h] # "none", UNCHANGED <<want, at, marker>>,
               \A g \in Handler : g # h => pc'[g] = pc[g] /\ code'[g] = code[g],
               pc'[h] = "done" /\ code'[h] = 404 => want[h[1]].op # "OrderCreate" /\ Gone(Named(h))
        PROVE  Routed'
    BY <1>0, <1>1, RoutedQuiet
  <1>2. ASSUME NEW h \in Handler, Refuse(h) \/ GiveUp(h) \/ Find(h) PROVE Routed'
    <2>1. /\ pc[h] # "none" /\ UNCHANGED <<want, at, marker>> /\ code'[h] # 404
          /\ \A g \in Handler : g # h => pc'[g] = pc[g] /\ code'[g] = code[g]
      <3>1. CASE Refuse(h)
        BY <3>1 DEF Refuse, TypeOK
      <3>2. CASE GiveUp(h)
        BY <3>2 DEF GiveUp, TypeOK
      <3>3. CASE Find(h)
        BY <3>3 DEF Find, TypeOK
      <3> QED
        BY <1>2, <3>1, <3>2, <3>3
    <2> QED
      BY <2>1, <1>1
  <1>3. ASSUME NEW h \in Handler, NotFound(h) PROVE Routed'
    <2>1. /\ pc[h] = "arrived" /\ want[h[1]].op # "OrderCreate" /\ UNCHANGED <<want, at, marker>>
          /\ \A g \in Handler : g # h => pc'[g] = pc[g] /\ code'[g] = code[g]
      BY <1>3 DEF NotFound, Misses, TypeOK
    <2> QED
      BY <2>1, <1>1, <1>3, MissedIsGone
  <1>4. ASSUME NEW h \in Handler, Reply(h) PROVE Routed'
    <2>1. /\ pc[h] = "sleeping" /\ UNCHANGED <<want, at, marker>>
          /\ code[h] \in {200, 201} /\ code'[h] \in {code[h], 501}
          /\ \A g \in Handler : g # h => pc'[g] = pc[g] /\ code'[g] = code[g]
      BY <1>4 DEF Reply, TypeOK, Effects
    <2> QED
      BY <2>1, <1>1
  <1>5. ASSUME NEW h \in Handler, Relay(h) PROVE Routed'
    <2> DEFINE next == <<h[1], h[2] + 1>>
    <2>1. next \in Handler /\ next[1] = h[1] /\ pc[next] = "done" /\ Named(next) = Named(h)
      BY <1>5, HandlerParts, HopsAssumption DEF Relay, Named
    <2>2. /\ pc[h] = "forwarding" /\ code'[h] = code[next] /\ UNCHANGED <<want, at, marker>>
          /\ \A g \in Handler : g # h => pc'[g] = pc[g] /\ code'[g] = code[g]
      BY <1>5 DEF Relay, TypeOK
    <2> HIDE DEF next
    <2>3. code'[h] = 404 => want[h[1]].op # "OrderCreate" /\ Gone(Named(h))
      <3> SUFFICES ASSUME code'[h] = 404 PROVE want[h[1]].op # "OrderCreate" /\ Gone(Named(h))
        OBVIOUS
      <3>1. code[next] = 404
        BY <2>2
      <3>2. want[next[1]].op # "OrderCreate" /\ Gone(Named(next))
        BY <2>1, <3>1 DEF Routed
      <3> QED
        BY <2>1, <3>2 DEF Gone
    <2> QED
      BY <2>2, <2>3, <1>1
  <1>6. ASSUME NEW h \in Handler, Create(h) PROVE Routed'
    <2>1. h[1] \in Calls
      BY HandlerParts
    <2>2. /\ pc[h] = "arrived" /\ want[h[1]].op = "OrderCreate" /\ UNCHANGED <<at, marker>>
          /\ pc' = [pc EXCEPT ![h] = "sleeping"] /\ code' = [code EXCEPT ![h] = 201]
          /\ want'[h[1]].op = want[h[1]].op
          /\ \A b \in Calls : b # h[1] => want'[b] = want[b]
      BY <1>6, <2>1 DEF Create, TypeOK, Request
    <2>3. \A g \in Handler : pc'[g] # "none" => pc[g] # "none"
      BY <2>2 DEF TypeOK
    <2>4. \A g \in Handler : pc'[g] = "done" => pc[g] = "done" /\ code'[g] = code[g]
      BY <2>2 DEF TypeOK
    <2>5. \A g \in Handler : /\ want'[g[1]].op = want[g[1]].op
                             /\ want[g[1]].op # "OrderCreate" => want'[g[1]] = want[g[1]]
      BY <2>2, HandlerParts
    <2> QED
      BY <2>2, <2>3, <2>4, <2>5, <1>0, RoutedQuiet
  <1>7. ASSUME NEW h \in Handler, Serve(h) PROVE Routed'
    BY <1>0, <1>2, <1>3, <1>4, <1>5, <1>6, <1>7, RoutedForward DEF Serve
  <1>8. ASSUME NEW p \in Replica, Crash(p) PROVE Routed'
    <2>1. /\ UNCHANGED <<want, at, marker, code>>
          /\ \A g \in Handler : pc'[g] = pc[g] \/ (pc'[g] = "lost" /\ pc[g] # "none")
      BY <1>8 DEF Crash
    <2> QED
      BY <2>1, <1>0, RoutedQuiet
  <1>9. ASSUME NEW p \in Replica, NEW id \in OrderID, Forget(p, id) PROVE Routed'
    <2>1. UNCHANGED <<want, at, marker, code, pc>>
      BY <1>9 DEF Forget, callVars
    <2> QED
      BY <2>1, <1>0, RoutedQuiet
  <1>10. ASSUME NEW p \in Replica, Restart(p) \/ UNCHANGED vars PROVE Routed'
    <2>1. UNCHANGED <<want, at, marker, code, pc>>
      BY <1>10 DEF Restart, vars, callVars
    <2> QED
      BY <2>1, <1>0, RoutedQuiet
  <1> QED
    BY <1>7, <1>8, <1>9, <1>10, RoutedSend, ReplicaAssumption DEF Next

\* An order that was created is found through every replica: if every replica advertises
\* an address of its own that the resolver lists, and the resolver does not fail, nobody
\* is told 404 for an order that is held, however calls, crashes and timeouts interleave.
THEOREM FoundCorrect == OwnAddresses => (Spec => []FoundThroughEveryReplica)
  <1> SUFFICES ASSUME OwnAddresses PROVE Spec => []FoundThroughEveryReplica
    OBVIOUS
  <1>1. TypeOK /\ Routed => FoundThroughEveryReplica
    <2> SUFFICES ASSUME TypeOK, Routed, NEW c \in Calls, c \in Answered, code[<<c, 1>>] = 404,
                        want[c].id \notin Crafted
                 PROVE  fate[want[c].id] # "held"
      BY DEF FoundThroughEveryReplica
    <2>1. <<c, 1>> \in Handler /\ <<c, 1>>[1] = c /\ pc[<<c, 1>>] = "done"
      BY FirstHandler DEF Answered
    <2> QED
      BY <2>1 DEF Routed, Gone, Named
  <1>2. TypeOK /\ Effects /\ Placed /\ Routed /\ [Next]_vars => Routed'
    BY RoutedStep
  <1> QED
    BY <1>1, <1>2, TypeCorrect, EffectsInit, EffectsStep, PlacedInit, PlacedStep, RoutedInit, PTL DEF Spec
================================================================================
