--------------------------- MODULE OrderStoreProofs ---------------------------
(***************************************************************************)
(* Theorems about OrderStore for every set of calls and identifiers and    *)
(* every value of -order-max, -order-ttl and the bounds.                   *)
(***************************************************************************)
EXTENDS OrderStore, FiniteSetTheorems, SequenceTheorems, TLAPS

USE DEF storeVars, reaperVars, callVars, vars

--------------------------------------------------------------------------------
(* Typing *)

\* A freshly built order, the zero order and an order after a change are orders.
LEMMA OrderTypes ==
    /\ NoOrder \in Order
    /\ \A id \in OrderIDs, t \in 0..MaxTime :
          [id |-> id, status |-> "Opened", createdAt |-> t, history |-> <<"Created">>] \in Order
    /\ \A o \in Changes, ord \in Order : Apply(o, ord) \in Order
  <1>1. NoOrder \in Order
    BY BoundsAssumption DEF NoOrder, Order
  <1>2. ASSUME NEW id \in OrderIDs, NEW t \in 0..MaxTime
        PROVE  [id |-> id, status |-> "Opened", createdAt |-> t, history |-> <<"Created">>] \in Order
    BY DEF Order, Entries
  <1>3. ASSUME NEW o \in Changes, NEW ord \in Order
        PROVE  Apply(o, ord) \in Order
    <2>1. StatusAfter(o) \in Entries /\ ord.history \in Seq(Entries)
      BY DEF StatusAfter, Order, Entries
    <2>2. Append(ord.history, StatusAfter(o)) \in Seq(Entries)
      BY <2>1, AppendProperties
    <2>3. QED
      BY <2>1, <2>2 DEF Apply, Order, Entries, StatusAfter
  <1>4. QED
    BY <1>1, <1>2, <1>3

LEMMA TypeInit == Init => TypeOK
  <1> SUFFICES ASSUME Init PROVE TypeOK
    OBVIOUS
  <1>1. now \in 0..MaxTime /\ cut \in Int
    BY BoundsAssumption DEF Init
  <1>2. tick \in BOOLEAN /\ reaper \in {"waiting", "sweeping"}
    BY DEF Init
  <1>3. heap \in [Requests -> Order] /\ snap \in [Requests -> Order]
    BY OrderTypes DEF Init
  <1>4. byID \in [OrderIDs -> Requests \cup {Nil}] /\ obj \in [Requests -> Requests \cup {Nil}]
    BY DEF Init
  <1>5. /\ pc \in [Requests -> {"idle", "built", "sleeping", "copying", "done"}]
        /\ op \in [Requests -> Ops]
        /\ code \in [Requests -> {0, 200, 201, 400, 404, 501}]
    BY DEF Init, Ops
  <1>6. QED
    BY <1>1, <1>2, <1>3, <1>4, <1>5 DEF TypeOK

\* Every step keeps every variable in its type.
LEMMA TypeStep == TypeOK /\ [Next]_vars => TypeOK'
  <1> SUFFICES ASSUME TypeOK, [Next]_vars PROVE TypeOK'
    OBVIOUS
  <1> USE BoundsAssumption, LimitsAssumption
  <1>1. ASSUME NEW r \in Requests, Refuse(r) PROVE TypeOK'
    BY <1>1 DEF Refuse, TypeOK
  <1>2. ASSUME NEW r \in Requests, NEW id \in OrderIDs, CreateBuild(r, id) PROVE TypeOK'
    BY <1>2, OrderTypes DEF CreateBuild, TypeOK, Ops
  <1>3. ASSUME NEW r \in Requests, NEW v \in OrderIDs \cup {NoID}, CreatePut(r, v) PROVE TypeOK'
    BY <1>3 DEF CreatePut, TypeOK
  <1>4. ASSUME NEW r \in Requests, CreateCopy(r) PROVE TypeOK'
    BY <1>4 DEF CreateCopy, TypeOK
  <1>5. ASSUME NEW r \in Requests, CreateAnswer(r) PROVE TypeOK'
    <2>1. snap[r] \in Order /\ heap[r] \in Order
      BY DEF TypeOK
    <2>2. [snap[r] EXCEPT !.history = heap[r].history] \in Order
      BY <2>1 DEF Order
    <2>3. QED
      BY <1>5, <2>2 DEF CreateAnswer, TypeOK
  <1>6. ASSUME NEW r \in Requests, NEW id \in OrderIDs, Retrieve(r, id) PROVE TypeOK'
    BY <1>6 DEF Retrieve, TypeOK, Held, Ops
  <1>7. ASSUME NEW r \in Requests, NEW o \in Changes, NEW id \in OrderIDs, Mutate(r, o, id)
        PROVE TypeOK'
    <2>1. byID[id] \in Requests /\ Apply(o, heap[byID[id]]) \in Order
      BY <1>7, OrderTypes DEF Mutate, TypeOK, Held
    <2>2. heap' \in [Requests -> Order] /\ heap'[byID[id]] \in Order
      BY <1>7, <2>1 DEF Mutate, TypeOK
    <2>3. QED
      BY <1>7, <2>1, <2>2 DEF Mutate, TypeOK, Changes, Ops
  <1>8. ASSUME NEW r \in Requests, NEW id \in OrderIDs, NotFound(r, id) PROVE TypeOK'
    BY <1>8 DEF NotFound, TypeOK
  <1>9. ASSUME NEW r \in Requests, Answer(r) PROVE TypeOK'
    BY <1>9 DEF Answer, TypeOK
  <1>10. CASE ReapTick
    <2>1. cut' \in Int /\ now' \in 0..MaxTime
      BY <1>10 DEF ReapTick, TypeOK
    <2>2. tick' \in BOOLEAN /\ reaper' \in {"waiting", "sweeping"}
      BY <1>10 DEF ReapTick
    <2>3. QED
      BY <1>10, <2>1, <2>2 DEF ReapTick, TypeOK
  <1>11. CASE ReapSweep
    BY <1>11 DEF ReapSweep, TypeOK
  <1>12. CASE Advance
    <2>1. now' \in 0..MaxTime
      BY <1>12 DEF Advance, TypeOK
    <2>2. tick' \in BOOLEAN
      BY <1>12, Zenon DEF Advance, TypeOK
    <2>3. QED
      BY <1>12, <2>1, <2>2 DEF Advance, TypeOK
  <1>13. CASE UNCHANGED vars
    BY <1>13 DEF TypeOK
  <1>14. QED
    BY <1>1, <1>2, <1>3, <1>4, <1>5, <1>6, <1>7, <1>8, <1>9, <1>10, <1>11, <1>12, <1>13
       DEF Next, Call, Step

\* Every variable stays in its type, whatever the calls, limits and bounds are.
THEOREM TypeCorrect == Spec => []TypeOK
  BY TypeInit, TypeStep, PTL DEF Spec

--------------------------------------------------------------------------------
(* The shape of calls and pointers *)

Shape == PointersOK /\ CallsOK

LEMMA ShapeInit == Init => Shape
  BY RequestsAssumption DEF Init, Shape, PointersOK, CallsOK, Held

\* Every step keeps the map's pointers and the calls' progress in shape.
LEMMA ShapeStep == TypeOK /\ Shape /\ [Next]_vars => Shape'
  <1> SUFFICES ASSUME TypeOK, Shape, [Next]_vars PROVE Shape'
    OBVIOUS
  <1> USE RequestsAssumption, IDsAssumption DEF Shape
  <1>1. ASSUME NEW r \in Requests, Refuse(r) PROVE Shape'
    <2>1. PointersOK'
      BY <1>1 DEF Refuse, TypeOK, PointersOK, Held
    <2>2. CallsOK'
      BY <1>1 DEF Refuse, TypeOK, CallsOK
    <2>3. QED
      BY <2>1, <2>2
  <1>2. ASSUME NEW r \in Requests, NEW id \in OrderIDs, CreateBuild(r, id) PROVE Shape'
    <2>1. PointersOK'
      BY <1>2 DEF CreateBuild, TypeOK, PointersOK, CallsOK, Held
    <2>2. CallsOK'
      BY <1>2 DEF CreateBuild, TypeOK, CallsOK
    <2>3. QED
      BY <2>1, <2>2
  <1>3. ASSUME NEW r \in Requests, NEW v \in OrderIDs \cup {NoID}, CreatePut(r, v) PROVE Shape'
    <2>1. PointersOK'
      BY <1>3 DEF CreatePut, TypeOK, PointersOK, CallsOK, Held
    <2>2. CallsOK'
      BY <1>3 DEF CreatePut, TypeOK, CallsOK
    <2>3. QED
      BY <2>1, <2>2
  <1>4. ASSUME NEW r \in Requests, CreateCopy(r) PROVE Shape'
    <2>1. PointersOK'
      BY <1>4 DEF CreateCopy, TypeOK, PointersOK, Held
    <2>2. CallsOK'
      BY <1>4 DEF CreateCopy, TypeOK, CallsOK
    <2>3. QED
      BY <2>1, <2>2
  <1>5. ASSUME NEW r \in Requests, CreateAnswer(r) PROVE Shape'
    <2>1. PointersOK'
      BY <1>5 DEF CreateAnswer, TypeOK, PointersOK, Held
    <2>2. CallsOK'
      BY <1>5 DEF CreateAnswer, TypeOK, CallsOK
    <2>3. QED
      BY <2>1, <2>2
  <1>6. ASSUME NEW r \in Requests, NEW id \in OrderIDs, Retrieve(r, id) PROVE Shape'
    <2>1. PointersOK'
      BY <1>6 DEF Retrieve, TypeOK, PointersOK, CallsOK, Held
    <2>2. CallsOK'
      BY <1>6 DEF Retrieve, TypeOK, PointersOK, CallsOK, Held
    <2>3. QED
      BY <2>1, <2>2
  <1>7. ASSUME NEW r \in Requests, NEW o \in Changes, NEW id \in OrderIDs, Mutate(r, o, id)
        PROVE Shape'
    <2> DEFINE k == byID[id]
    <2>1. /\ k \in Requests /\ op[k] = "OrderCreate" /\ pc[k] \notin {"idle", "built"}
          /\ k # r /\ pc[r] = "idle" /\ op[r] = "none" /\ code[r] = 0 /\ heap[k] \in Order
      BY <1>7 DEF Mutate, TypeOK, PointersOK, CallsOK, Held
    <2>2. /\ heap'[k].id = heap[k].id /\ heap'[k].history # <<>>
          /\ \A j \in Requests : j # k => heap'[j] = heap[j]
      <3>1. StatusAfter(o) \in Entries /\ heap[k].history \in Seq(Entries)
        BY <2>1 DEF StatusAfter, Entries, Order
      <3>2. Append(heap[k].history, StatusAfter(o)) # <<>>
        BY <3>1, AppendProperties
      <3>3. heap'[k] = Apply(o, heap[k])
        BY <1>7, <2>1 DEF Mutate, TypeOK
      <3>4. QED
        BY <1>7, <2>1, <3>2, <3>3 DEF Mutate, TypeOK, Apply, Order
    <2>3. PointersOK'
      BY <1>7, <2>1, <2>2 DEF Mutate, TypeOK, PointersOK, Held
    <2>4. CallsOK'
      BY <1>7, <2>1, <2>2 DEF Mutate, TypeOK, CallsOK, Changes
    <2>5. QED
      BY <2>3, <2>4
  <1>8. ASSUME NEW r \in Requests, NEW id \in OrderIDs, NotFound(r, id) PROVE Shape'
    <2>1. PointersOK'
      BY <1>8 DEF NotFound, TypeOK, PointersOK, Held
    <2>2. CallsOK'
      BY <1>8 DEF NotFound, TypeOK, CallsOK
    <2>3. QED
      BY <2>1, <2>2
  <1>9. ASSUME NEW r \in Requests, Answer(r) PROVE Shape'
    <2>1. PointersOK'
      BY <1>9 DEF Answer, TypeOK, PointersOK, Held
    <2>2. CallsOK'
      BY <1>9 DEF Answer, TypeOK, CallsOK
    <2>3. QED
      BY <2>1, <2>2
  <1>10. CASE ReapTick
    BY <1>10 DEF ReapTick, PointersOK, CallsOK, Held
  <1>11. CASE ReapSweep
    BY <1>11 DEF ReapSweep, TypeOK, PointersOK, CallsOK, Held
  <1>12. CASE Advance
    BY <1>12 DEF Advance, PointersOK, CallsOK, Held
  <1>13. CASE UNCHANGED vars
    BY <1>13 DEF PointersOK, CallsOK, Held
  <1>14. QED
    BY <1>1, <1>2, <1>3, <1>4, <1>5, <1>6, <1>7, <1>8, <1>9, <1>10, <1>11, <1>12, <1>13
       DEF Next, Call, Step

\* The map holds an order under its own identifier and never one still being
\* built; a call's progress tells what it has created, found and copied.
THEOREM ShapeCorrect == Spec => []Shape
  BY TypeCorrect, ShapeInit, ShapeStep, PTL DEF Spec

--------------------------------------------------------------------------------
(* Capacity *)

LEMMA HeldFinite == IsFiniteSet(Held) /\ Cardinality(Held) \in Nat
  BY IDsAssumption, FS_Subset, FS_CardinalityType DEF Held

\* Storing an order in a map that has room, or that has just lost an entry, keeps
\* it within the limit.
LEMMA PutKeepsCapacity ==
    ASSUME TypeOK, Shape, CapacityBound,
           NEW r \in Requests, NEW v \in OrderIDs \cup {NoID}, CreatePut(r, v)
    PROVE  CapacityBound'
  <1> DEFINE id == heap[r].id
  <1> USE LimitsAssumption, HeldFinite
  <1>1. r # Nil /\ id \in OrderIDs
    BY RequestsAssumption DEF CreatePut, TypeOK, Shape, CallsOK, Order
  <1>2. Held' = (Held \ {v}) \cup {id}
    BY <1>1, IDsAssumption DEF CreatePut, Held
  <1>3. /\ IsFiniteSet(Held \ {v})
        /\ Cardinality(Held') <= Cardinality(Held \ {v}) + 1
        /\ Cardinality(Held \ {v}) \in Nat
    <2>1. IsFiniteSet(Held \ {v})
      BY FS_RemoveElement
    <2>2. Cardinality(Held \ {v}) \in Nat
      BY <2>1, FS_CardinalityType
    <2>3. Cardinality(Held') = IF id \in Held \ {v} THEN Cardinality(Held \ {v})
                               ELSE Cardinality(Held \ {v}) + 1
      BY <1>2, <2>1, FS_AddElement
    <2>4. QED
      BY <2>1, <2>2, <2>3
  <1>4. CASE Held = {}
    <2>1. Held \ {v} = {}
      BY <1>4
    <2>2. Cardinality(Held \ {v}) = 0
      BY <2>1, FS_EmptySet
    <2>3. Cardinality(Held') \in Nat
      BY <1>2, <1>3, FS_AddElement, FS_CardinalityType
    <2>4. QED
      BY <1>3, <2>2, <2>3 DEF CapacityBound
  <1>5. CASE Held # {} /\ Cardinality(Held) >= OrderMax
    <2>1. v \in Held
      BY <1>5 DEF CreatePut, Victims, Oldest
    <2>2. Cardinality(Held \ {v}) = Cardinality(Held) - 1
      BY <2>1, FS_RemoveElement
    <2>3. Cardinality(Held') \in Nat
      BY <1>2, <1>3, FS_AddElement, FS_CardinalityType
    <2>4. QED
      BY <1>3, <2>2, <2>3 DEF CapacityBound
  <1>6. CASE Cardinality(Held) < OrderMax
    <2>1. Cardinality(Held \ {v}) <= Cardinality(Held)
      BY FS_Subset, Held \ {v} \in SUBSET Held
    <2>2. Cardinality(Held') \in Nat
      BY <1>2, <1>3, FS_AddElement, FS_CardinalityType
    <2>3. QED
      BY <1>3, <1>6, <2>1, <2>2 DEF CapacityBound
  <1>7. QED
    BY <1>4, <1>5, <1>6

\* No other step brings a new identifier into the map.
LEMMA CapacityStep == TypeOK /\ Shape /\ CapacityBound /\ [Next]_vars => CapacityBound'
  <1> SUFFICES ASSUME TypeOK, Shape, CapacityBound, [Next]_vars PROVE CapacityBound'
    OBVIOUS
  <1>1. CASE byID' = byID
    BY <1>1 DEF CapacityBound, Held
  <1>2. CASE ReapSweep
    <2>1. Held' \subseteq Held
      BY <1>2 DEF ReapSweep, Held
    <2>2. Cardinality(Held') <= Cardinality(Held) /\ Cardinality(Held') \in Nat
      BY <2>1, HeldFinite, FS_Subset, FS_CardinalityType
    <2>3. QED
      BY <2>2, HeldFinite, LimitsAssumption DEF CapacityBound
  <1>3. ASSUME NEW r \in Requests, NEW v \in OrderIDs \cup {NoID}, CreatePut(r, v)
        PROVE  CapacityBound'
    BY <1>3, PutKeepsCapacity
  <1>4. QED
    BY <1>1, <1>2, <1>3 DEF Next, Call, Step, Refuse, CreateBuild, CreateCopy, CreateAnswer,
       Retrieve, Mutate, NotFound, Answer, ReapTick, Advance

\* The map never holds more than -order-max orders (one when the limit is below
\* one), for every limit, whatever identifiers repeat and however puts, changes
\* and sweeps interleave.
THEOREM CapacityCorrect == Spec => []CapacityBound
  <1>1. Init => CapacityBound
    <2>1. Init => Held = {}
      BY DEF Init, Held
    <2>2. QED
      BY <2>1, FS_EmptySet, LimitsAssumption DEF CapacityBound
  <1>2. QED
    BY <1>1, CapacityStep, TypeCorrect, ShapeCorrect, PTL DEF Spec

--------------------------------------------------------------------------------
(* Copies *)

\* Appending to a sequence keeps its prefixes; every sequence is its own prefix.
LEMMA PrefixOfAppend ==
    ASSUME NEW S, NEW s \in Seq(S), NEW t \in Seq(S), NEW e \in S, IsPrefix(s, t)
    PROVE  IsPrefix(s, Append(t, e))
  <1>1. Len(s) \in Nat /\ Len(t) \in Nat /\ Len(s) <= Len(t)
    BY LenProperties DEF IsPrefix
  <1>2. Append(t, e) = t \o <<e>> /\ Len(Append(t, e)) = Len(t) + 1
    BY AppendIsConcat, AppendProperties
  <1>3. SubSeq(Append(t, e), 1, Len(s)) = SubSeq(t, 1, Len(s))
    <2>1. CASE Len(s) = 0
      BY <2>1, SubSeqEmpty
    <2>2. CASE Len(s) > 0
      <3>1. 1 \in 1..Len(t) /\ Len(s) \in 1..Len(t) /\ <<e>> \in Seq(S)
        BY <1>1, <2>2
      <3>2. QED
        BY <1>2, <3>1, SubSeqOfConcat1
    <2>3. QED
      BY <1>1, <2>1, <2>2
  <1>4. QED
    BY <1>1, <1>2, <1>3 DEF IsPrefix

LEMMA PrefixOfSelf == \A S : \A s \in Seq(S) : IsPrefix(s, s) /\ IsPrefix(<<>>, s)
  <1> SUFFICES ASSUME NEW S, NEW s \in Seq(S) PROVE IsPrefix(s, s) /\ IsPrefix(<<>>, s)
    OBVIOUS
  <1>1. Len(s) \in Nat /\ Len(<<>>) = 0
    BY LenProperties, EmptySeq
  <1>2. SubSeq(s, 1, 0) = <<>> /\ SubSeq(<<>>, 1, 0) = <<>>
    BY SubSeqEmpty
  <1>3. QED
    BY <1>1, <1>2 DEF IsPrefix

\* A new copy is the state its object has, and an object only grows by lines
\* appended to its history: copies made before stay prefixes of it.
LEMMA SnapshotStep == TypeOK /\ Shape /\ SnapshotsArePast /\ [Next]_vars => SnapshotsArePast'
  <1> SUFFICES ASSUME TypeOK, Shape, SnapshotsArePast, [Next]_vars PROVE SnapshotsArePast'
    OBVIOUS
  <1> USE RequestsAssumption, IDsAssumption DEF Shape
  <1>1. CASE UNCHANGED <<heap, obj, snap>>
    BY <1>1 DEF SnapshotsArePast
  <1>2. ASSUME NEW r \in Requests, NEW id \in OrderIDs, CreateBuild(r, id) PROVE SnapshotsArePast'
    <2>1. /\ heap'[r].history = <<"Created">> /\ snap'[r] = NoOrder /\ obj'[r] = r
          /\ \A q \in Requests \ {r} :
                obj'[q] = obj[q] /\ snap'[q] = snap[q] /\ heap'[q] = heap[q]
      BY <1>2 DEF CreateBuild, TypeOK, CallsOK
    <2>2. \A q \in Requests \ {r} : obj[q] # r
      BY <1>2 DEF CreateBuild, TypeOK, CallsOK
    <2>3. IsPrefix(snap'[r].history, heap'[r].history)
      <3>1. <<"Created">> \in Seq(Entries) /\ snap'[r].history = <<>>
        BY <2>1 DEF NoOrder, Entries
      <3>2. QED
        BY <2>1, <3>1, PrefixOfSelf
    <2>4. QED
      BY <2>1, <2>2, <2>3 DEF SnapshotsArePast, TypeOK
  <1>3. ASSUME NEW r \in Requests, CreateCopy(r) PROVE SnapshotsArePast'
    <2>1. heap[r].history \in Seq(Entries)
      BY DEF TypeOK, Order
    <2>2. obj[r] = r /\ IsPrefix(heap[r].history, heap[r].history)
      BY <1>3, <2>1, PrefixOfSelf DEF CreateCopy, CallsOK
    <2>3. QED
      BY <1>3, <2>2 DEF CreateCopy, SnapshotsArePast, TypeOK
  <1>4. ASSUME NEW r \in Requests, CreateAnswer(r) PROVE SnapshotsArePast'
    <2>1. heap[r].history \in Seq(Entries)
      BY DEF TypeOK, Order
    <2>2. /\ obj[r] = r /\ snap[r].id = heap[r].id
          /\ IsPrefix(heap[r].history, heap[r].history)
      BY <1>4, <2>1, PrefixOfSelf DEF CreateAnswer, CallsOK
    <2>3. snap'[r].id = snap[r].id /\ snap'[r].history = heap[r].history
      BY <1>4 DEF CreateAnswer, TypeOK, Order
    <2>4. \A q \in Requests \ {r} : snap'[q] = snap[q]
      BY <1>4 DEF CreateAnswer, TypeOK
    <2>5. UNCHANGED <<heap, obj>>
      BY <1>4 DEF CreateAnswer
    <2>6. QED
      BY <2>2, <2>3, <2>4, <2>5 DEF SnapshotsArePast
  <1>5. ASSUME NEW r \in Requests, NEW id \in OrderIDs, Retrieve(r, id) PROVE SnapshotsArePast'
    <2> DEFINE k == byID[id]
    <2>1. k \in Requests /\ heap[k].history \in Seq(Entries)
      BY <1>5 DEF Retrieve, Held, TypeOK, Order
    <2>2. IsPrefix(heap[k].history, heap[k].history)
      BY <2>1, PrefixOfSelf
    <2>3. snap'[r] = heap[k] /\ obj'[r] = k /\ heap' = heap
      BY <1>5 DEF Retrieve, TypeOK
    <2>4. \A q \in Requests \ {r} : snap'[q] = snap[q] /\ obj'[q] = obj[q]
      BY <1>5 DEF Retrieve, TypeOK
    <2>5. QED
      BY <2>1, <2>2, <2>3, <2>4 DEF SnapshotsArePast
  <1>6. ASSUME NEW r \in Requests, NEW o \in Changes, NEW id \in OrderIDs, Mutate(r, o, id)
        PROVE SnapshotsArePast'
    <2> DEFINE k == byID[id]
               e == StatusAfter(o)
    <2>1. k \in Requests /\ heap[k] \in Order /\ heap[k].history \in Seq(Entries) /\ e \in Entries
      BY <1>6 DEF Mutate, Held, TypeOK, Order, StatusAfter, Entries
    <2>2. /\ heap'[k].history = Append(heap[k].history, e) /\ heap'[k].id = heap[k].id
          /\ \A j \in Requests \ {k} : heap'[j] = heap[j]
      BY <1>6, <2>1 DEF Mutate, TypeOK, Apply, Order
    <2>3. snap'[r] = heap'[k] /\ obj'[r] = k
      BY <1>6 DEF Mutate, TypeOK
    <2>4. \A q \in Requests \ {r} : snap'[q] = snap[q] /\ obj'[q] = obj[q]
      BY <1>6 DEF Mutate, TypeOK
    <2>5. IsPrefix(heap'[k].history, heap'[k].history)
      <3>1. heap'[k].history \in Seq(Entries)
        BY <2>1, <2>2, AppendProperties
      <3>2. QED
        BY <3>1, PrefixOfSelf
    <2>6. ASSUME NEW q \in Requests \ {r}, obj[q] = k
          PROVE  IsPrefix(snap[q].history, heap'[k].history)
      <3>1. snap[q].history \in Seq(Entries)
        BY DEF TypeOK, Order
      <3>2. IsPrefix(snap[q].history, heap[k].history)
        BY <2>6, <2>1 DEF SnapshotsArePast
      <3>3. QED
        BY <2>1, <2>2, <3>1, <3>2, PrefixOfAppend
    <2>7. ASSUME NEW q \in Requests, obj'[q] # Nil
          PROVE  /\ IsPrefix(snap'[q].history, heap'[obj'[q]].history)
                 /\ snap'[q] # NoOrder => snap'[q].id = heap'[obj'[q]].id
      <3>1. CASE q = r
        BY <2>1, <2>3, <2>5, <3>1
      <3>2. CASE q # r /\ obj[q] = k
        BY <2>1, <2>2, <2>4, <2>6, <3>2 DEF SnapshotsArePast
      <3>3. CASE q # r /\ obj[q] # k
        BY <2>2, <2>4, <2>7, <3>3 DEF SnapshotsArePast, TypeOK
      <3>4. QED
        BY <3>1, <3>2, <3>3
    <2>8. QED
      BY <2>7 DEF SnapshotsArePast
  <1>7. ASSUME NEW r \in Requests,
               \/ Refuse(r) \/ Answer(r) \/ \E id \in OrderIDs : NotFound(r, id)
               \/ \E v \in OrderIDs \cup {NoID} : CreatePut(r, v)
        PROVE  UNCHANGED <<heap, obj, snap>>
    BY <1>7 DEF Refuse, Answer, NotFound, CreatePut
  <1>8. ReapTick \/ ReapSweep \/ Advance \/ UNCHANGED vars => UNCHANGED <<heap, obj, snap>>
    BY DEF ReapTick, ReapSweep, Advance
  <1>9. QED
    BY <1>1, <1>2, <1>3, <1>4, <1>5, <1>6, <1>7, <1>8 DEF Next, Call, Step

\* Whatever a call answers with is a past or present state of the order it found:
\* no later change shows in a copy, and no copy shows a line the order never had.
THEOREM SnapshotsCorrect == Spec => []SnapshotsArePast
  <1>1. Init => SnapshotsArePast
    BY DEF Init, SnapshotsArePast
  <1>2. QED
    BY <1>1, SnapshotStep, TypeCorrect, ShapeCorrect, PTL DEF Spec

\* Only a change sets the copy of a call that changes an order, and it sets it to
\* the state its own line ends.
LEMMA OwnChangeStep == TypeOK /\ Shape /\ OwnChangeLast /\ [Next]_vars => OwnChangeLast'
  <1> SUFFICES ASSUME TypeOK, Shape, OwnChangeLast, [Next]_vars PROVE OwnChangeLast'
    OBVIOUS
  <1> USE RequestsAssumption, IDsAssumption DEF Shape
  <1>1. CASE UNCHANGED <<op, obj, snap>>
    BY <1>1 DEF OwnChangeLast
  <1>2. ASSUME NEW r \in Requests, NEW id \in OrderIDs, CreateBuild(r, id) PROVE OwnChangeLast'
    BY <1>2 DEF CreateBuild, TypeOK, OwnChangeLast, Changes
  <1>3. ASSUME NEW r \in Requests, CreateCopy(r) \/ CreateAnswer(r) PROVE OwnChangeLast'
    <2>1. op[r] = "OrderCreate" /\ \A q \in Requests \ {r} : snap'[q] = snap[q]
      BY <1>3 DEF CreateCopy, CreateAnswer, TypeOK, CallsOK
    <2>2. op' = op /\ obj' = obj
      BY <1>3 DEF CreateCopy, CreateAnswer
    <2>3. QED
      BY <2>1, <2>2 DEF OwnChangeLast, Changes
  <1>4. ASSUME NEW r \in Requests, NEW id \in OrderIDs, Retrieve(r, id) PROVE OwnChangeLast'
    BY <1>4 DEF Retrieve, TypeOK, OwnChangeLast, Changes
  <1>5. ASSUME NEW r \in Requests, NEW o \in Changes, NEW id \in OrderIDs, Mutate(r, o, id)
        PROVE  OwnChangeLast'
    <2> DEFINE k == byID[id]
               e == StatusAfter(o)
    <2>1. k \in Requests /\ heap[k] \in Order /\ heap[k].history \in Seq(Entries) /\ e \in Entries
      BY <1>5 DEF Mutate, Held, TypeOK, Order, StatusAfter, Entries
    <2>2. snap'[r] = Apply(o, heap[k]) /\ op'[r] = o
      BY <1>5, <2>1 DEF Mutate, TypeOK
    <2>3. snap'[r].status = e /\ snap'[r].history = Append(heap[k].history, e)
      BY <2>1, <2>2 DEF Apply, Order
    <2>4. Last(snap'[r].history) = e
      BY <2>1, <2>3, AppendProperties, LenProperties DEF Last
    <2>5. \A q \in Requests \ {r} : snap'[q] = snap[q] /\ obj'[q] = obj[q] /\ op'[q] = op[q]
      BY <1>5 DEF Mutate, TypeOK
    <2>6. QED
      BY <2>2, <2>3, <2>4, <2>5 DEF OwnChangeLast
  <1>6. ASSUME NEW r \in Requests,
               \/ Refuse(r) \/ Answer(r) \/ \E id \in OrderIDs : NotFound(r, id)
               \/ \E v \in OrderIDs \cup {NoID} : CreatePut(r, v)
        PROVE  UNCHANGED <<op, obj, snap>>
    BY <1>6 DEF Refuse, Answer, NotFound, CreatePut
  <1>7. ReapTick \/ ReapSweep \/ Advance \/ UNCHANGED vars => UNCHANGED <<op, obj, snap>>
    BY DEF ReapTick, ReapSweep, Advance
  <1>8. QED
    BY <1>1, <1>2, <1>3, <1>4, <1>5, <1>6, <1>7 DEF Next, Call, Step

\* A call that changed an order answers with the state its own change left.
THEOREM OwnChangeCorrect == Spec => []OwnChangeLast
  <1>1. Init => OwnChangeLast
    BY DEF Init, OwnChangeLast, Changes
  <1>2. QED
    BY <1>1, OwnChangeStep, TypeCorrect, ShapeCorrect, PTL DEF Spec

--------------------------------------------------------------------------------
(* Removals *)

LEMMA CutStep == TypeOK /\ CutOK /\ [Next]_vars => CutOK'
  <1> SUFFICES ASSUME TypeOK, CutOK, [Next]_vars PROVE CutOK'
    OBVIOUS
  <1> USE LimitsAssumption, BoundsAssumption
  <1>1. CASE ReapTick
    BY <1>1 DEF ReapTick, CutOK, TypeOK
  <1>2. CASE ReapSweep
    BY <1>2 DEF ReapSweep, CutOK
  <1>3. CASE Advance
    <2>1. now' \in Int /\ now <= now' /\ now \in Int /\ cut \in Int
      BY <1>3 DEF Advance, TypeOK
    <2>2. reaper' = reaper /\ cut' = cut
      BY <1>3 DEF Advance
    <2>3. cut <= now - TTL => cut <= now' - TTL
      <3>1. \A a, b, c, d \in Int : a <= b - d /\ b <= c => a <= c - d
        OBVIOUS
      <3>2. TTL \in Int
        OBVIOUS
      <3>3. QED
        BY <2>1, <3>1, <3>2
    <2>4. QED
      BY <2>2, <2>3 DEF CutOK
  <1>4. CASE UNCHANGED <<now, reaper, cut>>
    BY <1>4 DEF CutOK
  <1>5. ASSUME NEW r \in Requests, Call(r) \/ Step(r) PROVE UNCHANGED <<now, reaper, cut>>
    BY <1>5 DEF Call, Step, Refuse, CreateBuild, CreatePut, CreateCopy, CreateAnswer, Retrieve,
       Mutate, NotFound, Answer
  <1>6. QED
    BY <1>1, <1>2, <1>3, <1>4, <1>5 DEF Next

\* put loses an oldest entry of a full map, the reaper loses old ones, and no
\* other step changes what the map holds.
LEMMA RemovalStep == TypeOK /\ Shape /\ CutOK /\ [Next]_vars => [JustifiedRemovals]_vars
  <1> SUFFICES ASSUME TypeOK, Shape, CutOK, [Next]_vars PROVE JustifiedRemovals
    OBVIOUS
  <1> USE RequestsAssumption, IDsAssumption, LimitsAssumption
  <1>1. CASE byID' = byID
    BY <1>1 DEF JustifiedRemovals
  <1>2. CASE ReapSweep
    <2>1. ASSUME NEW id \in Held, byID'[id] # byID[id]
          PROVE  now - heap[byID[id]].createdAt > TTL
      <3>1. heap[byID[id]].createdAt < cut /\ cut <= now - TTL
        BY <1>2, <2>1 DEF ReapSweep, Held, CutOK
      <3>2. heap[byID[id]] \in Order /\ cut \in Int /\ now \in Int
        BY BoundsAssumption DEF TypeOK, Held
      <3>3. heap[byID[id]].createdAt \in Int
        BY <3>2, BoundsAssumption DEF Order
      <3>4. QED
        BY <3>1, <3>2, <3>3
    <2>2. QED
      BY <2>1 DEF JustifiedRemovals
  <1>3. ASSUME NEW r \in Requests, NEW v \in OrderIDs \cup {NoID}, CreatePut(r, v)
        PROVE  JustifiedRemovals
    <2>1. ASSUME NEW id \in Held, byID'[id] # byID[id], byID'[id] = Nil
          PROVE  /\ Cardinality(Held) >= OrderMax /\ id \in Oldest
                 /\ \A other \in Held \ {id} : byID'[other] # Nil
      <3>1. id = v
        BY <1>3, <2>1 DEF CreatePut, Held
      <3>2. v \in Victims /\ v # NoID
        BY <1>3, <3>1 DEF CreatePut, Held
      <3>3. Cardinality(Held) >= OrderMax /\ v \in Oldest
        BY <3>2 DEF Victims
      <3>4. \A other \in Held \ {id} : byID'[other] # Nil
        BY <1>3, <3>1 DEF CreatePut, Held
      <3>5. QED
        BY <3>1, <3>3, <3>4
    <2>2. QED
      BY <2>1 DEF JustifiedRemovals
  <1>4. ASSUME NEW r \in Requests,
               \/ Call(r) \/ CreateCopy(r) \/ CreateAnswer(r) \/ Answer(r)
        PROVE  byID' = byID
    BY <1>4 DEF Call, Refuse, CreateBuild, CreateCopy, CreateAnswer, Retrieve, Mutate, NotFound,
       Answer
  <1>5. ReapTick \/ Advance \/ UNCHANGED vars => byID' = byID
    BY DEF ReapTick, Advance
  <1>6. QED
    BY <1>1, <1>2, <1>3, <1>4, <1>5 DEF Next, Step

\* An order leaves the store because it is older than -order-ttl, because it is an
\* oldest one of a full map, or because its identifier was issued again.
THEOREM RemovalCorrect == Spec => RemovalJustified
  <1>1. Init => CutOK
    BY DEF Init, CutOK
  <1>2. Spec => []CutOK
    BY <1>1, CutStep, TypeCorrect, PTL DEF Spec
  <1>3. QED
    BY <1>2, RemovalStep, TypeCorrect, ShapeCorrect, PTL DEF Spec, RemovalJustified

--------------------------------------------------------------------------------
(* No change is lost *)

\* Appending a line to a history adds one position of that line and none of another.
LEMMA LinesOfAppend ==
    ASSUME NEW h \in Seq(Entries), NEW e \in Entries
    PROVE  /\ Cardinality(Lines(Append(h, e), e)) = Cardinality(Lines(h, e)) + 1
           /\ \A d \in Entries \ {e} : Lines(Append(h, e), d) = Lines(h, d)
  <1>1. /\ DOMAIN Append(h, e) = 1..Len(h) + 1 /\ DOMAIN h = 1..Len(h) /\ Len(h) \in Nat
        /\ Append(h, e)[Len(h) + 1] = e
        /\ \A i \in 1..Len(h) : Append(h, e)[i] = h[i]
    <2>1. /\ Append(h, e) \in Seq(Entries) /\ Len(Append(h, e)) = Len(h) + 1
          /\ Append(h, e)[Len(h) + 1] = e
          /\ \A i \in 1..Len(h) : Append(h, e)[i] = h[i]
      BY AppendProperties
    <2>2. /\ DOMAIN h = 1..Len(h) /\ Len(h) \in Nat
          /\ DOMAIN Append(h, e) = 1..Len(Append(h, e))
      BY <2>1, LenProperties
    <2>3. QED
      BY <2>1, <2>2
  <1>2. IsFiniteSet(Lines(h, e))
    <2>1. Lines(h, e) \in SUBSET (1..Len(h))
      BY <1>1 DEF Lines
    <2>2. IsFiniteSet(1..Len(h))
      BY <1>1, FS_Interval
    <2>3. QED
      BY <2>1, <2>2, FS_Subset
  <1>3. Lines(Append(h, e), e) = Lines(h, e) \cup {Len(h) + 1}
    BY <1>1 DEF Lines
  <1>4. Len(h) + 1 \notin Lines(h, e)
    BY <1>1 DEF Lines
  <1>5. Cardinality(Lines(Append(h, e), e)) = Cardinality(Lines(h, e)) + 1
    BY <1>2, <1>3, <1>4, FS_AddElement
  <1>6. ASSUME NEW d \in Entries \ {e} PROVE Lines(Append(h, e), d) = Lines(h, d)
    BY <1>1 DEF Lines
  <1>7. QED
    BY <1>5, <1>6

\* A change adds its call to the calls that reached the order and its line, and no
\* other, to the order's history.
LEMMA MutateCounts ==
    ASSUME TypeOK, Shape, NoLostUpdate,
           NEW r \in Requests, NEW o \in Changes, NEW id \in OrderIDs, Mutate(r, o, id)
    PROVE  NoLostUpdate'
  <1> DEFINE k == byID[id]
             h == heap[k].history
             e == StatusAfter(o)
  <1> USE RequestsAssumption
  <1>1. /\ k \in Requests /\ h \in Seq(Entries) /\ e \in Entries
        /\ heap[k] # NoOrder /\ obj[r] = Nil
    <2>1. k \in Requests /\ heap[k] \in Order /\ e \in Entries
      BY DEF Mutate, Held, TypeOK, StatusAfter, Entries
    <2>2. h \in Seq(Entries)
      BY <2>1 DEF Order
    <2>3. op[k] = "OrderCreate" /\ obj[r] = Nil
      BY DEF Mutate, Shape, PointersOK, CallsOK
    <2>4. heap[k] # NoOrder
      BY <2>1, <2>3 DEF Shape, CallsOK, NoOrder
    <2>5. QED
      BY <2>1, <2>2, <2>3, <2>4
  <1>2. /\ heap'[k].history = Append(h, e)
        /\ \A j \in Requests \ {k} : heap'[j] = heap[j]
    BY <1>1 DEF Mutate, TypeOK, Apply, Order
  <1>3. /\ obj'[r] = k /\ op'[r] = o
        /\ \A q \in Requests \ {r} : obj'[q] = obj[q] /\ op'[q] = op[q]
    BY DEF Mutate, TypeOK
  <1>4. ASSUME NEW j \in Requests, heap'[j] # NoOrder, NEW p \in Changes
        PROVE  Cardinality(Lines(heap'[j].history, StatusAfter(p))) = Cardinality(Reachers(j, p)')
    <2>1. CASE j # k
      <3>1. heap'[j] = heap[j] /\ heap[j] # NoOrder
        BY <1>2, <1>4, <2>1
      <3>2. Reachers(j, p)' = Reachers(j, p)
        BY <1>1, <1>3, <2>1 DEF Reachers
      <3>3. QED
        BY <3>1, <3>2 DEF NoLostUpdate
    <2>2. CASE j = k /\ p # o
      <3>1. Reachers(j, p)' = Reachers(j, p)
        BY <1>1, <1>3, <2>2 DEF Reachers
      <3>2. StatusAfter(p) \in Entries \ {e}
        BY <2>2 DEF StatusAfter, Changes, Entries
      <3>3. Lines(heap'[j].history, StatusAfter(p)) = Lines(h, StatusAfter(p))
        BY <1>1, <1>2, <2>2, <3>2, LinesOfAppend, ZenonT(60)
      <3>4. QED
        BY <1>1, <2>2, <3>1, <3>3 DEF NoLostUpdate
    <2>3. CASE j = k /\ p = o
      <3>1. Reachers(j, o)' = Reachers(j, o) \cup {r} /\ r \notin Reachers(j, o)
        BY <1>1, <1>3, <2>3 DEF Reachers
      <3>2. IsFiniteSet(Reachers(j, o))
        BY FS_Subset, Reachers(j, o) \in SUBSET Requests DEF Reachers
      <3>3. Cardinality(Reachers(j, o)') = Cardinality(Reachers(j, o)) + 1
        BY <3>1, <3>2, FS_AddElement
      <3>4. Cardinality(Lines(heap'[j].history, e)) = Cardinality(Lines(h, e)) + 1
        BY <1>1, <1>2, <2>3, LinesOfAppend
      <3>5. Cardinality(Lines(h, e)) = Cardinality(Reachers(j, o))
        BY <1>1, <2>3 DEF NoLostUpdate
      <3>6. QED
        BY <2>3, <3>3, <3>4, <3>5
    <2>4. QED
      BY <2>1, <2>2, <2>3
  <1>5. QED
    BY <1>4 DEF NoLostUpdate

\* A new order has its first line only and no call has reached it; no other step
\* touches a history or makes a call reach an order for a change.
LEMMA CountStep == TypeOK /\ Shape /\ NoLostUpdate /\ [Next]_vars => NoLostUpdate'
  <1> SUFFICES ASSUME TypeOK, Shape, NoLostUpdate, [Next]_vars PROVE NoLostUpdate'
    OBVIOUS
  <1> USE RequestsAssumption
  <1>1. ASSUME heap' = heap, \A k \in Requests, o \in Changes : Reachers(k, o)' = Reachers(k, o)
        PROVE  NoLostUpdate'
    BY <1>1 DEF NoLostUpdate
  <1>2. CASE UNCHANGED <<heap, op, obj>>
    <2>1. \A k \in Requests, o \in Changes : Reachers(k, o)' = Reachers(k, o)
      BY <1>2 DEF Reachers
    <2>2. QED
      BY <1>1, <1>2, <2>1
  <1>3. ASSUME NEW r \in Requests, NEW id \in OrderIDs, Retrieve(r, id) PROVE NoLostUpdate'
    <2>1. op[r] = "none" /\ op'[r] = "OrderRetrieve"
      BY <1>3 DEF Retrieve, TypeOK, Shape, CallsOK
    <2>2. \A q \in Requests \ {r} : op'[q] = op[q] /\ obj'[q] = obj[q]
      BY <1>3 DEF Retrieve, TypeOK
    <2>3. \A k \in Requests, o \in Changes : Reachers(k, o)' = Reachers(k, o)
      BY <2>1, <2>2 DEF Reachers, Changes
    <2>4. QED
      BY <1>1, <1>3, <2>3 DEF Retrieve
  <1>4. ASSUME NEW r \in Requests, NEW id \in OrderIDs, CreateBuild(r, id) PROVE NoLostUpdate'
    <2>1. op[r] = "none" /\ op'[r] = "OrderCreate"
      BY <1>4 DEF CreateBuild, TypeOK, Shape, CallsOK
    <2>2. \A q \in Requests \ {r} : op'[q] = op[q] /\ obj'[q] = obj[q] /\ heap'[q] = heap[q]
      BY <1>4 DEF CreateBuild, TypeOK
    <2>3. \A k \in Requests, o \in Changes : Reachers(k, o)' = Reachers(k, o)
      BY <2>1, <2>2 DEF Reachers, Changes
    <2>4. \A o \in Changes : Reachers(r, o) = {}
      BY <2>1 DEF Shape, CallsOK, Reachers, Changes
    <2>5. ASSUME NEW o \in Changes
          PROVE  Lines(heap'[r].history, StatusAfter(o)) = {}
      <3>1. heap'[r].history = <<"Created">>
        BY <1>4 DEF CreateBuild, TypeOK
      <3>2. QED
        BY <3>1 DEF Lines, StatusAfter
    <2>6. ASSUME NEW k \in Requests, heap'[k] # NoOrder, NEW o \in Changes
          PROVE  Cardinality(Lines(heap'[k].history, StatusAfter(o))) = Cardinality(Reachers(k, o)')
      <3>1. CASE k = r
        BY <2>3, <2>4, <2>5, <3>1
      <3>2. CASE k # r
        BY <2>2, <2>3, <2>6, <3>2 DEF NoLostUpdate
      <3>3. QED
        BY <3>1, <3>2
    <2>7. QED
      BY <2>6 DEF NoLostUpdate
  <1>5. ASSUME NEW r \in Requests, NEW o \in Changes, NEW id \in OrderIDs, Mutate(r, o, id)
        PROVE  NoLostUpdate'
    BY <1>5, MutateCounts
  <1>6. ASSUME NEW r \in Requests,
               \/ Refuse(r) \/ Answer(r) \/ CreateCopy(r) \/ CreateAnswer(r)
               \/ \E id \in OrderIDs : NotFound(r, id)
               \/ \E v \in OrderIDs \cup {NoID} : CreatePut(r, v)
        PROVE  UNCHANGED <<heap, op, obj>>
    BY <1>6 DEF Refuse, Answer, CreateCopy, CreateAnswer, NotFound, CreatePut
  <1>7. ReapTick \/ ReapSweep \/ Advance \/ UNCHANGED vars => UNCHANGED <<heap, op, obj>>
    BY DEF ReapTick, ReapSweep, Advance
  <1>8. QED
    BY <1>2, <1>3, <1>4, <1>5, <1>6, <1>7 DEF Next, Call, Step

\* Every call that changed an order left exactly one line in its history.
THEOREM NoLostUpdateCorrect == Spec => []NoLostUpdate
  <1>1. Init => NoLostUpdate
    BY DEF Init, NoLostUpdate
  <1>2. QED
    BY <1>1, CountStep, TypeCorrect, ShapeCorrect, PTL DEF Spec

--------------------------------------------------------------------------------
(* The store implements the registry *)

Registered == [id \in OrderIDs |-> IF byID[id] = Nil THEN <<>> ELSE heap[byID[id]].history]
Told == [r \in Requests |-> IF op[r] \in Changes \cup {"OrderRetrieve"} THEN snap[r].history
                             ELSE IF code[r] = 404 THEN <<>> ELSE Nil]

LEMMA ToldIsFunction ==
    /\ Told = [q \in Requests |-> Told[q]] /\ Told' = [q \in Requests |-> Told'[q]]
    /\ Registered = [i \in OrderIDs |-> Registered[i]]
    /\ Registered' = [i \in OrderIDs |-> Registered'[i]]
  BY DEF Told, Registered

\* Each step of the code is a step of the registry or leaves it alone: put creates,
\* get and a miss read, mutate changes, the sweep forgets.
LEMMA RegistryStep ==
    TypeOK /\ Shape /\ [Next]_vars => [Registry!RegistryNext]_(Registry!registryVars)
  <1> SUFFICES ASSUME TypeOK, Shape, [Next]_vars
               PROVE  \/ Registry!RegistryNext
                      \/ Registered' = Registered /\ Told' = Told
    BY DEF Registry!registryVars, Registered, Told
  <1> USE RequestsAssumption, IDsAssumption
  <1>1. ASSUME NEW r \in Requests, Refuse(r) \/ Answer(r)
        PROVE  Registered' = Registered /\ Told' = Told
    <2>1. heap' = heap /\ byID' = byID /\ op' = op /\ snap' = snap
      BY <1>1 DEF Refuse, Answer
    <2>2. \A q \in Requests : Told'[q] = Told[q]
      BY <1>1, <2>1 DEF Refuse, Answer, Told, TypeOK, Shape, CallsOK
    <2>3. QED
      BY <2>1, <2>2 DEF Registered, Told
  <1>2. ASSUME NEW r \in Requests, NEW id \in OrderIDs, CreateBuild(r, id)
        PROVE  Registered' = Registered /\ Told' = Told
    <2>1. op[r] = "none" /\ code[r] = 0 /\ op'[r] = "OrderCreate" /\ code' = code /\ snap' = snap
      BY <1>2 DEF CreateBuild, TypeOK, Shape, CallsOK
    <2>2. \A q \in Requests \ {r} : op'[q] = op[q] /\ heap'[q] = heap[q]
      BY <1>2 DEF CreateBuild, TypeOK
    <2>3. byID' = byID /\ \A i \in OrderIDs : byID[i] # r
      BY <1>2, <2>1 DEF CreateBuild, Shape, PointersOK, Held
    <2>4. Told' = Told
      BY <2>1, <2>2 DEF Told, Changes
    <2>5. Registered' = Registered
      BY <2>2, <2>3 DEF Registered, TypeOK
    <2>6. QED
      BY <2>4, <2>5
  <1>3. ASSUME NEW r \in Requests, NEW v \in OrderIDs \cup {NoID}, CreatePut(r, v)
        PROVE  Registry!RegistryNext
    <2>0. PICK lost \in SUBSET OrderIDs : lost = {v} \ {NoID}
      OBVIOUS
    <2>1. /\ heap[r].id \in OrderIDs /\ heap[r].history = <<"Created">>
          /\ op' = op /\ snap' = snap /\ code' = code /\ heap' = heap
      BY <1>3 DEF CreatePut, TypeOK, Order, Shape, CallsOK
    <2>2. \A i \in OrderIDs : Registered'[i] = IF i = heap[r].id THEN <<"Created">>
                               ELSE IF i \in lost THEN <<>> ELSE Registered[i]
      BY <1>3, <2>0, <2>1 DEF CreatePut, Registered
    <2>3. Registered' = [i \in OrderIDs |-> IF i = heap[r].id THEN <<"Created">>
                               ELSE IF i \in lost THEN <<>> ELSE Registered[i]]
      BY <2>2 DEF Registered
    <2>4. Told' = Told
      BY <2>1 DEF Told
    <2>5. Registry!Create(heap[r].id, lost)
      BY <2>3, <2>4 DEF Registry!Create, Registered, Told
    <2>6. \A a, b \in lost : a = b
      BY <2>0
    <2>7. QED
      BY <2>1, <2>5, <2>6 DEF Registry!RegistryNext
  <1>4. ASSUME NEW r \in Requests, CreateCopy(r) \/ CreateAnswer(r)
        PROVE  Registered' = Registered /\ Told' = Told
    <2>1. /\ op[r] = "OrderCreate" /\ heap' = heap /\ byID' = byID /\ op' = op
          /\ code[r] = 0 /\ code'[r] # 404
          /\ \A q \in Requests \ {r} : snap'[q] = snap[q] /\ code'[q] = code[q]
      BY <1>4 DEF CreateCopy, CreateAnswer, TypeOK, Shape, CallsOK
    <2>2. Told' = Told
      BY <2>1 DEF Told, Changes
    <2>3. QED
      BY <2>1, <2>2 DEF Registered
  <1>5. ASSUME NEW r \in Requests, NEW id \in OrderIDs, Retrieve(r, id)
        PROVE  Registry!RegistryNext
    <2>1. /\ op[r] = "none" /\ code[r] = 0 /\ byID[id] # Nil
          /\ heap' = heap /\ byID' = byID /\ code' = code
          /\ op'[r] = "OrderRetrieve" /\ snap'[r] = heap[byID[id]]
          /\ \A q \in Requests \ {r} : snap'[q] = snap[q] /\ op'[q] = op[q]
      BY <1>5 DEF Retrieve, TypeOK, Shape, CallsOK, Held
    <2>2. Told[r] = Nil /\ Registered' = Registered
      BY <2>1 DEF Told, Registered, Changes
    <2>3. \A q \in Requests : Told'[q] = IF q = r THEN Registered[id] ELSE Told[q]
      BY <2>1 DEF Told, Registered
    <2>4. Told' = [Told EXCEPT ![r] = Registered[id]]
      BY <2>3, ToldIsFunction
    <2>5. Registry!Read(r, id)
      BY <2>2, <2>4 DEF Registry!Read, Told, Registered
    <2>6. QED
      BY <2>5 DEF Registry!RegistryNext
  <1>6. ASSUME NEW r \in Requests, NEW o \in Changes, NEW id \in OrderIDs, Mutate(r, o, id)
        PROVE  Registry!RegistryNext
    <2> DEFINE k == byID[id]
               e == StatusAfter(o)
    <2>1. /\ k \in Requests /\ k # Nil /\ op[r] = "none" /\ code[r] = 0
          /\ byID' = byID /\ code' = code /\ op'[r] = o
          /\ heap'[k].history = Append(heap[k].history, e) /\ snap'[r] = heap'[k]
          /\ heap[k].history # <<>>
      <3>1. k \in Requests /\ k # Nil /\ heap[k] \in Order
        BY <1>6 DEF Mutate, Held, TypeOK
      <3>2. heap'[k].history = Append(heap[k].history, e)
        BY <1>6, <3>1 DEF Mutate, TypeOK, Apply, Order
      <3>3. heap[k].history # <<>>
        BY <1>6 DEF Mutate, Shape, PointersOK, CallsOK, Held, TypeOK
      <3>4. QED
        BY <1>6, <3>1, <3>2, <3>3 DEF Mutate, TypeOK, Shape, CallsOK
    <2>2. /\ \A q \in Requests \ {r} : snap'[q] = snap[q] /\ op'[q] = op[q]
          /\ \A j \in Requests \ {k} : heap'[j] = heap[j]
      BY <1>6 DEF Mutate, TypeOK
    <2>3. \A i \in OrderIDs \ {id} : byID[i] # k
      BY <1>6, <2>1 DEF Mutate, Shape, PointersOK, Held
    <2>4. \A i \in OrderIDs : Registered'[i] = IF i = id THEN Append(Registered[id], e)
                                                ELSE Registered[i]
      <3>1. Registered'[id] = Append(Registered[id], e)
        BY <2>1 DEF Registered
      <3>2. ASSUME NEW i \in OrderIDs \ {id} PROVE Registered'[i] = Registered[i]
        <4>1. byID[i] = Nil \/ byID[i] \in Requests \ {k}
          BY <2>3, <3>2 DEF TypeOK
        <4>2. QED
          BY <2>1, <2>2, <4>1 DEF Registered
      <3>3. QED
        BY <3>1, <3>2
    <2>5. Registered' = [Registered EXCEPT ![id] = Append(@, e)]
      BY <2>4, ToldIsFunction
    <2>6. Told[r] = Nil /\ Registered[id] # <<>>
      BY <2>1 DEF Told, Registered, Changes
    <2>7. \A q \in Requests : Told'[q] = IF q = r THEN Append(Registered[id], e) ELSE Told[q]
      BY <2>1, <2>2, ZenonT(60) DEF Told, Registered
    <2>8. Told' = [Told EXCEPT ![r] = Append(Registered[id], e)]
      BY <2>7, ToldIsFunction
    <2>9. Registry!Change(r, id, e)
      BY <2>5, <2>6, <2>8 DEF Registry!Change, Told, Registered
    <2>10. e \in {"Changed", "Cancelled"}
      BY DEF StatusAfter
    <2>11. QED
      BY <2>9, <2>10 DEF Registry!RegistryNext
  <1>7. ASSUME NEW r \in Requests, NEW id \in OrderIDs, NotFound(r, id)
        PROVE  Registry!RegistryNext
    <2>1. /\ op[r] = "none" /\ code[r] = 0 /\ byID[id] = Nil /\ code'[r] = 404
          /\ heap' = heap /\ byID' = byID /\ op' = op /\ snap' = snap
          /\ \A q \in Requests \ {r} : code'[q] = code[q]
      BY <1>7 DEF NotFound, TypeOK, Shape, CallsOK, Held
    <2>2. Told[r] = Nil /\ Registered' = Registered
      BY <2>1 DEF Told, Registered, Changes
    <2>3. \A q \in Requests : Told'[q] = IF q = r THEN Registered[id] ELSE Told[q]
      BY <2>1 DEF Told, Registered, Changes
    <2>4. Told' = [Told EXCEPT ![r] = Registered[id]]
      BY <2>3, ToldIsFunction
    <2>5. Registry!Read(r, id)
      BY <2>2, <2>4 DEF Registry!Read, Told, Registered
    <2>6. QED
      BY <2>5 DEF Registry!RegistryNext
  <1>8. ASSUME ReapSweep PROVE Registry!RegistryNext
    <2>0. PICK lost \in SUBSET OrderIDs : lost = {i \in Held : heap[byID[i]].createdAt < cut}
      BY DEF Held
    <2>1. op' = op /\ snap' = snap /\ code' = code /\ heap' = heap
      BY <1>8 DEF ReapSweep
    <2>2. \A i \in OrderIDs : Registered'[i] = IF i \in lost THEN <<>> ELSE Registered[i]
      BY <1>8, <2>0, <2>1 DEF ReapSweep, Registered
    <2>3. Registered' = [i \in OrderIDs |-> IF i \in lost THEN <<>> ELSE Registered[i]]
      BY <2>2 DEF Registered
    <2>4. Registry!Forget(lost)
      BY <2>1, <2>3 DEF Registry!Forget, Registered, Told
    <2>5. QED
      BY <2>4 DEF Registry!RegistryNext
  <1>9. ReapTick \/ Advance \/ UNCHANGED vars => Registered' = Registered /\ Told' = Told
    BY DEF ReapTick, Advance, Registered, Told
  <1>10. QED
    BY <1>1, <1>2, <1>3, <1>4, <1>5, <1>6, <1>7, <1>8, <1>9 DEF Next, Call, Step

\* The store implements the registry: every call takes effect at one point between
\* its arrival and its answer, and is told what the order was at that point.
THEOREM RegistryImplemented == Spec => ImplementsRegistry
  <1>1. Init => Registry!RegistryInit
    BY DEF Init, Registry!RegistryInit, Changes
  <1>2. QED
    BY <1>1, RegistryStep, TypeCorrect, ShapeCorrect, PTL
       DEF Spec, ImplementsRegistry, Registry!RegistrySpec

--------------------------------------------------------------------------------
(* The inductive invariant as a whole *)

\* The conjunction the theorems above are parts of, as TLC checks it.
THEOREM IInvCorrect == Spec => []IInv
  <1>1. Init => CutOK
    BY DEF Init, CutOK
  <1>2. Spec => []CutOK
    BY <1>1, CutStep, TypeCorrect, PTL DEF Spec
  <1>3. QED
    BY <1>2, TypeCorrect, CapacityCorrect, ShapeCorrect, SnapshotsCorrect, OwnChangeCorrect, PTL
       DEF IInv, Shape
================================================================================
