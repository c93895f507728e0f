---------------------------- MODULE BufferPoolProofs ----------------------------
(***************************************************************************)
(* Proofs about BufferPool, for any number of requests and arrays, any     *)
(* sizes of responses and any capacities: a client gets its own response,  *)
(* and the pool stays small.  All rests on no array being in two hands:    *)
(* Apart says so, Rendering what it means for what an array holds.         *)
(***************************************************************************)
EXTENDS BufferPool, FiniteSetTheorems, SequenceTheorems, TLAPS

--------------------------------------------------------------------------------
(* The invariant *)

\* A request that renders or writes
Busy(r) == pc[r] \in {"rendering", "writing"}

\* A request holds an array while it is busy, nobody else holds it and it is not in the pool.
Apart ==
    /\ \A r \in Requests : Busy(r) <=> buf[r] # None
    /\ \A r, s \in Requests : Busy(r) /\ Busy(s) /\ buf[r] = buf[s] => r = s
    /\ \A r \in Requests : buf[r] \notin pool

\* What is held has room, so that twice the room is more.
Roomy ==
    /\ \A a \in pool : room[a] > 0
    /\ \A r \in Requests : Busy(r) => room[buf[r]] > 0

\* The units a request counts are its own, and they are in its array.
Rendering ==
    \A r \in Requests :
        /\ Busy(r) => /\ used[r] <= Size[r] /\ used[r] <= Len(data[buf[r]])
                      /\ \A i \in 1..used[r] : data[buf[r]][i] = r
        /\ pc[r] = "ready" => used[r] = 0
        /\ pc[r] = "writing" => used[r] = Size[r]

\* Nothing is sent before it is rendered, and all of it in the end.
Sending ==
    \A r \in Requests :
        /\ Len(sent[r]) <= used[r]
        /\ \A i \in 1..Len(sent[r]) : sent[r][i] = r
        /\ pc[r] \in {"ready", "rendering"} => Len(sent[r]) = 0
        /\ pc[r] = "done" => Len(sent[r]) = Size[r]

Done == {r \in Requests : pc[r] = "done"}

\* Each array of the pool was put there by a request that is done.
Pooled ==
    /\ IsFiniteSet(pool)
    /\ \A a \in pool : room[a] <= KeepCap
    /\ Cardinality(pool) <= Cardinality(Done)

IInv == TypeOK /\ Apart /\ Roomy /\ Rendering /\ Sending /\ Pooled

--------------------------------------------------------------------------------
(* Lemmas *)

\* The units rendered so far and one more
Unit(s, n, x) == Append(SubSeq(s, 1, n), x)

LEMMA UnitProperties ==
    ASSUME NEW s \in Seq(Requests), NEW x \in Requests, NEW n \in Nat, n <= Len(s)
    PROVE  /\ Unit(s, n, x) \in Seq(Requests) /\ Len(Unit(s, n, x)) = n + 1
           /\ \A i \in 1..n : Unit(s, n, x)[i] = s[i]
           /\ Unit(s, n, x)[n + 1] = x
  <1> DEFINE front == SubSeq(s, 1, n)
  <1>1. \A i \in 1..n : s[i] \in Requests
    BY ElementOfSeq
  <1>2. front \in Seq(Requests) /\ Len(front) = n /\ \A i \in 1..n : front[i] = s[i]
    <2>1. /\ front \in Seq(Requests)
          /\ Len(front) = IF 1 <= n THEN n - 1 + 1 ELSE 0
          /\ \A i \in 1..(n - 1 + 1) : front[i] = s[1 + i - 1]
      BY <1>1, SubSeqProperties
    <2> QED
      BY <2>1
  <1> HIDE DEF front
  <1>3. /\ Append(front, x) \in Seq(Requests) /\ Len(Append(front, x)) = n + 1
        /\ \A i \in 1..n : Append(front, x)[i] = front[i]
        /\ Append(front, x)[n + 1] = x
    BY <1>2, AppendProperties
  <1> QED
    BY <1>2, <1>3 DEF front, Unit

\* The same in place: what stood behind it stays.
InPlace(s, n, x) == Unit(s, n, x) \o SubSeq(s, n + 2, Len(s))

LEMMA InPlaceProperties ==
    ASSUME NEW s \in Seq(Requests), NEW x \in Requests, NEW n \in Nat, n <= Len(s)
    PROVE  /\ InPlace(s, n, x) \in Seq(Requests)
           /\ n < Len(s) => Len(InPlace(s, n, x)) = Len(s)
           /\ n = Len(s) => Len(InPlace(s, n, x)) = n + 1
           /\ \A i \in 1..n : InPlace(s, n, x)[i] = s[i]
           /\ InPlace(s, n, x)[n + 1] = x
  <1>1. PICK len \in Nat : len = Len(s) /\ n <= len
    OBVIOUS
  <1>2. PICK unit : unit = Unit(s, n, x)
    OBVIOUS
  <1>3. /\ unit \in Seq(Requests) /\ Len(unit) = n + 1
        /\ \A i \in 1..n : unit[i] = s[i]
        /\ unit[n + 1] = x
    <2>1. /\ Unit(s, n, x) \in Seq(Requests) /\ Len(Unit(s, n, x)) = n + 1
          /\ \A i \in 1..n : Unit(s, n, x)[i] = s[i]
          /\ Unit(s, n, x)[n + 1] = x
      BY UnitProperties
    <2> QED
      BY <1>2, <2>1
  <1>4. PICK rest : rest = SubSeq(s, n + 2, len)
    OBVIOUS
  <1>5. rest \in Seq(Requests) /\ Len(rest) = IF n + 2 <= len THEN len - (n + 2) + 1 ELSE 0
    <2>1. \A i \in (n + 2)..len : s[i] \in Requests
      BY <1>1, ElementOfSeq
    <2> QED
      BY <1>4, <2>1, SubSeqProperties
  <1>6. PICK new : new = unit \o rest
    OBVIOUS
  <1>7. /\ new \in Seq(Requests) /\ Len(new) = Len(unit) + Len(rest)
        /\ \A i \in 1..(Len(unit) + Len(rest)) :
              new[i] = IF i <= Len(unit) THEN unit[i] ELSE rest[i - Len(unit)]
    BY <1>3, <1>5, <1>6, ConcatProperties
  <1>8. (n < len => Len(new) = len) /\ (n = len => Len(new) = n + 1)
    BY <1>3, <1>5, <1>7
  <1>9. \A i \in 1..(n + 1) : i \in 1..(Len(unit) + Len(rest)) /\ i <= Len(unit)
    <2>1. Len(unit) = n + 1 /\ Len(rest) \in Nat
      BY <1>3, <1>5
    <2> QED
      BY <2>1
  <1>10. \A i \in 1..(n + 1) : new[i] = unit[i]
    BY <1>7, <1>9
  <1>11. /\ \A i \in 1..n : new[i] = s[i]
         /\ new[n + 1] = x
    BY <1>3, <1>10
  <1>12. new = InPlace(s, n, x)
    BY <1>1, <1>2, <1>4, <1>6 DEF InPlace
  <1> QED
    BY <1>1, <1>7, <1>8, <1>11, <1>12

LEMMA DoneFinite == IsFiniteSet(Done) /\ IsFiniteSet(Done')
  BY RequestsAssumption, FS_Subset DEF Done

LEMMA InvInit == Init => IInv
  <1> SUFFICES ASSUME Init PROVE IInv
    OBVIOUS
  <1>1. <<>> \in Seq(Requests) /\ Len(<<>>) = 0
    OBVIOUS
  <1>2. TypeOK
    BY <1>1 DEF Init, TypeOK
  <1>3. Apart /\ Roomy
    BY DEF Init, Apart, Roomy, Busy
  <1>4. Rendering /\ Sending
    BY <1>1 DEF Init, Rendering, Sending, Busy
  <1>5. Pooled
    BY FS_EmptySet, FS_CardinalityType, DoneFinite DEF Init, Pooled
  <1> QED
    BY <1>2, <1>3, <1>4, <1>5 DEF IInv

--------------------------------------------------------------------------------
(* Each action keeps the invariant *)

LEMMA GetKeeps == ASSUME IInv, NEW r \in Requests, Get(r) PROVE IInv'
  <1> USE DEF IInv
  <1>0. /\ pc[r] = "ready" /\ pc' = [pc EXCEPT ![r] = "rendering"]
        /\ buf[r] = None /\ UNCHANGED <<used, sent>>
    BY DEF Get, Apart, Busy
  <1>a. PICK a \in Arrays :
            /\ buf' = [buf EXCEPT ![r] = a] /\ pool' = pool \ {a}
            /\ \A s \in Requests : buf[s] # a
            /\ \/ a \in pool /\ UNCHANGED <<room, data>>
               \/ Alloc(a, NewCap, <<>>)
    <2>1. CASE \E a \in pool : /\ pool' = pool \ {a} /\ buf' = [buf EXCEPT ![r] = a]
                               /\ UNCHANGED <<room, data>>
      BY <2>1, ZenonT(60) DEF TypeOK, Apart
    <2>2. CASE \E a \in Free : /\ buf' = [buf EXCEPT ![r] = a] /\ Alloc(a, NewCap, <<>>)
                               /\ UNCHANGED pool
      <3>1. PICK a \in Free : /\ buf' = [buf EXCEPT ![r] = a] /\ Alloc(a, NewCap, <<>>)
                              /\ UNCHANGED pool
        BY <2>2
      <3>2. a \in Arrays /\ a \notin pool /\ \A s \in Requests : buf[s] # a
        BY DEF Free
      <3>3. pool' = pool \ {a}
        BY <3>1, <3>2
      <3> QED
        BY <3>1, <3>2, <3>3
    <2> QED
      BY <2>1, <2>2 DEF Get
  <1>1. /\ pc[r] = "ready" /\ pc' = [pc EXCEPT ![r] = "rendering"]
        /\ buf[r] = None /\ buf' = [buf EXCEPT ![r] = a] /\ a \in Arrays
        /\ pool' = pool \ {a} /\ UNCHANGED <<used, sent>>
        /\ \A s \in Requests : buf[s] # a
        /\ \/ a \in pool /\ UNCHANGED <<room, data>>
           \/ Alloc(a, NewCap, <<>>)
    BY <1>0, <1>a
  <1>2. TypeOK'
    <2>1. PICK d \in Seq(Requests), m \in Nat :
             /\ Len(d) <= m
             /\ room' = [room EXCEPT ![a] = m] /\ data' = [data EXCEPT ![a] = d]
      <3>1. CASE UNCHANGED <<room, data>>
        <4>1. data[a] \in Seq(Requests) /\ room[a] \in Nat /\ Len(data[a]) <= room[a]
          BY DEF TypeOK
        <4>2. room' = [room EXCEPT ![a] = room[a]] /\ data' = [data EXCEPT ![a] = data[a]]
          BY <3>1 DEF TypeOK
        <4> QED
          BY <4>1, <4>2
      <3>2. CASE Alloc(a, NewCap, <<>>)
        <4>1. <<>> \in Seq(Requests) /\ NewCap \in Nat /\ Len(<<>>) <= NewCap
          BY SizeAssumption
        <4> QED
          BY <4>1, <3>2 DEF Alloc
      <3> QED
        BY <1>1, <3>1, <3>2
    <2>2. room' \in [Arrays -> Nat] /\ data' \in [Arrays -> Seq(Requests)]
      BY <2>1 DEF TypeOK
    <2>3. \A c \in Arrays : Len(data'[c]) <= room'[c]
      BY <2>1 DEF TypeOK
    <2> QED
      BY <1>1, <2>2, <2>3 DEF TypeOK
  <1>3. Apart'
    BY <1>1, NoneAssumption DEF TypeOK, Apart, Busy
  <1>4. Roomy'
    BY <1>1, SizeAssumption DEF TypeOK, Apart, Roomy, Busy, Alloc
  <1>5. Rendering'
    <2>1. used[r] = 0 /\ Size[r] >= 0
      BY <1>1, SizeAssumption DEF Rendering
    <2>2. \A s \in Requests : s # r /\ Busy(s) => data'[buf[s]] = data[buf[s]]
      BY <1>1 DEF TypeOK, Apart, Busy, Alloc
    <2>3. Len(data'[a]) >= 0
      BY <1>1, <1>2 DEF TypeOK
    <2>4. \A s \in Requests : s # r => /\ pc'[s] = pc[s] /\ buf'[s] = buf[s] /\ used'[s] = used[s]
                                       /\ Busy(s) => data'[buf[s]] = data[buf[s]]
      BY <1>1, <2>2 DEF TypeOK
    <2>5. pc'[r] = "rendering" /\ buf'[r] = a /\ used'[r] = 0
      BY <1>1, <2>1 DEF TypeOK
    <2> QED
      BY <2>1, <2>3, <2>4, <2>5 DEF Rendering, Busy
  <1>6. Sending'
    BY <1>1 DEF TypeOK, Sending
  <1>7. Pooled'
    <2>1. Done' = Done
      BY <1>1 DEF TypeOK, Done
    <2>2. IsFiniteSet(pool') /\ Cardinality(pool') <= Cardinality(pool)
      <3>1. IsFiniteSet(pool) /\ Cardinality(pool) \in Nat
        BY FS_CardinalityType DEF Pooled
      <3> QED
        <4>1. /\ IsFiniteSet(pool \ {a})
              /\ Cardinality(pool \ {a}) = IF a \in pool THEN Cardinality(pool) - 1 ELSE Cardinality(pool)
          BY <3>1, FS_RemoveElement
        <4> QED
          BY <4>1, <3>1, <1>1
    <2>3. Cardinality(pool') <= Cardinality(Done)
      BY <2>2, DoneFinite, FS_CardinalityType DEF Pooled
    <2> QED
      BY <1>1, <2>1, <2>2, <2>3 DEF TypeOK, Pooled, Alloc
  <1> QED
    BY <1>2, <1>3, <1>4, <1>5, <1>6, <1>7

LEMMA AppendUnitKeeps == ASSUME IInv, NEW r \in Requests, AppendUnit(r) PROVE IInv'
  <1> USE DEF IInv
  <1> DEFINE a == buf[r]
             b == buf'[r]
             n == used[r]
  <1>1. /\ pc[r] = "rendering" /\ used[r] < Size[r]
        /\ used' = [used EXCEPT ![r] = n + 1]
        /\ UNCHANGED <<pool, pc, sent>>
    BY DEF AppendUnit
  <1>2. /\ a \in Arrays /\ n \in Nat /\ n <= Len(data[a]) /\ data[a] \in Seq(Requests)
        /\ Len(data[a]) <= room[a] /\ room[a] \in Nat /\ room[a] > 0
        /\ a # None /\ \A i \in 1..n : data[a][i] = r
    BY <1>1 DEF TypeOK, Apart, Roomy, Rendering, Busy
  <1>a. n < room[a] =>  buf' = buf /\ Alloc(a, room[a], InPlace(data[a], n, r))
    BY DEF AppendUnit, InPlace, Unit
  <1>b. ~(n < room[a]) =>
           \E c \in Free : Alloc(c, 2 * room[a], Unit(data[a], n, r)) /\ buf' = [buf EXCEPT ![r] = c]
    BY DEF AppendUnit, Unit
  <1>c. a = buf[r] /\ b = buf'[r] /\ n = used[r]
    OBVIOUS
  <1> HIDE DEF a, b, n
  <1>3. /\ b \in Arrays /\ buf' = [buf EXCEPT ![r] = b]
        /\ \A s \in Requests : s # r => buf[s] # b
        /\ b \notin pool
        /\ \E d \in Seq(Requests), m \in Nat :
              /\ Alloc(b, m, d) /\ m > 0
              /\ n + 1 <= Len(d) /\ Len(d) <= m
              /\ \A i \in 1..(n + 1) : d[i] = r
    <2>1. CASE n < room[a]
      <3>1. PICK d : d = InPlace(data[a], n, r)
        OBVIOUS
      <3>2. buf' = buf /\ Alloc(a, room[a], d)
        BY <2>1, <3>1, <1>a
      <3>3. /\ d \in Seq(Requests)
            /\ n < Len(data[a]) => Len(d) = Len(data[a])
            /\ n = Len(data[a]) => Len(d) = n + 1
            /\ \A i \in 1..n : d[i] = data[a][i]
            /\ d[n + 1] = r
        <4>1. /\ InPlace(data[a], n, r) \in Seq(Requests)
              /\ n < Len(data[a]) => Len(InPlace(data[a], n, r)) = Len(data[a])
              /\ n = Len(data[a]) => Len(InPlace(data[a], n, r)) = n + 1
              /\ \A i \in 1..n : InPlace(data[a], n, r)[i] = data[a][i]
              /\ InPlace(data[a], n, r)[n + 1] = r
          BY <1>2, InPlaceProperties
        <4> QED
          BY <3>1, <4>1
      <3>4. \A i \in 1..(n + 1) : d[i] = r
        <4>1. ASSUME NEW i \in 1..n PROVE d[i] = r
          BY <1>2, <3>3, <4>1
        <4>2. \A i \in 1..(n + 1) : i \in 1..n \/ i = n + 1
          BY <1>2
        <4> QED
          BY <3>3, <4>1, <4>2
      <3>5. n + 1 <= Len(d) /\ Len(d) <= room[a]
        BY <1>2, <2>1, <3>3
      <3>6. \A s \in Requests : s # r => buf[s] # a
        BY <1>1, <1>2, <1>c DEF Apart, Busy
      <3>7. a \notin pool /\ b = a /\ buf' = [buf EXCEPT ![r] = a]
        BY <3>2, <1>c DEF Apart, TypeOK
      <3> QED
        BY <1>2, <3>2, <3>3, <3>4, <3>5, <3>6, <3>7
    <2>2. CASE ~(n < room[a])
      <3>1. PICK d : d = Unit(data[a], n, r)
        OBVIOUS
      <3>2. PICK c \in Free : Alloc(c, 2 * room[a], d) /\ buf' = [buf EXCEPT ![r] = c]
        BY <2>2, <3>1, <1>b
      <3>3. /\ d \in Seq(Requests) /\ Len(d) = n + 1
            /\ \A i \in 1..n : d[i] = data[a][i]
            /\ d[n + 1] = r
        <4>1. /\ Unit(data[a], n, r) \in Seq(Requests) /\ Len(Unit(data[a], n, r)) = n + 1
              /\ \A i \in 1..n : Unit(data[a], n, r)[i] = data[a][i]
              /\ Unit(data[a], n, r)[n + 1] = r
          BY <1>2, UnitProperties
        <4> QED
          BY <3>1, <4>1
      <3>4. \A i \in 1..(n + 1) : d[i] = r
        <4>1. ASSUME NEW i \in 1..n PROVE d[i] = r
          BY <1>2, <3>3, <4>1
        <4>2. \A i \in 1..(n + 1) : i \in 1..n \/ i = n + 1
          BY <1>2
        <4> QED
          BY <3>3, <4>1, <4>2
      <3>5. 2 * room[a] \in Nat /\ 2 * room[a] > 0 /\ n + 1 <= 2 * room[a]
        BY <1>2, <2>2
      <3>6. c \in Arrays /\ c \notin pool /\ \A s \in Requests : buf[s] # c
        BY DEF Free
      <3>7. b = c
        BY <3>2, <1>c DEF TypeOK
      <3> QED
        BY <3>2, <3>3, <3>4, <3>5, <3>6, <3>7
    <2> QED
      BY <2>1, <2>2
  <1>4. PICK d \in Seq(Requests), m \in Nat :
              /\ Alloc(b, m, d) /\ m > 0
              /\ n + 1 <= Len(d) /\ Len(d) <= m
              /\ \A i \in 1..(n + 1) : d[i] = r
    BY <1>3
  <1>d. room' = [room EXCEPT ![b] = m] /\ data' = [data EXCEPT ![b] = d]
    BY <1>4 DEF Alloc
  <1>5. TypeOK'
    <2>1. room' \in [Arrays -> Nat] /\ data' \in [Arrays -> Seq(Requests)]
      BY <1>d DEF TypeOK
    <2>2. \A c \in Arrays : Len(data'[c]) <= room'[c]
      BY <1>d, <1>4 DEF TypeOK
    <2>3. used' \in [Requests -> Nat]
      BY <1>1, <1>2 DEF TypeOK
    <2> QED
      BY <1>1, <1>3, <2>1, <2>2, <2>3 DEF TypeOK
  <1>6. Apart'
    BY <1>1, <1>3, NoneAssumption DEF TypeOK, Apart, Busy
  <1>7. Roomy'
    <2>1. /\ room'[b] > 0 /\ buf'[r] = b
          /\ \A c \in Arrays : c # b => room'[c] = room[c]
      BY <1>3, <1>4, <1>d DEF TypeOK
    <2>2. \A s \in Requests : s # r /\ Busy(s) => buf'[s] = buf[s] /\ buf[s] \in Arrays /\ buf[s] # b
      BY <1>3 DEF TypeOK, Apart, Busy
    <2> QED
      BY <1>1, <1>3, <2>1, <2>2 DEF TypeOK, Roomy, Busy
  <1>8. Rendering'
    <2>1. n + 1 <= Size[r] /\ Size[r] \in Nat
      BY <1>1, <1>2, SizeAssumption DEF n
    <2>2. buf'[r] = b /\ data'[b] = d /\ used'[r] = n + 1
      BY <1>1, <1>3, <1>4 DEF TypeOK, Alloc
    <2>3. \A s \in Requests : s # r => /\ buf'[s] = buf[s] /\ used'[s] = used[s]
                                       /\ Busy(s) => data'[buf[s]] = data[buf[s]]
      BY <1>1, <1>3, <1>4 DEF TypeOK, Apart, Busy, Alloc
    <2>4. pc' = pc
      BY <1>1
    <2> QED
      BY <1>1, <1>4, <2>1, <2>2, <2>3, <2>4 DEF Rendering, Busy
  <1>9. Sending'
    <2>1. \A s \in Requests : used'[s] >= used[s] /\ used'[s] \in Nat /\ used[s] \in Nat /\ Len(sent[s]) \in Nat
      BY <1>1, <1>2 DEF TypeOK, n
    <2> QED
      BY <1>1, <2>1 DEF Sending
  <1>10. Pooled'
    <2>1. \A c \in pool : room'[c] = room[c]
      BY <1>3, <1>4 DEF TypeOK, Alloc
    <2> QED
      BY <1>1, <2>1 DEF Pooled, Done
  <1> QED
    BY <1>5, <1>6, <1>7, <1>8, <1>9, <1>10

LEMMA RenderedKeeps == ASSUME IInv, NEW r \in Requests, Rendered(r) PROVE IInv'
  <1> USE DEF IInv, Rendered
  <1>1. TypeOK' /\ Apart' /\ Roomy'
    BY DEF TypeOK, Apart, Roomy, Busy
  <1>2. Rendering' /\ Sending'
    BY DEF TypeOK, Rendering, Sending, Busy
  <1>3. Pooled'
    <2>1. Done' = Done
      BY DEF TypeOK, Done
    <2> QED
      BY <2>1 DEF Pooled
  <1> QED
    BY <1>1, <1>2, <1>3

LEMMA WriteKeeps == ASSUME IInv, NEW r \in Requests, Write(r) PROVE IInv'
  <1> USE DEF IInv, Write
  <1>1. /\ data[buf[r]][Len(sent[r]) + 1] = r
        /\ sent[r] \in Seq(Requests) /\ Len(sent[r]) \in Nat /\ Len(sent[r]) + 1 <= used[r]
    BY DEF TypeOK, Rendering, Busy
  <1>2. sent' = [sent EXCEPT ![r] = Append(sent[r], r)]
    BY <1>1
  <1>3. /\ Append(sent[r], r) \in Seq(Requests) /\ Len(Append(sent[r], r)) = Len(sent[r]) + 1
        /\ \A i \in 1..Len(sent[r]) : Append(sent[r], r)[i] = sent[r][i]
        /\ Append(sent[r], r)[Len(sent[r]) + 1] = r
    BY <1>1, AppendProperties
  <1>4. TypeOK' /\ Apart' /\ Roomy'
    BY <1>2, <1>3 DEF TypeOK, Apart, Roomy, Busy
  <1>5. Rendering'
    BY DEF Rendering, Busy
  <1>6. Sending'
    <2>1. \A s \in Requests : s # r => sent'[s] = sent[s]
      BY <1>2 DEF TypeOK
    <2>2. sent'[r] = Append(sent[r], r)
      BY <1>2 DEF TypeOK
    <2>3. \A i \in 1..Len(sent'[r]) : sent'[r][i] = r
      BY <2>2, <1>1, <1>3 DEF Sending
    <2> QED
      BY <1>1, <1>3, <2>1, <2>2, <2>3 DEF Sending
  <1>7. Pooled'
    BY DEF Pooled, Done
  <1> QED
    BY <1>4, <1>5, <1>6, <1>7

LEMMA PutKeeps == ASSUME IInv, NEW r \in Requests, Put(r) PROVE IInv'
  <1> USE DEF IInv
  <1> DEFINE a == buf[r]
  <1>1. /\ pc[r] = "writing" /\ Len(sent[r]) = used[r] /\ used[r] = Size[r]
        /\ pc' = [pc EXCEPT ![r] = "done"] /\ buf' = [buf EXCEPT ![r] = None]
        /\ UNCHANGED <<room, data, used, sent>>
        /\ pool' = IF room[a] <= KeepCap THEN pool \cup {a} ELSE pool
        /\ a \in Arrays /\ a \notin pool /\ room[a] > 0
    BY DEF Put, TypeOK, Apart, Roomy, Rendering, Busy
  <1>2. \A s \in Requests : s # r => buf[s] # a
    BY <1>1, NoneAssumption DEF Apart, Busy
  <1> HIDE DEF a
  <1>3. TypeOK'
    BY <1>1 DEF TypeOK
  <1>4. Apart'
    BY <1>1, <1>2, NoneAssumption DEF TypeOK, Apart, Busy
  <1>5. Roomy'
    BY <1>1 DEF TypeOK, Roomy, Busy
  <1>6. Rendering' /\ Sending'
    BY <1>1 DEF TypeOK, Rendering, Sending, Busy
  <1>7. Pooled'
    <2>1. Done' = Done \cup {r} /\ r \notin Done
      BY <1>1 DEF TypeOK, Done
    <2>2. Cardinality(Done') = Cardinality(Done) + 1 /\ Cardinality(Done) \in Nat
      BY <2>1, DoneFinite, FS_AddElement, FS_CardinalityType
    <2>3. /\ IsFiniteSet(pool \cup {a}) /\ Cardinality(pool \cup {a}) = Cardinality(pool) + 1
          /\ Cardinality(pool) \in Nat
      BY <1>1, FS_AddElement, FS_CardinalityType DEF Pooled
    <2>4. IsFiniteSet(pool') /\ Cardinality(pool') <= Cardinality(Done')
      BY <1>1, <2>2, <2>3 DEF Pooled
    <2>5. \A c \in pool' : room'[c] <= KeepCap
      BY <1>1 DEF Pooled
    <2> QED
      BY <2>4, <2>5 DEF Pooled
  <1> QED
    BY <1>3, <1>4, <1>5, <1>6, <1>7

LEMMA DropKeeps == ASSUME IInv, NEW a \in Arrays, Drop(a) PROVE IInv'
  <1> USE DEF IInv, Drop
  <1>1. TypeOK' /\ Apart' /\ Roomy' /\ Rendering' /\ Sending'
    BY DEF TypeOK, Apart, Roomy, Rendering, Sending, Busy
  <1>2. Pooled'
    <2>1. IsFiniteSet(pool') /\ Cardinality(pool') <= Cardinality(pool)
      <3>1. IsFiniteSet(pool) /\ Cardinality(pool) \in Nat
        BY FS_CardinalityType DEF Pooled
      <3> QED
        BY <3>1, FS_RemoveElement
    <2>2. Cardinality(pool') <= Cardinality(Done)
      BY <2>1, DoneFinite, FS_CardinalityType DEF Pooled
    <2> QED
      BY <2>1, <2>2 DEF Pooled, Done
  <1> QED
    BY <1>1, <1>2

LEMMA InvStep == IInv /\ [Next]_vars => IInv'
  <1> SUFFICES ASSUME IInv, [Next]_vars PROVE IInv'
    OBVIOUS
  <1>1. CASE Next
    BY <1>1, GetKeeps, AppendUnitKeeps, RenderedKeeps, WriteKeeps, PutKeeps, DropKeeps DEF Next
  <1>2. CASE UNCHANGED vars
    BY <1>2 DEF vars, IInv, TypeOK, Apart, Roomy, Rendering, Sending, Pooled, Busy, Done
  <1> QED
    BY <1>1, <1>2

--------------------------------------------------------------------------------
(* The theorems *)

\* The invariant holds in every state of every behaviour.
THEOREM IInvCorrect == Spec => []IInv
  BY InvInit, InvStep, PTL DEF Spec

\* Every variable stays in its type, and no array holds more than it has room for.
THEOREM TypeCorrect == Spec => []TypeOK
  <1>1. IInv => TypeOK
    BY DEF IInv
  <1> QED
    BY <1>1, IInvCorrect, PTL

\* A client gets its own response and nothing of another: not what a request before it
\* left in the buffer (bufs.Get), nor what one beside it renders.
THEOREM OwnResponseCorrect == Spec => []OwnResponse
  <1>1. IInv => OwnResponse
    <2> SUFFICES ASSUME IInv PROVE OwnResponse
      OBVIOUS
    <2>1. \A r \in Requests : DOMAIN sent[r] = 1..Len(sent[r])
      BY DEF IInv, TypeOK
    <2> QED
      BY <2>1 DEF IInv, Sending, OwnResponse
  <1> QED
    BY <1>1, IInvCorrect, PTL

\* The pool keeps no large array (the end of airshopping), and no more arrays than
\* requests have finished.
THEOREM PoolStaysSmallCorrect == Spec => []PoolStaysSmall
  <1>1. IInv => PoolStaysSmall
    BY DEF IInv, Pooled, Done, PoolStaysSmall
  <1> QED
    BY <1>1, IInvCorrect, PTL
================================================================================
