------------------------------- MODULE BufferPool -------------------------------
(***************************************************************************)
(* The buffers AirShopping renders into (bufs and the end of airshopping   *)
(* in main.go, render in template.go).  Each request takes a buffer from a *)
(* pool, appends its response to it, writes it to its connection and gives *)
(* the buffer back, unless the response made it too large to keep.         *)
(*                                                                         *)
(* An array is memory: append writes into it as long as there is room and  *)
(* moves to a larger array when there is none.  The response of a request  *)
(* is a number of units, each marked with the request it belongs to, so    *)
(* that a unit of another response would show.                             *)
(***************************************************************************)
EXTENDS Integers, FiniteSets, Sequences

CONSTANTS
    Requests,   \* AirShopping calls, one goroutine each
    Arrays,     \* bound: arrays in memory at a time
    None,       \* no array, no request
    Size,       \* of each request: the units of its response
    NewCap,     \* capacity of a new buffer
    KeepCap     \* the largest capacity that goes back to the pool

ASSUME RequestsAssumption == IsFiniteSet(Requests)
ASSUME NoneAssumption == None \notin Arrays /\ None \notin Requests
ASSUME SizeAssumption == Size \in [Requests -> Nat] /\ NewCap \in Nat \ {0} /\ KeepCap \in Nat

VARIABLES
    pool,   \* the arrays in the pool
    room,   \* of each array: its capacity, 0 when it is not in use
    data,   \* of each array: the unit at each place
    pc,     \* where each request is
    buf,    \* the array each request renders into
    used,   \* how many units of it are rendered
    sent    \* the units written to each connection

vars == <<pool, room, data, pc, buf, used, sent>>

\* Arrays nobody refers to, which the garbage collector takes back
Free == {a \in Arrays : a \notin pool /\ \A r \in Requests : buf[r] # a}

\* A new array of capacity n that holds the units in d
Alloc(a, n, d) == room' = [room EXCEPT ![a] = n] /\ data' = [data EXCEPT ![a] = d]

--------------------------------------------------------------------------------

Init ==
    /\ pool = {}
    /\ room = [a \in Arrays |-> 0]
    /\ data = [a \in Arrays |-> <<>>]
    /\ pc = [r \in Requests |-> "ready"]
    /\ buf = [r \in Requests |-> None]
    /\ used = [r \in Requests |-> 0]
    /\ sent = [r \in Requests |-> <<>>]

\* bufs.Get: an array of the pool, or a new one when the pool has none to give.
\* What is in it stays in it; render starts at [:0].
GetShared(r) ==         \* fault: the array is not taken out of the pool
    /\ pc[r] = "ready"
    /\ \/ \E a \in pool : buf' = [buf EXCEPT ![r] = a] /\ UNCHANGED <<room, data>>
       \/ \E a \in Free : buf' = [buf EXCEPT ![r] = a] /\ Alloc(a, NewCap, <<>>)
    /\ pc' = [pc EXCEPT ![r] = "rendering"]
    /\ UNCHANGED <<pool, used, sent>>
Get(r) ==
    /\ pc[r] = "ready"
    /\ \/ \E a \in pool : /\ pool' = pool \ {a}
                          /\ buf' = [buf EXCEPT ![r] = a] /\ UNCHANGED <<room, data>>
       \/ \E a \in Free : /\ buf' = [buf EXCEPT ![r] = a] /\ Alloc(a, NewCap, <<>>)
                          /\ UNCHANGED pool
    /\ pc' = [pc EXCEPT ![r] = "rendering"]
    /\ UNCHANGED <<used, sent>>

\* render appends a unit: in place, or in an array twice as large with what was
\* rendered so far copied over.
AppendOver(r) ==        \* fault: append starts after what the array still holds
    /\ pc[r] = "rendering" /\ used[r] < Size[r]
    /\ used' = [used EXCEPT ![r] = @ + 1]
    /\ Alloc(buf[r], room[buf[r]], Append(data[buf[r]], r))
    /\ UNCHANGED <<pool, pc, buf, sent>>
AppendUnit(r) ==
    /\ pc[r] = "rendering" /\ used[r] < Size[r]
    /\ used' = [used EXCEPT ![r] = @ + 1]
    /\ LET a == buf[r]
           n == used[r]
           unit == Append(SubSeq(data[a], 1, n), r)
           rest == SubSeq(data[a], n + 2, Len(data[a]))
       IN  IF n < room[a]
           THEN Alloc(a, room[a], unit \o rest) /\ UNCHANGED buf
           ELSE \E b \in Free : Alloc(b, 2 * room[a], unit) /\ buf' = [buf EXCEPT ![r] = b]
    /\ UNCHANGED <<pool, pc, sent>>

Rendered(r) ==
    /\ pc[r] = "rendering" /\ used[r] = Size[r]
    /\ pc' = [pc EXCEPT ![r] = "writing"]
    /\ UNCHANGED <<pool, room, data, buf, used, sent>>

\* w.Write hands the rendered units to the connection; it may take its time.
Write(r) ==
    /\ pc[r] = "writing" /\ Len(sent[r]) < used[r]
    /\ sent' = [sent EXCEPT ![r] = Append(@, data[buf[r]][Len(@) + 1])]
    /\ UNCHANGED <<pool, room, data, pc, buf, used>>

\* The buffer goes back to the pool if its capacity is a sane one.
PutEarly(r) ==          \* fault: the buffer is put back before all of it is written
    /\ pc[r] = "writing"
    /\ pool' = IF room[buf[r]] <= KeepCap THEN pool \cup {buf[r]} ELSE pool
    /\ IF Len(sent[r]) = used[r]
       THEN pc' = [pc EXCEPT ![r] = "done"] /\ buf' = [buf EXCEPT ![r] = None]
       ELSE UNCHANGED <<pc, buf>>
    /\ UNCHANGED <<room, data, used, sent>>
PutAlways(r) ==         \* fault: the buffer is put back whatever its capacity
    /\ pc[r] = "writing" /\ Len(sent[r]) = used[r]
    /\ pool' = pool \cup {buf[r]}
    /\ pc' = [pc EXCEPT ![r] = "done"]
    /\ buf' = [buf EXCEPT ![r] = None]
    /\ UNCHANGED <<room, data, used, sent>>
Put(r) ==
    /\ pc[r] = "writing" /\ Len(sent[r]) = used[r]
    /\ pool' = IF room[buf[r]] <= KeepCap THEN pool \cup {buf[r]} ELSE pool
    /\ pc' = [pc EXCEPT ![r] = "done"]
    /\ buf' = [buf EXCEPT ![r] = None]
    /\ UNCHANGED <<room, data, used, sent>>

\* The garbage collector empties the pool when it likes.
Drop(a) ==
    /\ a \in pool
    /\ pool' = pool \ {a}
    /\ UNCHANGED <<room, data, pc, buf, used, sent>>

Next == \/ \E r \in Requests : Get(r) \/ AppendUnit(r) \/ Rendered(r) \/ Write(r) \/ Put(r)
        \/ \E a \in Arrays : Drop(a)

Spec == Init /\ [][Next]_vars

--------------------------------------------------------------------------------
(* Properties *)

\* Every variable stays in its type, and no array holds more than it has room for.
TypeOK ==
    /\ pool \subseteq Arrays
    /\ room \in [Arrays -> Nat]
    /\ data \in [Arrays -> Seq(Requests)] /\ \A a \in Arrays : Len(data[a]) <= room[a]
    /\ pc \in [Requests -> {"ready", "rendering", "writing", "done"}]
    /\ buf \in [Requests -> Arrays \cup {None}]
    /\ used \in [Requests -> Nat]
    /\ sent \in [Requests -> Seq(Requests)]

\* A client gets its own response and nothing of another: not what a request before it
\* left in the buffer, nor what one beside it renders.
OwnResponse ==
    \A r \in Requests : /\ \A i \in DOMAIN sent[r] : sent[r][i] = r
                        /\ pc[r] = "done" => Len(sent[r]) = Size[r]

\* A large response does not pin its capacity in the pool for the life of the process:
\* the pool holds no array beyond the limit, and never more arrays than there are
\* requests that may need one at the same time.
PoolStaysSmall ==
    /\ \A a \in pool : room[a] <= KeepCap
    /\ Cardinality(pool) <= Cardinality({r \in Requests : pc[r] = "done"})
================================================================================
