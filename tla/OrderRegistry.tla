----------------------------- MODULE OrderRegistry -----------------------------
(***************************************************************************)
(* What a replica's order store promises its clients, with no goroutine,   *)
(* lock, pointer or clock in it: a registry from identifiers to order      *)
(* histories on which every call acts in one step.  A call is told the     *)
(* history the order has at that step, its own change included, or the     *)
(* empty history when there is no such order.  The registry is a cache: it *)
(* may forget orders at any time, and storing one costs at most one other. *)
(***************************************************************************)
EXTENDS Sequences

CONSTANTS Requests, OrderIDs, Pending

VARIABLES
    registry,  \* history of the order under each identifier, <<>> when absent
    outcome    \* what each call was told, Pending before

registryVars == <<registry, outcome>>

RegistryInit ==
    /\ registry = [id \in OrderIDs |-> <<>>]
    /\ outcome = [r \in Requests |-> Pending]

\* A new order under an identifier; at most one other order is lost for it.
Create(id, lost) ==
    /\ registry' = [i \in OrderIDs |-> IF i = id THEN <<"Created">>
                                       ELSE IF i \in lost THEN <<>> ELSE registry[i]]
    /\ UNCHANGED outcome

\* A call reads the order under an identifier, if there is one.
Read(r, id) ==
    /\ outcome[r] = Pending
    /\ outcome' = [outcome EXCEPT ![r] = registry[id]]
    /\ UNCHANGED registry

\* A call changes an order that is there and is told what it made of it.
Change(r, id, line) ==
    /\ outcome[r] = Pending /\ registry[id] # <<>>
    /\ registry' = [registry EXCEPT ![id] = Append(@, line)]
    /\ outcome' = [outcome EXCEPT ![r] = Append(registry[id], line)]

\* Orders expire.
Forget(lost) ==
    /\ registry' = [i \in OrderIDs |-> IF i \in lost THEN <<>> ELSE registry[i]]
    /\ UNCHANGED outcome

RegistryNext ==
    \/ \E id \in OrderIDs, lost \in SUBSET OrderIDs :
          (\A a, b \in lost : a = b) /\ Create(id, lost)
    \/ \E r \in Requests, id \in OrderIDs :
          Read(r, id) \/ \E line \in {"Changed", "Cancelled"} : Change(r, id, line)
    \/ \E lost \in SUBSET OrderIDs : Forget(lost)

RegistrySpec == RegistryInit /\ [][RegistryNext]_registryVars
================================================================================
