------------------------------ MODULE MCReplicas ------------------------------
EXTENDS Replicas, TLC

CONSTANTS p1, p2, a1, a2, a3, c1, c2, c3

\* Each replica advertises the address it is reached at
Named == p1 :> a1 @@ p2 :> a2
\* p2 advertises another name of itself than the one an old identifier carries
Alias == p1 :> a1 @@ p2 :> a3
\* p2 was started with -peers and without -advertise
Unnamed == p1 :> a1 @@ p2 :> NoAddress
Listening == a1 :> p1 @@ a2 :> p2 @@ a3 :> p2
\* An identifier left from before, whose owner is reached at a2
OldOwner == {[n |-> 0, owner |-> a2]}
None == {}
\* No operator picks one of the calls
CallSymmetry == Permutations(Calls)
================================================================================
