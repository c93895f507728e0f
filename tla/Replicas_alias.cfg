SPECIFICATION Spec
CONSTANTS
    p1 = p1
    p2 = p2
    a1 = a1
    a2 = a2
    a3 = a3
    c1 = c1
    c2 = c2
    c3 = c3
    Replica = {p1, p2}
    Calls = {c1, c2}
    Address = {a1, a2, a3}
    NoAddress = NoAddress
    Advertise <- Alias
    ReplicaAt <- Listening
    Peers = {a1, a2, a3}
    DNSMayFail = TRUE
    Crafted <- OldOwner
    MaxOrders = 1
    MaxCrashes = 1
    MaxHops = 3
INVARIANTS AtMostOneForward
PROPERTIES EveryCallAnswered
CHECK_DEADLOCK FALSE
