SPECIFICATION Spec
CONSTANTS
    r1 = r1
    r2 = r2
    r3 = r3
    Requests = {r1, r2, r3}
    Arrays = {a1, a2, a3, a4, a5}
    None = None
    Size <- Sizes
    NewCap = 2
    KeepCap = 4
INVARIANTS TypeOK OwnResponse 
CHECK_DEADLOCK FALSE
