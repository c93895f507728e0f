SPECIFICATION Spec
CONSTANTS
    r1 = r1
    r2 = r2
    r3 = r3
    A = A
    B = B
    C = C
    Requests = {r1, r2}
    OrderIDs = {A, B}
    NoID = NoID
    Nil = Nil
    OrderMax = 2
    TTL = 1
    ReapEvery = 2
    Unmapped <- NoneUnmapped
    IDsMayRepeat = TRUE
    LastArrival = 1
    MaxTime = 3
PROPERTIES EventuallyForgotten
