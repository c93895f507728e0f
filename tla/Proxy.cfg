SPECIFICATION Spec
CONSTANTS
    p1 = p1
    p2 = p2
    x1 = x1
    x2 = x2
    air = air
    Process = {p1, p2}
    Exchanges = {x1, x2}
    Label <- Labels
    OnDisk <- Left
    Earlier = Earlier
    MaxCrashes = 2
INVARIANTS PairsMatch CapturedIsRelayed
PROPERTIES CapturesKept EveryExchangeAnswered
CHECK_DEADLOCK FALSE
