SPECIFICATION Spec
CONSTANTS
    GRU = GRU
    SCL = SCL
    LIM = LIM
    NoAirport = NoAirport
    NoDay <- Missing
    Offered <- Varied
    Opaque <- Default
    Catalog <- Ancillaries
    Columns = {1, 2, 3, 4}
    Sizes = {0, 12}
    MaxSize = 11
    MaxInt = 9
    MaxOrders = 2
    Lines <- Written
    Agents <- Sessions
    Held = {0, 3}
    DefaultMaxOffers = 2
INVARIANTS ReferencesResolve FormatsAgree RepliesMatch ActedOnce 
PROPERTIES EveryLineAnswered
CHECK_DEADLOCK FALSE
