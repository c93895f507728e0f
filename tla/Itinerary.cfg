SPECIFICATION Spec
CONSTANTS
    GRU = GRU
    SCL = SCL
    LIM = LIM
    BOG = BOG
    NoAirport = NoAirport
    NoDay <- Missing
    NoDir = NoDir
    Airports <- Cities
    Names <- Letters
    Versions = {"v192", "v213", "v241"}
    FlatVersion = "v192"
    Usable <- Mappings
    Stubs <- Contents
    Asked <- Arriving
INVARIANTS TripAsAsked MultiCityOwnShape NextDayKeptApart OneSource LegIDsUnique
CHECK_DEADLOCK FALSE
