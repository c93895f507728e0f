SPECIFICATION Spec
CONSTANTS
    Deployments <- Plain
    Counts = {0, 1, 5}
    Codes = {"", "IB", "AA", "CM", "ZZ"}
    NoCode = ""
    Profiles <- SomeProfiles
    Rates <- SomeRates
    RateUnit = 10
    ScaleUnit = 4
    NoCurrency = "none"
    Carriers = {"", "LA", "IB", "AA", "CM"}
    Currencies = {"none", "USD", "EUR", "BRL"}
    Text = {"a", "b", "c", "d"}
    NoText = ""
    ItemOne = "ITEM_1"
INVARIANTS OfferComesThrough
CHECK_DEADLOCK FALSE
