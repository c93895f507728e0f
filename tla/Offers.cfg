SPECIFICATION Spec
CONSTANTS
    Deployments <- Every
    Counts = {0, 1, 5}
    Codes = {"", "IB", "AA", "CM", "ZZ"}
    NoCode = ""
    Profiles <- SomeProfiles
    Rates <- SomeRates
    RateUnit = 10
    ScaleUnit = 4
    NoCurrency = "none"
    Carriers = {"", "LA", "IB", "AA", "CM"}
    Currencies = {"none", "USD", "EUR", "BRL"}
    Text = {"a", "b", "c", "d"}
    NoText = ""
    ItemOne = "ITEM_1"
INVARIANTS  PricedIsOrdered RecycledDiffer
CHECK_DEADLOCK FALSE
