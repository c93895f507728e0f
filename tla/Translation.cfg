SPECIFICATION Spec
CONSTANTS
    Documents <- MCDocuments
    Root <- MCRoot
    Structural <- MCStructural
    Rules <- MCRules
    Codes <- MCCodes
    Dropped <- MCDropped
    Renames <- MCRenames
    Rank <- MCRank
INVARIANTS OnePlace EitherOrder RefsResolve FlightsTraceable PenaltiesKept
PROPERTY NothingUnsaid
CHECK_DEADLOCK FALSE
