CONSTANTS
    MaxPerLine = 2
    Poison <- MCPoison
    TornWrites = TRUE
    MaxSeen = 2
    NoOffset = NoOffset
    MaxEvents = 4
    Key <- MCKey
    MaxFaults = 3

SPECIFICATION FairSpec
INVARIANTS TypeOK FailureCostsOneLine IngestedOnce
PROPERTY CatchesUp
