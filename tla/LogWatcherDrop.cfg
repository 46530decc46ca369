CONSTANTS
    MaxPerLine = 1
    Poison <- MCNoPoison
    TornWrites = FALSE
    MaxSeen = 3
    NoOffset = NoOffset
    MaxEvents = 2
    Key <- MCOwnKeys
    MaxFaults = 1

SPECIFICATION Spec
INVARIANT NoEventDropped
