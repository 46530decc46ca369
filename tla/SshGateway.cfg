CONSTANTS
    real = real
    decoy = decoy
    eviltwin = eviltwin
    admin123 = admin123
    c1 = c1
    c2 = c2
    Empty = Empty
    Wildcard = Wildcard
    Score = Score
    RealUser <- real
    RealPassword <- eviltwin
    Users <- MCUsers
    Passwords <- MCPasswords
    AllowedCreds <- MCAllowedCreds
    Channels <- MCChannels
    MaxAttempts = 3
    MaxInput = 2

SPECIFICATION Spec
INVARIANTS TypeOK RealOnlyOnMatch RelayInOrder
PROPERTIES LossReleasesUpstream ImplementsRouteDecision
CHECK_DEADLOCK FALSE
SYMMETRY MCSymmetry
