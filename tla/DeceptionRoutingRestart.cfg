CONSTANTS
    a = a
    loopback = loopback
    k1 = k1
    b = b
    c1 = c1
    c2 = c2
    r1 = r1
    Clients <- MCClients
    BypassIPs <- MCBypassIPs
    Conns <- MCConns
    SourceOf <- MCSourceOf
    Insiders <- MCInsiders
    Requests <- MCRequests
    Channels <- MCChannels
    Score = Score
    Duration = 2
    MaxTime = 4
    MaxFaults = 1
    PostsFail = FALSE

SPECIFICATION Spec
PROPERTY SurvivesRestart
CHECK_DEADLOCK FALSE
