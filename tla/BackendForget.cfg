CONSTANTS
    Services = {"records"}
    k1 = k1
    k2 = k2
    e1 = e1
    e2 = e2
    hook = hook
    cowrie = cowrie
    canary = canary
    s1 = s1
    s2 = s2
    c1 = c1
    c2 = c2
    p1 = p1
    p2 = p2
    p3 = p3
    n1 = n1
    n2 = n2
    bait = bait
    token1 = token1
    token2 = token2
    Suspicious = {"root"}
    ServiceNames = {"svc"}
    NoModel = NoModel
    Usernames = {"root", "alice", "svc"}
    FirstAuthTimes = {10, 150}
    Intervals = {20, 60}
    SourceMarks <- MCSourceMarks
    ModelAnswers <- MCModelAnswers
    LlmConfidences = {50}
    MaxAttempts = 4
    Conns = {k1, k2}
    Events = {e1, e2, hook}
    Hooks = {hook}
    SessionOf <- MCSessionOf
    LevelOf <- MCLevelOf
    BaitOf <- MCBaitOf
    NoRow = NoRow
    MaxWorkers = 3
    Dashboards = {d1, d2}
    QueueSize = 2
    MaxAlerts = 4
    Sessions = {s1, s2}
    ClientOf <- MCClientOf
    PortOf <- MCPortOf
    LoggedPort <- MCLoggedPort
    Gateway = Gateway
    Nobody = Nobody
    Retries = 2
    PortTtl = 1
    SessionTtl = 2
    MaxTime = 2
    MaxRestarts = 1
    Notices = {n1, n2}
    PathOf <- MCPathOf
    TokenOf <- MCTokenOf
    Canonical = {token1}
    Cooldown = 1
    Tolerance = 1
    MaxNonces = 1
    MaxCalls = 3
    MaxMinutes = 2
    MaxBoots = 1
    ModelLevel <- MCModelLevel
    MaxCommands = 1
    CacheTtl = 2
    MaxSeconds = 3
    Lookups = {l1, l2}
    Slots = 1
    Uncached = Uncached
    Unreadable = Unreadable
    MaxBatch = 2
    KeepEvents = 4
    SaveEvery = 2
    MaxLogged = 3
    MaxForwards = 7
    Texts = {anna}
    Nothing = Nothing
    Blank = Blank
    MaxParts = 2
    MaxEntries = 1
SPECIFICATION BackendSpec
PROPERTIES
    ProfileKeptWithHistory
CHECK_DEADLOCK FALSE
