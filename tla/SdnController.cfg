CONSTANTS
    a = a
    real = real
    honeypot = honeypot
    s1 = s1
    s2 = s2
    Elsewhere = Elsewhere
    Clients <- MCClients
    Servers <- MCServers
    Hosts <- MCServers
    Switches <- MCSwitches
    PortsOf <- MCFewPorts
    Duration = 1
    IdleTimeout = 1
    MaxInFlight = 2

SPECIFICATION FairSpec
INVARIANTS TypeOK FlowsFollowRoutes
PROPERTIES RedirectNeedsRoute QuietClientReleased
