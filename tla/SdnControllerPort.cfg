CONSTANTS
    a = a
    real = real
    honeypot = honeypot
    s1 = s1
    s2 = s2
    Elsewhere = Elsewhere
    Clients <- MCClients
    Servers <- MCServers
    Hosts <- MCServers
    Switches <- MCOneSwitch
    PortsOf <- MCPortsOf
    Duration = 2
    IdleTimeout = 2
    MaxInFlight = 2

SPECIFICATION Spec
INVARIANT RedirectReachesTarget
