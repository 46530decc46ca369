--------------------------- MODULE MCSdnController ---------------------------
EXTENDS SdnController

CONSTANTS a, real, honeypot, s1, s2

MCClients == {a}
MCServers == {real, honeypot}
MCSwitches == {s1, s2}
MCOneSwitch == {s1}
\* Real servers and honeypots behind fixed ports, but for one that moves.
MCPortsOf == [s \in Switches |-> [h \in Hosts |-> IF h = real THEN {1, 3} ELSE {2}]]

\* Two switches: at one the real server moves and the honeypot is not attached.
MCFewPorts == [s \in Switches |->
                IF s = s1 THEN [h \in Hosts |-> IF h = real THEN {1, 2} ELSE {}]
                ELSE [h \in Hosts |-> IF h = real THEN {1} ELSE {2}]]
=============================================================================
