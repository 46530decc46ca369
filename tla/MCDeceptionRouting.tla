------------------------- MODULE MCDeceptionRouting -------------------------
EXTENDS DeceptionRouting, TLC

CONSTANTS a, b, loopback, k1, c1, c2, r1

MCClients == {a, b, loopback}
MCInsiders == {a, loopback}
MCBypassIPs == {loopback}
MCConns == {k1}
MCSourceOf == k1 :> a
MCRequests == {r1}
MCChannels == {c1, c2}
=============================================================================
