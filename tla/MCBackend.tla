------------------------------ MODULE MCBackend ------------------------------
(***************************************************************************)
(* The services of the backend that share no state, checked side by side:  *)
(* the first state picks one of Services, and only that one moves.  This   *)
(* is the sum of their state graphs and not the product: no step of one    *)
(* can enable, disable or change a step of another.                        *)
(***************************************************************************)
EXTENDS PreSession, AttackerRecords, AlertStream, IpCorrelation, CanaryWebhook, ThreatScores,
        VpnLookup, SplunkPath, DionaeaEvents, TLC

CONSTANTS
    Services,    \* the services to check
    k1, k2, e1, e2, hook, cowrie, canary, s1, s2, c1, c2, p1, p2, p3, n1, n2, bait, token1, token2

VARIABLE service

MCSourceMarks == {{}, {"whitelist"}, {"scanner"}, {"pentest", "whitelist"}}
MCModelAnswers == {5, 30, 60, 80, 90, NoModel}
MCSessionOf == (e1 :> cowrie) @@ (e2 :> cowrie) @@ (hook :> canary)
MCLevelOf == (e1 :> 1) @@ (e2 :> 4) @@ (hook :> 0)
MCBaitOf == (e1 :> 3) @@ (e2 :> 0) @@ (hook :> 2)
MCClientOf == (s1 :> c1) @@ (s2 :> c2)
MCPortOf == (s1 :> p1) @@ (s2 :> p2)
MCLoggedPort == (s1 :> p1) @@ (s2 :> p3)
MCPathOf == (n1 :> bait) @@ (n2 :> bait)
MCTokenOf == (n1 :> token2) @@ (n2 :> token2)
MCModelLevel == [f \in Features |-> IF f.baited THEN 4 ELSE IF f.sprayed THEN 3 ELSE f.commands]

backendVars == <<service, preVars, recVars, streamVars, corrVars, webhookVars, threatVars, vpnVars,
                 splunkVars, dionaeaVars>>

BackendTypeOK ==
    /\ PreTypeOK /\ RecTypeOK /\ StreamTypeOK /\ CorrTypeOK /\ WebhookTypeOK /\ ThreatTypeOK
    /\ VpnTypeOK /\ SplunkTypeOK /\ DionaeaTypeOK

\* A service that does not move starts in one of its initial states.
BackendInit ==
    /\ service \in Services
    /\ PreInit /\ (service # "scoring" => sig.marks = {})
    /\ ThreatInit /\ (service # "threat" => pipeline)
    /\ VpnInit /\ (service # "vpn" => opinion = [l \in Lookups |-> [p \in Providers |-> "silent"]])
    /\ RecInit /\ StreamInit /\ CorrInit /\ WebhookInit /\ SplunkInit /\ DionaeaInit

BackendNext ==
    /\ UNCHANGED service
    /\ \/ /\ service = "scoring" /\ PreNext
          /\ UNCHANGED <<recVars, streamVars, corrVars, webhookVars, threatVars, vpnVars, splunkVars, dionaeaVars>>
       \/ /\ service = "records" /\ RecNext
          /\ UNCHANGED <<preVars, streamVars, corrVars, webhookVars, threatVars, vpnVars, splunkVars, dionaeaVars>>
       \/ /\ service = "alerts" /\ StreamNext
          /\ UNCHANGED <<preVars, recVars, corrVars, webhookVars, threatVars, vpnVars, splunkVars, dionaeaVars>>
       \/ /\ service = "correlation" /\ CorrNext
          /\ UNCHANGED <<preVars, recVars, streamVars, webhookVars, threatVars, vpnVars, splunkVars, dionaeaVars>>
       \/ /\ service = "webhook" /\ WebhookNext
          /\ UNCHANGED <<preVars, recVars, streamVars, corrVars, threatVars, vpnVars, splunkVars, dionaeaVars>>
       \/ /\ service = "threat" /\ ThreatNext
          /\ UNCHANGED <<preVars, recVars, streamVars, corrVars, webhookVars, vpnVars, splunkVars, dionaeaVars>>
       \/ /\ service = "vpn" /\ VpnNext
          /\ UNCHANGED <<preVars, recVars, streamVars, corrVars, webhookVars, threatVars, splunkVars, dionaeaVars>>
       \/ /\ service = "splunk" /\ SplunkNext
          /\ UNCHANGED <<preVars, recVars, streamVars, corrVars, webhookVars, threatVars, vpnVars, dionaeaVars>>
       \/ /\ service = "dionaea" /\ DionaeaNext
          /\ UNCHANGED <<preVars, recVars, streamVars, corrVars, webhookVars, threatVars, vpnVars, splunkVars>>

BackendSpec == BackendInit /\ [][BackendNext]_backendVars /\ StreamFairness
=============================================================================
