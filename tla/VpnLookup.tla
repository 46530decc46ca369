----------------------------- MODULE VpnLookup -----------------------------
(***************************************************************************)
(* VPNDetector.check (src/backend/services/vpn_detection.py) for one       *)
(* address: up to three providers are asked one after the other, each only *)
(* if those before were not sure, in as many lookups at once as the        *)
(* semaphore admits, and the outcome is cached; ingest_event takes it over *)
(* into the profile.  Places and names of networks are left out.           *)
(***************************************************************************)
EXTENDS Naturals, FiniteSets

CONSTANTS
    Lookups,     \* calls of check for the address
    Slots,       \* the 10 of the semaphore
    Uncached     \* the address is not in the cache

ASSUME VpnConstantsOK == Slots \in Nat \ {0}

VARIABLES
    step,        \* how far a lookup has come
    found,       \* its VPNResult
    opinion,     \* ghost: what each provider answers in it
    vpnCache,    \* the cached result
    vpnDetected  \* vpn_detected of the profile

vpnVars == <<step, found, opinion, vpnCache, vpnDetected>>

Providers == {"ipinfo", "abuseipdb", "ip-api"}
Steps == {"idle", "waiting", "ipinfo", "abuseipdb", "ip-api", "done", "cached"}

\* silent: no token, no answer, a failure, or an answer without a verdict.
Opinions == {"silent", "clean", "bad"}
VpnResults == [flagged : BOOLEAN, confidence : {0, 60, 75, 90}]
Unknown == [flagged |-> FALSE, confidence |-> 0]

Asking == {l \in Lookups : step[l] \in Providers}

VpnTypeOK ==
    /\ step \in [Lookups -> Steps] /\ Cardinality(Asking) <= Slots
    /\ found \in [Lookups -> VpnResults]
    /\ opinion \in [Lookups -> [Providers -> Opinions]]
    /\ vpnCache \in VpnResults \cup {Uncached}
    /\ vpnDetected \in BOOLEAN

VpnInit ==
    /\ step = [l \in Lookups |-> "idle"]
    /\ found = [l \in Lookups |-> Unknown]
    /\ opinion \in [Lookups -> [Providers -> Opinions]]
    /\ vpnCache = Uncached /\ vpnDetected = FALSE

StepTo(l, s) == step' = [step EXCEPT ![l] = s]

\* check: the cache first, then a slot of the semaphore. The cache is not looked
\* at again in the slot: lookups that come together all ask.
CheckAddress(l) ==
    /\ step[l] = "idle"
    /\ IF vpnCache = Uncached THEN StepTo(l, "waiting") /\ UNCHANGED <<found, vpnDetected>>
       ELSE /\ StepTo(l, "cached")
            /\ found' = [found EXCEPT ![l] = vpnCache]
            /\ vpnDetected' = vpnCache.flagged
    /\ UNCHANGED <<opinion, vpnCache>>

TakeSlot(l) ==
    /\ step[l] = "waiting" /\ Cardinality(Asking) < Slots
    /\ StepTo(l, "ipinfo")
    /\ UNCHANGED <<found, opinion, vpnCache, vpnDetected>>

\* Mutant of IpinfoConfidence: ipinfo is sure of what it calls clean.
IpinfoSure(answer) == IF answer = "silent" THEN 0 ELSE 90

\* _query_ipinfo: the network is one of KNOWN_VPN_ASNS.
IpinfoConfidence(answer) == IF answer = "bad" THEN 90 ELSE 0

QueryIpinfo(l) ==
    LET answer == opinion[l]["ipinfo"]
    IN  /\ step[l] = "ipinfo"
        /\ found' = [found EXCEPT ![l] = [flagged |-> answer = "bad",
                                          confidence |-> IpinfoConfidence(answer)]]
        /\ StepTo(l, "abuseipdb")
        /\ UNCHANGED <<opinion, vpnCache, vpnDetected>>

Flagged(result, confidence) ==
    [flagged |-> TRUE,
     confidence |-> IF result.confidence > confidence THEN result.confidence ELSE confidence]

\* _query_abuseipdb: a score above 70.
QueryAbuseipdb(l) ==
    /\ step[l] = "abuseipdb"
    /\ found' = IF found[l].confidence < 90 /\ opinion[l]["abuseipdb"] = "bad"
                THEN [found EXCEPT ![l] = Flagged(@, 75)] ELSE found
    /\ StepTo(l, "ip-api")
    /\ UNCHANGED <<opinion, vpnCache, vpnDetected>>

\* _query_ip_api: a proxy or a hosting network. (A place that is no number
\* raises before the flag is looked at: that answer is a silent one.) The
\* result is cached, also one in which nobody answered.
QueryIpApi(l) ==
    LET result == IF found[l].confidence < 60 /\ opinion[l]["ip-api"] = "bad"
                  THEN Flagged(found[l], 60) ELSE found[l]
    IN  /\ step[l] = "ip-api"
        /\ found' = [found EXCEPT ![l] = result]
        /\ vpnCache' = result
        /\ vpnDetected' = result.flagged
        /\ StepTo(l, "done")
        /\ UNCHANGED opinion

VpnCacheExpires ==
    /\ vpnCache # Uncached
    /\ vpnCache' = Uncached
    /\ UNCHANGED <<step, found, opinion, vpnDetected>>

VpnNext ==
    \/ VpnCacheExpires
    \/ \E l \in Lookups :
         \/ CheckAddress(l) \/ TakeSlot(l)
         \/ QueryIpinfo(l) \/ QueryAbuseipdb(l) \/ QueryIpApi(l)

VpnSpec == VpnInit /\ [][VpnNext]_vpnVars

-----------------------------------------------------------------------------
\* Skipping a provider never hides a report: a lookup that asked flags the
\* address exactly if one of the providers, asked or not, reports it.
NoReportMasked ==
    \A l \in Lookups :
      step[l] = "done" => (found[l].flagged <=> \E p \in Providers : opinion[l][p] = "bad")
=============================================================================
