--------------------------- MODULE IpCorrelation ---------------------------
(***************************************************************************)
(* Whose session is it?  The gateway reports the port of each connection   *)
(* it opens to a honeypot, the honeypot logs that port with the session's  *)
(* first event, and the backend brings the two together                    *)
(* (src/backend/services/ip_correlation.py, with its use at the head of    *)
(* ingest_event and POST /routing/proxy-map).  The report and the log race.*)
(***************************************************************************)
EXTENDS Naturals, FiniteSets, Functions

CONSTANTS
    Sessions,       \* honeypot sessions
    ClientOf,       \* the client behind a session
    PortOf,         \* the port the gateway reports for it
    LoggedPort,     \* the port the honeypot logs: another one if Docker rewrote it
    Gateway,        \* the gateway's own private address
    Nobody,         \* None
    Retries,        \* RESOLVE_RETRIES
    PortTtl,        \* PROXY_MAP_TTL
    SessionTtl,     \* SESSION_CACHE_TTL
    MaxTime,        \* bound: clock
    MaxRestarts     \* bound: restarts of the backend

ASSUME CorrelationConstantsOK ==
    /\ ClientOf \in [Sessions -> Range(ClientOf)] /\ PortOf \in [Sessions -> Range(PortOf)]
    /\ Gateway \notin Range(ClientOf) /\ Nobody \notin Range(ClientOf) \cup {Gateway}
    /\ {Retries, PortTtl, SessionTtl} \subseteq Nat \ {0}
    /\ {MaxTime, MaxRestarts} \subseteq Nat

VARIABLES
    clock,        \* time.time()
    portMap,      \* _proxy_port_map
    sessionMap,   \* _session_real_ip
    report,       \* the gateway's report of each session's port
    tries,        \* attempts made for a session's first event
    stage,        \* how far that event has come
    owner,        \* attacker_ip of the session's row
    credited,     \* the addresses that events of the session were ingested for
    restarts,     \* restarts so far
    inTime,       \* ghost: sessions whose report was there before the last attempt
    forgotten     \* ghost: sessions whose remembered address has lapsed or was lost

corrVars == <<clock, portMap, sessionMap, report, tries, stage, owner, credited, restarts, inTime,
              forgotten>>

Clients == Range(ClientOf)
Entry(ip, ttl) == [ip |-> ip, expires |-> clock + ttl]
Valid(map, key) == key \in DOMAIN map /\ map[key].expires > clock

CorrTypeOK ==
    /\ clock \in 0 .. MaxTime
    /\ DOMAIN portMap \subseteq Range(PortOf) /\ DOMAIN sessionMap \subseteq Sessions
    /\ \A f \in {portMap, sessionMap} : \A k \in DOMAIN f :
         f[k] \in [ip : Clients, expires : 0 .. MaxTime + PortTtl + SessionTtl]
    /\ report \in [Sessions -> {"none", "sent", "lost", "in"}]
    /\ tries \in [Sessions -> 0 .. Retries]
    /\ stage \in [Sessions -> {"unread", "resolving", "read"}]
    /\ owner \in [Sessions -> Clients \cup {Gateway, Nobody}]
    /\ credited \in [Sessions -> SUBSET (Clients \cup {Gateway})]
    /\ restarts \in 0 .. MaxRestarts
    /\ inTime \subseteq Sessions /\ forgotten \subseteq Sessions

CorrInit ==
    /\ clock = 0 /\ restarts = 0
    /\ portMap = <<>> /\ sessionMap = <<>>
    /\ report = [s \in Sessions |-> "none"]
    /\ tries = [s \in Sessions |-> 0]
    /\ stage = [s \in Sessions |-> "unread"]
    /\ owner = [s \in Sessions |-> Nobody]
    /\ credited = [s \in Sessions |-> {}]
    /\ inTime = {} /\ forgotten = {}

\* _prune and an assignment.
Store(map, key, entry) ==
    [k \in {key} \cup {j \in DOMAIN map : Valid(map, j)} |-> IF k = key THEN entry ELSE map[k]]

\* The entries that max(..., key=expires_at) may return.
Latest == {portMap[p].ip : p \in {q \in DOMAIN portMap :
             /\ Valid(portMap, q)
             /\ \A r \in DOMAIN portMap : portMap[r].expires <= portMap[q].expires}}

-----------------------------------------------------------------------------
\* The gateway has connected to the honeypot and reports its port, in a task.
SendReport(s) ==
    /\ report[s] = "none"
    /\ \E r \in {"sent", "lost"} : report' = [report EXCEPT ![s] = r]
    /\ UNCHANGED <<clock, portMap, sessionMap, tries, stage, owner, credited, restarts, inTime, forgotten>>

\* The attempts of a session that are still to come can find its report.
Pending(s) == stage[s] = "unread" \/ (stage[s] = "resolving" /\ tries[s] < Retries)

RegisterProxyMapping(s) ==
    /\ report[s] = "sent"
    /\ report' = [report EXCEPT ![s] = "in"]
    /\ portMap' = Store(portMap, PortOf[s], Entry(ClientOf[s], PortTtl))
    /\ inTime' = {t \in inTime : PortOf[t] # PortOf[s]} \cup
                 (IF Pending(s) /\ LoggedPort[s] = PortOf[s] THEN {s} ELSE {})
    /\ UNCHANGED <<clock, sessionMap, tries, stage, owner, credited, restarts, forgotten>>

\* The head of ingest_event: an event counts for the resolved address, or for
\* the one in the log; the session's row keeps a public address.
Attribute(s, ip) ==
    LET src == IF ip = Nobody THEN Gateway ELSE ip
    IN  /\ credited' = [credited EXCEPT ![s] = @ \cup {src}]
        /\ owner' = [owner EXCEPT ![s] = IF @ \in {Nobody, Gateway} THEN src ELSE @]

ReadConnect(s) ==
    /\ stage[s] = "unread"
    /\ stage' = [stage EXCEPT ![s] = "resolving"]
    /\ UNCHANGED <<clock, portMap, sessionMap, report, tries, owner, credited, restarts, inTime, forgotten>>

Resolved(s, ip) ==
    /\ stage' = [stage EXCEPT ![s] = "read"]
    /\ sessionMap' = IF ip = Nobody THEN sessionMap
                     ELSE Store(sessionMap, s, Entry(ip, SessionTtl))
    /\ Attribute(s, ip)

\* Mutant of TryPort: the latest report is taken without waiting for the port's own.
TryPortHasty(s) ==
    /\ stage[s] = "resolving" /\ tries[s] < Retries
    /\ \/ \E ip \in Latest : Resolved(s, ip) /\ UNCHANGED tries
       \/ /\ Latest = {} /\ tries' = [tries EXCEPT ![s] = @ + 1]
          /\ UNCHANGED <<sessionMap, stage, owner, credited>>
    /\ UNCHANGED <<clock, portMap, report, restarts, inTime, forgotten>>

\* resolve_for_connect: an attempt looks the port up, then sleeps.
TryPort(s) ==
    /\ stage[s] = "resolving" /\ tries[s] < Retries
    /\ IF Valid(portMap, LoggedPort[s])
       THEN Resolved(s, portMap[LoggedPort[s]].ip) /\ UNCHANGED tries
       ELSE /\ tries' = [tries EXCEPT ![s] = @ + 1]
            /\ UNCHANGED <<sessionMap, stage, owner, credited>>
    /\ UNCHANGED <<clock, portMap, report, restarts, inTime, forgotten>>

\* ...and after the last sleep the latest report counts, whoever's it is.
FallBack(s) ==
    /\ stage[s] = "resolving" /\ tries[s] = Retries
    /\ \E ip \in IF Latest = {} THEN {Nobody} ELSE Latest : Resolved(s, ip)
    /\ UNCHANGED <<clock, portMap, report, tries, restarts, inTime, forgotten>>

\* Events are read in the order of the log; a backend that starts in the middle
\* of a session begins at the end of the log and never reads its first event.
FirstEventPast(s) == stage[s] = "read" \/ (stage[s] = "unread" /\ restarts > 0)

\* Mutant of LaterEvent: the fallback is not remembered.
LaterEventForgets(s) ==
    /\ FirstEventPast(s)
    /\ stage' = [stage EXCEPT ![s] = "read"]
    /\ \E ip \in IF Valid(sessionMap, s) THEN {sessionMap[s].ip}
                 ELSE IF Latest # {} THEN Latest ELSE {Nobody} : Attribute(s, ip)
    /\ inTime' = IF stage[s] = "unread" THEN inTime \ {s} ELSE inTime
    /\ UNCHANGED <<clock, portMap, sessionMap, report, tries, restarts, forgotten>>

\* resolve_for_session, for an event without a port: the session's address,
\* or the latest report, which then becomes the session's address.
LaterEvent(s) ==
    /\ FirstEventPast(s)
    /\ stage' = [stage EXCEPT ![s] = "read"]
    /\ \E ip \in IF Valid(sessionMap, s) THEN {sessionMap[s].ip}
                 ELSE IF Latest # {} THEN Latest ELSE {Nobody} :
         /\ Attribute(s, ip)
         /\ sessionMap' = IF ip = Nobody THEN sessionMap
                          ELSE [k \in DOMAIN sessionMap \cup {s} |->
                                  IF k = s THEN Entry(ip, SessionTtl) ELSE sessionMap[k]]
    /\ inTime' = IF stage[s] = "unread" THEN inTime \ {s} ELSE inTime
    /\ UNCHANGED <<clock, portMap, report, tries, restarts, forgotten>>

TimePasses ==
    /\ clock < MaxTime
    /\ clock' = clock + 1
    /\ inTime' = {s \in inTime : stage[s] = "read" \/ portMap[PortOf[s]].expires > clock + 1}
    /\ UNCHANGED <<portMap, sessionMap, report, tries, stage, owner, credited, restarts>>
    /\ forgotten' = forgotten \cup {s \in DOMAIN sessionMap : ~Valid(sessionMap, s)'}

\* Both maps are lost, and with them the events that were being ingested.
RestartBackend ==
    /\ restarts < MaxRestarts
    /\ restarts' = restarts + 1
    /\ portMap' = <<>> /\ sessionMap' = <<>>
    /\ stage' = [s \in Sessions |-> IF stage[s] = "resolving" THEN "read" ELSE stage[s]]
    /\ inTime' = {} /\ forgotten' = forgotten \cup DOMAIN sessionMap
    /\ UNCHANGED <<clock, report, tries, owner, credited>>

CorrNext ==
    \/ TimePasses \/ RestartBackend
    \/ \E s \in Sessions :
         \/ SendReport(s) \/ RegisterProxyMapping(s)
         \/ ReadConnect(s) \/ TryPort(s) \/ FallBack(s) \/ LaterEvent(s)

CorrSpec == CorrInit /\ [][CorrNext]_corrVars

-----------------------------------------------------------------------------
\* A report that arrives before the last attempt, for a port that is logged as
\* it is and not reported anew for another session, decides whose session it
\* is: the race of report and log is harmless within the retries.
InTimeIsRight ==
    \A s \in inTime : stage[s] = "read" /\ credited[s] # {} =>
                        owner[s] = ClientOf[s]

\* All events of a session count for one client, the one its row names, except
\* those that came before anybody was known: across a report that comes late, a
\* fallback to another's, and a restart before anybody was known.  It is so as
\* long as the session's address is remembered, which is not always "for the rest
\* of the session" (ingest.py:46): a pause of SESSION_CACHE_TTL between two
\* events, or a restart, forgets it, and then later events may count for another
\* client than the row names.
OneClientPerSession ==
    \A s \in Sessions \ forgotten : credited[s] \subseteq {owner[s], Gateway}
=============================================================================
