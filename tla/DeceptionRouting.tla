-------------------------- MODULE DeceptionRouting --------------------------
(***************************************************************************)
(* The routing plane: SSH connections, each deciding by the rules of       *)
(* RouteDecision (which SshGateway is shown to keep), the fire-and-forget  *)
(* posts that carry their decisions to the backend (RoutingStore), and the *)
(* HTTP gateway's request handler (src/http-gateway/proxy.py), which asks  *)
(* the backend about addresses it does not know and posts decisions of its *)
(* own.                                                                    *)
(*                                                                         *)
(* A post is an asyncio task of its own: posts overtake each other, and    *)
(* one that fails within its three seconds is lost without a trace.        *)
(***************************************************************************)
EXTENDS RoutingStore

CONSTANTS
    Conns,        \* SSH connections
    SourceOf,     \* the client address of each of them
    Insiders,     \* clients whose users know the HTTP credentials
    Requests,     \* HTTP requests, each with its post, in flight at the same time
    Channels,     \* channels the client may open on a connection
    Score,        \* the score task of a connection
    PostsFail     \* may a post come to nothing?

ASSUME RoutingConstantsOK ==
    /\ SourceOf \in [Conns -> Clients]
    /\ Insiders \subseteq Clients
    /\ Score \notin Channels
    /\ PostsFail \in BOOLEAN

VARIABLES
    decision, final, published,   \* RouteDecision, per connection
    creds,       \* connections whose accepted credentials are the real ones
    posts,       \* POST /routing/decision tasks that have not ended
    req,         \* HTTP requests: the client and how far the handler is
    cookie,      \* clients whose browser has been given the session cookie
    gave,        \* ghost: clients that presented the HTTP credentials
    grantedUntil \* ghost: when the last "real" delivered for a client ends

connVars == <<decision, final, published, creds>>
httpVars == <<req, cookie, gave>>
vars == <<storeVars, connVars, posts, httpVars, grantedUntil>>

Publishers == Channels \cup {Score}
Posts == [ip : Clients, target : Targets, by : (Conns \X Publishers) \cup Requests]
Idle == [ip |-> "none", at |-> "idle"]

\* Where the handler is, or how the request was answered: by the real server on
\* one of three grounds, by the honeypot page, or by a redirect.
States == {"asking", "toldReal", "toldOther",
           "trusted", "authenticated", "authorised", "honeypot", "redirect"}

TypeOK ==
    /\ StoreTypeOK
    /\ decision \in [Conns -> Targets \cup {"none"}]
    /\ final \in [Conns -> BOOLEAN]
    /\ published \in [Conns -> SUBSET [target : Targets, by : Publishers]]
    /\ creds \subseteq Conns
    /\ posts \subseteq Posts
    /\ req \in [Requests -> {Idle} \cup [ip : Clients, at : States]]
    /\ cookie \subseteq Clients
    /\ gave \subseteq Clients
    /\ grantedUntil \in [Clients -> 0 .. MaxTime + Duration]

Init ==
    /\ StoreInit
    /\ decision = [k \in Conns |-> "none"]
    /\ final = [k \in Conns |-> FALSE]
    /\ published = [k \in Conns |-> {}]
    /\ creds \in SUBSET Conns
    /\ posts = {}
    /\ req = [r \in Requests |-> Idle]
    /\ cookie = {}
    /\ gave = {}
    /\ grantedUntil = [ip \in Clients |-> 0]

-----------------------------------------------------------------------------
(* SSH connections. Their guards are what SshGateway is shown to keep to   *)
(* (RouteDecision and RealOnlyOnMatch); the score may say anything.        *)

Heard(k) == {p.by : p \in published[k]}

Announce(k, target, who) ==
    /\ decision' = [decision EXCEPT ![k] = target]
    /\ published' = [published EXCEPT ![k] = @ \cup {[target |-> target, by |-> who]}]
    /\ posts' = posts \cup {[ip |-> SourceOf[k], target |-> target, by |-> <<k, who>>]}

\* session_requested: a channel is opened before anything is decided.
Defaulted(k) ==
    /\ decision[k] = "none"
    /\ decision' = [decision EXCEPT ![k] = "honeypot"]
    /\ UNCHANGED <<storeVars, final, published, creds, posts, httpVars, grantedUntil>>

\* The end of _request_score, unless a channel has been routed before: the
\* score's decision is provisional, and is posted all the same.
Scored(k, d) ==
    /\ ~final[k] /\ Score \notin Heard(k)
    /\ Announce(k, d, Score)
    /\ UNCHANGED <<storeVars, final, creds, httpVars, grantedUntil>>

\* _run_session of a channel: every channel of the connection compares the same
\* credentials, decides the same and posts it once more.
Settled(k, c, d) ==
    /\ c \notin Heard(k)
    /\ final[k] => d = decision[k]
    /\ d = "real" => k \in creds
    /\ final' = [final EXCEPT ![k] = TRUE]
    /\ Announce(k, d, c)
    /\ UNCHANGED <<storeVars, creds, httpVars, grantedUntil>>

-----------------------------------------------------------------------------
(* Posts.                                                                  *)

Delivered(p) ==
    /\ SetRouting(p.ip, p.target)
    /\ posts' = posts \ {p}
    /\ grantedUntil' = IF p.target = "real"
                         THEN [grantedUntil EXCEPT ![p.ip] = now + Duration]
                         ELSE grantedUntil
    /\ UNCHANGED <<connVars, httpVars>>

Lost(p) ==
    /\ PostsFail
    /\ posts' = posts \ {p}
    /\ UNCHANGED <<storeVars, connVars, httpVars, grantedUntil>>

\* The backend dies saving this post's decision: the gateway sees an error.
KilledByPost(p) ==
    /\ KilledInSave
    /\ posts' = posts \ {p}
    /\ UNCHANGED <<connVars, httpVars, grantedUntil>>

KilledByCleanup ==
    /\ Unexpired(table) # table
    /\ KilledInSave
    /\ UNCHANGED <<connVars, posts, httpVars, grantedUntil>>

-----------------------------------------------------------------------------
(* The HTTP handler, handle(request), in the order of its tests.           *)

AtRest(r) == req[r].at \notin {"asking", "toldReal", "toldOther"}
Goes(r, ip, at) == req' = [req EXCEPT ![r] = [ip |-> ip, at |-> at]]

\* _notify_routing, a task of its own; its test for bypassed addresses is never
\* met here.
Notify(r, ip) ==
    /\ \A p \in posts : p.by # r
    /\ posts' = posts \cup {[ip |-> ip, target |-> "real", by |-> r]}

\* Loopback, or the session cookie: no credential is looked at. The cookie has
\* the same value for every browser and is good from any address, so whoever
\* has been given it, or has taken it along to another address, may present it.
RequestTrusted(r, ip) ==
    /\ AtRest(r)
    /\ ip \in BypassIPs \/ cookie # {}
    /\ Goes(r, ip, "trusted")
    /\ UNCHANGED <<storeVars, connVars, posts, cookie, gave, grantedUntil>>

\* The right Basic-Auth header. The cookie reaches the client with the answer
\* of the real server, and not if that server cannot be reached.
RequestBasicAuth(r, ip) ==
    /\ AtRest(r) /\ ip \in Insiders \ BypassIPs
    /\ Notify(r, ip)
    /\ Goes(r, ip, "authenticated")
    /\ cookie' \in {cookie, cookie \cup {ip}}
    /\ gave' = gave \cup {ip}
    /\ UNCHANGED <<storeVars, connVars, grantedUntil>>

\* The portal's form with the right credentials: a redirect, with the cookie.
RequestLogin(r, ip) ==
    /\ AtRest(r) /\ ip \in Insiders \ BypassIPs
    /\ Notify(r, ip)
    /\ Goes(r, ip, "redirect")
    /\ cookie' = cookie \cup {ip}
    /\ gave' = gave \cup {ip}
    /\ UNCHANGED <<storeVars, connVars, grantedUntil>>

\* Any other POST is captured and answered with the honeypot page.
RequestWrongLogin(r, ip) ==
    /\ AtRest(r) /\ ip \notin BypassIPs
    /\ Goes(r, ip, "honeypot")
    /\ UNCHANGED <<storeVars, connVars, posts, cookie, gave, grantedUntil>>

\* Anything else is asked about.
RequestUnknown(r, ip) ==
    /\ AtRest(r) /\ ip \notin BypassIPs
    /\ Goes(r, ip, "asking")
    /\ UNCHANGED <<storeVars, connVars, posts, cookie, gave, grantedUntil>>

\* The backend answers; its answer is then on its way to the gateway.
Answered(r) ==
    LET ip == req[r].ip IN
    /\ req[r].at = "asking" /\ running
    /\ Goes(r, ip, IF Lookup(ip) = "real" THEN "toldReal" ELSE "toldOther")
    /\ DropExpired(ip)
    /\ UNCHANGED <<connVars, posts, cookie, gave, grantedUntil>>

\* Mutant of Routed: only an explicit "honeypot" is denied.
RoutedOpen(r) ==
    /\ req[r].at \in {"asking", "toldReal", "toldOther"}
    /\ Goes(r, req[r].ip, "authorised")
    /\ UNCHANGED <<storeVars, connVars, posts, cookie, gave, grantedUntil>>

\* DEFAULT DENY: only the answer "real" opens the real server. An answer that
\* does not come in three seconds is "unknown".
Routed(r) ==
    /\ \/ /\ req[r].at \in {"asking", "toldReal", "toldOther"}
          /\ Goes(r, req[r].ip, "honeypot")
       \/ /\ req[r].at = "toldReal"
          /\ Goes(r, req[r].ip, "authorised")
    /\ UNCHANGED <<storeVars, connVars, posts, cookie, gave, grantedUntil>>

-----------------------------------------------------------------------------
Connection(k) ==
    \/ Defaulted(k)
    \/ \E d \in Targets : Scored(k, d)
    \/ \E c \in Channels, d \in Targets : Settled(k, c, d)

Request(r, ip) ==
    \/ RequestTrusted(r, ip)
    \/ RequestBasicAuth(r, ip)
    \/ RequestLogin(r, ip)
    \/ RequestWrongLogin(r, ip)
    \/ RequestUnknown(r, ip)

StoreAlone == Tick \/ Cleanup \/ Stop \/ Start

Next ==
    \/ \E k \in Conns : Connection(k)
    \/ \E p \in posts : Delivered(p) \/ Lost(p) \/ KilledByPost(p)
    \/ KilledByCleanup
    \/ \E r \in Requests :
         \/ \E ip \in Clients : Request(r, ip)
         \/ Answered(r) \/ Routed(r)
    \/ StoreAlone /\ UNCHANGED <<connVars, posts, httpVars, grantedUntil>>

Spec == Init /\ [][Next]_vars

-----------------------------------------------------------------------------
(* Properties.                                                             *)

\* Default deny (proxy.py:18), as far as it goes. The backend lets a request
\* through only if its own client has presented the HTTP credentials or has an
\* SSH connection that was decided to be real, whatever the order in which posts,
\* lookups, crashes and restarts come; and nothing passes unasked, but loopback,
\* before somebody has presented the HTTP credentials. The decision about the
\* connection is that of its credentials or that of its score: proxy.py:14 and
\* :285 speak of a credential match only, but gateway.py:482 posts both.
VouchedFor(k) ==
    \E p \in published[k] : p.target = "real" /\ (p.by = Score \/ k \in creds)
DefaultDeny ==
    \A r \in Requests :
      LET ip == req[r].ip IN
      /\ req[r].at \in {"toldReal", "authorised"} =>
           ip \in gave \/ \E k \in Conns : SourceOf[k] = ip /\ VouchedFor(k)
      /\ req[r].at = "trusted" => ip \in BypassIPs \/ gave # {}

\* An authorisation ends with its time: the backend says "real" only within
\* Duration of a delivered "real" decision, and neither a failed save nor a
\* restart from an older file prolongs it (routing.py:57, 155).
GrantsLapse ==
    [][\A r \in Requests :
         req[r].at # "toldReal" /\ req'[r].at = "toldReal"
           => req[r].ip \in BypassIPs \/ now < grantedUntil[req[r].ip]]_vars

\* Until the disk fails for the first time, the table, the file and the
\* process together are a DecisionRegister: restarts lose nothing.
InForce == Unexpired(IF running THEN table ELSE file)
Register == INSTANCE DecisionRegister WITH inForce <- InForce
StoreIsRegister == Register!Init /\ [][faults' = 0 => Register!Next]_<<InForce, now>>

\* gateway.py:473, "Don't override a fast-path decision": once a client's
\* connections have all settled on one target and every post has arrived, the
\* decision in force about that client is that target.
FinalDecisionStands ==
    \A ip \in DOMAIN Unexpired(table), d \in Targets :
      LET mine == {k \in Conns : SourceOf[k] = ip} IN
      (/\ mine # {} /\ \A k \in mine : final[k] /\ decision[k] = d
       /\ posts = {} /\ faults = 0 /\ ip \notin gave)
        => table[ip].target = d

\* routing.py:5, "Survives restarts via JSON file": when a process that has
\* nothing left to save (_dirty is false) ends, and when it starts again, every
\* decision in force stays in force.
SurvivesRestart == [][running # running' /\ ~dirty => InForce' = InForce]_vars
=============================================================================
