---------------------------- MODULE RoutingProofs ----------------------------
(***************************************************************************)
(* Proofs about RoutingStore and DeceptionRouting, for any clients,        *)
(* connections, requests, durations, clock and number of faults.           *)
(***************************************************************************)
EXTENDS DeceptionRouting, TLAPS

-----------------------------------------------------------------------------
(* Tables. *)

\* A fresh process starts from a table.
LEMMA EmptyIsTable == EmptyTable \in Tables /\ DOMAIN EmptyTable = {}
<1>1. EmptyTable \in [{} -> Entries] /\ DOMAIN EmptyTable = {}
  BY DEF EmptyTable
<1> QED BY <1>1 DEF Tables

\* The clients and entries of a table.
LEMMA TableFacts ==
    ASSUME NEW f \in Tables
    PROVE  /\ DOMAIN f \subseteq Clients
           /\ \A ip \in DOMAIN f : f[ip] \in Entries
           /\ f = [ip \in DOMAIN f |-> f[ip]]
BY DEF Tables

\* What cleaning a table keeps, and that the result is a table.
LEMMA UnexpiredFacts ==
    ASSUME NEW f \in Tables
    PROVE  /\ DOMAIN Unexpired(f) = {ip \in DOMAIN f : f[ip].expires > now}
           /\ \A ip \in DOMAIN Unexpired(f) : Unexpired(f)[ip] = f[ip]
           /\ Unexpired(f) \in Tables
<1> DEFINE S == {ip \in DOMAIN f : f[ip].expires > now}
<1>1. Unexpired(f) = [ip \in S |-> f[ip]]
  BY DEF Unexpired, Restrict
<1>2. S \in SUBSET Clients /\ [ip \in S |-> f[ip]] \in [S -> Entries]
  BY TableFacts
<1>3. Unexpired(f) \in Tables
  BY <1>1, <1>2 DEF Tables
<1> QED BY <1>1, <1>3

\* What recording a decision changes, and that the result is a table.
LEMMA WithDecisionFacts ==
    ASSUME StoreTypeOK, NEW ip \in Clients, NEW target \in Targets
    PROVE  /\ WithDecision(ip, target) \in Tables
           /\ DOMAIN WithDecision(ip, target) = DOMAIN table \cup {ip}
           /\ \A i \in DOMAIN WithDecision(ip, target) :
                WithDecision(ip, target)[i] =
                  IF i = ip THEN [target |-> target, expires |-> now + Duration]
                            ELSE table[i]
<1> DEFINE S == DOMAIN table \cup {ip}
<1>1. WithDecision(ip, target) =
        [i \in S |-> IF i = ip THEN [target |-> target, expires |-> now + Duration]
                               ELSE table[i]]
  BY DEF WithDecision
<1>2. [target |-> target, expires |-> now + Duration] \in Entries
  BY StoreConstantsOK DEF StoreConstantsOK, StoreTypeOK, Entries
<1>3. S \in SUBSET Clients /\ WithDecision(ip, target) \in [S -> Entries]
  BY <1>1, <1>2, TableFacts DEF StoreTypeOK
<1>4. WithDecision(ip, target) \in Tables
  BY <1>3 DEF Tables
<1> QED BY <1>1, <1>4

\* Dropping entries leaves a table.
LEMMA RestrictFacts ==
    ASSUME NEW f \in Tables, NEW S \in SUBSET DOMAIN f
    PROVE  /\ Restrict(f, S) \in Tables
           /\ DOMAIN Restrict(f, S) = S
           /\ \A ip \in S : Restrict(f, S)[ip] = f[ip]
<1>1. S \in SUBSET Clients /\ Restrict(f, S) \in [S -> Entries]
  BY TableFacts DEF Restrict
<1> QED BY <1>1 DEF Tables, Restrict

-----------------------------------------------------------------------------
(* SSH connections. *)

\* A step of a connection touches the store and the HTTP gateway in no way; it
\* adds at most one publication and the post of it, "real" only by the score or
\* for the real credentials.
LEMMA ConnectionStep ==
    ASSUME NEW k \in Conns, Connection(k)
    PROVE  /\ UNCHANGED <<storeVars, creds, httpVars, grantedUntil>>
           /\ \/ UNCHANGED <<posts, published>>
              \/ \E d \in Targets, who \in Publishers :
                   Announce(k, d, who) /\ (d = "real" => who = Score \/ k \in creds)
BY DEF Connection, Defaulted, Scored, Settled, Publishers

-----------------------------------------------------------------------------
(* Types. *)

\* Every operation of the store keeps its type.
LEMMA StoreTypeStep ==
    ASSUME StoreTypeOK,
           \/ Tick \/ Cleanup \/ Stop \/ KilledInSave \/ Start
           \/ \E ip \in Clients, target \in Targets : SetRouting(ip, target)
           \/ \E ip \in Clients : DropExpired(ip)
           \/ UNCHANGED storeVars
    PROVE  StoreTypeOK'
<1> USE StoreConstantsOK DEF StoreConstantsOK, StoreTypeOK
<1>1. ASSUME NEW t \in Tables, Save(t) PROVE file' \in Tables /\ faults' \in 0 .. MaxFaults
  BY <1>1, EmptyIsTable DEF Save, Fault
<1>2. CASE Tick
  BY <1>2 DEF Tick
<1>3. CASE Cleanup
  <2>1. table' \in Tables
    BY <1>3, UnexpiredFacts DEF Cleanup
  <2> QED BY <2>1, <1>1, <1>3 DEF Cleanup
<1>4. CASE Stop
  BY <1>4, EmptyIsTable DEF Stop
<1>5. CASE KilledInSave
  <2>1. faults' \in 0 .. MaxFaults
    BY <1>5 DEF KilledInSave, Fault
  <2> QED BY <1>5, <2>1, EmptyIsTable DEF KilledInSave
<1>6. CASE Start
  BY <1>6, UnexpiredFacts DEF Start
<1>7. ASSUME NEW ip \in Clients, NEW target \in Targets, SetRouting(ip, target)
      PROVE  StoreTypeOK'
  <2>1. table' \in Tables
    BY <1>7, WithDecisionFacts DEF SetRouting
  <2> QED BY <2>1, <1>1, <1>7 DEF SetRouting
<1>8. ASSUME NEW ip \in Clients, DropExpired(ip) PROVE StoreTypeOK'
  <2> DEFINE S == DOMAIN table \ {ip}
  <2>1. S \in SUBSET DOMAIN table
    OBVIOUS
  <2>2. Restrict(table, S) \in Tables
    BY <2>1, RestrictFacts
  <2> QED BY <1>8, <2>2 DEF DropExpired
<1>9. CASE UNCHANGED storeVars
  BY <1>9 DEF storeVars
<1> QED BY <1>2, <1>3, <1>4, <1>5, <1>6, <1>7, <1>8, <1>9

\* The initial states are of their types.
LEMMA TypeInit == Init => TypeOK
<1> SUFFICES ASSUME Init PROVE TypeOK
  OBVIOUS
<1>1. StoreTypeOK
  <2>1. now \in 0 .. MaxTime /\ faults \in 0 .. MaxFaults
    BY StoreConstantsOK DEF Init, StoreInit, StoreConstantsOK
  <2> QED BY <2>1, EmptyIsTable DEF Init, StoreInit, StoreTypeOK
<1>2. grantedUntil \in [Clients -> 0 .. MaxTime + Duration]
  BY StoreConstantsOK DEF Init, StoreConstantsOK
<1> QED BY <1>1, <1>2 DEF Init, TypeOK

\* Every step of the composition keeps the types, one case per action.
LEMMA TypeStep == TypeOK /\ [Next]_vars => TypeOK'
<1> SUFFICES ASSUME TypeOK, [Next]_vars PROVE TypeOK'
  OBVIOUS
<1> USE RoutingConstantsOK DEF RoutingConstantsOK, TypeOK, connVars, httpVars
<1>1. ASSUME NEW k \in Conns, NEW d \in Targets, NEW who \in Publishers,
             Announce(k, d, who)
      PROVE  /\ decision' \in [Conns -> Targets \cup {"none"}]
             /\ published' \in [Conns -> SUBSET [target : Targets, by : Publishers]]
             /\ posts' \subseteq Posts
  BY <1>1 DEF Announce, Posts
<1>2. ASSUME NEW k \in Conns, Connection(k) PROVE TypeOK'
  <2>1. CASE Defaulted(k)
    BY <2>1, StoreTypeStep DEF Defaulted, Targets
  <2>2. ASSUME NEW d \in Targets, Scored(k, d) PROVE TypeOK'
    BY <1>1, <2>2, StoreTypeStep DEF Scored, Publishers
  <2>3. ASSUME NEW c \in Channels, NEW d \in Targets, Settled(k, c, d) PROVE TypeOK'
    BY <1>1, <2>3, StoreTypeStep DEF Settled, Publishers
  <2> QED BY <1>2, <2>1, <2>2, <2>3 DEF Connection
<1>4. ASSUME NEW p \in posts, Delivered(p) PROVE TypeOK'
  <2>1. p.ip \in Clients /\ p.target \in Targets
    BY DEF Posts
  <2>2. StoreTypeOK'
    BY <1>4, <2>1, StoreTypeStep DEF Delivered
  <2>3. now + Duration \in 0 .. MaxTime + Duration
    BY StoreConstantsOK DEF StoreConstantsOK, StoreTypeOK
  <2> QED BY <1>4, <2>1, <2>2, <2>3 DEF Delivered
<1>5. ASSUME NEW p \in posts, Lost(p) \/ KilledByPost(p) PROVE TypeOK'
  BY <1>5, StoreTypeStep DEF Lost, KilledByPost
<1>6. CASE KilledByCleanup
  BY <1>6, StoreTypeStep DEF KilledByCleanup
<1>7. ASSUME NEW r \in Requests, NEW ip \in Clients, NEW at \in States, Goes(r, ip, at)
      PROVE  req' \in [Requests -> {Idle} \cup [ip : Clients, at : States]]
  BY <1>7 DEF Goes
<1>8. ASSUME NEW r \in Requests, NEW ip \in Clients, Request(r, ip) PROVE TypeOK'
  <2>1. CASE RequestTrusted(r, ip) \/ RequestWrongLogin(r, ip) \/ RequestUnknown(r, ip)
    BY <1>7, <2>1, StoreTypeStep
       DEF RequestTrusted, RequestWrongLogin, RequestUnknown, States
  <2>2. CASE RequestBasicAuth(r, ip) \/ RequestLogin(r, ip)
    <3>1. Notify(r, ip) => posts' \subseteq Posts
      BY DEF Notify, Posts, Targets
    <3> QED BY <1>7, <2>2, <3>1, StoreTypeStep DEF RequestBasicAuth, RequestLogin, States
  <2> QED BY <1>8, <2>1, <2>2 DEF Request
<1>9. ASSUME NEW r \in Requests, Answered(r) \/ Routed(r) PROVE TypeOK'
  <2>1. req[r].ip \in Clients
    BY <1>9 DEF Answered, Routed, Idle
  <2> QED BY <1>7, <1>9, <2>1, StoreTypeStep DEF Answered, Routed, States
<1>10. CASE StoreAlone /\ UNCHANGED <<connVars, posts, httpVars, grantedUntil>>
  BY <1>10, StoreTypeStep DEF StoreAlone
<1>11. CASE UNCHANGED vars
  BY <1>11, StoreTypeStep DEF vars
<1> QED
  BY <1>2, <1>4, <1>5, <1>6, <1>8, <1>9, <1>10, <1>11 DEF Next

\* The table and the file are always dictionaries of well-formed entries, and
\* every connection, post and request is of its type.
THEOREM TypeCorrect == Spec => []TypeOK
BY TypeInit, TypeStep, PTL DEF Spec

-----------------------------------------------------------------------------
(* Default deny and the end of authorisations. *)

\* Somebody has vouched for the client: it presented the HTTP credentials, or its
\* SSH connection has the real ones or a score that calls it real.
Authorised(ip) == ip \in gave \/ \E k \in Conns : SourceOf[k] = ip /\ VouchedFor(k)

\* Nothing in the system says "real" about a client nobody has vouched for, neither
\* the table nor its file, no post and no answer on its way. A channel says so
\* only of the real credentials; loopback is never asked about, and no cookie is
\* out before a login.
Backed ==
    /\ \A f \in {table, file} : \A ip \in DOMAIN f :
         f[ip].target = "real" => Authorised(ip)
    /\ \A p \in posts : p.target = "real" => Authorised(p.ip)
    /\ \A r \in Requests : req[r].at \in {"toldReal", "authorised"} => Authorised(req[r].ip)
    /\ \A r \in Requests : req[r].at = "trusted" => req[r].ip \in BypassIPs \/ gave # {}
    /\ \A r \in Requests : req[r].at = "asking" => req[r].ip \notin BypassIPs
    /\ cookie \subseteq gave

\* Nor does the table or its file say so for longer than was granted.
Timely ==
    /\ \A f \in {table, file} : \A ip \in DOMAIN f :
         f[ip].target = "real" => f[ip].expires <= grantedUntil[ip]
    /\ \A ip \in Clients : grantedUntil[ip] <= now + Duration

\* An entry of the table or of the file is one that was in either before.
OldEntry(ip, e) == \E g \in {table, file} : ip \in DOMAIN g /\ e = g[ip]

\* After a save the file is the saved table, the old file or empty.
LEMMA SavedEntries ==
    ASSUME NEW t, Save(t)
    PROVE  file' \in {t, file, EmptyTable}
BY DEF Save

\* No operation of the store but a decision adds an entry to table or file.
LEMMA StoreEntries ==
    ASSUME StoreTypeOK,
           \/ Tick \/ Cleanup \/ Stop \/ KilledInSave \/ Start
           \/ \E ip \in Clients : DropExpired(ip)
           \/ UNCHANGED storeVars
    PROVE  \A f \in {table', file'} : \A ip \in DOMAIN f : OldEntry(ip, f[ip])
<1> USE EmptyIsTable DEF StoreTypeOK, OldEntry
<1>1. CASE Tick \/ UNCHANGED storeVars
  BY <1>1 DEF Tick, storeVars
<1>2. CASE Cleanup
  <2>1. file' \in {table', file, EmptyTable}
    BY <1>2, SavedEntries DEF Cleanup
  <2>2. \A ip \in DOMAIN table' : ip \in DOMAIN table /\ table'[ip] = table[ip]
    BY <1>2, UnexpiredFacts DEF Cleanup
  <2> QED BY <2>1, <2>2
<1>3. CASE Stop \/ KilledInSave
  BY <1>3 DEF Stop, KilledInSave
<1>4. CASE Start
  BY <1>4, UnexpiredFacts DEF Start
<1>5. ASSUME NEW ip \in Clients, DropExpired(ip)
      PROVE  \A f \in {table', file'} : \A i \in DOMAIN f : OldEntry(i, f[i])
  <2>1. CASE table' = table
    BY <1>5, <2>1 DEF DropExpired
  <2>2. CASE table' = Restrict(table, DOMAIN table \ {ip})
    BY <1>5, <2>2, RestrictFacts DEF DropExpired
  <2> QED BY <1>5, <2>1, <2>2 DEF DropExpired
<1> QED BY <1>1, <1>2, <1>3, <1>4, <1>5

\* A decision adds its own entry to table and file and no other.
LEMMA SetEntries ==
    ASSUME StoreTypeOK, NEW ip \in Clients, NEW target \in Targets, SetRouting(ip, target)
    PROVE  \A f \in {table', file'} : \A i \in DOMAIN f :
             \/ OldEntry(i, f[i])
             \/ i = ip /\ f[i] = [target |-> target, expires |-> now + Duration]
<1>1. file' \in {table', file, EmptyTable}
  BY SavedEntries DEF SetRouting
<1>2. table' = WithDecision(ip, target)
  BY DEF SetRouting
<1>3. \A i \in DOMAIN table' :
         \/ i \in DOMAIN table /\ table'[i] = table[i]
         \/ i = ip /\ table'[i] = [target |-> target, expires |-> now + Duration]
  <2>1. DOMAIN table' = DOMAIN table \cup {ip}
    BY <1>2, WithDecisionFacts
  <2>2. \A i \in DOMAIN table' :
          table'[i] = IF i = ip THEN [target |-> target, expires |-> now + Duration]
                                ELSE table[i]
    BY <1>2, WithDecisionFacts
  <2> QED BY <2>1, <2>2
<1> QED BY <1>1, <1>3, EmptyIsTable DEF OldEntry

\* The strengthening holds initially.
LEMMA SafeInit == Init => Backed /\ Timely
<1> SUFFICES ASSUME Init PROVE Backed /\ Timely
  OBVIOUS
<1> USE EmptyIsTable DEF Init, StoreInit
<1>1. Backed
  BY DEF Backed, Idle
<1>2. Timely
  BY StoreConstantsOK DEF Timely, StoreConstantsOK
<1> QED BY <1>1, <1>2

\* Vouching is never taken back.
LEMMA AuthorisedStays == ASSUME TypeOK, [Next]_vars, NEW ip, Authorised(ip)
                         PROVE  Authorised(ip)'
<1>1. gave \subseteq gave'
  BY ConnectionStep
     DEF Next, vars, httpVars, Delivered, Lost, KilledByPost, KilledByCleanup, Request,
         RequestTrusted, RequestBasicAuth, RequestLogin, RequestWrongLogin, RequestUnknown,
         Answered, Routed
<1>2. creds' = creds /\ \A k \in Conns : published[k] \subseteq published'[k]
  <2>1. ASSUME NEW j \in Conns, NEW d \in Targets, NEW who \in Publishers, Announce(j, d, who)
        PROVE  \A k \in Conns : published[k] \subseteq published'[k]
    BY <2>1 DEF TypeOK, Announce
  <2>2. creds' = creds /\ (\/ UNCHANGED published
                          \/ \E j \in Conns, d \in Targets, who \in Publishers : Announce(j, d, who))
    BY ConnectionStep
       DEF Next, vars, connVars, Delivered, Lost, KilledByPost, KilledByCleanup, Request,
           RequestTrusted, RequestBasicAuth, RequestLogin, RequestWrongLogin,
           RequestUnknown, Answered, Routed
  <2> QED BY <2>1, <2>2
<1> QED BY <1>1, <1>2 DEF Authorised, VouchedFor

\* Entries, posts and answers stay backed by an authorisation.
LEMMA BackedStep == TypeOK /\ Backed /\ [Next]_vars => Backed'
<1> SUFFICES ASSUME TypeOK, Backed, [Next]_vars PROVE Backed'
  OBVIOUS
<1> USE DEF Backed, TypeOK
<1>1. \A f \in {table', file'} : \A ip \in DOMAIN f :
        f[ip].target = "real" => Authorised(ip)'
  <2>1. ASSUME NEW p \in posts, Delivered(p)
        PROVE  \A f \in {table', file'} : \A ip \in DOMAIN f :
                 f[ip].target = "real" => Authorised(ip)'
    <3>1. p.ip \in Clients /\ p.target \in Targets
      BY DEF Posts
    <3> QED BY <2>1, <3>1, SetEntries, AuthorisedStays DEF Delivered, OldEntry
  <2>2. \/ \E p \in posts : Delivered(p)
        \/ Tick \/ Cleanup \/ Stop \/ KilledInSave \/ Start
        \/ \E ip \in Clients : DropExpired(ip)
        \/ UNCHANGED storeVars
    BY ConnectionStep
       DEF Next, vars, Lost, KilledByPost, KilledByCleanup, Request, RequestTrusted,
           RequestBasicAuth, RequestLogin, RequestWrongLogin, RequestUnknown, Answered,
           Routed, StoreAlone, States, Idle
  <2> QED BY <2>1, <2>2, StoreEntries, AuthorisedStays DEF OldEntry
<1>2. ASSUME NEW p \in posts', p.target = "real" PROVE Authorised(p.ip)'
  <2>1. ASSUME NEW k \in Conns, NEW d \in Targets, NEW who \in Publishers,
               Announce(k, d, who), p \notin posts,
               d = "real" => who = Score \/ k \in creds, creds' = creds
        PROVE  Authorised(p.ip)'
    <3>1. p.ip = SourceOf[k] /\ d = "real"
      BY <1>2, <2>1 DEF Announce
    <3>2. [target |-> "real", by |-> who] \in published'[k]
      BY <2>1, <3>1 DEF Announce
    <3> QED BY <2>1, <3>1, <3>2 DEF Authorised, VouchedFor
  <2>2. ASSUME NEW r \in Requests, NEW ip \in Clients,
               RequestBasicAuth(r, ip) \/ RequestLogin(r, ip), p \notin posts
        PROVE  Authorised(p.ip)'
    BY <1>2, <2>2 DEF RequestBasicAuth, RequestLogin, Notify, Authorised
  <2>3. CASE p \in posts
    BY <1>2, <2>3, AuthorisedStays
  <2> QED
    BY <1>2, <2>1, <2>2, <2>3, ConnectionStep
       DEF Next, vars, Delivered, Lost, KilledByPost, KilledByCleanup, Request,
           RequestTrusted, RequestWrongLogin, RequestUnknown, Answered, Routed
<1>3. ASSUME NEW r \in Requests, NEW ip, req'[r].ip = ip,
             req'[r].at \in {"toldReal", "authorised"}
      PROVE  Authorised(ip)'
  <2>1. CASE req'[r] = req[r]
    BY <1>3, <2>1, AuthorisedStays
  <2>2. ASSUME NEW who \in Clients, Request(r, who) PROVE Authorised(ip)'
    BY <1>3, <2>2
       DEF Request, RequestTrusted, RequestBasicAuth, RequestLogin, RequestWrongLogin,
           RequestUnknown, Goes
  <2>3. CASE Answered(r)
    <3>1. Lookup(ip) = "real" /\ req[r].ip = ip
      BY <1>3, <2>3 DEF Answered, Goes
    <3>2. ip \in DOMAIN Unexpired(table) /\ table[ip].target = "real"
      BY <2>3, <3>1 DEF Answered, Lookup
    <3>3. Authorised(ip)
      BY <3>2, UnexpiredFacts DEF StoreTypeOK
    <3> QED BY <3>3, AuthorisedStays
  <2>4. CASE Routed(r)
    <3>1. req[r].at = "toldReal" /\ req[r].ip = ip
      BY <1>3, <2>4 DEF Routed, Goes
    <3> QED BY <3>1, AuthorisedStays
  <2> QED
    BY <2>1, <2>2, <2>3, <2>4, ConnectionStep
       DEF Next, vars, httpVars, Delivered, Lost, KilledByPost, KilledByCleanup, Request,
           RequestTrusted, RequestBasicAuth, RequestLogin, RequestWrongLogin,
           RequestUnknown, Answered, Routed, Goes
<1>4. gave \subseteq gave' /\ cookie' \subseteq gave'
  BY ConnectionStep
     DEF Next, vars, httpVars, Delivered, Lost, KilledByPost, KilledByCleanup, Request,
         RequestTrusted, RequestBasicAuth, RequestLogin, RequestWrongLogin, RequestUnknown,
         Answered, Routed
<1>5. ASSUME NEW r \in Requests, req'[r].at = "trusted"
      PROVE  req'[r].ip \in BypassIPs \/ gave' # {}
  <2>1. req'[r] = req[r] \/ \E ip \in Clients : RequestTrusted(r, ip)
    BY <1>5, ConnectionStep
       DEF Next, vars, httpVars, Delivered, Lost, KilledByPost, KilledByCleanup, Request,
           RequestTrusted, RequestBasicAuth, RequestLogin, RequestWrongLogin,
           RequestUnknown, Answered, Routed, Goes
  <2> QED BY <1>4, <1>5, <2>1 DEF RequestTrusted, Goes
<1>6. ASSUME NEW r \in Requests, req'[r].at = "asking"
      PROVE  req'[r].ip \notin BypassIPs
  <2>1. req'[r] = req[r] \/ \E ip \in Clients : RequestUnknown(r, ip)
    BY <1>6, ConnectionStep
       DEF Next, vars, httpVars, Delivered, Lost, KilledByPost, KilledByCleanup, Request,
           RequestTrusted, RequestBasicAuth, RequestLogin, RequestWrongLogin,
           RequestUnknown, Answered, Routed, Goes
  <2> QED BY <1>6, <2>1 DEF RequestUnknown, Goes
<1> QED BY <1>1, <1>2, <1>3, <1>4, <1>5, <1>6

\* Entries that say "real" stay within the last grant of their client.
LEMMA TimelyStep == TypeOK /\ Timely /\ [Next]_vars => Timely'
<1> SUFFICES ASSUME TypeOK, Timely, [Next]_vars PROVE Timely'
  OBVIOUS
<1> USE DEF Timely
<1>1. ASSUME NEW p \in posts, Delivered(p) PROVE Timely'
  <2>1. p.ip \in Clients /\ p.target \in Targets
    BY DEF TypeOK, Posts
  <2>2. /\ \A ip \in Clients : grantedUntil[ip] <= grantedUntil'[ip]
        /\ p.target = "real" => grantedUntil'[p.ip] = now + Duration
        /\ \A ip \in Clients : grantedUntil'[ip] <= now' + Duration
        /\ now \in Nat /\ now' = now
    BY <1>1, <2>1, StoreConstantsOK
       DEF Delivered, SetRouting, TypeOK, StoreTypeOK, StoreConstantsOK
  <2>3. \A f \in {table', file'} : \A ip \in DOMAIN f :
          f[ip].target = "real" => f[ip].expires <= grantedUntil'[ip]
    <3> SUFFICES ASSUME NEW f \in {table', file'}, NEW ip \in DOMAIN f,
                        f[ip].target = "real"
                 PROVE  f[ip].expires <= grantedUntil'[ip]
      OBVIOUS
    <3>1. CASE OldEntry(ip, f[ip])
      <4>1. PICK g \in {table, file} : ip \in DOMAIN g /\ f[ip] = g[ip]
        BY <3>1 DEF OldEntry
      <4>2. ip \in Clients /\ f[ip].expires \in Nat
        BY <4>1, TableFacts, StoreConstantsOK
           DEF TypeOK, StoreTypeOK, Entries, StoreConstantsOK
      <4>3. grantedUntil[ip] \in Nat /\ grantedUntil'[ip] \in Nat
        BY <1>1, <2>2, <4>2, StoreConstantsOK DEF TypeOK, Delivered, StoreConstantsOK
      <4> QED BY <2>2, <4>1, <4>2, <4>3
    <3>2. CASE ip = p.ip /\ f[ip] = [target |-> p.target, expires |-> now + Duration]
      BY <2>2, <3>2, StoreConstantsOK DEF StoreConstantsOK
    <3> QED BY <1>1, <2>1, <3>1, <3>2, SetEntries DEF Delivered, TypeOK
  <2> QED BY <2>2, <2>3
<1>2. \/ \E p \in posts : Delivered(p)
      \/ /\ \/ Tick \/ Cleanup \/ Stop \/ KilledInSave \/ Start
            \/ \E ip \in Clients : DropExpired(ip)
            \/ UNCHANGED storeVars
         /\ UNCHANGED grantedUntil
         /\ now' = now \/ now' = now + 1
  <2>1. \/ \E p \in posts : Delivered(p)
        \/ /\ \/ Tick \/ Cleanup \/ Stop \/ KilledInSave \/ Start
              \/ \E ip \in Clients : DropExpired(ip)
              \/ UNCHANGED storeVars
           /\ UNCHANGED grantedUntil
    BY ConnectionStep
       DEF Next, vars, Lost, KilledByPost, KilledByCleanup, Request, RequestTrusted,
           RequestBasicAuth, RequestLogin, RequestWrongLogin, RequestUnknown, Answered,
           Routed, StoreAlone, States, Idle, TypeOK
  <2>2. (\/ Tick \/ Cleanup \/ Stop \/ KilledInSave \/ Start
         \/ \E ip \in Clients : DropExpired(ip)
         \/ UNCHANGED storeVars)
        => now' = now \/ now' = now + 1
    BY DEF storeVars, Tick, Cleanup, Stop, KilledInSave, Start, DropExpired
  <2> QED BY <2>1, <2>2
<1>3. ASSUME \/ Tick \/ Cleanup \/ Stop \/ KilledInSave \/ Start
             \/ \E ip \in Clients : DropExpired(ip)
             \/ UNCHANGED storeVars,
             UNCHANGED grantedUntil, now' = now \/ now' = now + 1
      PROVE  Timely'
  <2>1. \A f \in {table', file'} : \A ip \in DOMAIN f : OldEntry(ip, f[ip])
    BY <1>3, StoreEntries DEF TypeOK
  <2>2. \A ip \in Clients : grantedUntil'[ip] <= now' + Duration
    BY <1>3, StoreConstantsOK DEF TypeOK, StoreTypeOK, StoreConstantsOK
  <2> QED BY <1>3, <2>1, <2>2 DEF OldEntry
<1> QED BY <1>1, <1>2, <1>3

\* Types and strengthening hold of every reachable state.
LEMMA SafeInvariant == Spec => [](TypeOK /\ Backed /\ Timely)
<1>1. Init => TypeOK /\ Backed /\ Timely
  BY TypeInit, SafeInit
<1>2. TypeOK /\ Backed /\ Timely /\ [Next]_vars => (TypeOK /\ Backed /\ Timely)'
  BY TypeStep, BackedStep, TimelyStep
<1> QED BY <1>1, <1>2, PTL DEF Spec

\* Default deny, for any number of clients, connections and requests, with any
\* schedule of posts, lookups, crashes, failed saves and restarts.
THEOREM DefaultDenyHolds == Spec => []DefaultDeny
<1>1. TypeOK /\ Backed => DefaultDeny
  BY DEF DefaultDeny, Backed, Authorised
<1> QED BY <1>1, SafeInvariant, PTL

\* The backend never answers "real" after the time of the last grant.
THEOREM GrantsEnd == Spec => GrantsLapse
<1> DEFINE Lapse == \A r \in Requests :
                      req[r].at # "toldReal" /\ req'[r].at = "toldReal"
                        => req[r].ip \in BypassIPs \/ now < grantedUntil[req[r].ip]
<1>1. TypeOK /\ Timely /\ [Next]_vars => [Lapse]_vars
  <2> SUFFICES ASSUME TypeOK, Timely, [Next]_vars, NEW r \in Requests,
                      req[r].at # "toldReal", req'[r].at = "toldReal",
                      req[r].ip \notin BypassIPs
               PROVE  now < grantedUntil[req[r].ip]
    BY DEF Lapse
  <2> DEFINE ip == req[r].ip
  <2>1. Answered(r)
    BY ConnectionStep
       DEF Next, vars, httpVars, Delivered, Lost, KilledByPost, KilledByCleanup, Request,
           RequestTrusted, RequestBasicAuth, RequestLogin, RequestWrongLogin,
           RequestUnknown, Answered, Routed, Goes, TypeOK
  <2>2. Lookup(ip) = "real"
    BY <2>1 DEF Answered, Goes, TypeOK
  <2>3. ip \in DOMAIN Unexpired(table) /\ table[ip].target = "real"
    BY <2>2 DEF Lookup
  <2>4. ip \in DOMAIN table /\ table[ip].expires > now
    BY <2>3, UnexpiredFacts DEF TypeOK, StoreTypeOK
  <2>5. /\ table[ip].expires <= grantedUntil[ip]
        /\ table[ip].expires \in Nat /\ grantedUntil[ip] \in Nat /\ now \in Nat
    BY <2>3, <2>4, TableFacts, StoreConstantsOK
       DEF Timely, TypeOK, StoreTypeOK, Entries, StoreConstantsOK
  <2> QED BY <2>4, <2>5
<1> QED BY <1>1, SafeInvariant, PTL DEF Spec, GrantsLapse

-----------------------------------------------------------------------------
(* The store is a register as long as the disk holds. *)

At(t, f) == Register!InForceAt(t, f)

\* The part of a table in force at a time.
LEMMA AtFacts ==
    ASSUME NEW f, NEW t
    PROVE  /\ DOMAIN At(t, f) = {i \in DOMAIN f : f[i].expires > t}
           /\ \A i \in DOMAIN At(t, f) : At(t, f)[i] = f[i]
BY DEF At, Register!InForceAt

\* The cleaning of the code is the register's notion of being in force.
LEMMA UnexpiredIsAt == \A f : Unexpired(f) = At(now, f)
BY DEF Unexpired, Restrict, At, Register!InForceAt

\* Cleaning twice is cleaning once.
LEMMA AtIdempotent == \A f, t : At(t, At(t, f)) = At(t, f)
BY DEF At, Register!InForceAt

\* What is cleaned now need not be kept for later.
LEMMA AtLater ==
    ASSUME NEW f \in Tables, NEW t \in Nat
    PROVE  At(t + 1, At(t, f)) = At(t + 1, f)
<1>1. \A i \in DOMAIN f : f[i].expires \in Nat
  BY TableFacts, StoreConstantsOK DEF Entries, StoreConstantsOK
<1>2. {i \in DOMAIN At(t, f) : At(t, f)[i].expires > t + 1}
        = {i \in DOMAIN f : f[i].expires > t + 1}
  <2>1. ASSUME NEW i \in DOMAIN f, f[i].expires > t + 1
        PROVE  i \in DOMAIN At(t, f) /\ At(t, f)[i] = f[i]
    <3>1. f[i].expires > t
      BY <1>1, <2>1
    <3> QED BY <3>1, AtFacts
  <2>2. ASSUME NEW i \in DOMAIN At(t, f) PROVE i \in DOMAIN f /\ At(t, f)[i] = f[i]
    BY AtFacts
  <2> QED BY <2>1, <2>2
<1> QED BY <1>2 DEF At, Register!InForceAt

\* Dropping an entry that is not in force changes nothing in force.
LEMMA AtDropped ==
    ASSUME NEW f \in Tables, NEW t \in Nat, NEW ip, ip \notin DOMAIN At(t, f)
    PROVE  At(t, Restrict(f, DOMAIN f \ {ip})) = At(t, f)
BY DEF At, Register!InForceAt, Restrict

\* A process that has the disk's cooperation has on disk what it has in memory.
InSync == faults = 0 /\ running => At(now, file) = At(now, table)

\* Until the disk fails, file and table stay the same as far as in force.
LEMMA SyncStep == TypeOK /\ InSync /\ [Next]_vars => InSync'
<1> SUFFICES ASSUME TypeOK, InSync, [Next]_vars, faults' = 0, running'
             PROVE  At(now, file)' = At(now, table)'
  BY DEF InSync
<1> USE DEF InSync
<1>1. now \in Nat /\ faults \in Nat /\ table \in Tables /\ file \in Tables
  BY DEF TypeOK, StoreTypeOK
<1>2. ASSUME NEW t, Save(t) PROVE file' = t
  BY <1>1, <1>2 DEF Save, Fault
<1>3. CASE \E p \in posts : Delivered(p)
  BY <1>2, <1>3 DEF Delivered, SetRouting
<1>4. CASE Cleanup
  BY <1>2, <1>4 DEF Cleanup
<1>5. CASE Tick
  <2>1. faults = 0 /\ running /\ now' = now + 1 /\ table' = table /\ file' = file
    BY <1>5 DEF Tick
  <2>2. At(now + 1, file) = At(now + 1, table)
    BY <1>1, <2>1, AtLater
  <2>3. At(now', file') = At(now', table')
    BY <2>1, <2>2
  <2> QED BY <2>3 DEF At, Register!InForceAt
<1>6. CASE Stop \/ KilledInSave
  BY <1>6 DEF Stop, KilledInSave
<1>7. CASE Start
  <2>1. table' = At(now, file) /\ file' = file /\ now' = now
    BY <1>7, UnexpiredIsAt DEF Start
  <2>2. At(now', file') = At(now', table')
    BY <2>1, AtIdempotent
  <2> QED BY <2>2 DEF At, Register!InForceAt
<1>8. ASSUME NEW ip \in Clients, DropExpired(ip) PROVE At(now, file)' = At(now, table)'
  <2>1. /\ file' = file /\ now' = now /\ faults = 0 /\ running
        /\ \/ table' = table
           \/ table' = Restrict(table, DOMAIN table \ {ip}) /\ ip \notin DOMAIN At(now, table)
    BY <1>8, UnexpiredIsAt DEF DropExpired
  <2>2. At(now, table') = At(now, table)
    BY <1>1, <2>1, AtDropped
  <2>3. At(now', file') = At(now', table')
    BY <2>1, <2>2
  <2> QED BY <2>3 DEF At, Register!InForceAt
<1>9. CASE UNCHANGED storeVars
  BY <1>9 DEF storeVars, At, Register!InForceAt
<1> QED
  BY <1>3, <1>4, <1>5, <1>6, <1>7, <1>8, <1>9, ConnectionStep
     DEF Next, vars, Lost, KilledByPost, KilledByCleanup, Request, RequestTrusted,
         RequestBasicAuth, RequestLogin, RequestWrongLogin, RequestUnknown, Answered,
         Routed, StoreAlone, States, Idle, TypeOK

\* Restarts and lookups lose and invent nothing: until the disk fails, the table,
\* the file and the process together are the register the gateways count on.
THEOREM StoreImplementsRegister == Spec => StoreIsRegister
<1>1. Init => InSync /\ Register!Init
  <2> SUFFICES ASSUME Init PROVE InSync /\ Register!Init
    OBVIOUS
  <2>1. InForce = At(now, EmptyTable) /\ file = table /\ now = 0
    BY UnexpiredIsAt DEF Init, StoreInit, InForce
  <2>2. At(now, EmptyTable) = <<>>
    BY DEF EmptyTable, At, Register!InForceAt
  <2> QED BY <2>1, <2>2 DEF InSync, Register!Init
<1>2. TypeOK /\ InSync /\ [Next]_vars => [faults' = 0 => Register!Next]_<<InForce, now>>
  <2> SUFFICES ASSUME TypeOK, InSync, [Next]_vars, faults' = 0,
                      ~UNCHANGED <<InForce, now>>
               PROVE  Register!Next
    OBVIOUS
  <2> DEFINE src == IF running THEN table ELSE file
  <2>1. /\ now \in Nat /\ faults \in Nat /\ src \in Tables
        /\ table \in Tables /\ file \in Tables
    BY DEF TypeOK, StoreTypeOK
  <2>2. InForce = At(now, src) /\ InForce' = At(now', src')
    <3>1. InForce = At(now, src)
      BY UnexpiredIsAt DEF InForce
    <3>2. InForce' = At(now', src')
      BY DEF InForce, Unexpired, Restrict, At, Register!InForceAt
    <3> QED BY <3>1, <3>2
  <2>3. CASE Tick
    <3>1. now' = now + 1 /\ src' = src
      BY <2>3 DEF Tick
    <3>2. InForce' = At(now + 1, At(now, src))
      BY <2>1, <2>2, <3>1, AtLater
    <3> QED BY <2>2, <3>1, <3>2 DEF At, Register!Tick, Register!Next
  <2>4. ASSUME NEW p \in posts, Delivered(p) PROVE Register!Next
    <3> DEFINE new == [target |-> p.target, expires |-> now + Duration]
    <3>1. p.ip \in Clients /\ p.target \in Targets
      BY DEF TypeOK, Posts
    <3>2. /\ now' = now /\ running /\ running'
          /\ table' = WithDecision(p.ip, p.target)
      BY <2>4 DEF Delivered, SetRouting, TypeOK, StoreTypeOK
    <3>3. /\ DOMAIN table' = DOMAIN table \cup {p.ip}
          /\ \A i \in DOMAIN table' : table'[i] = IF i = p.ip THEN new ELSE table[i]
      BY <3>1, <3>2, WithDecisionFacts DEF TypeOK
    <3>4. new.expires > now
      BY <2>1, StoreConstantsOK DEF StoreConstantsOK
    <3>5. At(now, table') = [i \in DOMAIN At(now, table) \cup {p.ip} |->
                               IF i = p.ip THEN new ELSE At(now, table)[i]]
      BY <3>3, <3>4 DEF At, Register!InForceAt
    <3>6. Register!Write(p.ip, p.target)
      BY <2>2, <3>2, <3>5 DEF Register!Write
    <3> QED BY <3>1, <3>6 DEF Register!Next
  <2>5. CASE Cleanup
    <3>1. now' = now /\ running /\ running' /\ table' = At(now, table)
      BY <2>5, UnexpiredIsAt DEF Cleanup, TypeOK, StoreTypeOK
    <3> QED BY <2>2, <3>1, AtIdempotent
  <2>6. CASE Stop
    <3>1. now' = now /\ running /\ ~running' /\ file' = file /\ faults = 0
      BY <2>6 DEF Stop
    <3> QED BY <2>2, <3>1 DEF InSync
  <2>7. CASE KilledInSave
    BY <2>1, <2>7 DEF KilledInSave, Fault
  <2>8. CASE Start
    <3>1. now' = now /\ ~running /\ running' /\ table' = At(now, file)
      BY <2>8, UnexpiredIsAt DEF Start
    <3> QED BY <2>2, <3>1, AtIdempotent
  <2>9. ASSUME NEW ip \in Clients, DropExpired(ip), running PROVE Register!Next
    <3>1. /\ now' = now /\ running'
          /\ \/ table' = table
             \/ /\ table' = Restrict(table, DOMAIN table \ {ip})
                /\ ip \notin DOMAIN At(now, table)
      BY <2>9, UnexpiredIsAt DEF DropExpired
    <3>2. At(now, table') = At(now, table)
      BY <2>1, <3>1, AtDropped
    <3> QED BY <2>2, <2>9, <3>1, <3>2
  <2>10. CASE UNCHANGED storeVars
    BY <2>2, <2>10 DEF storeVars
  <2> QED
    BY <2>3, <2>4, <2>5, <2>6, <2>7, <2>8, <2>9, <2>10, ConnectionStep
       DEF Next, vars, Lost, KilledByPost, KilledByCleanup, Request, RequestTrusted,
           RequestBasicAuth, RequestLogin, RequestWrongLogin, RequestUnknown, Answered,
           Routed, StoreAlone, States, Idle, TypeOK
<1>3. TypeOK /\ InSync /\ [Next]_vars => (TypeOK /\ InSync)'
  BY TypeStep, SyncStep
<1> QED BY <1>1, <1>2, <1>3, TypeInit, PTL DEF Spec, StoreIsRegister

=============================================================================
