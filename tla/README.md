# EvilTwin in TLA+

EvilTwin is a deception platform. An SSH gateway and an HTTP gateway stand in front of a real server and
of honeypots; they decide for every client where it is sent, tell the backend and an SDN controller, and
the backend collects what the honeypots observe. The modules here model the parts that decide, remember
and move things concurrently, check them with TLC on small instances, and prove the most important
statements with TLAPS for every value of the constants.

Contents: inventory, plan, modules and code, runs, proofs, findings, what is left out.

## 1. Inventory

| Component (source) | State | Operations | Talks to | Hard behaviour | What makes it correct |
|---|---|---|---|---|---|
| SSH gateway (`gateway/gateway.py`, `session_signals.py`) | per connection: accepted credentials, signals of all attempts, the decision and whether it is final, a scoring task; per channel: task position, upstream connection, buffered input | authenticate, ask for a score once or twice, route a session, connect, fall back, relay, tear down | backend (score, routing, proxy map), SDN controller, real server, honeypot | scoring runs beside authentication and sessions; channels vanish at any await; upstreams fail or hang | only the real credentials reach the real server; a final decision stands; input in order; nothing left open; everybody is served |
| Routing decisions (`backend/routers/routing.py`) | table with expiry, JSON file, dirty flag | POST a decision, GET one, clean up, load at start | both gateways | posts in any order, failing saves, kills in the middle of a save | the table is a register with expiry across restarts; grants end |
| HTTP gateway (`http-gateway/proxy.py`) | the cookie, one value for every browser | bypass, cookie, Basic auth, login form, lookup, default deny | backend | a lookup may be late, stale or unanswered | default deny |
| SDN controller (`sdn/controller.py`, `flow_manager.py`) | routes, datapaths, learned ports (a host may move); in the switches: flows | add and delete a route, packet-in, hello | gateways, switches | flow-mods in flight, switches that go and come back, two different timeouts | flows follow routes, are not revived, and end |
| Log watchers (`services/cowrie.py`, `dionaea.py`) | file offset, keys seen | poll, read a line, skip, ingest, fail | ingestion | a second process writes and rotates the log; a read or an ingestion fails in the middle; keys collide | no event twice, a failure costs one line, never stuck |
| Ingestion (`services/ingest.py`, `database.py`, `models.py`) | profiles, sessions, alerts in PostgreSQL | ingest an event | watchers, `POST /log`, correlation, scorer, alerts, Splunk | concurrent transactions that write back what they read; side effects before commit | a counter never exceeds the commits; what does not overlap is kept; a high level has its alert |
| Alerts (`alert_manager.py`, `routers/alerts.py`) | one bounded queue per dashboard | connect, broadcast, drop the oldest, send, disconnect | ingestion, canaries, browser | slow and vanishing clients | the newest alerts arrive in order; no queue without a reader |
| IP correlation (`ip_correlation.py`) | port map, session map, both with a lifetime | register, resolve with retries and a fallback | SSH gateway, ingestion | the report races the log; Docker rewrites ports | a session is attributed to its own client, and to one only while that is remembered |
| Canaries and tripwires (`canary.py`, `canary_webhook.py`, `routers/canary.py`, `bootstrap.py`, `tripwires/tripwire.py`) | cooldowns, nonces, tokens | trigger, webhook, create and deactivate tokens, tidy them at a start | backend database, alerts | notices come again; a start deletes by a counter that calls write back | one notice, one alarm; a triggered token survives |
| Pre-session scoring (`gateway_scorer.py`, `routers/scoring.py`, `session_signals.py`) | session rows of gateway questions, profile | record signals, classify once or twice, arbitrate, forget a real user | SSH gateway, LLM, ingestion | the second question sees the row of the first; the LLM is awaited inside the transaction | no weak verdict decides; sprays are not cleared; the whitelist stands; history is kept |
| Threat scoring (`threat_scorer.py`, `ai/feature_extractor.py`) | model, verdict cache | score a session, load or train the model | ingestion | the cache's key knows less than the features | a verdict lags by less than its lifetime |
| VPN and reputation (`vpn_detection.py`) | cache, semaphore | ask up to three providers | ingestion | providers fail, lookups overlap | no report is hidden by a provider that was asked before |
| Splunk (`splunk_forwarder.py`, `routers/splunk.py`, `splunk-hec-mock/server.py`) | counters; the collector's list and file | forward an event, synchronise; receive, save, load | ingestion, operators | the collector is killed, also while it saves | a kill costs few events |
| LLM texts, training, dashboards, authentication, frontend, infrastructure | configuration, user rows | queries and pages | - | little | not modelled (section 7) |

## 2. Plan

In this order, most important behaviour first:

1. **done** `RouteDecision` (what a connection promises), `SshGateway` (how it keeps it), `SshGatewayProofs`.
2. **done** `DecisionRegister` (what the table promises), `RoutingStore`, `DeceptionRouting` (connections,
   posts, store and HTTP handler composed), `RoutingProofs`.
3. **done** `SdnController`, `SdnControllerProofs`.
4. **done** `LogWatcher`, `LogWatcherProofs`, and `DionaeaEvents` (what a line becomes; proved in `BackendProofs`).
5. **done** `BackendStore`, with `GatewayScorer` and `Ingest` on it, composed in `AttackerRecords`, and
   `AttackerRecordsProofs`; `AlertStream`, proved in `DeliveryProofs`.
6. **done** `CanaryWebhook` and `SplunkPath` (`DeliveryProofs`), `IpCorrelation`, `ThreatScores` and `VpnLookup`
   (`VerdictProofs`).
7. **done** `ScoreRules` and `PreSession` (`VerdictProofs`).
8. **done** `MCBackend`, the nine services of the backend side by side, and `BackendProofs`.

Every safety property that a passing run checks is now also a theorem. What the plan has left is to state the
queue of a dashboard and the way of an event to the collector against abstract specifications of their own. Of the code,
what is not modelled is listed in section 7.

## 3. Modules and code

Actions carry the names of the functions they model; `PROJECT.json` names the lines of every definition.

**`RouteDecision`** is the abstract specification of one connection: a decision that may be revised while
provisional, becomes final, and never changes afterwards, with the publications made of it.

**`SshGateway`** is one SSH connection. The gateway is a single event loop, so an action is the code between
two awaits. `ValidatePassword` and `ValidatePublicKey` are the authentication callbacks with the
signals they record (a user name is listed once, a password every time). `ScoreFirstAnswer`,
`ScoreWindowOver` and `ScoreSecondAnswer` are the positions of `_request_score`; the answers are chosen
freely and an unreachable backend answers "honeypot", as `_score_call` does. `SessionRequested`,
`SessionStarted` and `RunSession` take a channel to its decision, `RealConnected` to `RelayOver` are the
awaits of the proxy functions, `ChannelLost` and `Disconnected` the two `connection_lost` callbacks.
`live` says which upstream connection exists and `held` whether the session still refers to it, because
those two can differ. Banner, terminal size, port forwarding of bytes and exit codes are abstracted.

**`RoutingStore`** has the operations of the routing table. Every handler runs without an await, so the
save is part of it. A save truncates the file before it writes: a failure leaves the old file or an empty
one, a kill in the middle an empty one (`Save`, `KilledInSave`).

**`DeceptionRouting`** composes connections, the posts in flight, the store, and HTTP requests in the order of the tests in
`handle`. Connections decide by the rules of `RouteDecision` and `RealOnlyOnMatch`, which `SshGateway` is shown to keep; here
they are guards, and no property restates them. Each channel of a connection decides and posts once more, as each call of
`_run_session` does, and the score is posted too. The cookie is one token for everybody: who has it, or has taken it to
another address, is trusted. The lookup of a request and the use of its answer are two steps. `gave` and `grantedUntil` are
ghosts used by properties.

**`SdnController`** has the controller's handlers, which Ryu runs one after the other, and the switches. Time is
relative (what is left of a route, how long a flow has been idle), so the clock needs no bound. A flow-mod is
sent now and applied later; it is lost when the switch is away, since `datapaths` is never pruned. A packet may come in by any of the
ports at which its host can be (`PortsOf`), and the port learned last replaces the earlier one.

**`LogWatcher`** is both log watchers: they differ in how many JSON objects a line holds (`MaxPerLine`). A file
is a sequence of half lines, so the reader can meet a line that is being written. `ReadLine` moves the offset
behind the line before any of its events is ingested, as the code does. `ReplaceLog` is a rotation (nothing
kept) or a trim (some of the last lines kept); a handle that is open reads on in the old file. `stat` and `open`
of a poll are one step. `ReadFails` is a `readline` that raises, after which the next poll reads the line again. `Key` says which events share an
entry of the seen-set: the key is made of session, kind, time and input, so that two events may have the same, and the later one is skipped.

**`DionaeaEvents`** is `parse_dionaea_event`: an incident gives one event, a summary gives the connection, its FTP
commands and its logins, and a line of one kind may carry the fields of the other. The events are a set, each with the
place of the line it comes from, since only their number and their places matter here. (Their order is in `LogWatcher`.) It ends with
what `ingest_event` adds to the session's commands and credentials.

**`BackendStore`** is what PostgreSQL keeps about *one* address, and what a transaction of the backend is:
rows are read when they are first used, changed in memory, and written at a flush or at the commit, only the columns that
changed and over whatever is there by then (`Merge`). That is where updates are lost. A flush holds locks on the
profile's row until the end; because of them it is enough to apply a transaction's writes when it commits. An insert of a row
that has appeared meanwhile, and an update of one that has gone, raise (`Writable`).
**`GatewayScorer`** is a question of the gateway (`classify_connection`): a first question makes a row and flushes it (`Ask`), a
second one takes the newest row of its address that is less than a minute old (`AskAgain`), or makes one if there is none. Both read the
profile in the same way (`Begin`). Then the LLM may be waited for, then one of `LeaveOpen`, `SendToHoneypot`, `ForgetProfile` and `ForgetRow` commits, or `QuestionFails`. A real
user leaves no trace: a profile whose `total_sessions` was 0 when it was loaded is deleted with everything that refers to it.
Rows grow old one by one, also while transactions are open (`RowAges`), but a connection's second question comes within a minute of its
first: the gateway allows 23 seconds for both answers and the window between them, and the first row is committed before the first answer is sent.
**`Ingest`** is an event of a honeypot, or a call of the canary webhook: `ReadProfile` and `ReadSession` (two awaits), `TouchBait` (the cooldown),
`TriggerCanary`, `Score`, `CommitEvent`, with alerts broadcast before the commit. **`AttackerRecords`** composes the two and
keeps the ghosts `overlapped` and `counted`.

**`ScoreRules`** has the rule table, the pre-session model's verdict, the arbitration and the LLM's outcome as
operators; **`PreSession`** is the connection whose signals grow until they are asked about. In `AttackerRecords` the
verdict is free, in `PreSession` the database is: the two share the answer only, and each allows every
answer of the other.

**`AlertStream`** is the alert manager and the WebSocket handler of each dashboard. Alerts are numbered, so that what a
queue has dropped can be seen. **`IpCorrelation`** has the gateway's reports, both maps and the two resolvers; the
retries are steps of their own, so that a report can arrive between them; the ghost `forgotten` names the sessions whose address has lapsed
or was lost. **`CanaryWebhook`** follows a notice from
the tripwire through the nonce cache to the token's counter, and the tokens through operators' calls and starts.
(The containers call `ensure_canary_tokens` at every start unless the demo bootstrap is switched off.) **`ThreatScores`** is the cache in
front of the model, asked by transactions that may be rolled back or overwritten after the verdict was cached, **`VpnLookup`** the chain of providers, **`SplunkPath`** the way of an event to the collector's file.

`MCSshGateway`, `MCDeceptionRouting`, `MCSdnController` and `MCLogWatcher` give the constants their values. `MCBackend`
does this for the nine services of the backend and checks them in one run: the first state picks one, and only that one
moves. They share no variable, so their sum shows what each alone would show. (Where services do interact, the
interaction is inside one of the nine: scorer with ingestion, reports with log, webhook with bootstrap.)

## 4. Runs

| Run | Expectation | Shows |
|---|---|---|
| `gateway` | passes, about 1.9 million states | types, `RealOnlyOnMatch`, `RelayInOrder`, `LossReleasesUpstream`, refinement of `RouteDecision` |
| `gateway_live` | passes | under fairness every session is served and the scoring task ends |
| `gateway_fastpath` | violated | finding 1 |
| `routing` | passes, about 2.6 million states | types, `DefaultDeny`, `GrantsLapse`, `StoreIsRegister` |
| `routing_final`, `routing_restart` | violated | findings 2 and 3 |
| `sdn` | passes, about 710 thousand states | types, `FlowsFollowRoutes`, `RedirectNeedsRoute`, `QuietClientReleased` |
| `sdn_port` | violated | finding 4 |
| `logwatch` | passes, about 220 thousand states | types, `FailureCostsOneLine`, `IngestedOnce`, `CatchesUp` |
| `logwatch_drop` | violated | finding 5 |
| `backend` | passes, about 550 thousand states | types; see the next table |
| `backend_forget` | violated | finding 6 |

What `backend` checks, by service:

| Service | Property | Says |
|---|---|---|
| `scoring` | `ConfidentVerdict` | rules and model decide with a confidence of at least 75, else they leave it to the LLM or the honeypot |
| | `OnlyModelOrLlmClears` | a spray, or a password login asked about twice, is cleared only by a model that is 85 sure, or by the LLM |
| | `WhitelistHonoured` | rules and model never send a whitelisted address to the honeypot |
| `records` | `ZeroMeansNoHistory` | a profile without sessions has no alert and no honeypot session: deleting it loses nothing that is committed |
| | `HighProfileHasAlert` | a level of 3 or more has an alert of that height, which was shown |
| | `SecondQuestionIsReconnect` | a second question, which comes within a minute of the first, finds a fresh row, unless another connection was judged real |
| | `CountsAndKeeps` | the counter never exceeds the commits; without overlap it is exact and no event is lost |
| `alerts` | `NewestInOrder` | a queue holds the newest alerts without a gap; nobody receives one late or twice |
| | `AlertArrives` | what is queued for a dashboard that stays arrives, unless newer ones push it out |
| | `AbandonedQueueGoes` | the queue of a dashboard that has gone is taken away as soon as something is put into it |
| `correlation` | `InTimeIsRight` | a report that arrives within the retries decides whose session it is |
| | `OneClientPerSession` | all events of a session count for the one client its row names (or for the gateway, before anybody was known), unless the session's address has lapsed after `SESSION_CACHE_TTL` or was lost in a restart |
| `webhook` | `ReplayNeedsFlood` | a notice that comes again is accepted only after a start or a full turn of the nonce cache |
| | `TriggeredTokensStay` | a token's count never exceeds its alarms and is not 0 once there was one, so a start keeps it |
| `threat` | `ScoreLagsBounded` | a verdict is the model's own about this session, at the number of commands the caller sees, less than a lifetime old, also if the transaction that cached it was rolled back or overlapped |
| `vpn` | `NoReportMasked` | an address is flagged exactly if some provider reports it, asked or not |
| `splunk` | `FewEventsUnsaved` | a running collector has fewer than `SaveEvery` events beyond its file, also when its list is full |
| `dionaea` | `CredentialsOnce` | a user name in a summary is reported from exactly the places where it was tried: those of the credentials if they have it, else those of the commands, never both |

Bounds, and why they suffice:

* `gateway`: two user names and passwords (right and wrong), three attempts (the number at which signals count
  as ready, and what it takes to return to an earlier name), two channels (symmetric), two packets per
  channel (one before and one after the switch from buffering). The liveness run has no input and two
  attempts, because input does not influence the waits, and no symmetry.
* `routing`: an ordinary client with credentials, one without, and loopback; one connection with two channels and one
  request, which keeps asking anew; times up to 4 with a duration of 2, so that a decision can expire and be renewed; one
  disk fault. The theorems remove these bounds.
* `sdn`: one client, two targets, two switches (on one of which the real server moves between two ports), routes and flows of one unit, two flow-mods on the way to a
  switch: enough for a flow-mod to overtake an expiry and for one switch to miss what the other hears.
* `backend`: two connections, two events of one session and one webhook call, of which any three come up
  (`records`: two writers overlap, a third meets what they left); four attempts, with names that are clean,
  suspicious and of a service, and times on both sides of each limit in use (`scoring`); two dashboards, queues of two, four alerts,
  so that a queue overflows twice; two sessions, one of which has its port rewritten, two retries, lifetimes that
  both end within the clock (`correlation`); two notices about one token, a nonce cache of one and one
  restart (`webhook`); a verdict's lifetime of two within three seconds (`threat`); two lookups for one slot (`vpn`); a list of four saved by
  twos, so that it is full (`splunk`); lines of two commands and two credentials (`dionaea`). The verdicts of models and language models
  are any of the values on both sides of the thresholds. Symmetry is not used, because the run has liveness properties.
* `logwatch`: four events on lines of one or two, of which one always fails and two share a key, a seen-set of two, and three
  disturbances (failed ingestion, failed read, rotation or trim, restart).

Deadlock checking is off for the gateway and the routing plane: a connection may end, and the clock of
`RoutingStore` stops at its bound; for the backend, whose services end when a bounded number of questions, events or
alerts is dealt with. The SDN model always ticks and the watcher always polls.

Fairness: `SshGateway` assumes weak fairness of the score task and of those steps of a session that end by a
timeout in the code (connect, report, command); it assumes none of `create_session`, which has no timeout, of the
client (who need not ever close a channel or a connection), or of the remote shell. `SdnController` assumes that time passes, that a switch applies what it has
received and drops idle flows; nothing makes a client, a gateway or a broken link act. `LogWatcher` assumes that
the watcher's task runs: its only waits are the poll interval and an ingestion, which commits or raises; reads that raise are bounded. `AlertStream` assumes that a
dashboard's handler runs when its queue has something, and that a send returns or raises; nothing makes a dashboard come or go.

## 5. Proofs

`SshGatewayProofs` (assuming `ConstantsOK`: the constants are what their comments say) proves types,
`RealOnlyOnMatch`, `LossReleasesUpstream`, the refinement of `RouteDecision` and `RelayInOrder`, for any credentials,
channels and bounds. None of these but the types is inductive. `RouteInv` adds what they rest on: the accepted
pair is valid and its password is the last one recorded (`AcceptedIsLast`), no channel before acceptance (`NoEarlySession`), a final decision is
the one the credentials give (`FinalIsCredentials`), a connection attempt to the real server follows a final "real"
(`RealIsFinal`), an upstream connection that exists is referred to (`LiveIsHeld`), and nothing is relayed before
its session (`UnsetBeforeRelay`). `RealOnlyOnMatch` is conditional on `DecoysDistinct`, which holds of the
credentials file in the repository: a decoy with the real password would be accepted as itself while an earlier
attempt's name may still be the last one listed.

`RoutingProofs` (assuming `StoreConstantsOK` and `RoutingConstantsOK`) proves types, `DefaultDeny`,
`GrantsLapse` and the refinement of `DecisionRegister`, for any clients, connections, channels, requests and faults.
`DefaultDeny` says what the code does, which is less than its comments (section 6): an answer "real" about an address goes back to the HTTP
credentials, to the real SSH credentials or to a score, all of that address; the cookie only to somebody's HTTP credentials. `Backed` says that every
"real" in the table, the file, a post or an answer has somebody who vouched for it; `Timely` that every "real" in table or file ends no later
than the client's last grant; `InSync` that until the disk fails, file and table agree on what is in force
whenever the process runs.

`SdnControllerProofs` (assuming `SdnConstantsOK`) proves types, `FlowsFollowRoutes` and `RedirectNeedsRoute` for any
clients, servers and switches. What the switches hold says nothing while flow-mods are on their way, so `SdnInv` speaks of the last one
about a client that is on its way, or of the flow if there is none (`LastWordIsTheRoute`): it leads where the route does, if there is a
route and no flow-mod about the client was lost. `RedirectsAreKnown` adds where else a redirect may come from, and `OnlyAliveReceive` that nothing
waits for a switch that is away. Most of the proof is about what sending and applying one flow-mod does to the last word about this client
and about every other.

`LogWatcherProofs` (assuming `WatcherConstantsOK`) proves types, `IngestedOnce` for any log and any disturbances, and
`FailureCostsOneLine`. For the second, every ingested event is in the seen-set or was taken out of it (`Remembered`). For the third,
`Calm` describes a log that is neither torn nor replaced: its lines are complete and in the order of writing (`LinesOK`), the offset
is between two of them (`PlaceOK`), what was ingested, what is in hand and what is still to read follow each other (`OrderOK`, `AheadOK`, `InHandOK`),
and an event behind the offset that was not ingested stands on a line behind a failure on the same line, or has another event's key (`LossOK`).

`AttackerRecordsProofs` (assuming `StoreValuesOK`, `NoRowOK` and `HooksOK`) proves types and the four properties of the `records` service,
for any number of overlapping questions and events. None of the four is inductive, because a commit writes what its transaction
read earlier. `RecInv` therefore describes the open transactions: what a question and an event carry (`TxOK`), that a high
level in memory was read or has its alarm (`AlarmsBehindLevels`), that no transaction has read a higher counter than there are commits unless the
profile was deleted meanwhile (`LoadedBelowCount`), that a transaction alone has read what is there (`AloneIsCurrent`), that a later event has an
earlier one's entry (`LaterEventsHaveIt`), and where each connection is with its questions and its row (`QuestionsOK`,
`RowsOfUnsettled`, `FirstRowStays`). The locks enter through `Writable`: a transaction whose profile has gone or appeared cannot commit.
`StepsAre` reduces the many actions to the few ways in which they change the tables, and the rest of the proof is about those.

`VerdictProofs` is about what the backend answers:

* `PreSession` (assuming `ScoreConstantsOK` and `PreSessionConstantsOK`): types, `ConfidentVerdict`, `OnlyModelOrLlmClears` and
  `WhitelistHonoured` for any user names, times, models and language models. The argument is about the operators: the rule that
  counts is one that fires and none before it does (`FirstRule`), a spray meets a honeypot rule first (`SprayToHoneypot`), and `Arbitrated`
  says what `_arbitrate` keeps to, whatever rule and model say. Its specification adds only that signals stop growing with the verdict.
* `VpnLookup` (types assume `VpnConstantsOK`): types, with the slots of the semaphore, and `NoReportMasked`. A result that flags an
  address is at least as sure as the limit below which the next provider is asked (`BeforeAbuseipdb`, `BeforeIpApi`).
* `ThreatScores` (assuming `ThreatConstantsOK`): types and `ScoreLagsBounded` for any model. Every cached result is honest and stands
  under the number of its commands (`CacheHonest`), whatever became of the transaction that cached it.
* `IpCorrelation` (assuming `CorrelationConstantsOK`): types, `InTimeIsRight` and `OneClientPerSession`. A report that is in time is
  there as the session's own until an attempt takes it (`InTimeOK`). `OneClientPerSession` holds without a bound on the time: it speaks of the
  sessions whose address is still remembered, and the session map drops an entry `SESSION_CACHE_TTL` after its last use. In the run entries
  do expire, and then events of one session count for two clients.

`DeliveryProofs` is about what may be lost or come twice on the way:

* `AlertStream` (assuming `StreamConstantsOK`): types and `NewestInOrder` for any dashboards, alerts and queue size. `Line` puts received
  alerts, the one in the handler's hand and the queue in one increasing order: without the one in hand the order is not inductive.
* `CanaryWebhook` (assuming `WebhookConstantsOK`): types, `ReplayNeedsFlood` (the cache is the end of what was accepted since the
  start, `CacheIsTheLast`) and `TriggeredTokensStay` (a call under way has read no more than there are alarms, `CallsReadLess`).
* `SplunkPath` (assuming `SplunkConstantsOK`): types and `FewEventsUnsaved`. The file is the beginning of the list, and what it
  misses was counted since the last multiple of `SaveEvery` (`FileOK`). That the list's limit is a multiple of `SaveEvery` (5000 and 10 in the
  code) is needed: a full list stays at its limit and would otherwise never be saved again.

`BackendProofs` proves `CredentialsOnce` and the types of `DionaeaEvents` (assuming `DionaeaConstantsOK`), for lines of any length; that
the composition `MCBackend` is a behaviour of each of its nine services; and from this that `BackendTypeOK` and every safety property
of the `backend` run hold of the composition, for all values of the constants.

All named assumptions say what the constants are, and TLC evaluates each of them in a run. One theorem has a hypothesis
besides: `RealOnlyOnMatch` (`DecoysDistinct`).

Only model-checked: liveness (`SessionServed`, `ScoreTaskEnds`, `QuietClientReleased`, `CatchesUp`,
`AlertArrives`, `AbandonedQueueGoes`), because fairness and ENABLED are out of the prover's reach; and the violated properties of
section 6, which are counterexamples.

## 6. Findings

1. `gateway_fastpath`: the fast path compares the last *listed* user name, and names are listed once. After
   real, decoy, real the right credentials are routed to the honeypot.
2. `routing_final`: decisions are posted by independent tasks, so a provisional score can overwrite the final
   decision in the backend although the gateway takes care not to override it itself.
3. `routing_restart`: `_dirty` is cleared after a failed save; the next restart forgets decisions in force.
4. `sdn_port`: `_lookup_out_port` ignores its target and returns the first port learned.
5. `logwatch_drop`: an event whose ingestion fails once is behind the offset and is never tried again.
6. `backend_forget`: a verdict of real deletes the profile if its counter was 0 when the question *began*. An event or
   another question that commits while the LLM is awaited loses its session, its alerts and the profile, although
   the flow document says that a profile with history is kept as threat intelligence.

Met while modelling, and in the models as the code has it, but without a statement to hold the code to or too small for a
run: a deactivated canary token still gives alarms; a start reactivates the canonical tokens and deletes operators' tokens that were not triggered
yet; a VPN result in which no provider answered is cached for an hour; the synchronisation at each start sends the
oldest 5000 sessions once more and never the newer ones; a collector stopped by SIGTERM loses what it has not saved, and its whole
file if it was saving; the docstring of `resolve_for_connect` calls the race with the report eliminated, which holds within the
retries only (`InTimeIsRight`); an upstream connection that comes up after its channel was lost is closed by nobody, since
`connection_lost` has run (`LossReleasesUpstream` is about the connection that exists at the loss).

Where a document says more than the code does, and a property here says what the code does:

* `proxy.py:14`, `:18` and `:285` say that only a credential match makes the backend answer "real". The gateway also posts the decision of a
  score (`gateway.py:474-484`), before or without any match. `DefaultDeny` therefore admits a score.
* The session cookie (`proxy.py:77-88`) is one token for everybody and good from any address, so that nothing ties a trusted request to the client
  that presented the credentials. `DefaultDeny` only says that somebody did.
* `ingest.py:46` says that a session's real address is remembered "for the rest of the session". It is remembered for `SESSION_CACHE_TTL` after its last
  use, and until the backend restarts; after that, events of the session may count for another client (`OneClientPerSession`).
* `docs-site/dev/ai-threat-scoring.md:92` says that verdicts are cached "by attacker IP" and returned at once on a hit. The key is the address, the
  session and the number of its commands (`threat_scorer.py:57`); `ScoreLagsBounded` is about the code's key. That document's next steps
  write the score to the profile; `ingest.py:178-179` does so in memory, and an overlapping or failing transaction can leave the
  profile below a verdict that was given, so no property compares the two.
* `docs-site/dev/honeypot-integration.md:166` says that replays are rejected. The nonce cache is bounded and in memory: a replay is accepted after a
  restart, or after as many other notices as the cache holds (`ReplayNeedsFlood`).

## 7. Left out

The proxying of HTTP bodies, terminal data beyond its order, the text of pages and alerts, columns of the database no property is
about (places, hashes, end times), the schema's migrations and the seeding of demonstration data, the features and the training of
both classifiers (the models allow any classifier), the prompts and texts of the language model (what its reply comes to is
in `ScoreRules`), the patterns that recognise baits, the arithmetic of signatures, dashboards and token checks (read-only or
stateless), the frontend, and container and cloud configuration. Hazards about which the repository makes no
statement to check are listed in `PROJECT.json` with the reason.

Simplifications inside what is modelled: the correction of a session's address (`ingest.py:99-106`) is in `IpCorrelation` (`Attribute`), not as a row that
moves from one address to another in `AttackerRecords`, which is about one address; the SELECTs of a question (`Begin`) are one step; a `readline`
that raises does so a bounded number of times, whereas bytes that are no UTF-8 at all would stop a watcher until the log is replaced (the JSON that the honeypots
write is normally ASCII).
