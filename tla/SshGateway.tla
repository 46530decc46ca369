----------------------------- MODULE SshGateway -----------------------------
(***************************************************************************)
(* One SSH connection handled by src/gateway/gateway.py: the GatewayServer *)
(* with its SessionSignals and background scoring task, and the            *)
(* GatewaySession of every channel the client opens on the connection.     *)
(*                                                                         *)
(* Python's event loop runs one callback at a time, so an action is the    *)
(* code between two awaits.  The SSH library, the backend, the real server *)
(* and the honeypot are the environment: their answers are chosen freely.  *)
(***************************************************************************)
EXTENDS Naturals, SequencesExt

CONSTANTS
    Users, Passwords,    \* what a client may present
    Empty,               \* the empty password; recorded as no password at all
    Wildcard,            \* the "*" of userdb.txt: any password will do
    RealUser, RealPassword,
    AllowedCreds,        \* (user, password) pairs of userdb.txt
    Channels,            \* channels the client may open on the connection
    Score,               \* the score task, as a publisher of decisions
    MaxAttempts,         \* bound: authentication attempts
    MaxInput             \* bound: data packets per channel

ASSUME ConstantsOK ==
    /\ RealUser \in Users
    /\ RealPassword \in Passwords
    /\ Empty \notin Passwords
    /\ Wildcard \notin Passwords \cup {Empty}
    /\ AllowedCreds \subseteq Users \X (Passwords \cup {Empty, Wildcard})
    /\ Score \notin Channels
    /\ MaxAttempts \in Nat
    /\ MaxInput \in Nat

VARIABLES
    connected,      \* the TCP connection is up
    accepted,       \* the credential pair asyncssh accepted, or <<>>
    usernames,      \* SessionSignals.usernames_tried: no duplicates
    lastPassword,   \* last element of SessionSignals.passwords_tried
    attempts,       \* SessionSignals.auth_attempts_count
    shellRequested, execCommand,  \* SessionSignals: last requests, any channel
    decision,       \* SessionSignals._decision
    fastRouted,     \* SessionSignals._fast_routed
    score,          \* where GatewayServer._request_score stands
    published,      \* _notify_sdn and _notify_routing tasks created
    phase,          \* per channel: where GatewaySession._run_session stands
    chan,           \* per channel: the client side, see ChanStates
    live,           \* per channel: upstream connection that exists, if any
    held,           \* per channel: self._ssh_conn is not None
    upChan,         \* per channel: self._upstream_chan
    sent, preBuffer, delivered    \* per channel: client input

signalVars == <<usernames, lastPassword, attempts, shellRequested, execCommand>>
routeVars == <<decision, fastRouted, published>>
relayVars == <<upChan, sent, preBuffer, delivered>>
upVars == <<live, held>>
vars == <<connected, accepted, signalVars, routeVars, score, phase, chan,
          upVars, relayVars>>

Servers == {"real", "honeypot"}
Phases == {"unopened", "open", "started", "connReal", "connHoney", "report",
           "exec", "creating", "relay", "ended"}
ChanStates == {"none", "open", "exiting", "closed"}
Packets == 1 .. MaxInput
Publications == [target : Servers, by : Channels \cup {Score}]
RealPair == <<RealUser, RealPassword>>

TypeOK ==
    /\ connected \in BOOLEAN
    /\ accepted \in {<<>>} \cup (Users \X (Passwords \cup {Empty}))
    /\ usernames \in Seq(Users)
    /\ lastPassword \in Passwords \cup {Empty}
    /\ attempts \in 0 .. MaxAttempts
    /\ shellRequested \in BOOLEAN
    /\ execCommand \in BOOLEAN
    /\ decision \in Servers \cup {"none"}
    /\ fastRouted \in BOOLEAN
    /\ score \in {"idle", "first", "window", "second", "done", "cancelled"}
    /\ published \subseteq Publications
    /\ phase \in [Channels -> Phases]
    /\ chan \in [Channels -> ChanStates]
    /\ live \in [Channels -> Servers \cup {"none"}]
    /\ held \in [Channels -> BOOLEAN]
    /\ upChan \in [Channels -> {"unset", "open", "closed"}]
    /\ sent \in [Channels -> 0 .. MaxInput]
    /\ preBuffer \in [Channels -> Seq(Packets)]
    /\ delivered \in [Channels -> Seq(Packets)]

Init ==
    /\ connected = TRUE
    /\ accepted = <<>>
    /\ usernames = <<>>
    /\ lastPassword = Empty
    /\ attempts = 0
    /\ shellRequested = FALSE
    /\ execCommand = FALSE
    /\ decision = "none"
    /\ fastRouted = FALSE
    /\ score = "idle"
    /\ published = {}
    /\ phase = [c \in Channels |-> "unopened"]
    /\ chan = [c \in Channels |-> "none"]
    /\ live = [c \in Channels |-> "none"]
    /\ held = [c \in Channels |-> FALSE]
    /\ upChan = [c \in Channels |-> "unset"]
    /\ sent = [c \in Channels |-> 0]
    /\ preBuffer = [c \in Channels |-> <<>>]
    /\ delivered = [c \in Channels |-> <<>>]

-----------------------------------------------------------------------------
(* Authentication: validate_password, validate_kbdint_response (the same   *)
(* calls) and validate_public_key.                                         *)

ValidateCredentials(u, p) ==
    \/ <<u, p>> = RealPair
    \/ {<<u, p>>, <<u, Wildcard>>} \cap AllowedCreds # {}

\* record_auth_attempt: a user name is listed once, at its first attempt; a
\* password is listed every time, unless it is empty.
RecordAuthAttempt(u, p) ==
    /\ attempts < MaxAttempts
    /\ attempts' = attempts + 1
    /\ usernames' = IF Contains(usernames, u) THEN usernames ELSE Append(usernames, u)
    /\ lastPassword' = IF p = Empty THEN lastPassword ELSE p
    /\ UNCHANGED <<shellRequested, execCommand>>

StartScoring == score' = IF score = "idle" THEN "first" ELSE score

\* asyncssh asks for no further attempt once one is accepted.
ValidatePassword(u, p) ==
    /\ connected /\ accepted = <<>>
    /\ RecordAuthAttempt(u, p)
    /\ StartScoring
    /\ accepted' = IF ValidateCredentials(u, p) THEN <<u, p>> ELSE <<>>
    /\ UNCHANGED <<connected, routeVars, phase, chan, upVars, relayVars>>

ValidatePublicKey(u) ==
    /\ connected /\ accepted = <<>>
    /\ RecordAuthAttempt(u, Empty)
    /\ StartScoring
    /\ UNCHANGED <<connected, accepted, routeVars, phase, chan, upVars, relayVars>>

-----------------------------------------------------------------------------
(* The scoring task, _request_score: at most two questions to the backend. *)

Ready ==
    \/ decision # "none"
    \/ attempts >= 3
    \/ shellRequested \/ execCommand

Publish(who, target) ==
    published' = published \cup {[target |-> target, by |-> who]}

\* Mutant of Conclude: the late score overrides the fast path.
ConcludeAlways(d) ==
    /\ score' = "done"
    /\ decision' = d
    /\ Publish(Score, d)
    /\ UNCHANGED fastRouted

\* The end of _request_score: the answer counts unless a session has already
\* been routed by its credentials.
Conclude(d) ==
    /\ score' = "done"
    /\ IF fastRouted
         THEN UNCHANGED routeVars
         ELSE /\ decision' = d
              /\ Publish(Score, d)
              /\ UNCHANGED fastRouted

\* An unreachable backend counts as the answer "honeypot" (_score_call).
\* elapsed > 5.0 makes a connection ready whatever its signals say, so the
\* second question may come without a wait; a wait needs signals not ready.
ScoreFirstAnswer(d) ==
    /\ score = "first"
    /\ \/ d \in Servers /\ Conclude(d)
       \/ /\ d = "inconclusive"
          /\ \/ score' = "second"
             \/ ~Ready /\ score' = "window"
          /\ UNCHANGED routeVars
    /\ UNCHANGED <<connected, accepted, signalVars, phase, chan, upVars, relayVars>>

\* Mutant of ScoreWindowOver: the loop has no deadline.
ScoreWindowNoDeadline ==
    /\ score = "window" /\ Ready
    /\ score' = "second"
    /\ UNCHANGED <<connected, accepted, signalVars, routeVars, phase, chan,
                   upVars, relayVars>>

\* The polling loop ends when the signals are ready or the window is over.
ScoreWindowOver ==
    /\ score = "window"
    /\ score' = "second"
    /\ UNCHANGED <<connected, accepted, signalVars, routeVars, phase, chan,
                   upVars, relayVars>>

\* Mutant of ScoreSecondAnswer: no safe fallback.
ScoreSecondAnswerAsIs(d) ==
    /\ score = "second"
    /\ Conclude(d)
    /\ UNCHANGED <<connected, accepted, signalVars, phase, chan, upVars, relayVars>>

ScoreSecondAnswer(d) ==
    /\ score = "second"
    /\ Conclude(IF d = "inconclusive" THEN "honeypot" ELSE d)
    /\ UNCHANGED <<connected, accepted, signalVars, phase, chan, upVars, relayVars>>

-----------------------------------------------------------------------------
(* A channel: session_requested, shell_requested / exec_requested followed *)
(* by session_started, and the first step of _run_session.                 *)

SessionRequested(c) ==
    /\ connected /\ accepted # <<>>
    /\ phase[c] = "unopened"
    /\ phase' = [phase EXCEPT ![c] = "open"]
    /\ chan' = [chan EXCEPT ![c] = "open"]
    /\ decision' = IF decision = "none" THEN "honeypot" ELSE decision
    /\ UNCHANGED <<connected, accepted, signalVars, fastRouted, published, score,
                   upVars, relayVars>>

\* record_session_request never takes an earlier exec command back.
SessionStarted(c, isExec) ==
    /\ phase[c] = "open" /\ chan[c] = "open"
    /\ phase' = [phase EXCEPT ![c] = "started"]
    /\ execCommand' = (execCommand \/ isExec)
    /\ shellRequested' = (shellRequested \/ ~isExec)
    /\ UNCHANGED <<connected, accepted, usernames, lastPassword, attempts,
                   routeVars, score, chan, upVars, relayVars>>

LastUsername == IF usernames = <<>> THEN Empty ELSE Last(usernames)

\* Mutant of CredentialTarget: the password is not compared.
NameOnlyTarget == IF LastUsername = RealUser THEN "real" ELSE "honeypot"

\* The fast path compares the LAST LISTED user name and the last password.
CredentialTarget ==
    IF LastUsername = RealUser /\ lastPassword = RealPassword
      THEN "real" ELSE "honeypot"

RunSession(c) ==
    /\ phase[c] = "started"
    /\ decision' = CredentialTarget
    /\ fastRouted' = TRUE
    /\ Publish(c, CredentialTarget)
    /\ phase' = [phase EXCEPT ![c] = IF CredentialTarget = "real"
                                       THEN "connReal" ELSE "connHoney"]
    /\ UNCHANGED <<connected, accepted, signalVars, score, chan, upVars, relayVars>>

-----------------------------------------------------------------------------
(* Upstream: _proxy_to_real, _proxy_to_honeypot and _proxy_interactive.    *)
(* Every connect is under a ten-second timeout and every post under three. *)

Enter(c, p) == phase' = [phase EXCEPT ![c] = p]

\* What follows the connection: one remote command, or an interactive session.
ServeKind == IF execCommand THEN "exec" ELSE "creating"

Connected(c, server) ==
    /\ live' = [live EXCEPT ![c] = server]
    /\ held' = [held EXCEPT ![c] = TRUE]

RealConnected(c) ==
    /\ phase[c] = "connReal"
    /\ Connected(c, "real")
    /\ Enter(c, ServeKind)
    /\ UNCHANGED <<connected, accepted, signalVars, routeVars, score, chan, relayVars>>

\* Mutant of RealUnreachable: the exception is only logged.
RealUnreachableLogged(c) ==
    /\ phase[c] = "connReal"
    /\ Enter(c, "ended")
    /\ UNCHANGED <<connected, accepted, signalVars, routeVars, score, chan,
                   upVars, relayVars>>

\* "Real server unreachable: falling back to honeypot".
RealUnreachable(c) ==
    /\ phase[c] = "connReal"
    /\ Enter(c, "connHoney")
    /\ UNCHANGED <<connected, accepted, signalVars, routeVars, score, chan,
                   upVars, relayVars>>

\* Mutant of HoneypotConnected: self._ssh_conn is not set before the report.
HoneypotConnectedUnheld(c) ==
    /\ phase[c] = "connHoney"
    /\ live' = [live EXCEPT ![c] = "honeypot"]
    /\ Enter(c, "report")
    /\ UNCHANGED <<connected, accepted, signalVars, routeVars, score, chan, held,
                   relayVars>>

\* The connection is remembered before the port is reported to the backend.
HoneypotConnected(c) ==
    /\ phase[c] = "connHoney"
    /\ Connected(c, "honeypot")
    /\ Enter(c, "report")
    /\ UNCHANGED <<connected, accepted, signalVars, routeVars, score, chan, relayVars>>

\* "Connection failed." and exit status 1.
HoneypotUnreachable(c) ==
    /\ phase[c] = "connHoney"
    /\ Enter(c, "ended")
    /\ chan' = [chan EXCEPT ![c] = IF @ = "open" THEN "exiting" ELSE @]
    /\ UNCHANGED <<connected, accepted, signalVars, routeVars, score, upVars, relayVars>>

\* _report_proxy_map returns, whether or not the backend heard it.
ProxyMapReported(c) ==
    /\ phase[c] = "report"
    /\ Enter(c, ServeKind)
    /\ UNCHANGED <<connected, accepted, signalVars, routeVars, score, chan,
                   upVars, relayVars>>

\* conn.run answered: output and exit status go to the client.
ExecDone(c) ==
    /\ phase[c] = "exec" /\ live[c] # "none"
    /\ Enter(c, "ended")
    /\ chan' = [chan EXCEPT ![c] = IF @ = "open" THEN "exiting" ELSE @]
    /\ UNCHANGED <<connected, accepted, signalVars, routeVars, score, upVars, relayVars>>

\* conn.run raised or timed out, or create_session raised: logged, and the
\* client's channel is left as it is.
ServeFailed(c, kind) ==
    /\ phase[c] = kind
    /\ Enter(c, "ended")
    /\ UNCHANGED <<connected, accepted, signalVars, routeVars, score, chan,
                   upVars, relayVars>>

\* Mutant of UpstreamSessionCreated: _pre_buffer is not flushed.
UpstreamSessionUnflushed(c) ==
    /\ phase[c] = "creating" /\ live[c] # "none"
    /\ Enter(c, "relay")
    /\ upChan' = [upChan EXCEPT ![c] = "open"]
    /\ preBuffer' = [preBuffer EXCEPT ![c] = <<>>]
    /\ UNCHANGED <<connected, accepted, signalVars, routeVars, score, chan, upVars,
                   sent, delivered>>

\* The upstream session exists: what the client typed meanwhile goes first.
UpstreamSessionCreated(c) ==
    /\ phase[c] = "creating" /\ live[c] # "none"
    /\ Enter(c, "relay")
    /\ upChan' = [upChan EXCEPT ![c] = "open"]
    /\ delivered' = [delivered EXCEPT ![c] = @ \o preBuffer[c]]
    /\ preBuffer' = [preBuffer EXCEPT ![c] = <<>>]
    /\ UNCHANGED <<connected, accepted, signalVars, routeVars, score, chan, upVars, sent>>

\* wait_closed returned: the client is told to exit.
RelayOver(c) ==
    /\ phase[c] = "relay" /\ upChan[c] = "closed"
    /\ Enter(c, "ended")
    /\ chan' = [chan EXCEPT ![c] = IF @ = "open" THEN "exiting" ELSE @]
    /\ UNCHANGED <<connected, accepted, signalVars, routeVars, score, upVars, relayVars>>

-----------------------------------------------------------------------------
(* Input from the client, and the ends of things.                          *)

\* A packet is written upstream, or kept until there is an upstream session;
\* a write to a closed session raises and is swallowed.
DataReceived(c) ==
    /\ chan[c] = "open" /\ sent[c] < MaxInput
    /\ sent' = [sent EXCEPT ![c] = @ + 1]
    /\ \/ /\ upChan[c] = "unset"
          /\ preBuffer' = [preBuffer EXCEPT ![c] = Append(@, sent[c] + 1)]
          /\ UNCHANGED delivered
       \/ /\ upChan[c] = "open"
          /\ delivered' = [delivered EXCEPT ![c] = Append(@, sent[c] + 1)]
          /\ UNCHANGED preBuffer
       \/ /\ upChan[c] = "closed"
          /\ UNCHANGED <<delivered, preBuffer>>
    /\ UNCHANGED <<connected, accepted, signalVars, routeVars, score, phase, chan,
                   upVars, upChan>>

CloseIn(S) == [c \in Channels |->
    IF c \in S /\ upChan[c] = "open" THEN "closed" ELSE upChan[c]]

\* GatewaySession.connection_lost for each channel of S: the upstream
\* connection is closed if the session remembers one.
ReleaseUpstream(S) ==
    /\ live' = [c \in Channels |-> IF c \in S /\ held[c] THEN "none" ELSE live[c]]
    /\ held' = [c \in Channels |-> held[c] /\ c \notin S]
    /\ upChan' = CloseIn({c \in S : held[c]})

\* The client closes the channel, perhaps because it has been told to exit, or
\* sends EOF on it (eof_received returns False: asyncssh closes the channel).
ChannelLost(c) ==
    /\ chan[c] \in {"open", "exiting"}
    /\ chan' = [chan EXCEPT ![c] = "closed"]
    /\ ReleaseUpstream({c})
    /\ UNCHANGED <<connected, accepted, signalVars, routeVars, score, phase, sent,
                   preBuffer, delivered>>

\* GatewayServer.connection_lost: every open channel is lost with it, and a
\* scoring task that has not finished is cancelled.
Disconnected ==
    /\ connected
    /\ connected' = FALSE
    /\ chan' = [c \in Channels |-> IF chan[c] = "none" THEN "none" ELSE "closed"]
    /\ ReleaseUpstream({c \in Channels : chan[c] \in {"open", "exiting"}})
    /\ score' = IF score \in {"idle", "done"} THEN score ELSE "cancelled"
    /\ UNCHANGED <<accepted, signalVars, routeVars, phase, sent, preBuffer, delivered>>

\* The remote shell exits, or the upstream server drops the connection.
UpstreamExits(c) ==
    /\ upChan[c] = "open"
    /\ upChan' = CloseIn({c})
    /\ UNCHANGED <<connected, accepted, signalVars, routeVars, score, phase, chan,
                   upVars, sent, preBuffer, delivered>>

UpstreamDrops(c) ==
    /\ live[c] # "none"
    /\ live' = [live EXCEPT ![c] = "none"]
    /\ upChan' = CloseIn({c})
    /\ UNCHANGED <<connected, accepted, signalVars, routeVars, score, phase, chan,
                   held, sent, preBuffer, delivered>>

-----------------------------------------------------------------------------
Answers == Servers \cup {"inconclusive"}

Authenticate ==
    \/ \E u \in Users, p \in Passwords \cup {Empty} : ValidatePassword(u, p)
    \/ \E u \in Users : ValidatePublicKey(u)

ScoreTask ==
    \/ \E d \in Answers : ScoreFirstAnswer(d)
    \/ ScoreWindowOver
    \/ \E d \in Answers : ScoreSecondAnswer(d)

\* The steps of _run_session that end within a timeout of the code's own.
SessionTask(c) ==
    \/ RunSession(c)
    \/ RealConnected(c) \/ RealUnreachable(c)
    \/ HoneypotConnected(c) \/ HoneypotUnreachable(c)
    \/ ProxyMapReported(c)
    \/ ExecDone(c)
    \/ ServeFailed(c, "exec")
    \/ RelayOver(c)

Client(c) ==
    \/ SessionRequested(c)
    \/ \E isExec \in BOOLEAN : SessionStarted(c, isExec)
    \/ DataReceived(c)

Upstream(c) ==
    \/ UpstreamSessionCreated(c)
    \/ ServeFailed(c, "creating")
    \/ UpstreamExits(c)
    \/ UpstreamDrops(c)

Next ==
    \/ Authenticate
    \/ ScoreTask
    \/ \E c \in Channels :
          SessionTask(c) \/ Client(c) \/ ChannelLost(c) \/ Upstream(c)
    \/ Disconnected

Spec == Init /\ [][Next]_vars

(* The event loop runs every task that is not waiting, and each wait below *)
(* ends by a timeout of the code: two and eighteen seconds for the two     *)
(* questions, five for the window, ten to connect, three to report, up to  *)
(* thirty for a command.  Nothing bounds create_session, so no fairness is *)
(* assumed of Upstream(c), and none of the client: a channel that has been *)
(* told to exit is lost only when the client closes it.                    *)
FairSpec ==
    /\ Spec
    /\ WF_vars(ScoreTask)
    /\ \A c \in Channels : WF_vars(SessionTask(c))

-----------------------------------------------------------------------------
(* Properties.                                                             *)

\* No decoy of userdb.txt shares the real password, has an empty one, or
\* accepts any: true of the file the repository ships.
DecoysDistinct ==
    \A u \in Users : {<<u, RealPassword>>, <<u, Empty>>, <<u, Wildcard>>}
                       \cap AllowedCreds \subseteq {RealPair}

\* Only a client whose accepted credentials are the real ones is connected to
\* the real server, whatever the backend's score says and whatever was tried
\* before the accepted attempt (gateway.py _run_session, _request_score).
RealOnlyOnMatch ==
    DecoysDistinct =>
      /\ fastRouted /\ decision = "real" => accepted = RealPair
      /\ \A c \in Channels : live[c] = "real" => fastRouted /\ decision = "real"

Prefix(n) == [i \in 1 .. n |-> i]

\* What the client types reaches the upstream session in order, without a gap
\* or a repetition, across the switch from _pre_buffer to direct writes; as
\* long as that session lives, nothing is missing.
RelayInOrder ==
    \A c \in Channels :
      LET got == delivered[c] \o preBuffer[c] IN
      /\ got = Prefix(Len(got))
      /\ upChan[c] # "closed" => Len(got) = sent[c]
      /\ upChan[c] # "unset" => preBuffer[c] = <<>>

\* Losing the client's channel closes the upstream connection that exists at
\* that moment, at whatever await _run_session stands.
LossReleasesUpstream ==
    [][\A c \in Channels : chan[c] # "closed" /\ chan'[c] = "closed"
                             => live'[c] = "none"]_vars

\* The gateway keeps the promise of RouteDecision: the fast path's decision is
\* never overridden by a score that arrives late.
Abstract == INSTANCE RouteDecision
              WITH Publishers <- Channels \cup {Score}, final <- fastRouted
ImplementsRouteDecision == Abstract!Spec

\* Every session the client starts gets an upstream server to talk to, or its
\* channel is closed: the fallbacks never leave it waiting.
SessionServed ==
    \A c \in Channels :
      phase[c] = "started" ~> \/ phase[c] \in {"exec", "creating"}
                             \/ chan[c] \in {"exiting", "closed"}

\* A scoring task never outlives its two questions or its connection.
ScoreTaskEnds == score = "first" ~> score \in {"done", "cancelled"}

\* gateway.py:164, "correct credentials -> route to real immediately".
CorrectCredentialsGoToReal ==
    fastRouted /\ accepted = RealPair => decision = "real"
=============================================================================
