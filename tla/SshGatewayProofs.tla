-------------------------- MODULE SshGatewayProofs --------------------------
(***************************************************************************)
(* Proofs about SshGateway, for any users, passwords, userdb.txt, number   *)
(* of channels, attempts and packets.                                      *)
(***************************************************************************)
EXTENDS SshGateway, TLAPS

-----------------------------------------------------------------------------
(* Types. *)

\* A new connection is of its type.
LEMMA TypeInit == Init => TypeOK
<1> USE ConstantsOK DEF ConstantsOK
<1> SUFFICES ASSUME Init PROVE TypeOK
  OBVIOUS
<1>1. /\ connected \in BOOLEAN /\ shellRequested \in BOOLEAN
      /\ execCommand \in BOOLEAN /\ fastRouted \in BOOLEAN
  BY DEF Init
<1>2. /\ accepted \in {<<>>} \cup (Users \X (Passwords \cup {Empty}))
      /\ usernames \in Seq(Users)
      /\ lastPassword \in Passwords \cup {Empty}
      /\ attempts \in 0 .. MaxAttempts
  BY DEF Init
<1>3. /\ decision \in Servers \cup {"none"}
      /\ score \in {"idle", "first", "window", "second", "done", "cancelled"}
      /\ published \subseteq Publications
  BY DEF Init
<1>4. /\ phase \in [Channels -> Phases]
      /\ chan \in [Channels -> ChanStates]
      /\ live \in [Channels -> Servers \cup {"none"}]
      /\ held \in [Channels -> BOOLEAN]
  BY DEF Init, Phases, ChanStates
<1>5. /\ upChan \in [Channels -> {"unset", "open", "closed"}]
      /\ sent \in [Channels -> 0 .. MaxInput]
      /\ preBuffer \in [Channels -> Seq(Packets)]
      /\ delivered \in [Channels -> Seq(Packets)]
  BY DEF Init
<1> QED BY <1>1, <1>2, <1>3, <1>4, <1>5 DEF TypeOK

\* Every step of the connection keeps its type, one case per action.
LEMMA TypeStep == TypeOK /\ [Next]_vars => TypeOK'
<1> USE ConstantsOK DEF ConstantsOK
<1> SUFFICES ASSUME TypeOK, [Next]_vars PROVE TypeOK'
  OBVIOUS
<1> USE DEF TypeOK, signalVars, routeVars, upVars, relayVars
<1>1. ASSUME NEW u \in Users, NEW p \in Passwords \cup {Empty}, ValidatePassword(u, p)
      PROVE  TypeOK'
  BY <1>1 DEF ValidatePassword, RecordAuthAttempt, StartScoring
<1>2. ASSUME NEW u \in Users, ValidatePublicKey(u) PROVE TypeOK'
  BY <1>2 DEF ValidatePublicKey, RecordAuthAttempt, StartScoring
<1>3. ASSUME NEW d \in Answers, ScoreFirstAnswer(d) PROVE TypeOK'
  BY <1>3 DEF ScoreFirstAnswer, Conclude, Publish, Publications, Servers
<1>4. ASSUME ScoreWindowOver PROVE TypeOK'
  BY <1>4 DEF ScoreWindowOver
<1>5. ASSUME NEW d \in Answers, ScoreSecondAnswer(d) PROVE TypeOK'
  BY <1>5 DEF ScoreSecondAnswer, Conclude, Publish, Publications, Servers, Answers
<1>6. ASSUME NEW c \in Channels, SessionRequested(c) PROVE TypeOK'
  BY <1>6 DEF SessionRequested, Phases, ChanStates, Servers
<1>7. ASSUME NEW c \in Channels, NEW isExec \in BOOLEAN, SessionStarted(c, isExec)
      PROVE  TypeOK'
  BY <1>7 DEF SessionStarted, Phases
<1>8. ASSUME NEW c \in Channels, RunSession(c) PROVE TypeOK'
  BY <1>8 DEF RunSession, Phases, CredentialTarget, Publish, Publications, Servers
<1>9. ASSUME NEW c \in Channels, RealConnected(c) PROVE TypeOK'
  BY <1>9 DEF RealConnected, Connected, Enter, ServeKind, Phases, Servers
<1>10. ASSUME NEW c \in Channels, RealUnreachable(c) PROVE TypeOK'
  BY <1>10 DEF RealUnreachable, Enter, Phases
<1>11. ASSUME NEW c \in Channels, HoneypotConnected(c) PROVE TypeOK'
  BY <1>11 DEF HoneypotConnected, Connected, Enter, Phases, Servers
<1>12. ASSUME NEW c \in Channels, HoneypotUnreachable(c) PROVE TypeOK'
  BY <1>12 DEF HoneypotUnreachable, Enter, Phases, ChanStates
<1>13. ASSUME NEW c \in Channels, ProxyMapReported(c) PROVE TypeOK'
  BY <1>13 DEF ProxyMapReported, Enter, ServeKind, Phases
<1>14. ASSUME NEW c \in Channels, ExecDone(c) PROVE TypeOK'
  BY <1>14 DEF ExecDone, Enter, Phases, ChanStates
<1>15. ASSUME NEW c \in Channels, NEW kind, ServeFailed(c, kind) PROVE TypeOK'
  BY <1>15 DEF ServeFailed, Enter, Phases
<1>16. ASSUME NEW c \in Channels, UpstreamSessionCreated(c) PROVE TypeOK'
  BY <1>16 DEF UpstreamSessionCreated, Enter, Phases
<1>17. ASSUME NEW c \in Channels, RelayOver(c) PROVE TypeOK'
  BY <1>17 DEF RelayOver, Enter, Phases, ChanStates
<1>18. ASSUME NEW c \in Channels, DataReceived(c) PROVE TypeOK'
  <2>1. sent' \in [Channels -> 0 .. MaxInput] /\ sent[c] + 1 \in Packets
    BY <1>18 DEF DataReceived, Packets
  <2>2. preBuffer' \in [Channels -> Seq(Packets)]
    <3>1. Append(preBuffer[c], sent[c] + 1) \in Seq(Packets)
      BY <2>1
    <3>2. \/ preBuffer' = [preBuffer EXCEPT ![c] = Append(@, sent[c] + 1)]
          \/ UNCHANGED preBuffer
      BY <1>18 DEF DataReceived
    <3> QED BY <3>1, <3>2
  <2>3. delivered' \in [Channels -> Seq(Packets)]
    <3>1. Append(delivered[c], sent[c] + 1) \in Seq(Packets)
      BY <2>1
    <3>2. \/ delivered' = [delivered EXCEPT ![c] = Append(@, sent[c] + 1)]
          \/ UNCHANGED delivered
      BY <1>18 DEF DataReceived
    <3> QED BY <3>1, <3>2
  <2> QED BY <1>18, <2>1, <2>2, <2>3 DEF DataReceived
<1>19. ASSUME NEW c \in Channels, ChannelLost(c) PROVE TypeOK'
  BY <1>19 DEF ChannelLost, ReleaseUpstream, CloseIn, ChanStates
<1>20. ASSUME Disconnected PROVE TypeOK'
  BY <1>20 DEF Disconnected, ReleaseUpstream, CloseIn, ChanStates
<1>21. ASSUME NEW c \in Channels, UpstreamExits(c) PROVE TypeOK'
  BY <1>21 DEF UpstreamExits, CloseIn
<1>22. ASSUME NEW c \in Channels, UpstreamDrops(c) PROVE TypeOK'
  BY <1>22 DEF UpstreamDrops, CloseIn
<1>23. CASE UNCHANGED vars
  BY <1>23 DEF vars
<1> QED
  BY <1>1, <1>2, <1>3, <1>4, <1>5, <1>6, <1>7, <1>8, <1>9, <1>10, <1>11, <1>12,
     <1>13, <1>14, <1>15, <1>16, <1>17, <1>18, <1>19, <1>20, <1>21, <1>22, <1>23
     DEF Next, Authenticate, ScoreTask, SessionTask, Client, Upstream

\* Every part of the connection's state keeps its type.
THEOREM TypeCorrect == Spec => []TypeOK
BY TypeInit, TypeStep, PTL DEF Spec

-----------------------------------------------------------------------------
(* Routing. *)

\* The pair asyncssh accepted is valid, and its password is the last one tried:
\* nothing is recorded after it.
AcceptedIsLast ==
    accepted # <<>> =>
      /\ ValidateCredentials(accepted[1], accepted[2])
      /\ accepted[2] # Empty => lastPassword = accepted[2]

\* There is no session before authentication.
NoEarlySession ==
    accepted = <<>> =>
      /\ ~fastRouted
      /\ \A c \in Channels : phase[c] = "unopened"

\* A final decision is the one the credentials ask for.
FinalIsCredentials == fastRouted => decision = CredentialTarget

\* A channel goes to the real server only after the final decision "real".
RealIsFinal ==
    \A c \in Channels :
      phase[c] = "connReal" \/ live[c] = "real" => fastRouted /\ decision = "real"

\* An upstream connection that exists is remembered by its session.
LiveIsHeld == \A c \in Channels : live[c] # "none" => held[c]

\* Before the relay there is no upstream session.
UnsetBeforeRelay ==
    \A c \in Channels : phase[c] \notin {"relay", "ended"} => upChan[c] = "unset"

RouteInv ==
    /\ AcceptedIsLast
    /\ NoEarlySession
    /\ FinalIsCredentials
    /\ RealIsFinal
    /\ LiveIsHeld
    /\ UnsetBeforeRelay

\* The strengthening holds of a new connection.
LEMMA RouteInit == Init => RouteInv
BY DEF Init, RouteInv, AcceptedIsLast, NoEarlySession, FinalIsCredentials, RealIsFinal,
       LiveIsHeld, UnsetBeforeRelay

\* The strengthening is inductive, one case per action.
LEMMA RouteStep == TypeOK /\ RouteInv /\ [Next]_vars => RouteInv'
<1> SUFFICES ASSUME TypeOK, RouteInv, [Next]_vars PROVE RouteInv'
  OBVIOUS
<1> USE DEF RouteInv, AcceptedIsLast, NoEarlySession, FinalIsCredentials, RealIsFinal,
            LiveIsHeld, UnsetBeforeRelay, signalVars, routeVars, upVars, relayVars
<1> USE DEF TypeOK
<1>1. ASSUME NEW u \in Users, NEW p \in Passwords \cup {Empty}, ValidatePassword(u, p)
      PROVE  RouteInv'
  BY <1>1 DEF ValidatePassword, RecordAuthAttempt, ValidateCredentials
<1>2. ASSUME NEW u \in Users, ValidatePublicKey(u) PROVE RouteInv'
  BY <1>2 DEF ValidatePublicKey
<1>3. ASSUME NEW d \in Answers, ScoreFirstAnswer(d) PROVE RouteInv'
  BY <1>3 DEF ScoreFirstAnswer, Conclude, CredentialTarget, LastUsername, ValidateCredentials
<1>4. ASSUME ScoreWindowOver PROVE RouteInv'
  BY <1>4 DEF ScoreWindowOver, CredentialTarget, LastUsername, ValidateCredentials
<1>5. ASSUME NEW d \in Answers, ScoreSecondAnswer(d) PROVE RouteInv'
  BY <1>5 DEF ScoreSecondAnswer, Conclude, CredentialTarget, LastUsername, ValidateCredentials
<1>6. ASSUME NEW c \in Channels, SessionRequested(c) PROVE RouteInv'
  BY <1>6 DEF SessionRequested, CredentialTarget, LastUsername, ValidateCredentials
<1>7. ASSUME NEW c \in Channels, NEW isExec \in BOOLEAN, SessionStarted(c, isExec)
      PROVE  RouteInv'
  BY <1>7 DEF SessionStarted, CredentialTarget, LastUsername, ValidateCredentials
<1>8. ASSUME NEW c \in Channels, RunSession(c) PROVE RouteInv'
  BY <1>8 DEF RunSession, CredentialTarget, LastUsername, ValidateCredentials
<1>9. ASSUME NEW c \in Channels, RealConnected(c) PROVE RouteInv'
  BY <1>9 DEF RealConnected, Connected, Enter, ServeKind, CredentialTarget, LastUsername,
       ValidateCredentials
<1>10. ASSUME NEW c \in Channels, RealUnreachable(c) PROVE RouteInv'
  BY <1>10 DEF RealUnreachable, Enter, CredentialTarget, LastUsername, ValidateCredentials
<1>11. ASSUME NEW c \in Channels, HoneypotConnected(c) PROVE RouteInv'
  BY <1>11 DEF HoneypotConnected, Connected, Enter, CredentialTarget, LastUsername,
       ValidateCredentials
<1>12. ASSUME NEW c \in Channels, HoneypotUnreachable(c) PROVE RouteInv'
  BY <1>12 DEF HoneypotUnreachable, Enter, CredentialTarget, LastUsername,
       ValidateCredentials
<1>13. ASSUME NEW c \in Channels, ProxyMapReported(c) PROVE RouteInv'
  BY <1>13 DEF ProxyMapReported, Enter, ServeKind, CredentialTarget, LastUsername,
       ValidateCredentials
<1>14. ASSUME NEW c \in Channels, ExecDone(c) PROVE RouteInv'
  BY <1>14 DEF ExecDone, Enter, CredentialTarget, LastUsername, ValidateCredentials
<1>15. ASSUME NEW c \in Channels, NEW kind \in {"exec", "creating"}, ServeFailed(c, kind)
       PROVE RouteInv'
  BY <1>15 DEF ServeFailed, Enter, CredentialTarget, LastUsername, ValidateCredentials
<1>16. ASSUME NEW c \in Channels, UpstreamSessionCreated(c) PROVE RouteInv'
  BY <1>16 DEF UpstreamSessionCreated, Enter, CredentialTarget, LastUsername,
       ValidateCredentials
<1>17. ASSUME NEW c \in Channels, RelayOver(c) PROVE RouteInv'
  BY <1>17 DEF RelayOver, Enter, CredentialTarget, LastUsername, ValidateCredentials
<1>18. ASSUME NEW c \in Channels, DataReceived(c) PROVE RouteInv'
  BY <1>18 DEF DataReceived, CredentialTarget, LastUsername, ValidateCredentials
<1>19. ASSUME NEW c \in Channels, ChannelLost(c) PROVE RouteInv'
  BY <1>19 DEF ChannelLost, ReleaseUpstream, CloseIn, CredentialTarget, LastUsername,
       ValidateCredentials
<1>20. ASSUME Disconnected PROVE RouteInv'
  BY <1>20 DEF Disconnected, ReleaseUpstream, CloseIn, CredentialTarget, LastUsername,
       ValidateCredentials
<1>21. ASSUME NEW c \in Channels, UpstreamExits(c) PROVE RouteInv'
  BY <1>21 DEF UpstreamExits, CloseIn, CredentialTarget, LastUsername, ValidateCredentials
<1>22. ASSUME NEW c \in Channels, UpstreamDrops(c) PROVE RouteInv'
  BY <1>22 DEF UpstreamDrops, CloseIn, CredentialTarget, LastUsername, ValidateCredentials
<1>23. CASE UNCHANGED vars
  BY <1>23 DEF vars, CredentialTarget, LastUsername, ValidateCredentials
<1> QED
  BY <1>1, <1>2, <1>3, <1>4, <1>5, <1>6, <1>7, <1>8, <1>9, <1>10, <1>11, <1>12,
     <1>13, <1>14, <1>15, <1>16, <1>17, <1>18, <1>19, <1>20, <1>21, <1>22, <1>23
     DEF Next, Authenticate, ScoreTask, SessionTask, Client, Upstream

\* Types and strengthening hold of every reachable state.
LEMMA RouteInvariant == Spec => [](TypeOK /\ RouteInv)
<1>1. Init => TypeOK /\ RouteInv
  BY TypeInit, RouteInit
<1>2. TypeOK /\ RouteInv /\ [Next]_vars => (TypeOK /\ RouteInv)'
  BY TypeStep, RouteStep
<1> QED BY <1>1, <1>2, PTL DEF Spec

\* With the credentials last listed, the decision "real" means that the accepted
\* pair is the real one, unless a decoy shadows it.
LEMMA RealMeansAccepted ==
    ASSUME TypeOK, RouteInv, DecoysDistinct, fastRouted, decision = "real"
    PROVE  accepted = RealPair
<1> USE ConstantsOK DEF ConstantsOK
<1>1. accepted # <<>> /\ CredentialTarget = "real"
  BY DEF RouteInv, NoEarlySession, FinalIsCredentials
<1>2. lastPassword = RealPassword
  BY <1>1 DEF CredentialTarget
<1>3. PICK u \in Users, p \in Passwords \cup {Empty} : accepted = <<u, p>>
  BY <1>1 DEF TypeOK
<1>4. ValidateCredentials(u, p) /\ (p # Empty => p = RealPassword)
  BY <1>1, <1>2, <1>3 DEF RouteInv, AcceptedIsLast
<1>5. CASE <<u, p>> = RealPair
  BY <1>3, <1>5
<1>6. CASE {<<u, p>>, <<u, Wildcard>>} \cap AllowedCreds # {}
  <2>1. \/ <<u, p>> \in AllowedCreds
        \/ <<u, Wildcard>> \in AllowedCreds
    BY <1>6
  <2>2. <<u, p>> \in {<<u, RealPassword>>, <<u, Empty>>}
    BY <1>4
  <2>3. \/ <<u, p>> = RealPair
        \/ <<u, Wildcard>> = RealPair
    BY <2>1, <2>2 DEF DecoysDistinct
  <2>4. <<u, Wildcard>> # RealPair
    BY DEF RealPair
  <2> QED BY <1>3, <2>3, <2>4
<1> QED BY <1>4, <1>5, <1>6 DEF ValidateCredentials

\* The real server is for the real credentials only, for any userdb.txt whose
\* decoys do not shadow them, any attempts and any answers of the backend.
THEOREM RealServerGuarded == Spec => []RealOnlyOnMatch
<1>1. TypeOK /\ RouteInv => RealOnlyOnMatch
  BY RealMeansAccepted DEF RealOnlyOnMatch, RouteInv, RealIsFinal
<1> QED BY <1>1, RouteInvariant, PTL

\* A client channel that goes away takes the upstream connection with it.
THEOREM LossReleases == Spec => LossReleasesUpstream
<1> DEFINE Release == \A c \in Channels : chan[c] # "closed" /\ chan'[c] = "closed"
                                            => live'[c] = "none"
<1>1. TypeOK /\ RouteInv /\ [Next]_vars => [Release]_vars
  <2> SUFFICES ASSUME TypeOK, RouteInv, [Next]_vars, NEW c \in Channels,
                      chan[c] # "closed", chan'[c] = "closed"
               PROVE  live'[c] = "none"
    BY DEF Release
  <2> USE DEF TypeOK, RouteInv, LiveIsHeld
  <2>1. CASE Disconnected
    BY <2>1 DEF Disconnected, ReleaseUpstream, ChanStates
  <2>2. ASSUME NEW k \in Channels, ChannelLost(k) PROVE live'[c] = "none"
    BY <2>2 DEF ChannelLost, ReleaseUpstream
  <2>3. CASE UNCHANGED chan
    BY <2>3
  <2>4. CASE \E k \in Channels :
               \/ SessionRequested(k) \/ HoneypotUnreachable(k)
               \/ ExecDone(k) \/ RelayOver(k)
    BY <2>4 DEF SessionRequested, HoneypotUnreachable, ExecDone, RelayOver
  <2> QED
    BY <2>1, <2>2, <2>3, <2>4
       DEF Next, vars, Authenticate, ValidatePassword, ValidatePublicKey, ScoreTask,
           ScoreFirstAnswer, ScoreWindowOver, ScoreSecondAnswer, SessionTask, RunSession,
           RealConnected, RealUnreachable, HoneypotConnected, ProxyMapReported,
           ServeFailed, Client, SessionStarted, DataReceived, Upstream,
           UpstreamSessionCreated, UpstreamExits, UpstreamDrops
<1> QED BY <1>1, RouteInvariant, PTL DEF Spec, LossReleasesUpstream

\* Each step of the gateway is a step of RouteDecision, or changes nothing it
\* speaks of.
THEOREM GatewayKeepsPromise == Spec => ImplementsRouteDecision
<1>1. Init => Abstract!Init
  BY DEF Init, Abstract!Init
<1>2. TypeOK /\ RouteInv /\ [Next]_vars => [Abstract!Next]_(Abstract!vars)
  <2> SUFFICES ASSUME TypeOK, RouteInv, [Next]_vars
               PROVE  Abstract!Next \/ UNCHANGED routeVars
    BY DEF routeVars, Abstract!vars
  <2>1. ASSUME NEW d \in Servers, Conclude(d)
        PROVE  Abstract!Next \/ UNCHANGED routeVars
    <3>1. CASE fastRouted
      BY <2>1, <3>1 DEF Conclude
    <3>2. CASE ~fastRouted
      <4>1. Abstract!Revise(Score, d)
        BY <2>1, <3>2 DEF Conclude, Publish, Abstract!Revise
      <4> QED BY <4>1 DEF Abstract!Next, Abstract!Targets, Servers
    <3> QED BY <3>1, <3>2
  <2>2. ASSUME NEW d \in Answers, ScoreFirstAnswer(d) \/ ScoreSecondAnswer(d)
        PROVE  Abstract!Next \/ UNCHANGED routeVars
    BY <2>1, <2>2 DEF ScoreFirstAnswer, ScoreSecondAnswer, Answers, Servers
  <2>3. ASSUME NEW c \in Channels, SessionRequested(c)
        PROVE  Abstract!Next \/ UNCHANGED routeVars
    BY <2>3 DEF SessionRequested, routeVars, Abstract!Next, Abstract!Default
  <2>4. ASSUME NEW c \in Channels, RunSession(c) PROVE Abstract!Next
    <3>1. fastRouted => CredentialTarget = decision
      BY DEF RouteInv, FinalIsCredentials
    <3>2. Abstract!Settle(c, CredentialTarget)
      BY <2>4, <3>1 DEF RunSession, Publish, Abstract!Settle
    <3>3. CredentialTarget \in Abstract!Targets
      BY DEF CredentialTarget, Abstract!Targets
    <3> QED BY <3>2, <3>3 DEF Abstract!Next
  <2>5. CASE UNCHANGED routeVars
    BY <2>5
  <2> QED
    BY <2>2, <2>3, <2>4, <2>5
       DEF Next, vars, routeVars, Authenticate, ValidatePassword, ValidatePublicKey,
           ScoreTask, ScoreWindowOver, SessionTask, RealConnected, RealUnreachable,
           HoneypotConnected, HoneypotUnreachable, ProxyMapReported, ExecDone,
           ServeFailed, RelayOver, Client, SessionStarted, DataReceived, ChannelLost,
           Disconnected, Upstream, UpstreamSessionCreated, UpstreamExits, UpstreamDrops
<1> QED
  BY <1>1, <1>2, RouteInvariant, PTL DEF Spec, ImplementsRouteDecision, Abstract!Spec

-----------------------------------------------------------------------------
(* The relay. *)

\* The next packet extends the prefix of packets sent.
LEMMA PrefixAppend ==
    ASSUME NEW n \in Nat
    PROVE  /\ Len(Prefix(n)) = n
           /\ Append(Prefix(n), n + 1) = Prefix(n + 1)
BY DEF Prefix

\* Before the first packet the prefix is empty.
LEMMA PrefixEmpty == Prefix(0) = <<>>
BY DEF Prefix

\* Buffering a packet extends what will have been delivered.
LEMMA AppendConcat ==
    \A s, t \in Seq(Packets), x \in Packets : s \o Append(t, x) = Append(s \o t, x)
OBVIOUS

\* RelayInOrder for one channel.
RelayedInOrder(c) ==
    LET got == delivered[c] \o preBuffer[c] IN
    /\ got = Prefix(Len(got))
    /\ upChan[c] # "closed" => Len(got) = sent[c]
    /\ upChan[c] # "unset" => preBuffer[c] = <<>>

\* Every step keeps the input of each channel in order, one case per action.
LEMMA RelayStep == TypeOK /\ RouteInv /\ RelayInOrder /\ [Next]_vars => RelayInOrder'
<1> SUFFICES ASSUME TypeOK, RouteInv, RelayInOrder, [Next]_vars, NEW c \in Channels
             PROVE  RelayedInOrder(c)'
  BY DEF RelayInOrder, RelayedInOrder
<1> DEFINE got == delivered[c] \o preBuffer[c]
<1>1. /\ got = Prefix(Len(got))
      /\ upChan[c] # "closed" => Len(got) = sent[c]
      /\ upChan[c] # "unset" => preBuffer[c] = <<>>
  BY DEF RelayInOrder
<1>2. /\ delivered[c] \in Seq(Packets) /\ preBuffer[c] \in Seq(Packets)
      /\ sent[c] \in Nat /\ upChan[c] \in {"unset", "open", "closed"}
  BY ConstantsOK DEF ConstantsOK, TypeOK
<1>3. ASSUME UNCHANGED <<sent, preBuffer, delivered>>,
             upChan'[c] = upChan[c] \/ (upChan[c] = "open" /\ upChan'[c] = "closed")
      PROVE  RelayedInOrder(c)'
  BY <1>1, <1>3 DEF RelayedInOrder
<1>4. ASSUME NEW k \in Channels, UpstreamSessionCreated(k) PROVE RelayedInOrder(c)'
  <2>1. CASE c # k
    BY <2>1, <1>1, <1>4 DEF UpstreamSessionCreated, TypeOK, RelayedInOrder
  <2>2. CASE c = k
    <3>1. upChan[c] = "unset"
      BY <2>2, <1>4 DEF UpstreamSessionCreated, RouteInv, UnsetBeforeRelay
    <3>2. /\ delivered'[c] = got /\ preBuffer'[c] = <<>>
          /\ upChan'[c] = "open" /\ sent' = sent
      BY <2>2, <1>4 DEF UpstreamSessionCreated, TypeOK
    <3>3. got \in Seq(Packets)
      BY <1>2
    <3>4. got' = got
      BY <3>2, <3>3
    <3> QED BY <1>1, <3>1, <3>2, <3>4 DEF RelayedInOrder
  <2> QED BY <2>1, <2>2
<1>5. ASSUME NEW k \in Channels, DataReceived(k) PROVE RelayedInOrder(c)'
  <2>1. CASE c # k
    BY <2>1, <1>1, <1>5 DEF DataReceived, TypeOK, RelayedInOrder
  <2>2. CASE c = k
    <3> DEFINE n == sent[c]
    <3>1. /\ sent'[c] = n + 1 /\ upChan'[c] = upChan[c]
          /\ n \in Nat /\ n + 1 \in Nat /\ n + 1 \in Packets
      BY <2>2, <1>2, <1>5, ConstantsOK DEF ConstantsOK, DataReceived, TypeOK, Packets
    <3>2. CASE upChan[c] = "closed"
      BY <1>1, <1>5, <2>2, <3>1, <3>2 DEF DataReceived, RelayedInOrder
    <3>3. CASE upChan[c] \in {"unset", "open"}
      <4>1. got' = Append(got, n + 1) /\ (upChan[c] = "open" => preBuffer'[c] = <<>>)
        <5>1. CASE upChan[c] = "unset"
          <6>1. delivered' = delivered /\ preBuffer'[c] = Append(preBuffer[c], n + 1)
            BY <1>5, <2>2, <5>1 DEF DataReceived, TypeOK
          <6>2. delivered[c] \o Append(preBuffer[c], n + 1) = Append(got, n + 1)
            BY <1>2, <3>1, AppendConcat, Zenon
          <6> QED BY <5>1, <6>1, <6>2
        <5>2. CASE upChan[c] = "open"
          <6>1. preBuffer' = preBuffer /\ delivered'[c] = Append(delivered[c], n + 1)
            BY <1>5, <2>2, <5>2 DEF DataReceived, TypeOK
          <6>2. preBuffer[c] = <<>>
            BY <1>1, <5>2
          <6>3. got = delivered[c] /\ got' = Append(delivered[c], n + 1)
            BY <1>2, <6>1, <6>2
          <6> QED BY <6>1, <6>2, <6>3
        <5> QED BY <3>3, <5>1, <5>2
      <4>2. got = Prefix(n)
        BY <1>1, <3>3
      <4>3. got' = Prefix(n + 1) /\ Len(got') = n + 1
        <5> HIDE DEF got
        <5>1. got' = Append(Prefix(n), n + 1)
          BY <4>1, <4>2
        <5>2. Len(Prefix(n + 1)) = n + 1 /\ Append(Prefix(n), n + 1) = Prefix(n + 1)
          BY <3>1, PrefixAppend
        <5> QED BY <5>1, <5>2
      <4> QED BY <3>1, <3>3, <4>1, <4>3 DEF RelayedInOrder
    <3> QED BY <1>2, <3>2, <3>3
  <2> QED BY <2>1, <2>2
<1>6. CASE UNCHANGED relayVars
  BY <1>3, <1>6 DEF relayVars
<1>7. CASE \E S \in SUBSET Channels : ReleaseUpstream(S) /\ UNCHANGED <<sent, preBuffer, delivered>>
  BY <1>3, <1>7 DEF ReleaseUpstream, CloseIn, TypeOK
<1>8. CASE \E k \in Channels : UpstreamExits(k) \/ UpstreamDrops(k)
  BY <1>3, <1>8 DEF UpstreamExits, UpstreamDrops, CloseIn, TypeOK
<1>9. CASE Disconnected \/ \E k \in Channels : ChannelLost(k)
  BY <1>7, <1>9 DEF Disconnected, ChannelLost
<1> QED
  BY <1>4, <1>5, <1>6, <1>8, <1>9
     DEF Next, vars, relayVars, Authenticate, ValidatePassword, ValidatePublicKey,
         ScoreTask, ScoreFirstAnswer, ScoreWindowOver, ScoreSecondAnswer, SessionTask,
         RunSession, RealConnected, RealUnreachable, HoneypotConnected,
         HoneypotUnreachable, ProxyMapReported, ExecDone, ServeFailed, RelayOver, Client,
         SessionRequested, SessionStarted, Upstream

\* Nothing the client types is lost, repeated or reordered on the way to a live
\* upstream session, however many packets come and whenever that session is ready.
THEOREM InputInOrder == Spec => []RelayInOrder
<1>1. Init => RelayInOrder
  <2> SUFFICES ASSUME Init, NEW c \in Channels PROVE RelayedInOrder(c)
    BY DEF RelayInOrder, RelayedInOrder
  <2>1. delivered[c] \o preBuffer[c] = <<>> /\ sent[c] = 0 /\ preBuffer[c] = <<>>
    BY DEF Init
  <2> QED BY <2>1, PrefixEmpty DEF RelayedInOrder
<1> QED BY <1>1, RelayStep, RouteInvariant, PTL DEF Spec
=============================================================================
