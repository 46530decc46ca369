---------------------------- MODULE BackendProofs ----------------------------
(***************************************************************************)
(* Proofs about the services of the backend side by side: what is proved   *)
(* of each of them alone holds of their composition (MCBackend), for any   *)
(* values of the constants.  Before that, the one service that is proved   *)
(* about here: a log line of Dionaea reports a credential in one place,    *)
(* whatever the line holds (DionaeaEvents).                                *)
(***************************************************************************)
EXTENDS MCBackend, VerdictProofs, AttackerRecordsProofs, DeliveryProofs

-----------------------------------------------------------------------------
(* The events of one log line.                                              *)

\* The three kinds of events, by their places and credentials.
LEMMA SummaryEvents ==
    ASSUME line \in Raw(Origins \cup {"none"}, MaxParts), line.complete, ParseIncident(line) = {},
           NEW t \in Texts
    PROVE  Reported(t) = {p.at : p \in {q \in FtpCommandEvents(line) \cup CredentialEvents(line) :
                                          q.credential.user = t}}
<1>1. ParseEvent(line) = {Payload(Self, FALSE, NoCredential)}
                           \cup FtpCommandEvents(line) \cup CredentialEvents(line)
  BY DEF ParseEvent
<1>2. Payload(Self, FALSE, NoCredential).credential.user # t
  BY DionaeaConstantsOK DEF DionaeaConstantsOK, Payload, NoCredential
<1> DEFINE others == FtpCommandEvents(line) \cup CredentialEvents(line)
           self == Payload(Self, FALSE, NoCredential)
<1>3. ParseEvent(line) = {self} \cup others /\ self.credential.user # t
  BY <1>1, <1>2
<1> HIDE DEF others, self
<1>4. {q \in ParseEvent(line) : q.credential.user = t} = {q \in others : q.credential.user = t}
  BY <1>3
<1> QED BY <1>4 DEF Reported, others

\* The list of credentials reports whom it names.
LEMMA LoginsReport ==
    ASSUME NEW t \in Texts
    PROVE  {p.at : p \in {q \in CredentialEvents(line) : q.credential.user = t}} = Listed(t)
<1>0. t # Nothing /\ t # Blank
  BY DionaeaConstantsOK DEF DionaeaConstantsOK
<1>1. ASSUME NEW at
      PROVE  (\E q \in CredentialEvents(line) : q.credential.user = t /\ q.at = at)
             <=> (\E i \in DOMAIN line.credentials : line.credentials[i].user = t /\ at = <<"login", i>>)
  <2>1. ASSUME NEW q \in CredentialEvents(line), q.credential.user = t, q.at = at
        PROVE  \E i \in DOMAIN line.credentials : line.credentials[i].user = t /\ at = <<"login", i>>
    <3>1. PICK i \in DOMAIN line.credentials :
            q = Payload(<<"login", i>>, FALSE, LoginCredential(line.credentials[i]))
      BY DEF CredentialEvents
    <3>2. q.at = <<"login", i>> /\ q.credential.user = OptionalText(line.credentials[i].user)
      BY <3>1 DEF Payload, LoginCredential
    <3> QED BY <1>0, <2>1, <3>2 DEF OptionalText
  <2>2. ASSUME NEW i \in DOMAIN line.credentials, line.credentials[i].user = t, at = <<"login", i>>
        PROVE  \E q \in CredentialEvents(line) : q.credential.user = t /\ q.at = at
    <3> DEFINE q == Payload(<<"login", i>>, FALSE, LoginCredential(line.credentials[i]))
    <3>1. q \in CredentialEvents(line)
      BY <2>2 DEF CredentialEvents
    <3>2. q.at = at /\ q.credential.user = t
      BY <1>0, <2>2 DEF Payload, LoginCredential, OptionalText
    <3> QED BY <3>1, <3>2
  <2> QED BY <2>1, <2>2
<1> QED BY <1>1 DEF Listed

\* The USER commands report whom they name, unless there is a list.
LEMMA CommandsReport ==
    ASSUME NEW t \in Texts
    PROVE  {p.at : p \in {q \in FtpCommandEvents(line) : q.credential.user = t}} =
             IF Explicit(line) THEN {} ELSE Commanded(t)
<1>0. t # Nothing
  BY DionaeaConstantsOK DEF DionaeaConstantsOK
<1>1. CASE Explicit(line)
  <2>1. ASSUME NEW q \in FtpCommandEvents(line) PROVE q.credential.user # t
    <3>1. PICK i \in DOMAIN line.commands :
            q = Payload(<<"command", i>>, TRUE, CommandCredential(line, line.commands[i]))
      BY DEF FtpCommandEvents
    <3>2. q.credential.user = Nothing
      BY <1>1, <3>1 DEF Payload, CommandCredential, NoCredential
    <3> QED BY <1>0, <3>2
  <2> QED BY <1>1, <2>1
<1>2. CASE ~Explicit(line)
  <2>1. ASSUME NEW at
        PROVE  (\E q \in FtpCommandEvents(line) : q.credential.user = t /\ q.at = at)
               <=> (\E i \in DOMAIN line.commands :
                      ArgumentOf(line.commands[i], "USER") = t /\ at = <<"command", i>>)
    <3>1. ASSUME NEW q \in FtpCommandEvents(line), q.credential.user = t, q.at = at
          PROVE  \E i \in DOMAIN line.commands :
                   ArgumentOf(line.commands[i], "USER") = t /\ at = <<"command", i>>
      <4>1. PICK i \in DOMAIN line.commands :
              q = Payload(<<"command", i>>, TRUE, CommandCredential(line, line.commands[i]))
        BY DEF FtpCommandEvents
      <4>2. q.at = <<"command", i>> /\ q.credential.user = ArgumentOf(line.commands[i], "USER")
        BY <1>2, <4>1 DEF Payload, CommandCredential
      <4> QED BY <3>1, <4>2
    <3>2. ASSUME NEW i \in DOMAIN line.commands, ArgumentOf(line.commands[i], "USER") = t,
                 at = <<"command", i>>
          PROVE  \E q \in FtpCommandEvents(line) : q.credential.user = t /\ q.at = at
      <4> DEFINE q == Payload(<<"command", i>>, TRUE, CommandCredential(line, line.commands[i]))
      <4>1. line.commands[i].verb # ""
        BY <1>0, <3>2 DEF ArgumentOf
      <4>2. q \in FtpCommandEvents(line)
        BY <4>1 DEF FtpCommandEvents
      <4>3. q.at = at /\ q.credential.user = t
        BY <1>2, <3>2 DEF Payload, CommandCredential
      <4> QED BY <4>2, <4>3
    <3> QED BY <3>1, <3>2
  <2>2. {p.at : p \in {q \in FtpCommandEvents(line) : q.credential.user = t}} = Commanded(t)
    BY <2>1 DEF Commanded
  <2> QED BY <1>2, <2>2
<1> QED BY <1>1, <1>2

\* A line gives finitely many events.
LEMMA EventsAreFinite ==
    ASSUME line \in Raw(Origins \cup {"none"}, MaxParts)
    PROVE  IsFiniteSet(ParseEvent(line))
<1>1. PICK n \in Nat, m \in Nat : DOMAIN line.commands = 1 .. n /\ DOMAIN line.credentials = 1 .. m
  BY DionaeaConstantsOK DEF DionaeaConstantsOK, Raw, Lists
<1>2. ASSUME NEW S, IsFiniteSet(S), NEW T, NEW f, f = [i \in S |-> f[i]], T \subseteq {f[i] : i \in S}
      PROVE  IsFiniteSet(T)
  <2>0. f \in Surjection(S, {f[i] : i \in S})
    BY <1>2 DEF Surjection
  <2>1. IsFiniteSet({f[i] : i \in S})
    BY <1>2, <2>0, FS_Surjection
  <2> QED BY <1>2, <2>1, FS_Subset
<1>3. IsFiniteSet(1 .. n) /\ IsFiniteSet(1 .. m)
  BY FS_Interval
<1>4. IsFiniteSet(FtpCommandEvents(line))
  <2> DEFINE f == [i \in 1 .. n |-> Payload(<<"command", i>>, TRUE, CommandCredential(line, line.commands[i]))]
  <2>1. FtpCommandEvents(line) \subseteq {f[i] : i \in 1 .. n}
    BY <1>1 DEF FtpCommandEvents
  <2>2. f = [i \in 1 .. n |-> f[i]]
    OBVIOUS
  <2> HIDE DEF f
  <2> QED BY <1>2, <1>3, <2>1, <2>2
<1>5. IsFiniteSet(CredentialEvents(line))
  <2> DEFINE f == [i \in 1 .. m |-> Payload(<<"login", i>>, FALSE, LoginCredential(line.credentials[i]))]
  <2>1. CredentialEvents(line) \subseteq {f[i] : i \in 1 .. m}
    BY <1>1 DEF CredentialEvents
  <2>2. f = [i \in 1 .. m |-> f[i]]
    OBVIOUS
  <2> HIDE DEF f
  <2> QED BY <1>2, <1>3, <2>1, <2>2
<1>6. ASSUME NEW x PROVE IsFiniteSet({x})
  BY FS_Singleton
<1>7. IsFiniteSet({})
  BY FS_EmptySet
<1>8. IsFiniteSet({Payload(Self, FALSE, NoCredential)} \cup FtpCommandEvents(line) \cup CredentialEvents(line))
  BY <1>4, <1>5, <1>6, FS_Union
<1>9. IsFiniteSet(ParseIncident(line))
  BY <1>6, <1>7 DEF ParseIncident
<1> QED BY <1>7, <1>8, <1>9 DEF ParseEvent

\* A watcher without a line has an empty one.
LEMMA NoLineIsLine == NoLine \in Raw(Origins \cup {"none"}, MaxParts)
<1>1. 0 \in 0 .. MaxParts /\ 1 .. 0 = {}
  BY DionaeaConstantsOK DEF DionaeaConstantsOK
<1>2. ASSUME NEW S PROVE <<>> \in Lists(S, MaxParts)
  <2>1. <<>> \in [1 .. 0 -> S]
    BY <1>1
  <2> QED BY <1>1, <2>1 DEF Lists
<1> QED BY <1>2 DEF NoLine, Raw

\* Nothing is recorded at first.
LEMMA DionaeaTypeInit == DionaeaInit => DionaeaTypeOK
BY NoLineIsLine DEF DionaeaInit, DionaeaTypeOK

\* Reading and ingesting a line keep the types.
LEMMA DionaeaTypeStep == DionaeaTypeOK /\ [DionaeaNext]_dionaeaVars => DionaeaTypeOK'
<1> SUFFICES ASSUME DionaeaTypeOK, [DionaeaNext]_dionaeaVars PROVE DionaeaTypeOK'
  OBVIOUS
<1>1. CASE HoneypotLogs
  <2>1. ASSUME NEW S PROVE Lists(S, 1) \subseteq Lists(S, MaxParts)
    <3>1. 0 .. 1 \subseteq 0 .. MaxParts
      BY DionaeaConstantsOK DEF DionaeaConstantsOK
    <3> QED BY <3>1 DEF Lists
  <2>2. Raw(Origins, 1) \subseteq Raw(Origins \cup {"none"}, MaxParts)
    BY <2>1 DEF Raw
  <2>3. Raw({"none"}, MaxParts) \subseteq Raw(Origins \cup {"none"}, MaxParts)
    BY DEF Raw
  <2> QED BY <1>1, <2>2, <2>3 DEF HoneypotLogs, RawEvents, DionaeaTypeOK
<1>2. CASE IngestLine
  <2> DEFINE all == ParseEvent(line)
             inputs == {p \in all : p.input}
             Of(c) == {p \in all : IsCredential(p) /\ p.credential = c}
  <2>1. IsFiniteSet(all)
    BY EventsAreFinite DEF DionaeaTypeOK
  <2>2. Cardinality(inputs) \in Nat
    <3>1. IsFiniteSet(inputs)
      BY <2>1, FS_Subset
    <3> QED BY <3>1, FS_CardinalityType
  <2>3. ASSUME NEW c PROVE Cardinality(Of(c)) \in Nat
    <3>1. IsFiniteSet(Of(c))
      BY <2>1, FS_Subset
    <3> QED BY <3>1, FS_CardinalityType
  <2>4. /\ tried' = [c \in Credentials |-> tried[c] + Cardinality(Of(c))]
        /\ entered' = entered + Cardinality(inputs)
        /\ line' = NoLine
    BY <1>2 DEF IngestLine
  <2> HIDE DEF all, inputs, Of
  <2>5. tried' \in [Credentials -> Nat] /\ entered' \in Nat
    BY <2>2, <2>3, <2>4 DEF DionaeaTypeOK
  <2>6. line' \in Raw(Origins \cup {"none"}, MaxParts)
    BY <2>4, NoLineIsLine
  <2> QED BY <2>5, <2>6 DEF DionaeaTypeOK
<1>3. CASE UNCHANGED dionaeaVars
  BY <1>3 DEF dionaeaVars, DionaeaTypeOK
<1> QED BY <1>1, <1>2, <1>3 DEF DionaeaNext

\* What a summary reports is in the list of credentials or in the commands.
LEMMA OnceByType == DionaeaTypeOK => CredentialsOnce
<1> SUFFICES ASSUME DionaeaTypeOK, line.complete, ParseIncident(line) = {}, NEW t \in Texts
             PROVE  /\ Reported(t) = Listed(t) \/ (Listed(t) = {} /\ Reported(t) = Commanded(t))
                    /\ Commanded(t) # {} /\ Reported(t) = {} => Explicit(line)
  BY DEF CredentialsOnce
<1> DEFINE ByList == {p.at : p \in {q \in CredentialEvents(line) : q.credential.user = t}}
           ByCommands == {p.at : p \in {q \in FtpCommandEvents(line) : q.credential.user = t}}
<1>1. Reported(t) = ByList \cup ByCommands
  BY SummaryEvents DEF DionaeaTypeOK
<1>2. ByList = Listed(t)
  BY LoginsReport
<1>3. ByCommands = IF Explicit(line) THEN {} ELSE Commanded(t)
  BY CommandsReport
<1>4. Listed(t) # {} => Explicit(line)
  <2>1. t # Nothing
    BY DionaeaConstantsOK DEF DionaeaConstantsOK
  <2> QED BY <2>1 DEF Listed, Explicit
<1> HIDE DEF ByList, ByCommands
<1> QED BY <1>1, <1>2, <1>3, <1>4

\* The line in hand is one the honeypot may write, and each credential is
\* counted by a number (parse_dionaea_event, ingest_event).
THEOREM DionaeaTypes == DionaeaSpec => []DionaeaTypeOK
BY DionaeaTypeInit, DionaeaTypeStep, PTL DEF DionaeaSpec

\* For any texts and lines of any length: a user name is reported once for each
\* time it was tried, from the list if that has it, else from the commands
\* (_parse_ftp_command_events, _parse_credential_events).
THEOREM ReportedOnce == DionaeaSpec => []CredentialsOnce
BY DionaeaTypes, OnceByType, PTL

-----------------------------------------------------------------------------
(* A step of the backend is a step of one service and none of the others.   *)

\* The scoring of connections, as a part of the backend.
LEMMA ScoringRuns == BackendSpec => PreSpec
<1>1. BackendInit => PreInit
  BY DEF BackendInit
<1>2. [BackendNext]_backendVars => [PreNext]_preVars
  BY DEF BackendNext, backendVars
<1> QED BY <1>1, <1>2, PTL DEF BackendSpec, PreSpec

\* The writers of the rows, as a part of the backend.
LEMMA RecordsRun == BackendSpec => RecSpec
<1>1. BackendInit => RecInit
  BY DEF BackendInit
<1>2. [BackendNext]_backendVars => [RecNext]_recVars
  BY DEF BackendNext, backendVars
<1> QED BY <1>1, <1>2, PTL DEF BackendSpec, RecSpec

\* The queues of the dashboards, as a part of the backend.
LEMMA AlertsRun == BackendSpec => StreamSpec
<1>1. BackendInit => StreamInit
  BY DEF BackendInit
<1>2. [BackendNext]_backendVars => [StreamNext]_streamVars
  BY DEF BackendNext, backendVars
<1> QED BY <1>1, <1>2, PTL DEF BackendSpec, StreamSpec

\* The correlation of addresses, as a part of the backend.
LEMMA CorrelationRuns == BackendSpec => CorrSpec
<1>1. BackendInit => CorrInit
  BY DEF BackendInit
<1>2. [BackendNext]_backendVars => [CorrNext]_corrVars
  BY DEF BackendNext, backendVars
<1> QED BY <1>1, <1>2, PTL DEF BackendSpec, CorrSpec

\* The webhook and its tokens, as a part of the backend.
LEMMA WebhookRuns == BackendSpec => WebhookSpec
<1>1. BackendInit => WebhookInit
  BY DEF BackendInit
<1>2. [BackendNext]_backendVars => [WebhookNext]_webhookVars
  BY DEF BackendNext, backendVars
<1> QED BY <1>1, <1>2, PTL DEF BackendSpec, WebhookSpec

\* The scoring of sessions, as a part of the backend.
LEMMA ThreatRuns == BackendSpec => ThreatSpec
<1>1. BackendInit => ThreatInit
  BY DEF BackendInit
<1>2. [BackendNext]_backendVars => [ThreatNext]_threatVars
  BY DEF BackendNext, backendVars
<1> QED BY <1>1, <1>2, PTL DEF BackendSpec, ThreatSpec

\* The lookups of addresses, as a part of the backend.
LEMMA VpnRuns == BackendSpec => VpnSpec
<1>1. BackendInit => VpnInit
  BY DEF BackendInit
<1>2. [BackendNext]_backendVars => [VpnNext]_vpnVars
  BY DEF BackendNext, backendVars
<1> QED BY <1>1, <1>2, PTL DEF BackendSpec, VpnSpec

\* The forwarding of events, as a part of the backend.
LEMMA SplunkRuns == BackendSpec => SplunkSpec
<1>1. BackendInit => SplunkInit
  BY DEF BackendInit
<1>2. [BackendNext]_backendVars => [SplunkNext]_splunkVars
  BY DEF BackendNext, backendVars
<1> QED BY <1>1, <1>2, PTL DEF BackendSpec, SplunkSpec

\* The parsing of lines, as a part of the backend.
LEMMA DionaeaRuns == BackendSpec => DionaeaSpec
<1>1. BackendInit => DionaeaInit
  BY DEF BackendInit
<1>2. [BackendNext]_backendVars => [DionaeaNext]_dionaeaVars
  BY DEF BackendNext, backendVars
<1> QED BY <1>1, <1>2, PTL DEF BackendSpec, DionaeaSpec

-----------------------------------------------------------------------------
(* What the backend promises.                                               *)

\* Every service keeps its types beside the others.
THEOREM BackendTypes == BackendSpec => []BackendTypeOK
<1>1. /\ PreTypeOK /\ RecTypeOK /\ StreamTypeOK /\ CorrTypeOK /\ WebhookTypeOK
      /\ ThreatTypeOK /\ VpnTypeOK /\ SplunkTypeOK /\ DionaeaTypeOK
      => BackendTypeOK
  BY DEF BackendTypeOK
<1> QED BY <1>1, ScoringRuns, RecordsRun, AlertsRun, CorrelationRuns, WebhookRuns, ThreatRuns, VpnRuns,
           SplunkRuns, DionaeaRuns, PreTypes, RecordTypes, StreamTypes, CorrTypes, WebhookTypes,
           ThreatTypes, VpnTypes, SplunkTypes, DionaeaTypes, PTL

\* Every safety invariant that is checked of the backend, for a backend of any
\* size: what a service promises alone, it promises beside the others.
THEOREM BackendPromises ==
    BackendSpec => []( /\ ConfidentVerdict /\ OnlyModelOrLlmClears /\ WhitelistHonoured
                       /\ ZeroMeansNoHistory /\ HighProfileHasAlert
                       /\ SecondQuestionIsReconnect /\ CountsAndKeeps
                       /\ NewestInOrder /\ InTimeIsRight /\ OneClientPerSession
                       /\ ReplayNeedsFlood /\ TriggeredTokensStay
                       /\ ScoreLagsBounded /\ NoReportMasked
                       /\ FewEventsUnsaved /\ CredentialsOnce )
BY ScoringRuns, RecordsRun, AlertsRun, CorrelationRuns, WebhookRuns, ThreatRuns, VpnRuns, SplunkRuns,
   DionaeaRuns, VerdictIsConfident, SpraysNotCleared, WhitelistStands, ForgettingIsSafe, HighMeansAlert,
   SecondIsReconnect, CountersAndEvents, NewestFirstToLast, InTimeDecides, SessionHasOneClient,
   NoReplayWithoutFlood, TriggeredTokensAreKept, VerdictsAreRecent, ReportsCount, LittleIsUnsaved,
   ReportedOnce, PTL
=============================================================================
