--------------------------- MODULE DionaeaEvents ---------------------------
(***************************************************************************)
(* One line of Dionaea's log and the events it becomes                     *)
(* (parse_dionaea_event in src/backend/services/dionaea.py), with the      *)
(* commands and credentials that ingest_event then adds to the session.    *)
(* Dionaea writes two kinds of lines: incidents, one for each thing that   *)
(* happened, and summaries of a connection.  A line of one kind may carry  *)
(* fields of the other.  Messages and details are left out.                *)
(***************************************************************************)
EXTENDS Naturals, Sequences, FiniteSets

CONSTANTS
    Texts,       \* user names and passwords
    Nothing,     \* a field that is not there
    Blank,       \* a field that is empty or white space
    MaxParts,    \* bound: commands and credentials in a line
    MaxEntries   \* bound: commands of the session, and equal credentials

ASSUME DionaeaConstantsOK ==
    /\ Nothing # Blank /\ {Nothing, Blank} \cap Texts = {}
    /\ MaxParts \in Nat \ {0} /\ MaxEntries \in Nat

VARIABLES
    line,        \* the line in hand
    tried,       \* credentials_tried of the session: how often it has each
    entered      \* how many commands the session has

dionaeaVars == <<line, tried, entered>>

Origins == {"connection", "ftp.command", "login", "query", "bind", "request", "http", "other"}
Fields == Texts \cup {Nothing, Blank}
FtpCommands == [verb : {"", "USER", "PASS"}, argument : Fields]
Credentials == [user : Fields, pass : Fields]
Lists(S, limit) == UNION {[1 .. n -> S] : n \in 0 .. limit}

\* complete: the addresses and the time are there and LogIngestRequest accepts
\* them; otherwise the line gives nothing. An incident has its command or its
\* login as the only one of the list; usable: its data has the form expected.
Raw(origins, limit) ==
    [origin : origins, usable : BOOLEAN, complete : BOOLEAN,
     commands : Lists(FtpCommands, limit), credentials : Lists(Credentials, limit)]
RawEvents == Raw({"none"}, MaxParts) \cup Raw(Origins, 1)
NoLine == [origin |-> "none", usable |-> FALSE, complete |-> FALSE,
           commands |-> <<>>, credentials |-> <<>>]

\* An event, with the place in the line it comes from: the line itself, one of its
\* commands, or one of its credentials. (LogWatcher has the order of events.)
Payload(at, input, credential) == [at |-> at, input |-> input, credential |-> credential]
Self == <<"line", 0>>
NoCredential == [user |-> Nothing, pass |-> Nothing]

DionaeaTypeOK ==
    /\ line \in Raw(Origins \cup {"none"}, MaxParts)
    /\ tried \in [Credentials -> Nat]
    /\ entered \in Nat

\* _optional_text, and a user name or password that is only what it is if there.
OptionalText(v) == IF v = Blank THEN Nothing ELSE v
ArgumentOf(c, verb) == IF c.verb = verb THEN c.argument ELSE Nothing

HasCommand(raw) == raw.commands # <<>> /\ Head(raw.commands).verb # ""

\* Only the FTP commands and the logins of any protocol carry credentials.
IncidentCredential(raw) ==
    IF raw.origin = "ftp.command"
    THEN [user |-> OptionalText(ArgumentOf(Head(raw.commands), "USER")),
          pass |-> OptionalText(ArgumentOf(Head(raw.commands), "PASS"))]
    ELSE IF raw.origin = "login" /\ raw.credentials # <<>>
    THEN [user |-> OptionalText(Head(raw.credentials).user),
          pass |-> OptionalText(Head(raw.credentials).pass)]
    ELSE NoCredential

IncidentInput(raw) ==
    \/ raw.origin \in {"ftp.command", "bind", "request"}
    \/ raw.origin \in {"query", "http"} /\ HasCommand(raw)

\* _parse_incident_event. An incident without its command gives nothing, and the
\* line is then looked at as a summary.
ParseIncident(raw) ==
    IF \/ ~raw.usable \/ raw.origin = "none"
       \/ raw.origin = "ftp.command" /\ ~HasCommand(raw)
    THEN {}
    ELSE {Payload(Self, IncidentInput(raw), IncidentCredential(raw))}

\* Mutant of Explicit: only the first entry is looked at.
ExplicitFirst(raw) == raw.credentials # <<>> /\ Head(raw.credentials).user # Nothing

\* has_explicit_credentials: even one that is blank.
Explicit(raw) ==
    \E i \in DOMAIN raw.credentials :
      raw.credentials[i].user # Nothing \/ raw.credentials[i].pass # Nothing

\* _parse_ftp_command_events: here a blank argument is an argument.
CommandCredential(raw, c) ==
    IF Explicit(raw) THEN NoCredential
    ELSE [user |-> ArgumentOf(c, "USER"), pass |-> ArgumentOf(c, "PASS")]

FtpCommandEvents(raw) ==
    {Payload(<<"command", i>>, TRUE, CommandCredential(raw, raw.commands[i])) :
       i \in {j \in DOMAIN raw.commands : raw.commands[j].verb # ""}}

\* _parse_credential_events.
LoginCredential(l) == [user |-> OptionalText(l.user), pass |-> OptionalText(l.pass)]

CredentialEvents(raw) ==
    {Payload(<<"login", i>>, FALSE, LoginCredential(raw.credentials[i])) :
       i \in {j \in DOMAIN raw.credentials :
               raw.credentials[j].user \in Texts \/ raw.credentials[j].pass \in Texts}}

\* parse_dionaea_event: the incident, or the connection with all that was done in it.
ParseEvent(raw) ==
    IF ~raw.complete THEN {}
    ELSE IF ParseIncident(raw) # {} THEN ParseIncident(raw)
    ELSE {Payload(Self, FALSE, NoCredential)} \cup FtpCommandEvents(raw) \cup CredentialEvents(raw)

-----------------------------------------------------------------------------
DionaeaInit == line = NoLine /\ tried = [c \in Credentials |-> 0] /\ entered = 0

HoneypotLogs ==
    /\ line = NoLine
    /\ entered < MaxEntries /\ \A c \in Credentials : tried[c] < MaxEntries
    /\ line' \in RawEvents
    /\ UNCHANGED <<tried, entered>>

IsCredential(p) == p.credential # NoCredential

\* What ingest_event adds to the session for the events of the line.
IngestLine ==
    LET events == ParseEvent(line)
    IN  /\ line # NoLine
        /\ tried' = [c \in Credentials |->
                       tried[c] + Cardinality({p \in events : IsCredential(p) /\ p.credential = c})]
        /\ entered' = entered + Cardinality({p \in events : p.input})
        /\ line' = NoLine

DionaeaNext == HoneypotLogs \/ IngestLine

DionaeaSpec == DionaeaInit /\ [][DionaeaNext]_dionaeaVars

-----------------------------------------------------------------------------
\* Where a user name is reported from, and where the line has it.
Reported(t) == {p.at : p \in {q \in ParseEvent(line) : q.credential.user = t}}
Listed(t) == {<<"login", i>> : i \in {j \in DOMAIN line.credentials : line.credentials[j].user = t}}
Commanded(t) ==
    {<<"command", i>> :
       i \in {j \in DOMAIN line.commands : ArgumentOf(line.commands[j], "USER") = t}}

\* A user name in a summary is reported from the places where it was tried, each
\* once: from the list of credentials if that has it, else from the USER
\* commands; never from both, and lost only if the list has an entry that does
\* not name it (a blank one is enough).
CredentialsOnce ==
    line.complete /\ ParseIncident(line) = {} =>
      \A t \in Texts :
        /\ Reported(t) = Listed(t) \/ (Listed(t) = {} /\ Reported(t) = Commanded(t))
        /\ Commanded(t) # {} /\ Reported(t) = {} => Explicit(line)
=============================================================================
