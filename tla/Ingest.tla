------------------------------- MODULE Ingest -------------------------------
(***************************************************************************)
(* ingest_event (src/backend/services/ingest.py) and trigger_canary        *)
(* (src/backend/services/canary.py) on the rows of one address.  An event  *)
(* comes from a log watcher or from POST /log, and several of them may be  *)
(* under way; the calls of the canary webhook (Hooks) go through           *)
(* trigger_canary alone.  Geography, the token's own counters and Splunk   *)
(* are left out; the verdict of the threat scorer is LevelOf.              *)
(***************************************************************************)
EXTENDS BackendStore

CONSTANT Hooks    \* the events that are calls of the canary webhook

ASSUME HooksOK ==
    /\ Hooks \subseteq Events
    /\ \A e \in Hooks : BaitOf[e] > 0 /\ \A f \in Events \ {e} : SessionOf[f] # SessionOf[e]

VARIABLES
    done,        \* events that were committed, or failed
    cooling,     \* _last_fired: baits that fired within CANARY_INGEST_COOLDOWN_SECONDS
    shown,       \* alerts that were broadcast
    counted,     \* ghost: what total_sessions should be: commits since the profile is there
    overlapped   \* ghost: events that were under way together with another transaction

ingestVars == <<done, cooling, shown, counted, overlapped>>

Baits == Range(BaitOf) \ {0}

IngestTypeOK ==
    /\ done \in [Events -> {"no", "committed", "failed"}]
    /\ cooling \subseteq Baits
    /\ shown \subseteq Alerts
    /\ counted \subseteq Workers
    /\ overlapped \subseteq Workers

IngestInit ==
    /\ done = [e \in Events |-> "no"]
    /\ cooling = {}
    /\ shown = {}
    /\ counted = {}
    /\ overlapped = {}

Worse(a, b) == IF a >= b THEN a ELSE b
Alarm(e, level) == [session |-> SessionOf[e], level |-> level, by |-> e]
Stage(e, s) == Open(e) /\ tx[e].stage = s

\* Mutant of FirstSeen: the column's default.
FirstSeenUncounted == NewProfile

\* The profile that the first event of an address makes.
FirstSeen == [NewProfile EXCEPT !.total = 1]

\* The session as an event makes it, or as it finds it, with the event added.
NewSession(e) ==
    [kind |-> IF e \in Hooks THEN "canary" ELSE "honeypot", age |-> 0, events |-> {e}]
WithEvent(row, e) ==
    IF row = NoRow THEN NewSession(e) ELSE [row EXCEPT !.events = @ \cup {e}]

\* Begin: the profile is selected and counted up, in memory; the session has
\* not been asked for yet.
ReadProfile(e) ==
    LET mine == IF profile = NoRow THEN FirstSeen ELSE [profile EXCEPT !.total = @ + 1]
    IN  /\ ~Open(e) /\ done[e] = "no"
        /\ tx' = With(tx, e, [Transaction(SessionOf[e], NewSession(e), mine, {}, 0)
                              EXCEPT !.loadedRow = NoRow, !.stage = "opened"])
        /\ UNCHANGED <<profile, rows, alerts, done, cooling, shown>>

\* The session is selected, an await later: its list of events is copied and
\* extended, in memory. (The session of the webhook is always a new one.)
ReadSession(e) ==
    /\ Stage(e, "opened")
    /\ tx' = [tx EXCEPT ![e].stage = "read", ![e].loadedRow = RowOf(SessionOf[e]),
                        ![e].row = WithEvent(RowOf(SessionOf[e]), e)]
    /\ UNCHANGED <<profile, rows, alerts, done, cooling, shown>>

\* match_bait_token and _cooldown_active: the time of the last alarm is taken
\* down before the alarm is given. The webhook has no cooldown.
TouchBait(e) ==
    /\ Stage(e, "read") /\ BaitOf[e] > 0
    /\ IF BaitOf[e] \in cooling /\ e \notin Hooks
       THEN tx' = [tx EXCEPT ![e].stage = "baited"] /\ UNCHANGED cooling
       ELSE /\ tx' = [tx EXCEPT ![e].stage = "touched"]
            /\ cooling' = IF e \in Hooks THEN cooling ELSE cooling \cup {BaitOf[e]}
    /\ UNCHANGED <<profile, rows, alerts, done, shown>>

CooldownOver(bait) ==
    /\ bait \in cooling
    /\ cooling' = cooling \ {bait}
    /\ UNCHANGED <<dbVars, done, shown, counted, overlapped>>

\* The profile is at least of this level, in memory.
Raised(t, level, stage) ==
    [t EXCEPT !.stage = stage, !.mine.level = Worse(@, level)]

\* A flush of what there is, with a new alert.
Alerted(t, alarm) == [t EXCEPT !.lock = 2, !.alarms = @ \cup {alarm}]

\* The flush, and then the broadcast.
RaiseAlarm(e, level, stage) ==
    /\ Writable(tx[e]) /\ Compatible(e, 2)
    /\ tx' = [tx EXCEPT ![e] = Alerted(Raised(@, level, stage), Alarm(e, level))]
    /\ shown' = shown \cup {Alarm(e, level)}

\* trigger_canary. (The webhook's session is scored here, an event's later.)
TriggerCanary(e) ==
    /\ Stage(e, "touched")
    /\ RaiseAlarm(e, IF e \in Hooks THEN Worse(BaitOf[e], LevelOf[e]) ELSE BaitOf[e], "baited")
    /\ UNCHANGED <<profile, rows, alerts, done, cooling>>

\* Mutant of Score: an alert is only for those who are not known yet.
ScoreOnce(e) ==
    /\ Stage(e, IF BaitOf[e] > 0 THEN "baited" ELSE "read")
    /\ IF LevelOf[e] >= 3 /\ e \notin Hooks /\ tx[e].loaded = NoRow
       THEN RaiseAlarm(e, LevelOf[e], "scored")
       ELSE /\ tx' = [tx EXCEPT ![e] = Raised(@, LevelOf[e], "scored")]
            /\ UNCHANGED shown
    /\ UNCHANGED <<profile, rows, alerts, done, cooling>>

\* The threat scorer, the level of the profile, and the alert from level 3 on.
Score(e) ==
    /\ Stage(e, IF BaitOf[e] > 0 THEN "baited" ELSE "read")
    /\ IF LevelOf[e] >= 3 /\ e \notin Hooks
       THEN RaiseAlarm(e, LevelOf[e], "scored")
       ELSE /\ tx' = [tx EXCEPT ![e] = Raised(@, LevelOf[e], "scored")]
            /\ UNCHANGED shown
    /\ UNCHANGED <<profile, rows, alerts, done, cooling>>

CommitEvent(e) ==
    /\ Stage(e, "scored")
    /\ CommitWrites(e, tx[e].mine)
    /\ done' = [done EXCEPT ![e] = "committed"]
    /\ UNCHANGED <<cooling, shown>>

EventFails(e) ==
    /\ RollBack(e)
    /\ done' = [done EXCEPT ![e] = "failed"]
    /\ UNCHANGED <<cooling, shown>>

IngestStep(e) ==
    \/ ReadProfile(e) \/ ReadSession(e) \/ TouchBait(e) \/ TriggerCanary(e) \/ Score(e)
    \/ CommitEvent(e) \/ EventFails(e)
=============================================================================
