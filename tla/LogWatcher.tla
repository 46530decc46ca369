----------------------------- MODULE LogWatcher -----------------------------
(***************************************************************************)
(* watch_cowrie_log and watch_dionaea_log with the functions that process  *)
(* a line (src/backend/services/cowrie.py, dionaea.py): the backend polls  *)
(* a log that a honeypot appends to, in another process, and ingests every *)
(* event it finds there.  The two watchers differ in the number of JSON    *)
(* objects a line may hold.                                                *)
(*                                                                         *)
(* An event is its number in the order of writing; events with the same    *)
(* key in _seen_events (session, kind, time and input) are named by one of *)
(* them.  A file is a sequence of half lines, so that a line can be read   *)
(* while it is being written; a position in it counts them.  A log that    *)
(* does not exist yet is one that is not polled yet.                       *)
(***************************************************************************)
EXTENDS Naturals, SequencesExt

CONSTANTS
    MaxPerLine,    \* events in one line: 1 for Cowrie, more for Dionaea
    Poison,        \* events whose ingestion always fails
    TornWrites,    \* may the reader see half a line?
    MaxSeen,       \* the 100_000 of _seen_events
    NoOffset,      \* None, the offset before the first poll
    MaxEvents,     \* bound: events written
    Key,           \* event_key, as one of the events that have it
    MaxFaults      \* bound: failures, replacements of the log, restarts

ASSUME WatcherConstantsOK ==
    /\ MaxPerLine \in Nat \ {0}
    /\ Poison \subseteq Nat
    /\ TornWrites \in BOOLEAN
    /\ MaxSeen \in Nat
    /\ NoOffset \notin Nat
    /\ MaxEvents \in Nat
    /\ Key \in [1 .. MaxEvents -> 1 .. MaxEvents]
    /\ MaxFaults \in Nat

VARIABLES
    written,     \* events written so far
    file,        \* the log at its path
    opened,      \* the watcher's handle: none, on the path, on a replaced file
    old,         \* the replaced file that is still open
    offset,      \* offset, or NoOffset
    todo,        \* events of the line in hand, not yet looked at
    seen,        \* _seen_events: keys
    ingested,    \* events committed, in order
    faults,      \* how much has gone wrong
    start,       \* ghost: where the watcher first began to read
    calm,        \* ghost: no restart, replacement or torn line so far
    failed,      \* ghost: events whose processing raised
    forgotten    \* ghost: keys taken out of _seen_events

logVars == <<written, file>>
handleVars == <<opened, old, offset>>
vars == <<logVars, handleVars, todo, seen, ingested, faults, start, calm, failed, forgotten>>

Events == 1 .. MaxEvents
HalfLines == [events : Seq(Events), half : {"head", "tail"}]
Offsets == 0 .. 2 * MaxEvents

TypeOK ==
    /\ written \in 0 .. MaxEvents
    /\ file \in Seq(HalfLines) /\ old \in Seq(HalfLines)
    /\ opened \in {"nothing", "path", "replaced"}
    /\ offset \in Offsets \cup {NoOffset}
    /\ todo \in Seq(Events)
    /\ seen \subseteq Events /\ Cardinality(seen) <= MaxSeen
    /\ ingested \in Seq(Events)
    /\ faults \in 0 .. MaxFaults
    /\ start \in Offsets
    /\ calm \in BOOLEAN
    /\ failed \subseteq Events
    /\ forgotten \subseteq Events

Init ==
    /\ written = 0
    /\ file = <<>> /\ old = <<>>
    /\ opened = "nothing"
    /\ offset = NoOffset
    /\ todo = <<>>
    /\ seen = {}
    /\ ingested = <<>>
    /\ faults = 0
    /\ start = 0
    /\ calm = TRUE
    /\ failed = {}
    /\ forgotten = {}

-----------------------------------------------------------------------------
(* The honeypot and its log. *)

Unfinished == file # <<>> /\ Last(file).half = "head"
Halves(line) == << [events |-> line, half |-> "head"], [events |-> line, half |-> "tail"] >>

WriteLine(n) ==
    LET line == [i \in 1 .. n |-> written + i] IN
    /\ ~Unfinished /\ written + n <= MaxEvents
    /\ written' = written + n
    /\ \/ file' = file \o Halves(line)
       \/ TornWrites /\ file' = Append(file, Halves(line)[1])
    /\ UNCHANGED <<handleVars, todo, seen, ingested, faults, start, calm, failed, forgotten>>

FinishLine ==
    /\ Unfinished
    /\ file' = Append(file, Halves(Last(file).events)[2])
    /\ UNCHANGED <<written, handleVars, todo, seen, ingested, faults, start, calm,
                   failed, forgotten>>

Fault == faults < MaxFaults /\ faults' = faults + 1

\* Rotation, or a trim that keeps the last lines. The watcher reads on in the
\* file it has open.
ReplaceLog ==
    /\ ~Unfinished /\ file # <<>> /\ Fault
    /\ \E k \in 1 .. Len(file) \div 2 : file' = SubSeq(file, 2 * k + 1, Len(file))
    /\ opened' = IF opened = "path" THEN "replaced" ELSE opened
    /\ old' = IF opened = "path" THEN file ELSE old
    /\ calm' = FALSE
    /\ UNCHANGED <<written, offset, todo, seen, ingested, start, failed, forgotten>>

-----------------------------------------------------------------------------
(* The watcher. *)

\* Mutant of Poll: the offset is not kept from poll to poll.
PollFromEnd ==
    /\ opened = "nothing"
    /\ opened' = "path"
    /\ offset' = Len(file)
    /\ start' = IF offset = NoOffset THEN Len(file) ELSE start
    /\ UNCHANGED <<logVars, old, todo, seen, ingested, faults, calm, failed, forgotten>>

\* The file is opened: at its end the first time, at its beginning if it has
\* become shorter, and otherwise where the last poll left off.
Poll ==
    /\ opened = "nothing"
    /\ opened' = "path"
    /\ offset' = CASE offset = NoOffset -> Len(file)
                   [] offset # NoOffset /\ Len(file) < offset -> 0
                   [] OTHER -> offset
    /\ start' = IF offset = NoOffset THEN Len(file) ELSE start
    /\ UNCHANGED <<logVars, old, todo, seen, ingested, faults, calm, failed, forgotten>>

Content == IF opened = "replaced" THEN old ELSE file

\* readline: a whole line; what there is of the last line; or, where a torn or
\* replaced line ended, the rest of it. Only whole objects at its beginning are
\* decoded, and the offset is past the line before it is looked at.
ReadLine ==
    /\ opened # "nothing" /\ todo = <<>> /\ offset < Len(Content)
    /\ LET next == Content[offset + 1] IN
       \/ /\ next.half = "head" /\ offset + 1 < Len(Content)
          /\ offset' = offset + 2
          /\ todo' = next.events
          /\ UNCHANGED calm
       \/ /\ next.half = "head" /\ offset + 1 = Len(Content)
          /\ offset' = offset + 1
          /\ todo' = Front(next.events)
          /\ calm' = FALSE
       \/ /\ next.half = "tail"
          /\ offset' = offset + 1
          /\ UNCHANGED <<todo, calm>>
    /\ UNCHANGED <<logVars, opened, old, seen, ingested, faults, start, failed, forgotten>>

CloseFile == opened' = "nothing" /\ old' = <<>>

EndOfFile ==
    /\ opened # "nothing" /\ todo = <<>> /\ offset = Len(Content)
    /\ CloseFile
    /\ UNCHANGED <<logVars, offset, todo, seen, ingested, faults, start, calm, failed,
                   forgotten>>

\* readline raises, for instance at a character of which the end is not written
\* yet: the offset stays, and the next poll reads the line again.
ReadFails ==
    /\ opened # "nothing" /\ todo = <<>> /\ offset < Len(Content) /\ Fault
    /\ CloseFile
    /\ UNCHANGED <<logVars, offset, todo, seen, ingested, start, calm, failed, forgotten>>

\* An event whose key was seen before is skipped.
SkipSeen ==
    /\ todo # <<>> /\ Key[Head(todo)] \in seen
    /\ todo' = Tail(todo)
    /\ UNCHANGED <<logVars, handleVars, seen, ingested, faults, start, calm, failed, forgotten>>

\* Mutant of MarkSeen: the set is never cleared.
MarkForever(e) == seen' = seen \cup {Key[e]} /\ UNCHANGED forgotten

\* Mutant of MarkSeen: nothing is remembered.
MarkNothing(e) == UNCHANGED <<seen, forgotten>>

\* _seen_events.add, and the clear when there are too many.
MarkSeen(e) ==
    LET marked == seen \cup {Key[e]} IN
    IF Cardinality(marked) > MaxSeen
      THEN seen' = {} /\ forgotten' = forgotten \cup marked
      ELSE seen' = marked /\ UNCHANGED forgotten

Ingest ==
    LET e == Head(todo) IN
    /\ todo # <<>> /\ Key[e] \notin seen /\ e \notin Poison
    /\ MarkSeen(e)
    /\ ingested' = Append(ingested, e)
    /\ todo' = Tail(todo)
    /\ UNCHANGED <<logVars, handleVars, faults, start, calm, failed>>

MayFail(e) ==
    \/ e \in Poison /\ UNCHANGED faults
    \/ e \notin Poison /\ Fault

\* Mutant of IngestFails: the line is tried again at the next poll.
IngestRetried ==
    LET e == Head(todo) IN
    /\ todo # <<>> /\ Key[e] \notin seen
    /\ MayFail(e)
    /\ offset' = IF offset < 2 THEN 0 ELSE offset - 2
    /\ failed' = failed \cup {e}
    /\ todo' = <<>>
    /\ CloseFile
    /\ UNCHANGED <<logVars, seen, forgotten, ingested, start, calm>>

\* A field does not parse, or the transaction is rolled back: the exception ends
\* the poll, and the next poll goes on behind the line.
IngestFails ==
    LET e == Head(todo) IN
    /\ todo # <<>> /\ Key[e] \notin seen
    /\ MayFail(e)
    /\ MarkSeen(e) \/ UNCHANGED <<seen, forgotten>>
    /\ failed' = failed \cup {e}
    /\ todo' = <<>>
    /\ CloseFile
    /\ UNCHANGED <<logVars, offset, ingested, start, calm>>

\* The backend is restarted, perhaps in the middle of a line.
Restart ==
    /\ Fault
    /\ offset' = NoOffset
    /\ CloseFile
    /\ todo' = <<>>
    /\ seen' = {}
    /\ forgotten' = forgotten \cup seen
    /\ calm' = FALSE
    /\ UNCHANGED <<logVars, ingested, start, failed>>

-----------------------------------------------------------------------------
Honeypot == (\E n \in 1 .. MaxPerLine : WriteLine(n)) \/ FinishLine
Process == SkipSeen \/ Ingest \/ IngestFails

Next ==
    \/ Honeypot \/ ReplaceLog \/ Restart
    \/ Poll \/ ReadLine \/ ReadFails \/ EndOfFile \/ Process

Spec == Init /\ [][Next]_vars

(* The watcher's task is never blocked: every wait of it is a sleep of the *)
(* poll interval or an ingestion, which commits or raises. Nothing makes   *)
(* the honeypot write, or finish a line.                                   *)
FairSpec == Spec /\ WF_vars(Poll \/ ReadLine \/ EndOfFile \/ Process)

-----------------------------------------------------------------------------
(* Properties. *)

EventsIn(c) == UNION {ToSet(c[i].events) : i \in {j \in DOMAIN c : c[j].half = "head"}}
Passed == IF offset = NoOffset THEN {} ELSE EventsIn(SubSeq(file, start + 1, offset))
SameLine(e, f) == \E i \in DOMAIN file : {e, f} \subseteq ToSet(file[i].events)
Shadowed(e) == \E f \in ToSet(ingested) \cup failed : f # e /\ Key[f] = Key[e]

\* However polls, appends and failures interleave: what the watcher has passed is
\* ingested in the order of writing, and an event is missing only if it, or an
\* earlier one on the same line, raised, or if another event has its key. A
\* readline that raises costs nothing. (Restarts, replaced logs and torn lines lose
\* events without any of these.)
FailureCostsOneLine ==
    calm =>
      /\ \A e \in Passed \ ToSet(ingested \o todo) :
           Shadowed(e) \/ \E f \in failed : f <= e /\ SameLine(e, f)
      /\ \A i, j \in DOMAIN (ingested \o todo) :
           i < j => (ingested \o todo)[i] < (ingested \o todo)[j]

\* cowrie.py:104, "Skip duplicate ingestion on log rotation re-read": whatever
\* happens to the log, an event is ingested twice only if the watcher has
\* forgotten its key, because the set was full or the backend restarted.
IngestedOnce ==
    \A i, j \in DOMAIN ingested :
      i < j /\ ingested[i] = ingested[j] => Key[ingested[i]] \in forgotten

\* No event, however often its ingestion fails, and no readline that raises for a
\* while keeps the watcher from reaching the end of the log.
CatchesUp == []<>(todo = <<>> /\ offset = Len(file))

\* docs-site/dev/testing-and-quality.md:13, "no events dropped or corrupted during
\* the ingest pipeline": at the end of a line all of it is ingested.
NoEventDropped == calm /\ todo = <<>> => Passed \subseteq ToSet(ingested)
=============================================================================
