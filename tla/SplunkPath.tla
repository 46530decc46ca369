----------------------------- MODULE SplunkPath -----------------------------
(***************************************************************************)
(* Sessions on their way to Splunk: the forwarder of the backend           *)
(* (src/backend/services/splunk_forwarder.py) sends each event once, while *)
(* it is ingested; every start of the backend sends the oldest sessions    *)
(* again, and an operator may (src/backend/routers/splunk.py).  The        *)
(* collector is src/splunk-hec-mock/server.py, one thread that keeps a     *)
(* bounded list and writes it to a file now and then.                      *)
(***************************************************************************)
EXTENDS Naturals, Sequences, SequencesExt

CONSTANTS
    Unreadable,     \* a file that was being written when the collector was killed
    MaxBatch,       \* MAX_BATCH: sessions of one synchronisation
    KeepEvents,     \* the 5000 events the collector keeps
    SaveEvery,      \* it saves when it has a multiple of 10
    MaxLogged,      \* bound: sessions
    MaxForwards     \* bound: events sent

\* The list stays at its limit once it is full, so the limit must be a multiple
\* too: otherwise a full collector would never save again.
ASSUME SplunkConstantsOK ==
    /\ {MaxBatch, KeepEvents, SaveEvery} \subseteq Nat \ {0}
    /\ KeepEvents % SaveEvery = 0
    /\ MaxLogged \in Nat /\ MaxForwards \in Nat

VARIABLES
    logged,        \* sessions in the database, numbered by start_time
    pending,       \* what a running synchronisation has still to send
    totalSent,     \* total_sent + total_failed
    collector,     \* is the collector up?
    kept,          \* its _events, as session numbers
    file           \* EVENTS_FILE

splunkVars == <<logged, pending, totalSent, collector, kept, file>>

SplunkTypeOK ==
    /\ logged \in 0 .. MaxLogged /\ totalSent \in 0 .. MaxForwards
    /\ pending \in Seq(1 .. MaxLogged)
    /\ collector \in {"up", "down"}
    /\ kept \in Seq(1 .. MaxLogged) /\ Len(kept) <= KeepEvents
    /\ file = Unreadable \/ file \in Seq(1 .. MaxLogged)

SplunkInit ==
    /\ logged = 0 /\ totalSent = 0
    /\ pending = <<>>
    /\ collector = "up"
    /\ kept = <<>> /\ file = <<>>

-----------------------------------------------------------------------------
\* Mutant of SavesAfter: a full list is not saved.
SavesUnlessFull(events) == Len(events) < KeepEvents /\ Len(events) % SaveEvery = 0

\* The file is written when the list has a multiple of SaveEvery.
SavesAfter(events) == Len(events) % SaveEvery = 0

Shortened(events) ==
    IF Len(events) > KeepEvents THEN SubSeq(events, Len(events) - KeepEvents + 1, Len(events))
    ELSE events

\* _handle_hec_post with the right token and readable JSON.
ReceiveEvent(n) ==
    LET events == Shortened(Append(kept, n))
    IN  /\ kept' = events
        /\ file' = IF SavesAfter(events) THEN events ELSE file

\* send_event: one POST. It succeeds if the collector is up and answers.
SendEvent(n) ==
    /\ totalSent < MaxForwards
    /\ totalSent' = totalSent + 1
    /\ IF collector = "up" THEN ReceiveEvent(n) ELSE UNCHANGED <<kept, file>>
    /\ UNCHANGED collector

\* ingest_event forwards the event of a session; what fails is not sent again.
ForwardEvent ==
    /\ logged < MaxLogged
    /\ logged' = logged + 1
    /\ SendEvent(logged + 1)
    /\ UNCHANGED pending

\* splunk_startup_sync, after up to five health checks whose outcome does not
\* matter, and POST /splunk/sync: the oldest MAX_BATCH sessions. A restart of
\* the backend ends a synchronisation that is running.
StartSync ==
    LET batch == IF logged > MaxBatch THEN MaxBatch ELSE logged
    IN  /\ logged > 0 /\ totalSent < MaxForwards
        /\ pending' = [i \in 1 .. batch |-> i]
        /\ UNCHANGED <<logged, totalSent, collector, kept, file>>

\* _sync_sessions: each session in its turn, whatever became of those before.
SyncNext ==
    /\ pending # <<>>
    /\ SendEvent(Head(pending))
    /\ pending' = Tail(pending)
    /\ UNCHANGED logged

\* docker stop is SIGTERM, which the collector does not catch: a kill. While it
\* saves, the file has already been emptied. Only an interrupt saves.
CollectorKilled ==
    /\ collector = "up"
    /\ collector' = "down" /\ kept' = <<>>
    /\ UNCHANGED <<logged, pending, totalSent, file>>

CollectorKilledSaving ==
    /\ collector = "up" /\ SavesAfter(kept) /\ kept # <<>>
    /\ collector' = "down" /\ kept' = <<>> /\ file' = Unreadable
    /\ UNCHANGED <<logged, pending, totalSent>>

CollectorInterrupted ==
    /\ collector = "up"
    /\ collector' = "down" /\ kept' = <<>> /\ file' = kept
    /\ UNCHANGED <<logged, pending, totalSent>>

\* _load_events.
CollectorStarts ==
    /\ collector = "down"
    /\ collector' = "up"
    /\ kept' = IF file = Unreadable THEN <<>> ELSE file
    /\ UNCHANGED <<logged, pending, totalSent, file>>

SplunkNext ==
    \/ ForwardEvent \/ StartSync \/ SyncNext
    \/ CollectorKilled \/ CollectorKilledSaving \/ CollectorInterrupted \/ CollectorStarts

SplunkSpec == SplunkInit /\ [][SplunkNext]_splunkVars

-----------------------------------------------------------------------------
\* A kill of the collector loses few events, if it does not come while the
\* file is being written: what a running collector has beyond its file is less
\* than SaveEvery events, also when the list is full and forgets its oldest.
FewEventsUnsaved ==
    collector = "up" /\ file # Unreadable =>
      IsPrefix(file, kept) /\ Len(kept) - Len(file) < SaveEvery
=============================================================================
