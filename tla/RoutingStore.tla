---------------------------- MODULE RoutingStore ----------------------------
(***************************************************************************)
(* src/backend/routers/routing.py: the backend's table of routing          *)
(* decisions, its JSON file, the cleanup loop, and the process that holds  *)
(* the table in memory.  A handler here never waits inside, so every       *)
(* request is one action; the save inside it is part of it.                *)
(*                                                                         *)
(* Python's dictionaries are functions on a subset of Clients.  A file     *)
(* that is missing, truncated or not JSON loads as the empty dictionary,   *)
(* so it is written here as the empty function.                            *)
(***************************************************************************)
EXTENDS Naturals, Functions

CONSTANTS
    Clients,       \* client addresses
    BypassIPs,     \* ROUTING_BYPASS_IPS
    Duration,      \* the "duration" the gateways send, DEFAULT_TTL
    MaxTime,       \* bound: clock
    MaxFaults      \* bound: failed saves and kills in the middle of a save

ASSUME StoreConstantsOK ==
    /\ BypassIPs \subseteq Clients
    /\ Duration \in Nat \ {0}
    /\ MaxTime \in Nat
    /\ MaxFaults \in Nat

VARIABLES
    now,       \* time.time()
    table,     \* _routing_table
    file,      \* what _load_from_file would read
    dirty,     \* _dirty
    running,   \* the backend process is up
    faults     \* how often the disk has failed so far

storeVars == <<now, table, file, dirty, running, faults>>

Targets == {"real", "honeypot"}
Entries == [target : Targets, expires : 0 .. MaxTime + Duration]
Tables == UNION {[S -> Entries] : S \in SUBSET Clients}
EmptyTable == <<>>

StoreTypeOK ==
    /\ now \in 0 .. MaxTime
    /\ table \in Tables
    /\ file \in Tables
    /\ dirty \in BOOLEAN
    /\ running \in BOOLEAN
    /\ faults \in 0 .. MaxFaults

StoreInit ==
    /\ now = 0
    /\ table = EmptyTable
    /\ file = EmptyTable
    /\ dirty = FALSE
    /\ running = TRUE
    /\ faults = 0

Tick ==
    /\ now < MaxTime
    /\ now' = now + 1
    /\ UNCHANGED <<table, file, dirty, running, faults>>

-----------------------------------------------------------------------------
Fault == faults < MaxFaults /\ faults' = faults + 1

\* Entries with expires_at > now, as _load_from_file and the cleanup see them.
Unexpired(f) == Restrict(f, {ip \in DOMAIN f : f[ip].expires > now})

\* _save_to_file(t): the file is truncated, then written. An exception is
\* swallowed, and leaves either the old file or a truncated one.
Save(t) ==
    \/ file' = t /\ UNCHANGED faults
    \/ Fault /\ file' \in {file, EmptyTable}

\* Mutant of WithDecision: milliseconds where seconds are meant.
WithDecisionMillis(ip, target) ==
    [i \in DOMAIN table \cup {ip} |->
       IF i = ip THEN [target |-> target, expires |-> (now + Duration) * 1000]
                 ELSE table[i]]

WithDecision(ip, target) ==
    [i \in DOMAIN table \cup {ip} |->
       IF i = ip THEN [target |-> target, expires |-> now + Duration] ELSE table[i]]

\* Mutant of SetRouting: the save is left to the cleanup loop.
SetRoutingUnsaved(ip, target) ==
    /\ running
    /\ table' = WithDecision(ip, target)
    /\ dirty' = TRUE
    /\ UNCHANGED <<now, file, running, faults>>

\* POST /routing/decision. _dirty is cleared whether or not the save worked.
SetRouting(ip, target) ==
    /\ running
    /\ table' = WithDecision(ip, target)
    /\ Save(table')
    /\ dirty' = FALSE
    /\ UNCHANGED <<now, running>>

\* Mutant of Lookup: an entry is good as long as it is there.
LookupStale(ip) ==
    IF ip \in BypassIPs THEN "real"
    ELSE IF ip \in DOMAIN table THEN table[ip].target ELSE "unknown"

\* GET /routing/decision/{ip}: the answer, and the expired entry it drops.
Lookup(ip) ==
    IF ip \in BypassIPs THEN "real"
    ELSE IF ip \in DOMAIN Unexpired(table) THEN table[ip].target ELSE "unknown"

DropExpired(ip) ==
    /\ table' = IF ip \in BypassIPs \cup DOMAIN Unexpired(table) THEN table
                ELSE Restrict(table, DOMAIN table \ {ip})
    /\ UNCHANGED <<now, file, dirty, running, faults>>

\* One round of _cleanup_loop. A round with nothing to delete and nothing
\* dirty does nothing and is no step.
Cleanup ==
    /\ running
    /\ dirty \/ Unexpired(table) # table
    /\ table' = Unexpired(table)
    /\ Save(table')
    /\ dirty' = FALSE
    /\ UNCHANGED <<now, running>>

\* The process ends between two requests...
Stop ==
    /\ running
    /\ running' = FALSE
    /\ table' = EmptyTable
    /\ dirty' = FALSE
    /\ UNCHANGED <<now, file, faults>>

\* ...or while it saves, after the file was truncated and before it is written.
KilledInSave ==
    /\ running /\ Fault
    /\ running' = FALSE
    /\ table' = EmptyTable
    /\ file' = EmptyTable
    /\ dirty' = FALSE
    /\ UNCHANGED now

\* _load_from_file at import.
Start ==
    /\ ~running
    /\ running' = TRUE
    /\ table' = Unexpired(file)
    /\ UNCHANGED <<now, file, dirty, faults>>
=============================================================================
