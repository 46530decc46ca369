---------------------------- MODULE BackendStore ----------------------------
(***************************************************************************)
(* What PostgreSQL keeps about ONE address (src/backend/models.py) and how *)
(* the backend's requests use it (get_db and get_db_context in             *)
(* src/backend/database.py): each request is one transaction at READ       *)
(* COMMITTED.  An object is loaded once; what the request changes is kept  *)
(* in memory (autoflush is off) and written when it flushes or commits,    *)
(* and only columns that differ from what was loaded are written.          *)
(*                                                                         *)
(* A flush holds its locks on the profile's row until the end: 1 for a new *)
(* row that refers to it, 2 to insert or update it, 3 to delete it.  Two   *)
(* locks are compatible if their sum is at most 3.  Because of them it is  *)
(* enough to apply everything a transaction has written when it commits.   *)
(***************************************************************************)
EXTENDS Naturals, Sequences, FiniteSets, Functions

CONSTANTS
    Conns,       \* gateway connections from the address; also their session rows
    Events,      \* honeypot events of the address, and calls of the canary webhook
    SessionOf,   \* the session row an event belongs to
    LevelOf,     \* the level the threat scorer gives to the session at an event
    BaitOf,      \* the difficulty of the bait an event touches, 0 for none
    NoRow        \* what SELECT finds when there is nothing

ASSUME StoreValuesOK ==
    /\ Conns \cap Events = {}
    /\ SessionOf \in [Events -> Range(SessionOf)] /\ Range(SessionOf) \cap Conns = {}
    /\ LevelOf \in [Events -> 0 .. 4]
    /\ BaitOf \in [Events -> 0 .. 4]

VARIABLES
    profile,   \* the row of attacker_profiles
    rows,      \* the rows of session_logs
    alerts,    \* the rows of alerts
    tx         \* the open transactions

dbVars == <<profile, rows, alerts, tx>>

Workers == Conns \cup Events
Ids == Conns \cup Range(SessionOf)
Levels == 0 .. 4
Profiles == [total : Nat, level : Levels]
NewProfile == [total |-> 0, level |-> 0]

\* age: less than a minute, less than five, older.
Rows == [kind : {"gateway", "honeypot", "canary"}, age : 0 .. 2, events : SUBSET Events]
Alerts == [session : Ids, level : Levels, by : Events]

ASSUME NoRowOK == NoRow \notin Profiles \cup Rows

Stages == {"opened", "read", "touched", "baited", "scored"}
Transactions ==
    [loaded : Profiles \cup {NoRow}, mine : Profiles,
     id : Ids, loadedRow : Rows \cup {NoRow}, row : Rows,
     removes : SUBSET Conns, alarms : SUBSET Alerts, lock : 0 .. 3, stage : Stages]

DbTypeOK ==
    /\ profile \in Profiles \cup {NoRow}
    /\ DOMAIN rows \subseteq Ids /\ Range(rows) \subseteq Rows
    /\ alerts \subseteq Alerts
    /\ DOMAIN tx \subseteq Workers /\ Range(tx) \subseteq Transactions

DbInit ==
    /\ profile = NoRow
    /\ rows = <<>>
    /\ alerts = {}
    /\ tx = <<>>

-----------------------------------------------------------------------------
RowOf(id) == IF id \in DOMAIN rows THEN rows[id] ELSE NoRow
Open(w) == w \in DOMAIN tx
With(f, x, y) == [i \in DOMAIN f \cup {x} |-> IF i = x THEN y ELSE f[i]]
Without(f, S) == Restrict(f, DOMAIN f \ S)

\* A transaction that has read the profile and the row with this id.
Transaction(id, row, mine, removes, lock) ==
    [loaded |-> profile, mine |-> mine, id |-> id, loadedRow |-> RowOf(id), row |-> row,
     removes |-> removes, alarms |-> {}, lock |-> lock, stage |-> "read"]

Compatible(w, lock) == \A v \in DOMAIN tx \ {w} : tx[v].lock + lock <= 3

\* An INSERT of a row that has appeared meanwhile violates the primary key, an
\* UPDATE of one that has gone affects no row: SQLAlchemy raises.
Writable(t) ==
    /\ (t.loaded = NoRow) <=> (profile = NoRow)
    /\ (t.loadedRow = NoRow) <=> (t.id \notin DOMAIN rows)

\* The columns that the transaction has changed, over what is there now.
Column(old, loaded, mine) == IF mine = loaded THEN old ELSE mine
Merge(old, loaded, mine) ==
    IF loaded = NoRow THEN mine
    ELSE [total |-> Column(old.total, loaded.total, mine.total),
          level |-> Column(old.level, loaded.level, mine.level)]

Close(w) == tx' = Without(tx, {w})

\* Mutant of WrittenRow: the list is extended in place, which SQLAlchemy does not notice.
WrittenRowInPlace(t) == IF t.loadedRow = NoRow THEN t.row ELSE rows[t.id]

\* start_time is set when the row is made and never written again.
WrittenRow(t) ==
    IF t.loadedRow = NoRow THEN t.row ELSE [t.row EXCEPT !.age = rows[t.id].age]

\* COMMIT of a transaction that updates the profile and writes its row.
CommitWrites(w, mine) ==
    LET t == tx[w]
    IN  /\ Writable(t)
        /\ Compatible(w, IF mine = t.loaded THEN t.lock ELSE 2)
        /\ profile' = Merge(profile, t.loaded, mine)
        /\ rows' = With(Without(rows, t.removes), t.id, WrittenRow(t))
        /\ alerts' = alerts \cup t.alarms
        /\ Close(w)

\* Anything may raise: the transaction is rolled back.
RollBack(w) ==
    /\ Open(w)
    /\ Close(w)
    /\ UNCHANGED <<profile, rows, alerts>>
=============================================================================
