----------------------- MODULE AttackerRecordsProofs -----------------------
(***************************************************************************)
(* Proofs about the rows of one address under its two writers, for any     *)
(* connections, events, sessions, levels and baits, and any number of them *)
(* that come up.                                                           *)
(***************************************************************************)
EXTENDS AttackerRecords, FiniteSetTheorems, TLAPS

-----------------------------------------------------------------------------
(* The inductive invariant, in parts. *)

\* Types, and what the two kinds of transactions look like: a question writes
\* the profile as it read it and a gateway row, an event has counted itself.
RowsOK ==
    /\ profile \in Profiles \cup {NoRow}
    /\ DOMAIN rows \subseteq Ids
    /\ \A id \in DOMAIN rows :
         rows[id] \in Rows /\ (rows[id].kind = "gateway" => id \in Conns)
    /\ alerts \subseteq Alerts

Question(k, t) ==
    /\ t.id \in Conns
    /\ t.mine = IF t.loaded = NoRow THEN NewProfile ELSE t.loaded
    /\ t.row = GatewayRow
    /\ t.alarms = {}

Event(e, t) ==
    /\ t.id = SessionOf[e]
    /\ t.mine.total = IF t.loaded = NoRow THEN 1 ELSE t.loaded.total + 1
    /\ t.removes = {}
    /\ t.row.kind # "gateway"
    /\ e \in t.row.events
    /\ e \in Hooks /\ t.stage = "baited" => t.mine.level >= LevelOf[e]

TransactionOK(w, t) ==
    /\ t \in Transactions
    /\ w \in Conns => Question(w, t)
    /\ w \in Events => Event(w, t)

TxOK == DOMAIN tx \subseteq Workers /\ \A w \in DOMAIN tx : TransactionOK(w, tx[w])

\* An address without a profile has no rows, and nothing counts for it.
NoProfileNoRows == profile = NoRow => DOMAIN rows = {} /\ alerts = {} /\ counted = {}

\* A high level was there before, or an alarm of the transaction is behind it;
\* what is in an alarm has been shown.
AlarmOK(t) ==
    /\ t.alarms \subseteq shown
    /\ t.mine.level >= 3 =>
         \/ t.loaded # NoRow /\ t.loaded.level = t.mine.level
         \/ \E a \in t.alarms : a.level >= 3
AlarmsBehindLevels == \A w \in DOMAIN tx : AlarmOK(tx[w])

\* One answer for each connection and each event.
AnswersOK ==
    /\ asked \in [Conns -> 0 .. 2]
    /\ verdict \in [Conns -> {"none", "inconclusive", "real", "honeypot", "gone"}]
    /\ reconnected \in [Conns -> BOOLEAN]
    /\ done \in [Events -> {"no", "committed", "failed"}]

\* Where a connection is with its questions.
QuestionsOK ==
    \A k \in Conns :
      /\ asked[k] = 0 => verdict[k] = "none"
      /\ Open(k) => \/ asked[k] = 1 /\ verdict[k] = "none"
                    \/ asked[k] = 2 /\ verdict[k] = "inconclusive"
      /\ Open(k) /\ asked[k] = 1 => tx[k].id = k /\ tx[k].loadedRow = NoRow

\* A connection's row is fresh until it has its verdict, and there is none
\* before its first answer.
Unsettled(k) == verdict[k] \in {"none", "inconclusive"}
RowsOfUnsettled ==
    \A k \in Conns :
      /\ k \in DOMAIN rows => verdict[k] # "none"
      /\ k \in DOMAIN rows /\ Unsettled(k) => rows[k].age = 0
      /\ \A l \in Conns : Open(l) /\ k \in tx[l].removes => ~Unsettled(k)
      /\ \A l \in Conns : Open(l) /\ l # k /\ tx[l].id = k => tx[l].loadedRow # NoRow

OtherReal(k) == \E l \in Conns \ {k} : verdict[l] = "real"
FirstRowStays ==
    \A k \in Conns :
      verdict[k] = "inconclusive" => k \in DOMAIN rows \/ OtherReal(k)

\* Who counts is done; who is open does not count yet.
GhostsOK ==
    /\ IsFiniteSet(DOMAIN tx) /\ IsFiniteSet(counted)
    /\ \A e \in Events : (Open(e) => done[e] = "no") /\ (e \in counted => done[e] = "committed")
    /\ \A k \in Conns : k \in counted => verdict[k] = "honeypot"

\* Unless a profile was deleted, no transaction has read a higher total than
\* there are commits.
SomeReal == \E k \in Conns : verdict[k] = "real"
LoadedBelowCount ==
    ~SomeReal =>
      \A w \in DOMAIN tx :
        tx[w].loaded # NoRow => profile # NoRow /\ tx[w].loaded.total <= Cardinality(counted)

\* Two transactions that are open together overlap, and alone a transaction
\* has read what is there.
OverlapSeen == \A v, w \in DOMAIN tx : v # w => v \in overlapped
AloneIsCurrent == overlapped = {} => \A w \in DOMAIN tx : tx[w].loaded = profile

\* A counted event that did not overlap is in what later events have read.
LaterEventsHaveIt ==
    \A e \in (counted \cap Events) \ overlapped : \A f \in DOMAIN tx \cap Events :
      SessionOf[f] = SessionOf[e] /\ tx[f].stage # "opened" => e \in tx[f].row.events

RecInv ==
    /\ RowsOK /\ TxOK /\ AnswersOK /\ NoProfileNoRows
    /\ ZeroMeansNoHistory
    /\ AlarmsBehindLevels /\ HighProfileHasAlert
    /\ QuestionsOK /\ RowsOfUnsettled /\ FirstRowStays /\ SecondQuestionIsReconnect
    /\ GhostsOK /\ LoadedBelowCount /\ OverlapSeen /\ AloneIsCurrent /\ LaterEventsHaveIt
    /\ CountsAndKeeps
-----------------------------------------------------------------------------
(* Tables, and the effect of each operation on the open transactions.       *)

\* Adding or replacing an entry.
LEMMA WithFacts ==
    ASSUME NEW f, NEW x, NEW y
    PROVE  /\ DOMAIN With(f, x, y) = DOMAIN f \cup {x}
           /\ With(f, x, y)[x] = y
           /\ \A i \in DOMAIN f : i # x => With(f, x, y)[i] = f[i]
BY DEF With

\* Removing entries.
LEMMA WithoutFacts ==
    ASSUME NEW f, NEW S
    PROVE  /\ DOMAIN Without(f, S) = DOMAIN f \ S
           /\ \A i \in DOMAIN f \ S : Without(f, S)[i] = f[i]
BY DEF Without, Restrict

\* The other transactions are left alone.
Started(w, t) ==
    /\ ~Open(w)
    /\ DOMAIN tx' = DOMAIN tx \cup {w} /\ tx'[w] = t
    /\ \A v \in DOMAIN tx : tx'[v] = tx[v]
    /\ UNCHANGED <<profile, rows, alerts, shown, verdict, done>>

Edited(e, t) ==
    /\ Open(e)
    /\ DOMAIN tx' = DOMAIN tx /\ tx'[e] = t
    /\ \A v \in DOMAIN tx : v # e => tx'[v] = tx[v]
    /\ shown \subseteq shown'
    /\ UNCHANGED <<profile, rows, alerts, scorerVars, done>>

Closed(w) ==
    /\ Open(w)
    /\ DOMAIN tx' = DOMAIN tx \ {w}
    /\ \A v \in DOMAIN tx : v # w => tx'[v] = tx[v]
    /\ shown' = shown

\* What a question's transaction starts with.
QuestionTx(k, t, id) ==
    /\ t \in Transactions
    /\ id \in Conns /\ t.id = id
    /\ t.loaded = profile
    /\ t.mine = (IF profile = NoRow THEN NewProfile ELSE profile)
    /\ t.loadedRow = RowOf(id) /\ t.row = GatewayRow
    /\ t.removes = StaleRows /\ t.alarms = {} /\ t.lock \in 0 .. 3 /\ t.stage = "read"

\* A record with these fields is a transaction.
LEMMA IsTransaction ==
    ASSUME NEW loaded \in Profiles \cup {NoRow}, NEW mine \in Profiles, NEW id \in Ids,
           NEW loadedRow \in Rows \cup {NoRow}, NEW row \in Rows,
           NEW removes \in SUBSET Conns, NEW alarms \in SUBSET Alerts, NEW lock \in 0 .. 3,
           NEW stage \in Stages
    PROVE  [loaded |-> loaded, mine |-> mine, id |-> id, loadedRow |-> loadedRow, row |-> row,
            removes |-> removes, alarms |-> alarms, lock |-> lock, stage |-> stage]
             \in Transactions
BY DEF Transactions

\* The fields of a transaction.
LEMMA TransactionFields ==
    ASSUME NEW t \in Transactions
    PROVE  /\ t.loaded \in Profiles \cup {NoRow} /\ t.mine \in Profiles /\ t.id \in Ids
           /\ t.loadedRow \in Rows \cup {NoRow} /\ t.row \in Rows
           /\ t.removes \subseteq Conns /\ t.alarms \subseteq Alerts
           /\ t.lock \in 0 .. 3 /\ t.stage \in Stages
BY DEF Transactions

\* The rows and profiles that the code makes.
LEMMA NewValues ==
    /\ GatewayRow \in Rows /\ GatewayRow.kind = "gateway" /\ GatewayRow.age = 0
    /\ NewProfile \in Profiles /\ NewProfile.total = 0 /\ NewProfile.level = 0
    /\ FirstSeen \in Profiles /\ FirstSeen.total = 1 /\ FirstSeen.level = 0
BY DEF GatewayRow, NewProfile, FirstSeen, Rows, Profiles, Levels

\* A row and a profile are not "nothing".
LEMMA RowsAreRows ==
    /\ \A row \in Rows : row # NoRow
    /\ \A p \in Profiles : p # NoRow
BY NoRowOK DEF NoRowOK

\* What SELECT finds.
LEMMA RowOfFacts ==
    ASSUME RowsOK, NEW id
    PROVE  /\ RowOf(id) \in Rows \cup {NoRow}
           /\ RowOf(id) = NoRow <=> id \notin DOMAIN rows
           /\ id \in DOMAIN rows => RowOf(id) = rows[id]
BY RowsAreRows DEF RowOf, RowsOK

\* Asking starts a transaction.
LEMMA BeginFacts ==
    ASSUME RowsOK, NEW k \in Conns, NEW attempt \in 1 .. 2, NEW id \in Conns, NEW lock \in 0 .. 3,
           Begin(k, attempt, id, lock), UNCHANGED <<done, shown>>
    PROVE  \E t : Started(k, t) /\ QuestionTx(k, t, id)
<1> DEFINE mine == IF profile = NoRow THEN NewProfile ELSE profile
<1> DEFINE t == Transaction(id, GatewayRow, mine, StaleRows, lock)
<1>1. tx' = With(tx, k, t) /\ ~Open(k) /\ UNCHANGED <<profile, rows, alerts, verdict>>
  BY DEF Begin
<1>2. /\ t.id = id /\ t.loaded = profile /\ t.mine = mine
      /\ t.loadedRow = RowOf(id) /\ t.row = GatewayRow
      /\ t.removes = StaleRows /\ t.alarms = {} /\ t.lock = lock /\ t.stage = "read"
  BY DEF Transaction
<1>5. t \in Transactions
  <2>1. profile \in Profiles \cup {NoRow} /\ mine \in Profiles
    BY NewValues DEF RowsOK
  <2>2. RowOf(id) \in Rows \cup {NoRow} /\ GatewayRow \in Rows
    BY RowOfFacts, NewValues
  <2>3. StaleRows \in SUBSET Conns
    BY DEF StaleRows, RowsOK
  <2>4. id \in Ids /\ {} \in SUBSET Alerts /\ "read" \in Stages
    BY DEF Ids, Stages
  <2> HIDE DEF mine
  <2> QED BY <2>1, <2>2, <2>3, <2>4, IsTransaction DEF Transaction
<1> HIDE DEF t
<1>6. QuestionTx(k, t, id)
  BY <1>2, <1>5 DEF QuestionTx
<1>3. /\ DOMAIN tx' = DOMAIN tx \cup {k} /\ tx'[k] = t
      /\ \A v \in DOMAIN tx : v # k => tx'[v] = tx[v]
  BY <1>1 DEF With
<1>4. Started(k, t)
  BY <1>1, <1>3 DEF Started, Open
<1> QED BY <1>4, <1>6

\* A transaction that goes on to another stage, and one that raises an alarm.
LEMMA NextStage ==
    ASSUME NEW t \in Transactions, NEW stage \in Stages
    PROVE  LET u == [t EXCEPT !.stage = stage]
           IN  /\ u \in Transactions /\ u.stage = stage
               /\ u.loaded = t.loaded /\ u.mine = t.mine /\ u.id = t.id
               /\ u.loadedRow = t.loadedRow /\ u.row = t.row
               /\ u.removes = t.removes /\ u.alarms = t.alarms
BY DEF Transactions

\* A transaction that raises the level of the profile...
LEMMA RaisedFacts ==
    ASSUME NEW t \in Transactions, NEW stage \in Stages, NEW level \in Levels
    PROVE  /\ Raised(t, level, stage) \in Transactions
           /\ Raised(t, level, stage).stage = stage
           /\ Raised(t, level, stage).loaded = t.loaded
           /\ Raised(t, level, stage).id = t.id
           /\ Raised(t, level, stage).mine.total = t.mine.total
           /\ Raised(t, level, stage).mine.level = Worse(t.mine.level, level)
           /\ Raised(t, level, stage).loadedRow = t.loadedRow
           /\ Raised(t, level, stage).row = t.row
           /\ Raised(t, level, stage).removes = t.removes
           /\ Raised(t, level, stage).alarms = t.alarms
<1> DEFINE worse == Worse(t.mine.level, level)
<1>1. t.mine \in [total : Nat, level : Levels]
  BY DEF Transactions, Profiles
<1>2. worse \in Levels
  BY <1>1 DEF Worse
<1> DEFINE u == [t EXCEPT !.stage = stage, !.mine.level = worse]
<1>3. u = Raised(t, level, stage)
  BY DEF Raised
<1> HIDE DEF worse
<1>4. /\ u \in Transactions /\ u.stage = stage
      /\ u.loaded = t.loaded /\ u.id = t.id
      /\ u.mine.total = t.mine.total /\ u.mine.level = worse
      /\ u.loadedRow = t.loadedRow /\ u.row = t.row
      /\ u.removes = t.removes /\ u.alarms = t.alarms
  BY <1>1, <1>2 DEF Transactions, Profiles
<1> HIDE DEF u
<1> QED BY <1>3, <1>4 DEF worse

\* ...and one that raises an alarm with it.
LEMMA AlarmRaised ==
    ASSUME NEW t \in Transactions, NEW alarm \in Alerts
    PROVE  LET u == Alerted(t, alarm)
           IN  /\ u \in Transactions /\ u.stage = t.stage
               /\ u.loaded = t.loaded /\ u.id = t.id /\ u.mine = t.mine
               /\ u.loadedRow = t.loadedRow /\ u.row = t.row
               /\ u.removes = t.removes /\ u.alarms = t.alarms \cup {alarm}
<1> DEFINE alarms == t.alarms \cup {alarm}
<1>1. alarms \in SUBSET Alerts
  BY DEF Transactions
<1> HIDE DEF alarms
<1> DEFINE u == [t EXCEPT !.lock = 2, !.alarms = alarms]
<1>0. PICK two \in 0 .. 3 : two = 2
  OBVIOUS
<1>2. u \in Transactions
  <2>1. [t EXCEPT !.lock = two, !.alarms = alarms] \in Transactions
    BY ONLY t \in Transactions, two \in 0 .. 3, <1>1 DEF Transactions
  <2> QED BY <1>0, <2>1
<1>3. /\ u.stage = t.stage
      /\ u.loaded = t.loaded /\ u.id = t.id /\ u.mine = t.mine
      /\ u.loadedRow = t.loadedRow /\ u.row = t.row
      /\ u.removes = t.removes /\ u.alarms = alarms
  BY DEF Transactions
<1>4. u = Alerted(t, alarm)
  BY DEF Alerted, alarms
<1> HIDE DEF u
<1> QED BY <1>2, <1>3, <1>4 DEF alarms

\* The session's row with an event added, from what SELECT has found.
RowWith(e, old, row) ==
    /\ row \in Rows
    /\ row.kind = (IF old = NoRow THEN IF e \in Hooks THEN "canary" ELSE "honeypot"
                   ELSE old.kind)
    /\ row.events = (IF old = NoRow THEN {} ELSE old.events) \cup {e}

\* What the transaction of an event starts with.
EventTx(e, t) ==
    /\ t \in Transactions
    /\ t.id = SessionOf[e]
    /\ t.loaded = profile
    /\ t.mine \in Profiles
    /\ t.mine.total = (IF profile = NoRow THEN 1 ELSE profile.total + 1)
    /\ t.mine.level = (IF profile = NoRow THEN 0 ELSE profile.level)
    /\ RowWith(e, NoRow, t.row)
    /\ t.removes = {} /\ t.alarms = {} /\ t.lock = 0 /\ t.stage = "opened"

\* An event makes a session of its own, or adds itself to the one there is.
LEMMA RowWithEvent ==
    ASSUME NEW e \in Events, NEW old \in Rows \cup {NoRow}
    PROVE  RowWith(e, old, WithEvent(old, e))
<1>1. CASE old = NoRow
  BY <1>1 DEF WithEvent, NewSession, RowWith, Rows
<1>2. CASE old # NoRow
  <2>1. old \in [kind : {"gateway", "honeypot", "canary"}, age : 0 .. 2, events : SUBSET Events]
    BY <1>2 DEF Rows
  <2> DEFINE all == old.events \cup {e}
  <2>2. all \in SUBSET Events
    BY <2>1
  <2> HIDE DEF all
  <2>3. [old EXCEPT !.events = all] \in Rows
    BY <2>1, <2>2 DEF Rows
  <2>4. WithEvent(old, e) = [old EXCEPT !.events = all]
    BY <1>2 DEF WithEvent, all
  <2> QED BY <1>2, <2>1, <2>3, <2>4 DEF RowWith, all
<1> QED BY <1>1, <1>2

\* A new event of the address begins with the profile.
LEMMA ReadProfileFacts ==
    ASSUME RowsOK, NEW e \in Events, ReadProfile(e), UNCHANGED verdict
    PROVE  \E t : Started(e, t) /\ EventTx(e, t) /\ done[e] = "no"
<1> DEFINE mine == IF profile = NoRow THEN FirstSeen ELSE [profile EXCEPT !.total = @ + 1]
<1> DEFINE row == NewSession(e)
<1> DEFINE t == [Transaction(SessionOf[e], row, mine, {}, 0)
                   EXCEPT !.loadedRow = NoRow, !.stage = "opened"]
<1>1. /\ tx' = With(tx, e, t) /\ ~Open(e) /\ done[e] = "no"
      /\ UNCHANGED <<profile, rows, alerts, done, shown>>
  BY DEF ReadProfile
<1>2. /\ mine \in Profiles
      /\ mine.total = (IF profile = NoRow THEN 1 ELSE profile.total + 1)
      /\ mine.level = (IF profile = NoRow THEN 0 ELSE profile.level)
  <2>1. CASE profile = NoRow
    BY <2>1, NewValues
  <2>2. CASE profile # NoRow
    <3>1. profile \in [total : Nat, level : Levels]
      BY <2>2 DEF RowsOK, Profiles
    <3> QED BY <2>2, <3>1 DEF Profiles
  <2> QED BY <2>1, <2>2
<1>3. RowWith(e, NoRow, row)
  <2>1. WithEvent(NoRow, e) = row
    BY DEF WithEvent
  <2> QED BY <2>1, RowWithEvent
<1> HIDE DEF mine, row
<1>4. EventTx(e, t)
  <2> DEFINE v == Transaction(SessionOf[e], row, mine, {}, 0)
  <2>1. /\ v.loaded = profile /\ v.mine = mine /\ v.id = SessionOf[e] /\ v.row = row
        /\ v.removes = {} /\ v.alarms = {} /\ v.lock = 0
    BY DEF Transaction
  <2>2. v \in Transactions
    <3>1. profile \in Profiles \cup {NoRow} /\ row \in Rows /\ RowOf(SessionOf[e]) \in Rows \cup {NoRow}
      BY <1>3, RowOfFacts DEF RowsOK, RowWith
    <3>2. SessionOf[e] \in Ids
      BY StoreValuesOK DEF StoreValuesOK, Ids
    <3>3. {} \in SUBSET Conns /\ {} \in SUBSET Alerts /\ "read" \in Stages
      BY DEF Stages
    <3>4. PICK none \in 0 .. 3 : none = 0
      OBVIOUS
    <3>5. v = Transaction(SessionOf[e], row, mine, {}, none)
      BY <3>4
    <3> HIDE DEF v
    <3> QED BY <1>2, <3>1, <3>2, <3>3, <3>5, IsTransaction DEF Transaction
  <2> HIDE DEF v
  <2>3. t = [v EXCEPT !.loadedRow = NoRow, !.stage = "opened"]
    BY DEF t, v
  <2>4. /\ t \in Transactions /\ t.stage = "opened"
        /\ t.loaded = v.loaded /\ t.mine = v.mine /\ t.id = v.id /\ t.row = v.row
        /\ t.removes = v.removes /\ t.alarms = v.alarms /\ t.lock = v.lock
    BY <2>2, <2>3 DEF Transactions, Stages
  <2> HIDE DEF t
  <2> QED BY <1>2, <1>3, <2>1, <2>4 DEF EventTx
<1> HIDE DEF t
<1>6. /\ DOMAIN tx' = DOMAIN tx \cup {e} /\ tx'[e] = t
      /\ \A v \in DOMAIN tx : v # e => tx'[v] = tx[v]
  BY <1>1 DEF With
<1>7. Started(e, t)
  BY <1>1, <1>6 DEF Started, Open
<1> QED BY <1>1, <1>4, <1>7

\* The session is read, an await after the profile.
SessionRead(e, t, u) ==
    /\ u \in Transactions
    /\ u.loaded = t.loaded /\ u.mine = t.mine /\ u.id = t.id
    /\ u.removes = t.removes /\ u.alarms = t.alarms /\ u.stage = "read"
    /\ RowWith(e, RowOf(SessionOf[e]), u.row)

\* What an event's transaction does before it commits: the level only goes up,
\* to at least the one it is given, and an alarm of that level may go with it.
Progress(e, t, u) ==
    /\ u \in Transactions /\ t.stage # "opened"
    /\ u.loaded = t.loaded /\ u.id = t.id /\ u.loadedRow = t.loadedRow /\ u.row = t.row
    /\ u.removes = t.removes /\ u.mine.total = t.mine.total
    /\ \/ /\ u.mine = t.mine /\ u.alarms = t.alarms
          /\ u.stage = "touched" \/ (u.stage = "baited" /\ e \notin Hooks)
       \/ \E level \in Levels :
            /\ u.mine.level = Worse(t.mine.level, level)
            /\ u.alarms = t.alarms \cup {Alarm(e, level)} /\ Alarm(e, level) \in shown'
            /\ e \in Hooks /\ u.stage = "baited" => level >= LevelOf[e]
       \/ /\ u.mine.level = Worse(t.mine.level, LevelOf[e])
          /\ u.alarms = t.alarms /\ u.stage = "scored"
          /\ LevelOf[e] < 3 \/ (e \in Hooks /\ t.stage = "baited")

\* An alarm is an alert.
LEMMA AlarmIsAlert ==
    ASSUME NEW e \in Events, NEW level \in Levels
    PROVE  Alarm(e, level) \in Alerts /\ Alarm(e, level).level = level
BY StoreValuesOK DEF StoreValuesOK, Alarm, Alerts, Ids

\* Replacing one transaction.
LEMMA EditOne ==
    ASSUME NEW e, e \in DOMAIN tx, NEW u, tx' = [tx EXCEPT ![e] = u]
    PROVE  /\ DOMAIN tx' = DOMAIN tx /\ tx'[e] = u
           /\ \A v \in DOMAIN tx : v # e => tx'[v] = tx[v]
OBVIOUS

\* Reading the session.
LEMMA SessionFacts ==
    ASSUME NEW e \in Events, RowsOK, TxOK, ReadSession(e), UNCHANGED scorerVars
    PROVE  \E u : Edited(e, u) /\ SessionRead(e, tx[e], u)
<1> DEFINE old == RowOf(SessionOf[e])
<1> DEFINE row == WithEvent(old, e)
<1> DEFINE u == [tx[e] EXCEPT !.stage = "read", !.loadedRow = old, !.row = row]
<1>1. /\ e \in DOMAIN tx /\ tx[e] \in Transactions
      /\ UNCHANGED <<profile, rows, alerts, done, shown>>
  BY DEF ReadSession, Stage, Open, TxOK, TransactionOK
<1>2. old \in Rows \cup {NoRow}
  BY RowOfFacts
<1>3. RowWith(e, old, row)
  BY <1>2, RowWithEvent
<1>4. tx' = [tx EXCEPT ![e] = u]
  BY DEF ReadSession
<1> HIDE DEF old, row
<1>5. /\ u \in Transactions /\ u.stage = "read" /\ u.row = row
      /\ u.loaded = tx[e].loaded /\ u.mine = tx[e].mine /\ u.id = tx[e].id
      /\ u.removes = tx[e].removes /\ u.alarms = tx[e].alarms
  <2>1. row \in Rows
    BY <1>3 DEF RowWith
  <2>2. "read" \in Stages
    BY DEF Stages
  <2> QED BY <1>1, <1>2, <2>1, <2>2 DEF Transactions
<1> HIDE DEF u
<1>6. Edited(e, u)
  BY <1>1, <1>4, EditOne DEF Edited, Open
<1>7. SessionRead(e, tx[e], u)
  BY <1>3, <1>5 DEF SessionRead, old
<1> QED BY <1>6, <1>7

\* Touching a bait.
LEMMA TouchFacts ==
    ASSUME NEW e \in Events, TxOK, TouchBait(e), UNCHANGED scorerVars
    PROVE  \E u : Edited(e, u) /\ Progress(e, tx[e], u)
<1>1. /\ e \in DOMAIN tx /\ tx[e] \in Transactions /\ tx[e].stage = "read"
      /\ UNCHANGED <<profile, rows, alerts, done, shown>>
  BY DEF TouchBait, Stage, Open, TxOK, TransactionOK
<1>2. ASSUME NEW stage \in {"touched", "baited"}, stage = "baited" => e \notin Hooks,
             tx' = [tx EXCEPT ![e].stage = stage]
      PROVE  \E u : Edited(e, u) /\ Progress(e, tx[e], u)
  <2> DEFINE u == [tx[e] EXCEPT !.stage = stage]
  <2>1. tx' = [tx EXCEPT ![e] = u]
    BY <1>2
  <2>2. stage \in Stages
    BY DEF Stages
  <2>3. /\ u \in Transactions /\ u.stage = stage
        /\ u.loaded = tx[e].loaded /\ u.mine = tx[e].mine /\ u.id = tx[e].id
        /\ u.loadedRow = tx[e].loadedRow /\ u.row = tx[e].row
        /\ u.removes = tx[e].removes /\ u.alarms = tx[e].alarms
    BY <1>1, <2>2, NextStage
  <2> HIDE DEF u
  <2>4. Edited(e, u)
    BY <1>1, <2>1, EditOne DEF Edited, Open
  <2>5. Progress(e, tx[e], u)
    BY <1>1, <1>2, <2>3 DEF Progress
  <2> QED BY <2>4, <2>5
<1>3. \/ tx' = [tx EXCEPT ![e].stage = "baited"] /\ e \notin Hooks
      \/ tx' = [tx EXCEPT ![e].stage = "touched"]
  BY DEF TouchBait
<1> QED BY <1>2, <1>3

\* Raising an alarm.
LEMMA RaiseFacts ==
    ASSUME NEW e \in Events, TxOK, Open(e), tx[e].stage # "opened",
           NEW level \in Levels, NEW stage \in Stages, RaiseAlarm(e, level, stage),
           e \in Hooks /\ stage = "baited" => level >= LevelOf[e],
           UNCHANGED <<profile, rows, alerts, done, scorerVars>>
    PROVE  \E u : Edited(e, u) /\ Progress(e, tx[e], u)
<1>1. e \in DOMAIN tx /\ tx[e] \in Transactions
  BY DEF Open, TxOK, TransactionOK
<1> DEFINE r == Raised(tx[e], level, stage)
<1> DEFINE u == Alerted(r, Alarm(e, level))
<1>2. tx' = [tx EXCEPT ![e] = u] /\ shown' = shown \cup {Alarm(e, level)}
  BY DEF RaiseAlarm
<1>3. /\ r \in Transactions
      /\ r.stage = stage /\ r.loaded = tx[e].loaded /\ r.id = tx[e].id
      /\ r.mine.total = tx[e].mine.total /\ r.mine.level = Worse(tx[e].mine.level, level)
      /\ r.loadedRow = tx[e].loadedRow /\ r.row = tx[e].row
      /\ r.removes = tx[e].removes /\ r.alarms = tx[e].alarms
  BY <1>1, RaisedFacts
<1>4. Alarm(e, level) \in Alerts
  BY AlarmIsAlert
<1> HIDE DEF r
<1>5. /\ u \in Transactions /\ u.stage = r.stage
      /\ u.loaded = r.loaded /\ u.id = r.id /\ u.mine = r.mine
      /\ u.loadedRow = r.loadedRow /\ u.row = r.row
      /\ u.removes = r.removes /\ u.alarms = r.alarms \cup {Alarm(e, level)}
  BY <1>3, <1>4, AlarmRaised
<1> HIDE DEF u
<1>6. Edited(e, u)
  BY <1>1, <1>2, EditOne DEF Edited, Open
<1>7. Progress(e, tx[e], u)
  BY <1>2, <1>3, <1>5 DEF Progress
<1> QED BY <1>6, <1>7

\* trigger_canary, for an event's bait or the webhook's token.
LEMMA TriggerFacts ==
    ASSUME NEW e \in Events, TxOK, TriggerCanary(e), UNCHANGED scorerVars
    PROVE  \E u : Edited(e, u) /\ Progress(e, tx[e], u)
<1> DEFINE level == IF e \in Hooks THEN Worse(BaitOf[e], LevelOf[e]) ELSE BaitOf[e]
<1>1. BaitOf[e] \in 0 .. 4 /\ LevelOf[e] \in 0 .. 4
  BY StoreValuesOK DEF StoreValuesOK
<1>2. level \in Levels /\ (e \in Hooks => level >= LevelOf[e])
  BY <1>1 DEF Levels, Worse
<1>3. RaiseAlarm(e, level, "baited") /\ Open(e) /\ tx[e].stage # "opened"
  BY DEF TriggerCanary, Stage
<1>4. UNCHANGED <<profile, rows, alerts, done, scorerVars>> /\ "baited" \in Stages
  BY DEF TriggerCanary, Stages
<1> HIDE DEF level
<1> QED BY <1>2, <1>3, <1>4, RaiseFacts

\* The threat scorer's verdict on an event.
LEMMA ScoreFacts ==
    ASSUME NEW e \in Events, TxOK, Score(e), UNCHANGED scorerVars
    PROVE  \E u : Edited(e, u) /\ Progress(e, tx[e], u)
<1>1. /\ e \in DOMAIN tx /\ Open(e) /\ tx[e] \in Transactions /\ tx[e].stage # "opened"
      /\ UNCHANGED <<profile, rows, alerts, done>>
  BY DEF Score, Stage, Open, TxOK, TransactionOK
<1>2. LevelOf[e] \in Levels /\ "scored" \in Stages
  BY StoreValuesOK DEF StoreValuesOK, Levels, Stages
<1>3. CASE LevelOf[e] >= 3 /\ e \notin Hooks
  <2>1. RaiseAlarm(e, LevelOf[e], "scored")
    BY <1>3 DEF Score
  <2> QED BY <1>1, <1>2, <1>3, <2>1, RaiseFacts
<1>4. CASE ~(LevelOf[e] >= 3 /\ e \notin Hooks)
  <2> DEFINE u == Raised(tx[e], LevelOf[e], "scored")
  <2>1. tx' = [tx EXCEPT ![e] = u] /\ shown' = shown
    BY <1>4 DEF Score
  <2>2. /\ u \in Transactions
        /\ u.stage = "scored" /\ u.loaded = tx[e].loaded /\ u.id = tx[e].id
        /\ u.mine.total = tx[e].mine.total
        /\ u.mine.level = Worse(tx[e].mine.level, LevelOf[e])
        /\ u.loadedRow = tx[e].loadedRow /\ u.row = tx[e].row
        /\ u.removes = tx[e].removes /\ u.alarms = tx[e].alarms
    BY <1>1, <1>2, RaisedFacts
  <2>3. LevelOf[e] < 3 \/ (e \in Hooks /\ tx[e].stage = "baited")
    <3>1. e \in Hooks => BaitOf[e] > 0
      BY HooksOK DEF HooksOK
    <3>2. LevelOf[e] \in 0 .. 4
      BY StoreValuesOK DEF StoreValuesOK
    <3>3. BaitOf[e] > 0 => tx[e].stage = "baited"
      BY DEF Score, Stage
    <3> QED BY <1>4, <3>1, <3>2, <3>3
  <2> HIDE DEF u
  <2>4. Edited(e, u)
    BY <1>1, <2>1, EditOne DEF Edited, Open
  <2>5. Progress(e, tx[e], u)
    BY <1>1, <2>2, <2>3 DEF Progress
  <2> QED BY <2>4, <2>5
<1> QED BY <1>3, <1>4

\* What the columns are after a commit.
LEMMA MergeFacts ==
    ASSUME NEW old \in Profiles \cup {NoRow}, NEW loaded \in Profiles \cup {NoRow},
           NEW mine \in Profiles, loaded = NoRow <=> old = NoRow
    PROVE  /\ Merge(old, loaded, mine) \in Profiles
           /\ loaded = NoRow => Merge(old, loaded, mine) = mine
           /\ loaded # NoRow =>
                /\ Merge(old, loaded, mine).total =
                     (IF mine.total = loaded.total THEN old.total ELSE mine.total)
                /\ Merge(old, loaded, mine).level =
                     (IF mine.level = loaded.level THEN old.level ELSE mine.level)
           /\ loaded # NoRow /\ mine = loaded => Merge(old, loaded, mine) = old
<1>1. CASE loaded = NoRow
  BY <1>1 DEF Merge
<1>2. CASE loaded # NoRow
  <2> DEFINE total == IF mine.total = loaded.total THEN old.total ELSE mine.total
  <2> DEFINE level == IF mine.level = loaded.level THEN old.level ELSE mine.level
  <2>1. old \in [total : Nat, level : Levels] /\ loaded \in [total : Nat, level : Levels]
    BY <1>2 DEF Profiles
  <2>2. total \in Nat /\ level \in Levels
    BY <2>1 DEF Profiles
  <2>3. Merge(old, loaded, mine) = [total |-> total, level |-> level]
    BY <1>2 DEF Merge, Column
  <2>4. mine = loaded => total = old.total /\ level = old.level
    OBVIOUS
  <2>5. old = [total |-> old.total, level |-> old.level]
    BY <2>1
  <2> DEFINE new == [total |-> total, level |-> level]
  <2>6. new.total = total /\ new.level = level
    OBVIOUS
  <2> HIDE DEF total, level
  <2>7. new \in Profiles /\ (mine = loaded => new = old)
    BY <2>2, <2>4, <2>5 DEF Profiles
  <2>8. Merge(old, loaded, mine) = new
    BY <2>3
  <2> HIDE DEF new
  <2> QED BY <1>2, <2>6, <2>7, <2>8 DEF total, level
<1> QED BY <1>1, <1>2

\* A row written over another keeps its age.
LEMMA WrittenRowFacts ==
    ASSUME NEW t \in Transactions, RowsOK,
           t.loadedRow = NoRow <=> t.id \notin DOMAIN rows
    PROVE  /\ WrittenRow(t) \in Rows
           /\ WrittenRow(t).kind = t.row.kind /\ WrittenRow(t).events = t.row.events
           /\ WrittenRow(t).age = (IF t.loadedRow = NoRow THEN t.row.age ELSE rows[t.id].age)
<1>1. t.row \in Rows
  BY TransactionFields
<1>2. CASE t.loadedRow = NoRow
  BY <1>1, <1>2 DEF WrittenRow
<1>3. CASE t.loadedRow # NoRow
  <2> DEFINE age == rows[t.id].age
  <2>1. rows[t.id] \in Rows
    BY <1>3 DEF RowsOK
  <2>2. age \in 0 .. 2
    BY <2>1 DEF Rows
  <2>3. WrittenRow(t) = [t.row EXCEPT !.age = age]
    BY <1>3 DEF WrittenRow
  <2> DEFINE u == [t.row EXCEPT !.age = age]
  <2> HIDE DEF age
  <2>4. u \in Rows /\ u.kind = t.row.kind /\ u.events = t.row.events /\ u.age = age
    BY <1>1, <2>2 DEF Rows
  <2> QED BY <1>3, <2>3, <2>4 DEF age
<1> QED BY <1>2, <1>3

\* The commit of transaction t of worker w, with the profile as mine.
Committed(w, t, mine) ==
    /\ Closed(w) /\ t = tx[w] /\ t \in Transactions
    /\ t.loaded = NoRow <=> profile = NoRow
    /\ t.loadedRow = NoRow <=> t.id \notin DOMAIN rows
    /\ profile' = Merge(profile, t.loaded, mine)
    /\ DOMAIN rows' = (DOMAIN rows \ t.removes) \cup {t.id}
    /\ rows'[t.id] = WrittenRow(t)
    /\ \A i \in DOMAIN rows \ t.removes : i # t.id => rows'[i] = rows[i]
    /\ alerts' = alerts \cup t.alarms

\* CommitWrites commits...
LEMMA CommitFacts ==
    ASSUME TxOK, NEW w, Open(w), NEW mine, CommitWrites(w, mine), shown' = shown
    PROVE  Committed(w, tx[w], mine)
<1> DEFINE t == tx[w]
<1>1. /\ Writable(t) /\ tx' = Without(tx, {w})
      /\ profile' = Merge(profile, t.loaded, mine)
      /\ rows' = With(Without(rows, t.removes), t.id, WrittenRow(t))
      /\ alerts' = alerts \cup t.alarms
  BY DEF CommitWrites, Close
<1>2. t \in Transactions
  BY DEF TxOK, TransactionOK, Open
<1>3. /\ DOMAIN tx' = DOMAIN tx \ {w}
      /\ \A v \in DOMAIN tx : v # w => tx'[v] = tx[v]
  BY <1>1 DEF Without, Restrict
<1> HIDE DEF t
<1>4. /\ DOMAIN rows' = (DOMAIN rows \ t.removes) \cup {t.id}
      /\ rows'[t.id] = WrittenRow(t)
      /\ \A i \in DOMAIN rows \ t.removes : i # t.id => rows'[i] = rows[i]
  BY <1>1 DEF With, Without, Restrict
<1> QED BY <1>1, <1>2, <1>3, <1>4 DEF Committed, Closed, Writable, t

\* ...and a rollback ends only its own transaction.
LEMMA CloseFacts ==
    ASSUME NEW w, Open(w), Close(w), shown' = shown
    PROVE  Closed(w)
BY DEF Close, Closed, Without, Restrict

-----------------------------------------------------------------------------
(* The steps, each by what it changes.                                      *)

AskStep(k, attempt, id, t) ==
    /\ Started(k, t) /\ QuestionTx(k, t, id)
    /\ asked[k] = attempt - 1 /\ attempt \in 1 .. 2
    /\ attempt = 2 => verdict[k] = "inconclusive"
    /\ \/ id = k /\ k \notin DOMAIN rows
       \/ attempt = 2 /\ id \in DOMAIN rows
    /\ asked' = [asked EXCEPT ![k] = attempt]
    /\ reconnected' = [reconnected EXCEPT ![k] = FreshRows # {}]

ReadStep(e, t) ==
    Started(e, t) /\ EventTx(e, t) /\ done[e] = "no" /\ UNCHANGED scorerVars

EditStep(e, u) == Edited(e, u) /\ (Progress(e, tx[e], u) \/ SessionRead(e, tx[e], u))

LeaveStep(k, t) ==
    /\ Committed(k, t, t.mine) /\ asked[k] = 1
    /\ verdict' = [verdict EXCEPT ![k] = "inconclusive"]
    /\ UNCHANGED <<asked, reconnected, done>>

HoneypotStep(k, t) ==
    /\ \E mine \in Profiles :
         /\ mine.total = t.mine.total + 1 /\ mine.level = t.mine.level
         /\ Committed(k, t, mine)
    /\ verdict' = [verdict EXCEPT ![k] = "honeypot"]
    /\ UNCHANGED <<asked, reconnected, done>>

EventStep(e, t) ==
    /\ Committed(e, t, t.mine) /\ t.stage = "scored"
    /\ done' = [done EXCEPT ![e] = "committed"]
    /\ UNCHANGED scorerVars

ForgetAllStep(k) ==
    /\ Closed(k) /\ profile' = NoRow /\ DOMAIN rows' = {} /\ alerts' = {}
    /\ verdict' = [verdict EXCEPT ![k] = "real"]
    /\ UNCHANGED <<asked, reconnected, done>>

ForgetRowStep(k, t) ==
    /\ Closed(k) /\ t = tx[k] /\ t \in Transactions
    /\ DOMAIN rows' = DOMAIN rows \ (t.removes \cup {t.id})
    /\ \A i \in DOMAIN rows' : rows'[i] = rows[i]
    /\ verdict' = [verdict EXCEPT ![k] = "real"]
    /\ UNCHANGED <<profile, alerts, asked, reconnected, done>>

FailStep(w) ==
    /\ Closed(w) /\ UNCHANGED <<profile, rows, alerts, asked, reconnected>>
    /\ \/ /\ w \in Conns /\ UNCHANGED done
          /\ verdict' = [verdict EXCEPT ![w] = "honeypot"]
       \/ /\ w \in Events /\ UNCHANGED verdict
          /\ done' = [done EXCEPT ![w] = "failed"]

\* Nothing happens to the database or its transactions.
QuietStep ==
    /\ UNCHANGED <<dbVars, asked, reconnected, done, shown>>
    /\ \/ UNCHANGED verdict
       \/ \E k \in Conns : /\ ~Open(k) /\ verdict[k] = "inconclusive"
                            /\ verdict' = [verdict EXCEPT ![k] = "gone"]

AgeStep ==
    /\ DOMAIN rows' = DOMAIN rows
    /\ \A id \in DOMAIN rows :
         /\ id \in Conns /\ verdict[id] = "inconclusive" => rows'[id] = rows[id]
         /\ rows'[id] \in Rows
         /\ rows'[id].kind = rows[id].kind /\ rows'[id].events = rows[id].events
    /\ UNCHANGED <<profile, alerts, tx, scorerVars, done, shown>>

Step ==
    \/ \E k \in Conns, attempt \in 1 .. 2, id \in Conns, t \in Transactions :
         AskStep(k, attempt, id, t)
    \/ \E e \in Events, t \in Transactions : ReadStep(e, t)
    \/ \E e \in Events, u \in Transactions : EditStep(e, u)
    \/ \E k \in Conns, t \in Transactions : LeaveStep(k, t)
    \/ \E k \in Conns, t \in Transactions : HoneypotStep(k, t)
    \/ \E e \in Events, t \in Transactions : EventStep(e, t)
    \/ \E k \in Conns : ForgetAllStep(k)
    \/ \E k \in Conns, t \in Transactions : ForgetRowStep(k, t)
    \/ \E w \in Workers : FailStep(w)
    \/ QuietStep
    \/ AgeStep

\* Counting one more session leaves the level.
LEMMA OneMore ==
    ASSUME NEW p \in Profiles
    PROVE  /\ [p EXCEPT !.total = @ + 1] \in Profiles
           /\ [p EXCEPT !.total = @ + 1].total = p.total + 1
           /\ [p EXCEPT !.total = @ + 1].level = p.level
BY DEF Profiles

\* Every step of the two writers is one of these.
LEMMA StepsAre ==
    ASSUME RowsOK, TxOK, [RecNext]_recVars
    PROVE  Step
<1>1. ASSUME NEW k \in Conns, NEW attempt \in 1 .. 2, Ask(k, attempt), UNCHANGED <<done, shown>>
      PROVE  Step
  <2> DEFINE lock == IF profile = NoRow THEN 2 ELSE 1
  <2>1. Begin(k, attempt, k, lock) /\ k \notin DOMAIN rows /\ lock \in 0 .. 3
    BY <1>1 DEF Ask
  <2> HIDE DEF lock
  <2>2. PICK t : Started(k, t) /\ QuestionTx(k, t, k)
    BY <1>1, <2>1, BeginFacts
  <2>3. /\ asked[k] = attempt - 1 /\ (attempt = 2 => verdict[k] = "inconclusive")
        /\ asked' = [asked EXCEPT ![k] = attempt]
        /\ reconnected' = [reconnected EXCEPT ![k] = FreshRows # {}]
    BY <2>1 DEF Begin, Asked
  <2>4. AskStep(k, attempt, k, t)
    BY <2>1, <2>2, <2>3 DEF AskStep
  <2> QED BY <2>2, <2>4 DEF Step, QuestionTx
<1>2. ASSUME NEW k \in Conns, NEW id \in Conns, AskAgain(k, id), UNCHANGED <<done, shown>>
      PROVE  Step
  <2>1. Begin(k, 2, id, 0) /\ NewestGatewayRow(id)
    BY <1>2 DEF AskAgain
  <2>2. PICK t : Started(k, t) /\ QuestionTx(k, t, id)
    BY <1>2, <2>1, BeginFacts
  <2>3. id \in DOMAIN rows
    BY <2>1 DEF NewestGatewayRow, FreshRows
  <2>4. AskStep(k, 2, id, t)
    BY <2>1, <2>2, <2>3 DEF AskStep, Begin, Asked
  <2> QED BY <2>2, <2>4 DEF Step, QuestionTx
<1>3. ASSUME NEW k \in Conns, LeaveOpen(k), UNCHANGED <<done, shown>>
      PROVE  Step
  <2>1. Committed(k, tx[k], tx[k].mine)
    BY <1>3, CommitFacts DEF LeaveOpen
  <2>2. LeaveStep(k, tx[k])
    BY <1>3, <2>1 DEF LeaveStep, LeaveOpen, Answer
  <2> QED BY <2>1, <2>2 DEF Step, Committed
<1>4. ASSUME NEW k \in Conns, SendToHoneypot(k), UNCHANGED <<done, shown>>
      PROVE  Step
  <2> DEFINE mine == [tx[k].mine EXCEPT !.total = @ + 1]
  <2>1. Open(k) /\ CommitWrites(k, mine)
    BY <1>4 DEF SendToHoneypot
  <2>2. tx[k].mine \in Profiles
    BY <2>1, TransactionFields DEF TxOK, TransactionOK, Open
  <2>3. mine \in Profiles /\ mine.total = tx[k].mine.total + 1 /\ mine.level = tx[k].mine.level
    BY <2>2, OneMore
  <2> HIDE DEF mine
  <2>4. Committed(k, tx[k], mine)
    BY <1>4, <2>1, CommitFacts
  <2>5. HoneypotStep(k, tx[k])
    BY <1>4, <2>3, <2>4 DEF HoneypotStep, SendToHoneypot, Answer
  <2> QED BY <2>4, <2>5 DEF Step, Committed
<1>5. ASSUME NEW k \in Conns, ForgetProfile(k), UNCHANGED <<done, shown>>
      PROVE  Step
  <2>1. Closed(k)
    BY <1>5, CloseFacts DEF ForgetProfile
  <2>2. DOMAIN rows' = {}
    BY <1>5 DEF ForgetProfile
  <2>3. ForgetAllStep(k)
    BY <1>5, <2>1, <2>2 DEF ForgetAllStep, ForgetProfile, Answer
  <2> QED BY <2>3 DEF Step
<1>6. ASSUME NEW k \in Conns, ForgetRow(k), UNCHANGED <<done, shown>>
      PROVE  Step
  <2>1. Closed(k)
    BY <1>6, CloseFacts DEF ForgetRow
  <2>2. tx[k] \in Transactions
    BY <1>6 DEF ForgetRow, TxOK, TransactionOK, Open
  <2>3. /\ DOMAIN rows' = DOMAIN rows \ (tx[k].removes \cup {tx[k].id})
        /\ \A i \in DOMAIN rows' : rows'[i] = rows[i]
    BY <1>6 DEF ForgetRow, Without, Restrict
  <2>4. ForgetRowStep(k, tx[k])
    BY <1>6, <2>1, <2>2, <2>3 DEF ForgetRowStep, ForgetRow, Answer
  <2> QED BY <2>2, <2>4 DEF Step
<1>7. ASSUME NEW k \in Conns, QuestionFails(k), UNCHANGED <<done, shown>>
      PROVE  Step
  <2>1. Closed(k)
    BY <1>7, CloseFacts DEF QuestionFails, RollBack
  <2>2. FailStep(k)
    BY <1>7, <2>1 DEF FailStep, QuestionFails, RollBack, Answer
  <2> QED BY <2>2 DEF Step, Workers
<1>8. ASSUME NEW k \in Conns, Abandon(k), UNCHANGED <<done, shown>>
      PROVE  Step
  <2>1. QuietStep
    BY <1>8 DEF QuietStep, Abandon, Answer
  <2> QED BY <2>1 DEF Step
<1>9. ASSUME NEW i \in Ids, RowAges(i), UNCHANGED <<done, shown>>
      PROVE  Step
  <2> DEFINE older == [rows[i] EXCEPT !.age = @ + 1]
  <2>1. /\ i \in DOMAIN rows /\ rows[i].age \in {0, 1}
        /\ i \in Conns => verdict[i] # "inconclusive"
        /\ UNCHANGED <<profile, alerts, tx, scorerVars, done, shown>>
    BY <1>9 DEF RowAges
  <2>2. rows[i] \in Rows
    BY <2>1 DEF RowsOK
  <2>3. older \in Rows /\ older.kind = rows[i].kind /\ older.events = rows[i].events
    BY <2>1, <2>2 DEF Rows
  <2>4. rows' = [rows EXCEPT ![i] = older]
    BY <1>9 DEF RowAges
  <2> HIDE DEF older
  <2>5. /\ DOMAIN rows' = DOMAIN rows /\ rows'[i] = older
        /\ \A id \in DOMAIN rows : id # i => rows'[id] = rows[id]
    BY <2>1, <2>4
  <2>6. \A id \in DOMAIN rows :
          /\ id \in Conns /\ verdict[id] = "inconclusive" => rows'[id] = rows[id]
          /\ rows'[id] \in Rows
          /\ rows'[id].kind = rows[id].kind /\ rows'[id].events = rows[id].events
    BY <2>1, <2>3, <2>5 DEF RowsOK
  <2>7. AgeStep
    BY <2>1, <2>5, <2>6 DEF AgeStep
  <2> QED BY <2>7 DEF Step
<1>10. ASSUME NEW e \in Events, IngestStep(e), UNCHANGED scorerVars
       PROVE  Step
  <2>1. CASE ReadProfile(e)
    <3>1. PICK t : Started(e, t) /\ EventTx(e, t) /\ done[e] = "no"
      BY <1>10, <2>1, ReadProfileFacts DEF scorerVars
    <3>2. ReadStep(e, t)
      BY <1>10, <3>1 DEF ReadStep
    <3> QED BY <3>1, <3>2 DEF Step, EventTx
  <2>2. CASE TouchBait(e) \/ TriggerCanary(e) \/ Score(e)
    <3>1. PICK u : Edited(e, u) /\ Progress(e, tx[e], u)
      BY <1>10, <2>2, TouchFacts, TriggerFacts, ScoreFacts
    <3> QED BY <3>1 DEF Step, EditStep, Progress
  <2>5. CASE ReadSession(e)
    <3>1. PICK u : Edited(e, u) /\ SessionRead(e, tx[e], u)
      BY <1>10, <2>5, SessionFacts
    <3> QED BY <3>1 DEF Step, EditStep, SessionRead
  <2>3. CASE CommitEvent(e)
    <3>1. Committed(e, tx[e], tx[e].mine)
      BY <2>3, CommitFacts DEF CommitEvent, Stage
    <3>2. EventStep(e, tx[e])
      BY <1>10, <2>3, <3>1 DEF EventStep, CommitEvent, Stage
    <3> QED BY <3>1, <3>2 DEF Step, Committed
  <2>4. CASE EventFails(e)
    <3>1. Closed(e)
      BY <2>4, CloseFacts DEF EventFails, RollBack
    <3>2. FailStep(e)
      BY <1>10, <2>4, <3>1 DEF FailStep, EventFails, RollBack, scorerVars
    <3> QED BY <3>2 DEF Step, Workers
  <2> QED BY <1>10, <2>1, <2>2, <2>3, <2>4, <2>5 DEF IngestStep
<1>11. ASSUME NEW b \in Baits, CooldownOver(b), UNCHANGED scorerVars
       PROVE  Step
  BY <1>11 DEF CooldownOver, scorerVars, QuietStep, Step
<1>12. CASE UNCHANGED recVars
  BY <1>12 DEF recVars, dbVars, scorerVars, ingestVars, QuietStep, Step
<1>13. CASE ScorerNext /\ UNCHANGED <<done, cooling, shown>>
  <2>1. UNCHANGED <<done, shown>>
    BY <1>13
  <2> QED BY <1>1, <1>2, <1>3, <1>4, <1>5, <1>6, <1>7, <1>8, <1>9, <1>13, <2>1 DEF ScorerNext
<1> QED BY <1>10, <1>11, <1>12, <1>13 DEF RecNext

-----------------------------------------------------------------------------
(* What the ghosts see of a step.                                           *)

\* What overlaps is remembered, and who has just closed may count.
Observed ==
    /\ overlapped \subseteq overlapped'
    /\ \A v, w \in DOMAIN tx' : v # w => v \in overlapped'
    /\ counted' = IF profile' = NoRow THEN {}
                  ELSE counted \cup {w \in DOMAIN tx \ DOMAIN tx' : Counts(w)}

\* Two elements are more than one.
LEMMA TwoAreMany ==
    ASSUME NEW S, IsFiniteSet(S), NEW v \in S, NEW w \in S, v # w
    PROVE  Cardinality(S) > 1
<1>1. IsFiniteSet({v}) /\ Cardinality({v}) = 1
  BY FS_Singleton
<1>2. IsFiniteSet({v} \cup {w}) /\ Cardinality({v} \cup {w}) = Cardinality({v}) + 1
  BY <1>1, FS_AddElement
<1>3. Cardinality({v} \cup {w}) <= Cardinality(S)
  BY <1>2, FS_Subset
<1>4. Cardinality(S) \in Nat
  BY FS_CardinalityType
<1> QED BY <1>1, <1>2, <1>3, <1>4

\* At most one transaction is opened by a step.
LEMMA FewOpen ==
    ASSUME Step, IsFiniteSet(DOMAIN tx)
    PROVE  IsFiniteSet(DOMAIN tx')
<1>1. \/ DOMAIN tx' \subseteq DOMAIN tx
      \/ \E w : DOMAIN tx' = DOMAIN tx \cup {w}
  BY DEF Step, AskStep, ReadStep, EditStep, LeaveStep, HoneypotStep, EventStep, ForgetAllStep,
         ForgetRowStep, FailStep, QuietStep, AgeStep, Started, Edited, Committed, Closed, dbVars
<1> QED BY <1>1, FS_Subset, FS_AddElement

\* Every step is observed; one that leaves the database alone shows nothing new.
LEMMA StepsAreObserved ==
    ASSUME RowsOK, TxOK, NoProfileNoRows, GhostsOK, OverlapSeen, [RecNext]_recVars
    PROVE  Step /\ Observed
<1>1. Step
  BY StepsAre
<1>2. IsFiniteSet(DOMAIN tx')
  BY <1>1, FewOpen DEF GhostsOK
<1>3. CASE Observe
  <2>1. \A v, w \in DOMAIN tx' : v # w => v \in overlapped'
    BY <1>2, <1>3, TwoAreMany DEF Observe
  <2> QED BY <1>1, <1>3, <2>1 DEF Observe, Observed
<1>4. CASE UNCHANGED <<profile, tx, counted, overlapped>>
  <2>1. \A v, w \in DOMAIN tx' : v # w => v \in overlapped'
    BY <1>4 DEF OverlapSeen
  <2>2. DOMAIN tx \ DOMAIN tx' = {}
    BY <1>4
  <2>3. {w \in DOMAIN tx \ DOMAIN tx' : Counts(w)} = {}
    BY <2>2
  <2>4. profile' = NoRow => counted = {}
    BY <1>4 DEF NoProfileNoRows
  <2> HIDE DEF Observed
  <2> QED BY <1>1, <1>4, <2>1, <2>3, <2>4 DEF Observed
<1>5. Observe \/ UNCHANGED <<profile, tx, counted, overlapped>>
  BY DEF RecNext, CooldownOver, recVars, dbVars, ingestVars
<1> QED BY <1>3, <1>4, <1>5

\* An answer is given to one connection...
LEMMA NewVerdict ==
    ASSUME AnswersOK, NEW k \in Conns, NEW d, verdict' = [verdict EXCEPT ![k] = d]
    PROVE  verdict'[k] = d /\ \A l \in Conns : l # k => verdict'[l] = verdict[l]
BY DEF AnswersOK

\* ...and an event is done with by itself.
LEMMA NewDone ==
    ASSUME AnswersOK, NEW e \in Events, NEW d, done' = [done EXCEPT ![e] = d]
    PROVE  done'[e] = d /\ \A f \in Events : f # e => done'[f] = done[f]
BY DEF AnswersOK

\* Nobody closes: the ghost of the counter stays.
LEMMA NobodyCounts ==
    ASSUME NoProfileNoRows, Observed, DOMAIN tx \subseteq DOMAIN tx', profile' = profile
    PROVE  counted' = counted
<1>1. {w \in DOMAIN tx \ DOMAIN tx' : Counts(w)} = {}
  OBVIOUS
<1> QED BY <1>1 DEF Observed, NoProfileNoRows

\* One transaction closes, and it may count.
LEMMA OneCounts ==
    ASSUME Observed, NEW w, Closed(w), profile' # NoRow
    PROVE  /\ Counts(w) => counted' = counted \cup {w}
           /\ ~Counts(w) => counted' = counted
<1>1. DOMAIN tx \ DOMAIN tx' = {w}
  BY DEF Closed, Open
<1>2. {v \in DOMAIN tx \ DOMAIN tx' : Counts(v)} = IF Counts(w) THEN {w} ELSE {}
  BY <1>1
<1> QED BY <1>2 DEF Observed

\* Sessions of events are no connections' rows, and events are no connections.
LEMMA Apart ==
    ASSUME NEW e \in Events
    PROVE  SessionOf[e] \in Ids /\ SessionOf[e] \notin Conns /\ e \notin Conns
BY StoreValuesOK DEF StoreValuesOK, Ids, Range

\* The profile after a commit.
LEMMA ProfileAfter ==
    ASSUME RowsOK, NEW w, NEW t \in Transactions, NEW mine \in Profiles, Committed(w, t, mine)
    PROVE  /\ profile' \in Profiles /\ profile' # NoRow
           /\ profile = NoRow => profile' = mine /\ t.loaded = NoRow
           /\ profile # NoRow =>
                /\ profile \in Profiles /\ t.loaded \in Profiles /\ t.loaded # NoRow
                /\ profile'.total = (IF mine.total = t.loaded.total THEN profile.total ELSE mine.total)
                /\ profile'.level = (IF mine.level = t.loaded.level THEN profile.level ELSE mine.level)
           /\ profile # NoRow /\ mine = t.loaded => profile' = profile
<1>1. profile \in Profiles \cup {NoRow} /\ t.loaded \in Profiles \cup {NoRow}
  BY TransactionFields DEF RowsOK
<1>2. t.loaded = NoRow <=> profile = NoRow
  BY DEF Committed
<1>3. profile' = Merge(profile, t.loaded, mine)
  BY DEF Committed
<1>4. profile' \in Profiles
  BY <1>1, <1>2, <1>3, MergeFacts
<1>5. profile' # NoRow
  BY <1>4, RowsAreRows
<1>6. profile = NoRow => profile' = mine /\ t.loaded = NoRow
  BY <1>1, <1>2, <1>3, MergeFacts
<1>7. ASSUME profile # NoRow
      PROVE  /\ profile \in Profiles /\ t.loaded \in Profiles /\ t.loaded # NoRow
             /\ profile'.total = (IF mine.total = t.loaded.total THEN profile.total ELSE mine.total)
             /\ profile'.level = (IF mine.level = t.loaded.level THEN profile.level ELSE mine.level)
             /\ mine = t.loaded => profile' = profile
  <2>1. profile \in Profiles /\ t.loaded \in Profiles /\ t.loaded # NoRow
    BY <1>1, <1>2, <1>7
  <2>2. /\ profile'.total = (IF mine.total = t.loaded.total THEN profile.total ELSE mine.total)
        /\ profile'.level = (IF mine.level = t.loaded.level THEN profile.level ELSE mine.level)
        /\ mine = t.loaded => profile' = profile
    BY <1>1, <1>2, <1>3, <1>7, MergeFacts
  <2> QED BY <2>1, <2>2
<1> QED BY <1>4, <1>5, <1>6, <1>7

\* A question that leaves its connection open makes a profile or changes none,
\* and does not count.
LEMMA LeaveAfter ==
    ASSUME RowsOK, TxOK, AnswersOK, NoProfileNoRows, Observed,
           NEW k \in Conns, NEW t \in Transactions, LeaveStep(k, t)
    PROVE  /\ Question(k, t) /\ t = tx[k] /\ counted' = counted
           /\ profile' = IF profile = NoRow THEN NewProfile ELSE profile
<1>1. Committed(k, t, t.mine) /\ t.mine \in Profiles
  BY TransactionFields DEF LeaveStep
<1>2. Closed(k) /\ t = tx[k] /\ k \in DOMAIN tx
  BY <1>1 DEF Committed, Closed, Open
<1>3. Question(k, t)
  BY <1>2 DEF TxOK, TransactionOK
<1>4. profile' = IF profile = NoRow THEN NewProfile ELSE profile
  BY <1>1, <1>3, ProfileAfter DEF Question
<1>5. profile' # NoRow
  BY <1>1, ProfileAfter
<1>6. ~Counts(k)
  <2>1. verdict'[k] = "inconclusive"
    BY NewVerdict DEF LeaveStep
  <2> QED BY <2>1, Apart DEF Counts
<1> QED BY <1>2, <1>3, <1>4, <1>5, <1>6, OneCounts

\* What a commit that counts one more session does: the profile is there, one
\* higher than what was read, and its worker is counted unless nothing changed.
Counted(w, t) ==
    /\ t = tx[w] /\ w \in DOMAIN tx /\ w \notin counted
    /\ profile' \in Profiles /\ profile' # NoRow
    /\ profile = NoRow => t.loaded = NoRow /\ profile'.total = 1 /\ counted' = counted \cup {w}
    /\ profile # NoRow =>
         /\ t.loaded # NoRow /\ t.loaded \in Profiles /\ profile \in Profiles
         /\ profile'.total = t.loaded.total + 1
         /\ \/ counted' = counted \cup {w}
            \/ counted' = counted /\ profile' = profile

\* A verdict for the honeypot counts.
LEMMA HoneypotAfter ==
    ASSUME RowsOK, TxOK, AnswersOK, QuestionsOK, GhostsOK, Observed,
           NEW k \in Conns, NEW t \in Transactions, HoneypotStep(k, t)
    PROVE  Question(k, t) /\ Counted(k, t)
<1>1. PICK mine \in Profiles : /\ mine.total = t.mine.total + 1 /\ mine.level = t.mine.level
                               /\ Committed(k, t, mine)
  BY DEF HoneypotStep
<1>2. Closed(k) /\ t = tx[k] /\ k \in DOMAIN tx
  BY <1>1 DEF Committed, Closed, Open
<1>3. Question(k, t)
  BY <1>2 DEF TxOK, TransactionOK
<1>4. verdict'[k] = "honeypot"
  BY NewVerdict DEF HoneypotStep
<1>5. k \notin counted
  BY <1>2 DEF GhostsOK, QuestionsOK, Open
<1>6. profile' \in Profiles /\ profile' # NoRow
  BY <1>1, ProfileAfter
<1>7. Counts(k) <=> profile' # profile
  BY <1>4, StoreValuesOK DEF Counts, StoreValuesOK
<1>8. \/ counted' = counted \cup {k}
      \/ counted' = counted /\ profile' = profile
  BY <1>2, <1>6, <1>7, OneCounts
<1>9. profile = NoRow => t.loaded = NoRow /\ profile'.total = 1 /\ counted' = counted \cup {k}
  <2>1. ASSUME profile = NoRow PROVE t.loaded = NoRow /\ profile' = mine
    BY <1>1, <2>1, ProfileAfter
  <2>2. ASSUME profile = NoRow PROVE mine.total = 1
    <3>1. t.mine = NewProfile
      BY <1>3, <2>1, <2>2 DEF Question
    <3> QED BY <1>1, <3>1, NewValues
  <2> QED BY <1>6, <1>8, <2>1, <2>2
<1>10. ASSUME profile # NoRow
       PROVE  /\ t.loaded # NoRow /\ t.loaded \in Profiles /\ profile \in Profiles
              /\ profile'.total = t.loaded.total + 1
  <2>1. t.loaded # NoRow /\ t.loaded \in Profiles /\ profile \in Profiles
    BY <1>1, <1>10, ProfileAfter
  <2>2. profile'.total = IF mine.total = t.loaded.total THEN profile.total ELSE mine.total
    BY <1>1, <1>10, ProfileAfter
  <2>3. t.mine = t.loaded
    BY <1>3, <2>1 DEF Question
  <2>4. t.loaded.total \in Nat
    BY <2>1 DEF Profiles
  <2> QED BY <1>1, <2>1, <2>2, <2>3, <2>4
<1> QED BY <1>2, <1>3, <1>5, <1>6, <1>8, <1>9, <1>10 DEF Counted

\* An event that is committed counts.
LEMMA EventAfter ==
    ASSUME RowsOK, TxOK, AnswersOK, GhostsOK, Observed,
           NEW e \in Events, NEW t \in Transactions, EventStep(e, t)
    PROVE  Event(e, t) /\ Counted(e, t) /\ counted' = counted \cup {e}
<1>1. Committed(e, t, t.mine) /\ t.mine \in Profiles
  BY TransactionFields DEF EventStep
<1>2. Closed(e) /\ t = tx[e] /\ e \in DOMAIN tx
  BY <1>1 DEF Committed, Closed, Open
<1>3. Event(e, t)
  BY <1>2 DEF TxOK, TransactionOK
<1>4. done'[e] = "committed"
  BY NewDone DEF EventStep
<1>5. e \notin counted
  BY <1>2 DEF GhostsOK, Open
<1>6. profile' \in Profiles /\ profile' # NoRow
  BY <1>1, ProfileAfter
<1>7. Counts(e)
  BY <1>4 DEF Counts
<1>8. counted' = counted \cup {e}
  BY <1>2, <1>6, <1>7, OneCounts
<1>9. profile = NoRow => t.loaded = NoRow /\ profile'.total = 1
  <2>1. ASSUME profile = NoRow PROVE t.loaded = NoRow /\ profile' = t.mine
    BY <1>1, <2>1, ProfileAfter
  <2> QED BY <1>3, <2>1 DEF Event
<1>10. ASSUME profile # NoRow
       PROVE  /\ t.loaded # NoRow /\ t.loaded \in Profiles /\ profile \in Profiles
              /\ profile'.total = t.loaded.total + 1
  <2>1. t.loaded # NoRow /\ t.loaded \in Profiles /\ profile \in Profiles
    BY <1>1, <1>10, ProfileAfter
  <2>2. profile'.total = IF t.mine.total = t.loaded.total THEN profile.total ELSE t.mine.total
    BY <1>1, <1>10, ProfileAfter
  <2>3. t.mine.total = t.loaded.total + 1
    BY <1>3, <2>1 DEF Event
  <2>4. t.loaded.total \in Nat
    BY <2>1 DEF Profiles
  <2> QED BY <2>1, <2>2, <2>3, <2>4
<1> QED BY <1>2, <1>3, <1>5, <1>6, <1>8, <1>9, <1>10 DEF Counted

\* A row is forgotten, or a transaction fails: nothing is counted.
LEMMA ForgottenAfter ==
    ASSUME AnswersOK, NoProfileNoRows, Observed,
           NEW k \in Conns, NEW t \in Transactions, ForgetRowStep(k, t)
    PROVE  counted' = counted
<1>1. Closed(k) /\ profile' = profile
  BY DEF ForgetRowStep
<1>2. verdict'[k] = "real"
  BY NewVerdict DEF ForgetRowStep
<1>3. ~Counts(k)
  BY <1>2, Apart DEF Counts
<1> QED BY <1>1, <1>3, OneCounts DEF Observed, NoProfileNoRows

\* The same for a failure.
LEMMA FailedAfter ==
    ASSUME AnswersOK, NoProfileNoRows, Observed, NEW w \in Workers, FailStep(w)
    PROVE  counted' = counted
<1>1. Closed(w) /\ profile' = profile
  BY DEF FailStep
<1>2. CASE w \in Conns /\ UNCHANGED done
  <2>1. w \notin Events
    BY <1>2, StoreValuesOK DEF StoreValuesOK
  <2>2. ~Counts(w)
    BY <1>1, <2>1 DEF Counts
  <2> QED BY <1>1, <2>2, OneCounts DEF Observed, NoProfileNoRows
<1>3. CASE w \in Events /\ done' = [done EXCEPT ![w] = "failed"]
  <2>1. done'[w] = "failed"
    BY <1>3, NewDone
  <2>2. ~Counts(w)
    BY <1>1, <2>1 DEF Counts
  <2> QED BY <1>1, <2>2, OneCounts DEF Observed, NoProfileNoRows
<1> QED BY <1>2, <1>3 DEF FailStep

-----------------------------------------------------------------------------
(* The profile, its rows and its alerts.                                    *)

\* These steps write nothing.
StillStep ==
    \/ \E k \in Conns, attempt \in 1 .. 2, id \in Conns, t \in Transactions :
         AskStep(k, attempt, id, t)
    \/ \E e \in Events, t \in Transactions : ReadStep(e, t)
    \/ \E e \in Events, u \in Transactions : EditStep(e, u)
    \/ \E w \in Workers : FailStep(w)
    \/ QuietStep

\* They count nothing either.
LEMMA StillAfter ==
    ASSUME AnswersOK, NoProfileNoRows, Observed, StillStep
    PROVE  UNCHANGED <<profile, rows, alerts, counted>>
<1>1. CASE \E w \in Workers : FailStep(w)
  BY <1>1, FailedAfter DEF FailStep
<1>2. CASE ~\E w \in Workers : FailStep(w)
  <2>1. UNCHANGED <<profile, rows, alerts>> /\ DOMAIN tx \subseteq DOMAIN tx'
    BY <1>2 DEF StillStep, AskStep, ReadStep, EditStep, QuietStep, Started, Edited, dbVars
  <2> QED BY <2>1, NobodyCounts
<1> QED BY <1>1, <1>2

\* A commit leaves rows as they should be.
LEMMA RowsCommitted ==
    ASSUME RowsOK, TxOK, NEW w \in Workers, NEW t \in Transactions, NEW mine \in Profiles,
           Committed(w, t, mine)
    PROVE  RowsOK'
<1>1. TransactionOK(w, t)
  BY DEF Committed, Closed, Open, TxOK
<1>2. t.row.kind = "gateway" => t.id \in Conns
  BY <1>1 DEF TransactionOK, Question, Event, Workers
<1>3. profile' \in Profiles
  BY ProfileAfter
<1>4. WrittenRow(t) \in Rows /\ WrittenRow(t).kind = t.row.kind
  BY WrittenRowFacts DEF Committed
<1>5. t.id \in Ids /\ t.alarms \subseteq Alerts
  BY TransactionFields
<1>6. DOMAIN rows' \subseteq Ids /\ alerts' \subseteq Alerts
  BY <1>5 DEF RowsOK, Committed
<1>7. ASSUME NEW id \in DOMAIN rows'
      PROVE  rows'[id] \in Rows /\ (rows'[id].kind = "gateway" => id \in Conns)
  <2>1. CASE id = t.id
    BY <1>2, <1>4, <2>1 DEF Committed
  <2>2. CASE id # t.id
    BY <2>2 DEF Committed, RowsOK
  <2> QED BY <2>1, <2>2
<1> QED BY <1>3, <1>6, <1>7 DEF RowsOK

\* Rows and profiles keep their types.
LEMMA RowsStep ==
    ASSUME RowsOK, TxOK, AnswersOK, NoProfileNoRows, Observed, Step
    PROVE  RowsOK'
<1>1. CASE StillStep
  <2>1. UNCHANGED <<profile, rows, alerts>>
    BY <1>1, StillAfter
  <2> QED BY <2>1 DEF RowsOK
<1>2. ASSUME NEW k \in Conns, NEW t \in Transactions, LeaveStep(k, t)
      PROVE  RowsOK'
  BY <1>2, RowsCommitted, TransactionFields DEF LeaveStep, Workers
<1>3. ASSUME NEW k \in Conns, NEW t \in Transactions, HoneypotStep(k, t)
      PROVE  RowsOK'
  BY <1>3, RowsCommitted DEF HoneypotStep, Workers
<1>4. ASSUME NEW e \in Events, NEW t \in Transactions, EventStep(e, t)
      PROVE  RowsOK'
  BY <1>4, RowsCommitted, TransactionFields DEF EventStep, Workers
<1>5. ASSUME NEW k \in Conns, ForgetAllStep(k)
      PROVE  RowsOK'
  BY <1>5 DEF ForgetAllStep, RowsOK
<1>6. ASSUME NEW k \in Conns, NEW t \in Transactions, ForgetRowStep(k, t)
      PROVE  RowsOK'
  BY <1>6 DEF ForgetRowStep, RowsOK
<1>7. CASE AgeStep
  BY <1>7 DEF AgeStep, RowsOK
<1> QED BY <1>1, <1>2, <1>3, <1>4, <1>5, <1>6, <1>7 DEF Step, StillStep

\* No profile, nothing else.
LEMMA NothingStep ==
    ASSUME RowsOK, TxOK, AnswersOK, QuestionsOK, GhostsOK, NoProfileNoRows, Observed, Step
    PROVE  NoProfileNoRows'
<1>1. CASE StillStep
  <2>1. UNCHANGED <<profile, rows, alerts, counted>>
    BY <1>1, StillAfter
  <2> QED BY <2>1 DEF NoProfileNoRows
<1>2. ASSUME NEW k \in Conns, NEW t \in Transactions, LeaveStep(k, t)
      PROVE  NoProfileNoRows'
  <2>1. profile' # NoRow
    BY <1>2, ProfileAfter, TransactionFields DEF LeaveStep
  <2> QED BY <2>1 DEF NoProfileNoRows
<1>3. ASSUME NEW k \in Conns, NEW t \in Transactions, HoneypotStep(k, t)
      PROVE  NoProfileNoRows'
  BY <1>3, HoneypotAfter DEF Counted, NoProfileNoRows
<1>4. ASSUME NEW e \in Events, NEW t \in Transactions, EventStep(e, t)
      PROVE  NoProfileNoRows'
  BY <1>4, EventAfter DEF Counted, NoProfileNoRows
<1>5. ASSUME NEW k \in Conns, ForgetAllStep(k)
      PROVE  NoProfileNoRows'
  BY <1>5 DEF ForgetAllStep, NoProfileNoRows, Observed
<1>6. ASSUME NEW k \in Conns, NEW t \in Transactions, ForgetRowStep(k, t)
      PROVE  NoProfileNoRows'
  <2>1. counted' = counted
    BY <1>6, ForgottenAfter
  <2> QED BY <1>6, <2>1 DEF ForgetRowStep, NoProfileNoRows
<1>7. CASE AgeStep
  <2>1. counted' = counted
    BY <1>7, NobodyCounts DEF AgeStep
  <2> QED BY <1>7, <2>1 DEF AgeStep, NoProfileNoRows
<1> QED BY <1>1, <1>2, <1>3, <1>4, <1>5, <1>6, <1>7 DEF Step, StillStep

\* A profile without sessions has no alert, and no rows but those of questions.
LEMMA ZeroStep ==
    ASSUME RowsOK, TxOK, AnswersOK, QuestionsOK, GhostsOK, NoProfileNoRows, ZeroMeansNoHistory,
           Observed, Step
    PROVE  ZeroMeansNoHistory'
<1>1. CASE StillStep
  <2>1. UNCHANGED <<profile, rows, alerts>>
    BY <1>1, StillAfter
  <2> QED BY <2>1 DEF ZeroMeansNoHistory
<1>2. ASSUME NEW k \in Conns, NEW t \in Transactions, LeaveStep(k, t)
      PROVE  ZeroMeansNoHistory'
  <2>1. Question(k, t) /\ Committed(k, t, t.mine)
    BY <1>2, LeaveAfter DEF LeaveStep
  <2>2. profile' = IF profile = NoRow THEN NewProfile ELSE profile
    BY <1>2, LeaveAfter
  <2>3. profile # NoRow /\ profile'.total = 0 => profile.total = 0
    BY <2>2
  <2>4. alerts' = alerts
    BY <2>1 DEF Question, Committed
  <2>5. rows'[t.id].kind = "gateway"
    BY <2>1, WrittenRowFacts, NewValues DEF Question, Committed
  <2>6. \A id \in DOMAIN rows' : id # t.id => id \in DOMAIN rows /\ rows'[id] = rows[id]
    BY <2>1 DEF Committed
  <2> QED BY <2>3, <2>4, <2>5, <2>6 DEF ZeroMeansNoHistory, NoProfileNoRows
<1>3. ASSUME NEW w, NEW t, Counted(w, t)
      PROVE  ZeroMeansNoHistory'
  <2>1. profile # NoRow => t.loaded.total \in Nat
    BY <1>3 DEF Counted, Profiles
  <2>2. profile'.total # 0
    BY <1>3, <2>1 DEF Counted
  <2> QED BY <2>2 DEF ZeroMeansNoHistory
<1>4. ASSUME NEW k \in Conns, ForgetAllStep(k)
      PROVE  ZeroMeansNoHistory'
  BY <1>4 DEF ForgetAllStep, ZeroMeansNoHistory
<1>5. ASSUME NEW k \in Conns, NEW t \in Transactions, ForgetRowStep(k, t)
      PROVE  ZeroMeansNoHistory'
  BY <1>5 DEF ForgetRowStep, ZeroMeansNoHistory
<1>6. CASE AgeStep
  BY <1>6 DEF AgeStep, ZeroMeansNoHistory
<1> QED BY <1>1, <1>2, <1>3, <1>4, <1>5, <1>6, HoneypotAfter, EventAfter DEF Step, StillStep

\* A commit of a transaction whose high level is explained by its alarms.
LEMMA HighCommitted ==
    ASSUME RowsOK, HighProfileHasAlert, NEW w, NEW t \in Transactions, NEW mine \in Profiles,
           Committed(w, t, mine), mine.level = t.mine.level, AlarmOK(t)
    PROVE  HighProfileHasAlert'
<1>1. alerts' = alerts \cup t.alarms /\ shown' = shown
  BY DEF Committed, Closed
<1>2. t.alarms \subseteq shown
  BY DEF AlarmOK
<1>3. CASE profile = NoRow
  <2>1. t.loaded = NoRow /\ profile' = mine
    BY <1>3, ProfileAfter
  <2> QED BY <1>1, <1>2, <2>1 DEF AlarmOK, HighProfileHasAlert
<1>4. CASE profile # NoRow
  <2>1. profile'.level = (IF mine.level = t.loaded.level THEN profile.level ELSE mine.level)
    BY <1>4, ProfileAfter
  <2>2. CASE mine.level = t.loaded.level
    BY <1>1, <1>4, <2>1, <2>2 DEF HighProfileHasAlert
  <2>3. CASE mine.level # t.loaded.level
    BY <1>1, <1>2, <2>1, <2>3 DEF AlarmOK, HighProfileHasAlert
  <2> QED BY <2>2, <2>3
<1> QED BY <1>3, <1>4

\* A high profile keeps an alert that was shown.
LEMMA HighStep ==
    ASSUME RowsOK, TxOK, AnswersOK, NoProfileNoRows, AlarmsBehindLevels, HighProfileHasAlert,
           Observed, Step
    PROVE  HighProfileHasAlert'
<1>1. CASE StillStep
  <2>1. UNCHANGED <<profile, rows, alerts>>
    BY <1>1, StillAfter
  <2>2. shown \subseteq shown'
    BY <1>1 DEF StillStep, AskStep, ReadStep, EditStep, FailStep, QuietStep, Started, Edited, Closed
  <2> QED BY <2>1, <2>2 DEF HighProfileHasAlert
<1>2. ASSUME NEW k \in Workers, NEW t \in Transactions, NEW mine \in Profiles,
             Committed(k, t, mine), mine.level = t.mine.level
      PROVE  HighProfileHasAlert'
  <2>1. AlarmOK(t)
    BY <1>2 DEF AlarmsBehindLevels, Committed, Closed, Open
  <2> QED BY <1>2, <2>1, HighCommitted
<1>3. ASSUME NEW k \in Conns, NEW t \in Transactions, LeaveStep(k, t)
      PROVE  HighProfileHasAlert'
  BY <1>2, <1>3, TransactionFields DEF LeaveStep, Workers
<1>4. ASSUME NEW k \in Conns, NEW t \in Transactions, HoneypotStep(k, t)
      PROVE  HighProfileHasAlert'
  BY <1>2, <1>4 DEF HoneypotStep, Workers
<1>5. ASSUME NEW e \in Events, NEW t \in Transactions, EventStep(e, t)
      PROVE  HighProfileHasAlert'
  BY <1>2, <1>5, TransactionFields DEF EventStep, Workers
<1>6. ASSUME NEW k \in Conns, ForgetAllStep(k)
      PROVE  HighProfileHasAlert'
  BY <1>6 DEF ForgetAllStep, HighProfileHasAlert
<1>7. ASSUME NEW k \in Conns, NEW t \in Transactions, ForgetRowStep(k, t)
      PROVE  HighProfileHasAlert'
  BY <1>7 DEF ForgetRowStep, Closed, HighProfileHasAlert
<1>8. CASE AgeStep
  BY <1>8 DEF AgeStep, HighProfileHasAlert
<1> QED BY <1>1, <1>3, <1>4, <1>5, <1>6, <1>7, <1>8 DEF Step, StillStep

-----------------------------------------------------------------------------
(* The open transactions.                                                   *)

\* These steps leave the open transactions alone, or close one.
ClosingStep ==
    /\ DOMAIN tx' \subseteq DOMAIN tx
    /\ \A w \in DOMAIN tx' : tx'[w] = tx[w]
    /\ shown' = shown

\* All but asking, reading and editing do.
LEMMA Closing ==
    ASSUME Step
    PROVE  \/ ClosingStep
           \/ \E k \in Conns, attempt \in 1 .. 2, id \in Conns, t \in Transactions :
                AskStep(k, attempt, id, t)
           \/ \E e \in Events, t \in Transactions : ReadStep(e, t)
           \/ \E e \in Events, u \in Transactions : EditStep(e, u)
<1>1. ASSUME NEW w, Closed(w)
      PROVE  ClosingStep
  BY <1>1 DEF Closed, ClosingStep
<1>2. CASE QuietStep \/ AgeStep
  BY <1>2 DEF QuietStep, AgeStep, dbVars, ClosingStep
<1> QED BY <1>1, <1>2 DEF Step, LeaveStep, HoneypotStep, EventStep, ForgetAllStep, ForgetRowStep,
                         FailStep, Committed

\* Transactions stay what they are.
LEMMA TxStep ==
    ASSUME RowsOK, TxOK, Step
    PROVE  TxOK'
<1>1. CASE ClosingStep
  BY <1>1 DEF ClosingStep, TxOK, TransactionOK, Question, Event
<1>2. ASSUME NEW k \in Conns, NEW attempt \in 1 .. 2, NEW id \in Conns, NEW t \in Transactions,
             AskStep(k, attempt, id, t)
      PROVE  TxOK'
  <2>1. Started(k, t) /\ QuestionTx(k, t, id)
    BY <1>2 DEF AskStep
  <2>2. k \notin Events
    BY StoreValuesOK DEF StoreValuesOK
  <2>3. TransactionOK(k, t)
    BY <2>1, <2>2 DEF TransactionOK, Question, QuestionTx
  <2>4. \A w \in DOMAIN tx' : TransactionOK(w, tx'[w])
    BY <2>1, <2>3 DEF Started, TxOK
  <2>5. DOMAIN tx' \subseteq Workers
    BY <2>1 DEF Started, TxOK, Workers
  <2> QED BY <2>4, <2>5 DEF TxOK, TransactionOK, Question, Event
<1>3. ASSUME NEW e \in Events, NEW t \in Transactions, ReadStep(e, t)
      PROVE  TxOK'
  <2>1. Started(e, t) /\ EventTx(e, t)
    BY <1>3 DEF ReadStep
  <2>2. t.row.kind # "gateway" /\ e \in t.row.events
    BY <2>1 DEF EventTx, RowWith
  <2>3. TransactionOK(e, t)
    BY <2>1, <2>2, Apart DEF TransactionOK, Event, EventTx
  <2>4. \A w \in DOMAIN tx' : TransactionOK(w, tx'[w])
    BY <2>1, <2>3 DEF Started, TxOK
  <2>5. DOMAIN tx' \subseteq Workers
    BY <2>1 DEF Started, TxOK, Workers
  <2> QED BY <2>4, <2>5 DEF TxOK, TransactionOK, Question, Event
<1>4. ASSUME NEW e \in Events, NEW u \in Transactions, EditStep(e, u)
      PROVE  TxOK'
  <2>1. Edited(e, u) /\ Event(e, tx[e]) /\ tx[e] \in Transactions
    BY <1>4 DEF EditStep, Edited, Open, TxOK, TransactionOK
  <2>2. Event(e, u)
    <3>1. CASE Progress(e, tx[e], u)
      <4>1. tx[e].mine.level \in 0 .. 4 /\ LevelOf[e] \in 0 .. 4
        BY <2>1, StoreValuesOK DEF StoreValuesOK, Transactions, Profiles, Levels
      <4>2. e \in Hooks /\ u.stage = "baited" => u.mine.level >= LevelOf[e]
        BY <2>1, <3>1, <4>1 DEF Progress, Event, Worse, Levels
      <4>3. /\ u.loaded = tx[e].loaded /\ u.id = tx[e].id /\ u.row = tx[e].row
            /\ u.removes = tx[e].removes /\ u.mine.total = tx[e].mine.total
        BY <3>1 DEF Progress
      <4> QED BY <2>1, <4>2, <4>3 DEF Event
    <3>2. CASE SessionRead(e, tx[e], u)
      <4>1. u.row.kind # "gateway" /\ e \in u.row.events
        <5>1. RowOf(SessionOf[e]) # NoRow => RowOf(SessionOf[e]).kind # "gateway"
          BY Apart, RowOfFacts DEF RowsOK
        <5> QED BY <3>2, <5>1 DEF SessionRead, RowWith
      <4>2. /\ u.loaded = tx[e].loaded /\ u.id = tx[e].id /\ u.stage = "read"
            /\ u.removes = tx[e].removes /\ u.mine = tx[e].mine
        BY <3>2 DEF SessionRead
      <4> QED BY <2>1, <4>1, <4>2 DEF Event
    <3> QED BY <1>4, <3>1, <3>2 DEF EditStep
  <2>4. TransactionOK(e, u)
    BY <2>1, <2>2, Apart DEF TransactionOK
  <2>5. \A w \in DOMAIN tx' : TransactionOK(w, tx'[w])
    BY <2>1, <2>4 DEF Edited, TxOK
  <2>6. DOMAIN tx' \subseteq Workers
    BY <2>1 DEF Edited, TxOK
  <2> QED BY <2>5, <2>6 DEF TxOK, TransactionOK, Question, Event
<1> QED BY <1>1, <1>2, <1>3, <1>4, Closing

\* An alarm that goes with a level stays with it.
LEMMA AlarmsProgress ==
    ASSUME NEW e \in Events, NEW t \in Transactions, NEW u \in Transactions, AlarmOK(t),
           Progress(e, t, u), shown \subseteq shown', Event(e, t)
    PROVE  /\ u.alarms \subseteq shown'
           /\ u.mine.level >= 3 =>
                \/ u.loaded # NoRow /\ u.loaded.level = u.mine.level
                \/ \E a \in u.alarms : a.level >= 3
<1>1. t.mine.level \in 0 .. 4 /\ LevelOf[e] \in 0 .. 4 /\ u.loaded = t.loaded
  BY StoreValuesOK DEF StoreValuesOK, Transactions, Profiles, Levels, Progress
<1>2. CASE u.mine = t.mine /\ u.alarms = t.alarms
  BY <1>1, <1>2 DEF AlarmOK
<1>3. ASSUME NEW level \in Levels, u.mine.level = Worse(t.mine.level, level),
             u.alarms = t.alarms \cup {Alarm(e, level)}, Alarm(e, level) \in shown'
      PROVE  /\ u.alarms \subseteq shown'
             /\ u.mine.level >= 3 =>
                  \/ u.loaded # NoRow /\ u.loaded.level = u.mine.level
                  \/ \E a \in u.alarms : a.level >= 3
  <2>1. u.alarms \subseteq shown'
    BY <1>3 DEF AlarmOK
  <2>2. Alarm(e, level).level = level
    BY AlarmIsAlert
  <2>3. CASE t.mine.level >= level
    <3>1. u.mine.level = t.mine.level
      BY <1>3, <2>3 DEF Worse
    <3> QED BY <1>1, <1>3, <2>1, <3>1 DEF AlarmOK
  <2>4. CASE ~(t.mine.level >= level)
    <3>1. u.mine.level = level
      BY <1>3, <2>4 DEF Worse
    <3> QED BY <1>3, <2>1, <2>2, <3>1
  <2> QED BY <2>3, <2>4
<1>4. CASE /\ u.mine.level = Worse(t.mine.level, LevelOf[e]) /\ u.alarms = t.alarms
           /\ LevelOf[e] < 3 \/ (e \in Hooks /\ t.stage = "baited")
  <2>1. e \in Hooks /\ t.stage = "baited" => t.mine.level >= LevelOf[e]
    BY DEF Event
  <2>2. u.mine.level >= 3 => u.mine.level = t.mine.level
    BY <1>1, <1>4, <2>1 DEF Worse
  <2> QED BY <1>1, <1>4, <2>2 DEF AlarmOK
<1> QED BY <1>2, <1>3, <1>4 DEF Progress

\* Every high level in memory has its alarm.
LEMMA AlarmsStep ==
    ASSUME RowsOK, TxOK, AlarmsBehindLevels, Step
    PROVE  AlarmsBehindLevels'
<1>1. CASE ClosingStep
  BY <1>1 DEF ClosingStep, AlarmsBehindLevels, AlarmOK
<1>2. ASSUME NEW w, NEW t, Started(w, t), t.alarms = {},
             t.mine.level >= 3 => t.loaded # NoRow /\ t.loaded.level = t.mine.level
      PROVE  AlarmsBehindLevels'
  <2>1. AlarmOK(t)
    BY <1>2 DEF AlarmOK
  <2>2. \A v \in DOMAIN tx' : AlarmOK(tx'[v])
    BY <1>2, <2>1 DEF Started, AlarmsBehindLevels
  <2>3. shown' = shown
    BY <1>2 DEF Started
  <2> QED BY <2>2, <2>3 DEF AlarmsBehindLevels, AlarmOK
<1>3. ASSUME NEW k \in Conns, NEW attempt \in 1 .. 2, NEW id \in Conns, NEW t \in Transactions,
             AskStep(k, attempt, id, t)
      PROVE  AlarmsBehindLevels'
  <2>1. t.mine.level >= 3 => t.loaded # NoRow /\ t.loaded.level = t.mine.level
    BY <1>3, NewValues DEF AskStep, QuestionTx
  <2> QED BY <1>2, <1>3, <2>1 DEF AskStep, QuestionTx
<1>4. ASSUME NEW e \in Events, NEW t \in Transactions, ReadStep(e, t)
      PROVE  AlarmsBehindLevels'
  <2>1. t.mine.level >= 3 => t.loaded # NoRow /\ t.loaded.level = t.mine.level
    BY <1>4 DEF ReadStep, EventTx
  <2> QED BY <1>2, <1>4, <2>1 DEF ReadStep, EventTx
<1>5. ASSUME NEW e \in Events, NEW u \in Transactions, EditStep(e, u)
      PROVE  AlarmsBehindLevels'
  <2>1. /\ Edited(e, u) /\ tx[e] \in Transactions /\ Event(e, tx[e])
        /\ AlarmOK(tx[e]) /\ shown \subseteq shown'
    BY <1>5 DEF EditStep, Edited, Open, TxOK, TransactionOK, AlarmsBehindLevels
  <2>2. /\ u.alarms \subseteq shown'
        /\ u.mine.level >= 3 =>
             \/ u.loaded # NoRow /\ u.loaded.level = u.mine.level
             \/ \E a \in u.alarms : a.level >= 3
    <3>1. CASE Progress(e, tx[e], u)
      BY <2>1, <3>1, AlarmsProgress
    <3>2. CASE SessionRead(e, tx[e], u)
      BY <2>1, <3>2 DEF SessionRead, AlarmOK
    <3> QED BY <1>5, <3>1, <3>2 DEF EditStep
  <2>3. ASSUME NEW v \in DOMAIN tx', v # e
        PROVE  tx'[v] = tx[v] /\ AlarmOK(tx[v])
    BY <2>1, <2>3 DEF Edited, AlarmsBehindLevels
  <2>4. tx'[e] = u
    BY <2>1 DEF Edited
  <2> QED BY <2>1, <2>2, <2>3, <2>4 DEF AlarmsBehindLevels, AlarmOK
<1> QED BY <1>1, <1>3, <1>4, <1>5, Closing

-----------------------------------------------------------------------------
(* The connections and their questions.                                     *)

\* Answers keep their types.
LEMMA AnswersStep ==
    ASSUME AnswersOK, Step
    PROVE  AnswersOK'
<1>1. ASSUME NEW k \in Conns, NEW attempt \in 1 .. 2, NEW id \in Conns, NEW t \in Transactions,
             AskStep(k, attempt, id, t)
      PROVE  AnswersOK'
  <2>1. UNCHANGED <<verdict, done>>
    BY <1>1 DEF AskStep, Started
  <2>2. asked' \in [Conns -> 0 .. 2]
    BY <1>1 DEF AskStep, AnswersOK
  <2>3. reconnected' \in [Conns -> BOOLEAN]
    <3> DEFINE is == FreshRows # {}
    <3>1. is \in BOOLEAN /\ reconnected' = [reconnected EXCEPT ![k] = is]
      BY <1>1 DEF AskStep
    <3> HIDE DEF is
    <3> QED BY <3>1 DEF AnswersOK
  <2> QED BY <2>1, <2>2, <2>3 DEF AnswersOK
<1>2. ASSUME UNCHANGED <<asked, verdict, reconnected, done>>
      PROVE  AnswersOK'
  BY <1>2 DEF AnswersOK
<1>3. ASSUME NEW k \in Conns, NEW d \in {"inconclusive", "real", "honeypot", "gone"},
             verdict' = [verdict EXCEPT ![k] = d], UNCHANGED <<asked, reconnected, done>>
      PROVE  AnswersOK'
  BY <1>3 DEF AnswersOK
<1>4. ASSUME NEW e \in Events, NEW d \in {"committed", "failed"},
             done' = [done EXCEPT ![e] = d], UNCHANGED <<asked, reconnected, verdict>>
      PROVE  AnswersOK'
  BY <1>4 DEF AnswersOK
<1>5. ASSUME NEW w \in Workers, FailStep(w)
      PROVE  AnswersOK'
  BY <1>3, <1>4, <1>5 DEF FailStep
<1>6. CASE QuietStep
  BY <1>2, <1>3, <1>6 DEF QuietStep
<1>7. CASE AgeStep
  BY <1>2, <1>7 DEF AgeStep, scorerVars
<1>8. ASSUME NEW e \in Events, NEW t, ReadStep(e, t) \/ EditStep(e, t)
      PROVE  AnswersOK'
  BY <1>2, <1>8 DEF ReadStep, EditStep, Started, Edited, scorerVars
<1>9. ASSUME NEW e \in Events, NEW t, EventStep(e, t)
      PROVE  AnswersOK'
  BY <1>4, <1>9 DEF EventStep, scorerVars
<1>10. ASSUME NEW k \in Conns, NEW t,
              LeaveStep(k, t) \/ HoneypotStep(k, t) \/ ForgetAllStep(k) \/ ForgetRowStep(k, t)
       PROVE  AnswersOK'
  BY <1>3, <1>10 DEF LeaveStep, HoneypotStep, ForgetAllStep, ForgetRowStep
<1> QED BY <1>1, <1>5, <1>6, <1>7, <1>8, <1>9, <1>10 DEF Step

\* Who answers: a question that ends has the connection's next verdict, and
\* everything else about connections stays.
AnswerGiven(k) ==
    /\ k \in DOMAIN tx /\ k \notin DOMAIN tx'
    /\ verdict'[k] \in {"inconclusive", "real", "honeypot"}
    /\ verdict'[k] = "inconclusive" => asked[k] = 1
    /\ \A l \in Conns : l # k => verdict'[l] = verdict[l]

\* The connections in a step: one asks, one is answered, one leaves, or none moves.
LEMMA ConnectionsMove ==
    ASSUME TxOK, AnswersOK, Step
    PROVE  \/ \E k \in Conns, attempt \in 1 .. 2, id \in Conns, t \in Transactions :
                AskStep(k, attempt, id, t)
           \/ /\ UNCHANGED <<asked, reconnected>>
              /\ \A l \in Conns : l \in DOMAIN tx' => l \in DOMAIN tx /\ tx'[l] = tx[l]
              /\ \/ \E k \in Conns : AnswerGiven(k)
                 \/ \E k \in Conns :
                      /\ ~Open(k) /\ verdict[k] = "inconclusive" /\ verdict'[k] = "gone"
                      /\ \A l \in Conns : l # k => verdict'[l] = verdict[l]
                 \/ verdict' = verdict
<1>1. ASSUME NEW k \in Conns, Closed(k), NEW d \in {"inconclusive", "real", "honeypot"},
             verdict' = [verdict EXCEPT ![k] = d], d = "inconclusive" => asked[k] = 1
      PROVE  AnswerGiven(k) /\ \A l \in Conns : l \in DOMAIN tx' => l \in DOMAIN tx /\ tx'[l] = tx[l]
  BY <1>1, NewVerdict DEF AnswerGiven, Closed, Open
<1>2. ASSUME NEW e \in Events, NEW t, Started(e, t) \/ Edited(e, t)
      PROVE  \A l \in Conns : l \in DOMAIN tx' => l \in DOMAIN tx /\ tx'[l] = tx[l]
  BY <1>2, Apart DEF Started, Edited
<1>3. ASSUME NEW e, Closed(e)
      PROVE  \A l \in Conns : l \in DOMAIN tx' => l \in DOMAIN tx /\ tx'[l] = tx[l]
  BY <1>3 DEF Closed
<1>4. ASSUME NEW e \in Events, NEW t, ReadStep(e, t) \/ EditStep(e, t) \/ EventStep(e, t)
      PROVE  /\ UNCHANGED <<asked, reconnected, verdict>>
             /\ \A l \in Conns : l \in DOMAIN tx' => l \in DOMAIN tx /\ tx'[l] = tx[l]
  BY <1>2, <1>3, <1>4 DEF ReadStep, EditStep, EventStep, Committed, Started, Edited, scorerVars
<1>5. ASSUME NEW w \in Workers, FailStep(w)
      PROVE  /\ UNCHANGED <<asked, reconnected>>
             /\ \A l \in Conns : l \in DOMAIN tx' => l \in DOMAIN tx /\ tx'[l] = tx[l]
             /\ verdict' = verdict \/ \E k \in Conns : AnswerGiven(k)
  BY <1>1, <1>3, <1>5 DEF FailStep
<1>6. ASSUME NEW k \in Conns, NEW t,
             LeaveStep(k, t) \/ HoneypotStep(k, t) \/ ForgetAllStep(k) \/ ForgetRowStep(k, t)
      PROVE  /\ UNCHANGED <<asked, reconnected>>
             /\ \A l \in Conns : l \in DOMAIN tx' => l \in DOMAIN tx /\ tx'[l] = tx[l]
             /\ AnswerGiven(k)
  BY <1>1, <1>6 DEF LeaveStep, HoneypotStep, ForgetAllStep, ForgetRowStep, Committed
<1>7. ASSUME QuietStep
      PROVE  /\ UNCHANGED <<asked, reconnected>>
             /\ \A l \in Conns : l \in DOMAIN tx' => l \in DOMAIN tx /\ tx'[l] = tx[l]
             /\ \/ verdict' = verdict
                \/ \E k \in Conns :
                     /\ ~Open(k) /\ verdict[k] = "inconclusive" /\ verdict'[k] = "gone"
                     /\ \A l \in Conns : l # k => verdict'[l] = verdict[l]
  BY <1>7, NewVerdict DEF QuietStep, dbVars
<1>8. ASSUME AgeStep
      PROVE  UNCHANGED <<asked, reconnected, verdict, tx>>
  BY <1>8 DEF AgeStep, scorerVars
<1> QED BY <1>4, <1>5, <1>6, <1>7, <1>8 DEF Step

\* Questions come in order.
LEMMA QuestionsStep ==
    ASSUME RowsOK, TxOK, AnswersOK, QuestionsOK, Step
    PROVE  QuestionsOK'
<1>1. ASSUME NEW k \in Conns, NEW attempt \in 1 .. 2, NEW id \in Conns, NEW t \in Transactions,
             AskStep(k, attempt, id, t)
      PROVE  QuestionsOK'
  <2>1. Started(k, t) /\ QuestionTx(k, t, id) /\ verdict' = verdict
    BY <1>1 DEF AskStep, Started
  <2>2. /\ asked'[k] = attempt /\ asked[k] = attempt - 1
        /\ \A l \in Conns : l # k => asked'[l] = asked[l]
    BY <1>1 DEF AskStep, AnswersOK
  <2>3. attempt = 1 => verdict[k] = "none" /\ t.id = k /\ t.loadedRow = NoRow
    <3>1. attempt = 1 => id = k /\ k \notin DOMAIN rows
      BY <1>1 DEF AskStep
    <3>2. attempt = 1 => verdict[k] = "none"
      BY <2>2 DEF QuestionsOK
    <3> QED BY <2>1, <3>1, <3>2 DEF QuestionTx, RowOf
  <2>4. attempt = 2 => verdict[k] = "inconclusive"
    BY <1>1 DEF AskStep
  <2>5. attempt = 1 \/ attempt = 2
    OBVIOUS
  <2>6. tx'[k] = t /\ \A l \in DOMAIN tx' : l # k => l \in DOMAIN tx /\ tx'[l] = tx[l]
    BY <2>1 DEF Started
  <2> QED BY <2>1, <2>2, <2>3, <2>4, <2>5, <2>6 DEF QuestionsOK, Open
<1>2. ASSUME UNCHANGED <<asked, reconnected>>,
             \A l \in Conns : l \in DOMAIN tx' => l \in DOMAIN tx /\ tx'[l] = tx[l],
             NEW k \in Conns, \A l \in Conns : l # k => verdict'[l] = verdict[l],
             k \notin DOMAIN tx', asked[k] # 0
      PROVE  QuestionsOK'
  BY <1>2 DEF QuestionsOK, Open
<1>3. ASSUME UNCHANGED <<asked, reconnected, verdict>>,
             \A l \in Conns : l \in DOMAIN tx' => l \in DOMAIN tx /\ tx'[l] = tx[l]
      PROVE  QuestionsOK'
  BY <1>3 DEF QuestionsOK, Open
<1>4. ASSUME NEW k \in Conns, AnswerGiven(k)
      PROVE  k \notin DOMAIN tx' /\ asked[k] # 0
  BY <1>4 DEF AnswerGiven, QuestionsOK, Open
<1>5. ASSUME NEW k \in Conns, ~Open(k), verdict[k] = "inconclusive",
             \A l \in Conns : l \in DOMAIN tx' => l \in DOMAIN tx /\ tx'[l] = tx[l]
      PROVE  k \notin DOMAIN tx' /\ asked[k] # 0
  BY <1>5 DEF QuestionsOK, Open
<1> QED BY <1>1, <1>2, <1>3, <1>4, <1>5, ConnectionsMove DEF AnswerGiven

\* A verdict that is settled is final, and a first answer is not taken back.
LEMMA VerdictsAreFinal ==
    ASSUME TxOK, AnswersOK, QuestionsOK, Step, NEW k \in Conns
    PROVE  /\ ~Unsettled(k) => verdict'[k] = verdict[k]
           /\ verdict'[k] = "none" => verdict[k] = "none"
<1>1. ASSUME NEW l \in Conns, AnswerGiven(l)
      PROVE  Unsettled(l) /\ verdict'[l] # "none"
  BY <1>1 DEF AnswerGiven, QuestionsOK, Open, Unsettled
<1>2. ASSUME NEW l \in Conns, NEW attempt, NEW id, NEW t, AskStep(l, attempt, id, t)
      PROVE  verdict' = verdict
  BY <1>2 DEF AskStep, Started
<1> QED BY <1>1, <1>2, ConnectionsMove DEF AnswerGiven, Unsettled

\* So is that another connection was judged real.
LEMMA RealIsFinal ==
    ASSUME TxOK, AnswersOK, QuestionsOK, Step, NEW k \in Conns
    PROVE  /\ OtherReal(k) => \E l \in Conns \ {k} : verdict'[l] = "real"
           /\ SomeReal => \E l \in Conns : verdict'[l] = "real"
BY VerdictsAreFinal DEF OtherReal, SomeReal, Unsettled

\* The row of a connection after a question's commit.
LEMMA RowCommitted ==
    ASSUME RowsOK, TxOK, RowsOfUnsettled, NEW l \in Conns, NEW t \in Transactions, NEW mine,
           Committed(l, t, mine), NEW k \in Conns, k \in DOMAIN rows'
    PROVE  \/ k \in DOMAIN rows /\ rows'[k].age = rows[k].age
           \/ k = l /\ rows'[k].age = 0
<1>1. Open(l) /\ t = tx[l] /\ Question(l, t)
  BY DEF Committed, Closed, Open, TxOK, TransactionOK
<1>2. CASE k # t.id
  BY <1>2 DEF Committed
<1>3. CASE k = t.id
  <2>1. rows'[k].age = (IF t.loadedRow = NoRow THEN t.row.age ELSE rows[t.id].age)
    BY <1>3, WrittenRowFacts DEF Committed
  <2>2. CASE t.loadedRow = NoRow
    <3>1. k = l
      BY <1>1, <1>3, <2>2 DEF RowsOfUnsettled
    <3>2. t.row.age = 0
      BY <1>1, NewValues DEF Question
    <3> QED BY <2>1, <2>2, <3>1, <3>2
  <2>3. CASE t.loadedRow # NoRow
    BY <1>3, <2>1, <2>3 DEF Committed
  <2> QED BY <2>2, <2>3
<1> QED BY <1>2, <1>3

\* The row of a connection after any step but time's.
LEMMA RowsKept ==
    ASSUME RowsOK, TxOK, AnswersOK, QuestionsOK, NoProfileNoRows, RowsOfUnsettled, Observed, Step,
           ~AgeStep, NEW k \in Conns, k \in DOMAIN rows'
    PROVE  \/ k \in DOMAIN rows /\ rows'[k].age = rows[k].age
           \/ rows'[k].age = 0 /\ verdict'[k] # "none"
<1>1. CASE StillStep
  <2>1. rows' = rows
    BY <1>1, StillAfter
  <2> QED BY <2>1
<1>2. ASSUME NEW l \in Conns, NEW t \in Transactions, LeaveStep(l, t)
      PROVE  \/ k \in DOMAIN rows /\ rows'[k].age = rows[k].age
             \/ rows'[k].age = 0 /\ verdict'[k] # "none"
  <2>1. verdict'[l] = "inconclusive"
    BY <1>2, NewVerdict DEF LeaveStep
  <2> QED BY <1>2, <2>1, RowCommitted DEF LeaveStep
<1>3. ASSUME NEW l \in Conns, NEW t \in Transactions, HoneypotStep(l, t)
      PROVE  \/ k \in DOMAIN rows /\ rows'[k].age = rows[k].age
             \/ rows'[k].age = 0 /\ verdict'[k] # "none"
  <2>1. verdict'[l] = "honeypot"
    BY <1>3, NewVerdict DEF HoneypotStep
  <2> QED BY <1>3, <2>1, RowCommitted DEF HoneypotStep
<1>4. ASSUME NEW e \in Events, NEW t \in Transactions, EventStep(e, t)
      PROVE  k \in DOMAIN rows /\ rows'[k].age = rows[k].age
  <2>1. Committed(e, t, t.mine) /\ Event(e, t)
    BY <1>4 DEF EventStep, Committed, Closed, Open, TxOK, TransactionOK
  <2>2. k # t.id
    BY <2>1, Apart DEF Event
  <2> QED BY <2>1, <2>2 DEF Committed
<1>5. ASSUME NEW l \in Conns, ForgetAllStep(l)
      PROVE  FALSE
  BY <1>5 DEF ForgetAllStep
<1>6. ASSUME NEW l \in Conns, NEW t \in Transactions, ForgetRowStep(l, t)
      PROVE  k \in DOMAIN rows /\ rows'[k].age = rows[k].age
  BY <1>6 DEF ForgetRowStep
<1> QED BY <1>1, <1>2, <1>3, <1>4, <1>5, <1>6 DEF Step, StillStep

\* Rows of connections without a verdict are fresh, and questions know it.
LEMMA UnsettledStep ==
    ASSUME RowsOK, TxOK, AnswersOK, QuestionsOK, NoProfileNoRows, RowsOfUnsettled, Observed, Step
    PROVE  RowsOfUnsettled'
<1> SUFFICES ASSUME NEW k \in Conns
             PROVE  /\ k \in DOMAIN rows' => verdict'[k] # "none"
                    /\ k \in DOMAIN rows' /\ Unsettled(k)' => rows'[k].age = 0
                    /\ \A l \in Conns : Open(l)' /\ k \in tx'[l].removes => ~Unsettled(k)'
                    /\ \A l \in Conns : Open(l)' /\ l # k /\ tx'[l].id = k
                                          => tx'[l].loadedRow # NoRow
  BY DEF RowsOfUnsettled
<1>1. ~Unsettled(k) => ~Unsettled(k)'
  BY VerdictsAreFinal DEF Unsettled
<1>2. verdict'[k] = "none" => verdict[k] = "none"
  BY VerdictsAreFinal
<1>3. ASSUME AgeStep
      PROVE  /\ k \in DOMAIN rows' => verdict'[k] # "none"
             /\ k \in DOMAIN rows' /\ Unsettled(k)' => rows'[k].age = 0
  <2>1. /\ DOMAIN rows' = DOMAIN rows /\ verdict' = verdict
        /\ k \in DOMAIN rows /\ verdict[k] = "inconclusive" => rows'[k] = rows[k]
    BY <1>3 DEF AgeStep, scorerVars
  <2> QED BY <2>1 DEF RowsOfUnsettled, Unsettled
<1>4. ASSUME ~AgeStep
      PROVE  /\ k \in DOMAIN rows' => verdict'[k] # "none"
             /\ k \in DOMAIN rows' /\ Unsettled(k)' => rows'[k].age = 0
  <2>1. k \in DOMAIN rows' => \/ k \in DOMAIN rows /\ rows'[k].age = rows[k].age
                              \/ rows'[k].age = 0 /\ verdict'[k] # "none"
    BY <1>4, RowsKept
  <2> QED BY <1>1, <1>2, <2>1 DEF RowsOfUnsettled
<1>5. ASSUME NEW l \in Conns, l \in DOMAIN tx', l \in DOMAIN tx, tx'[l] = tx[l]
      PROVE  /\ k \in tx'[l].removes => ~Unsettled(k)'
             /\ l # k /\ tx'[l].id = k => tx'[l].loadedRow # NoRow
  BY <1>1, <1>5 DEF RowsOfUnsettled, Open
<1>6. ASSUME NEW m \in Conns, NEW attempt \in 1 .. 2, NEW id \in Conns, NEW t \in Transactions,
             AskStep(m, attempt, id, t), NEW l \in Conns, l \in DOMAIN tx'
      PROVE  /\ k \in tx'[l].removes => ~Unsettled(k)'
             /\ l # k /\ tx'[l].id = k => tx'[l].loadedRow # NoRow
  <2>1. Started(m, t) /\ QuestionTx(m, t, id)
    BY <1>6 DEF AskStep
  <2>2. CASE l # m
    <3>1. l \in DOMAIN tx /\ tx'[l] = tx[l]
      BY <1>6, <2>1, <2>2 DEF Started
    <3> QED BY <1>5, <1>6, <3>1
  <2>3. CASE l = m
    <3>1. tx'[l] = t
      BY <2>1, <2>3 DEF Started
    <3>2. k \in t.removes => k \in DOMAIN rows /\ rows[k].age = 2
      BY <2>1 DEF QuestionTx, StaleRows
    <3>3. k \in t.removes => ~Unsettled(k)
      BY <3>2 DEF RowsOfUnsettled
    <3>4. l # k /\ t.id = k => k \in DOMAIN rows
      BY <1>6, <2>1, <2>3 DEF AskStep, QuestionTx
    <3>5. l # k /\ t.id = k => t.loadedRow # NoRow
      BY <2>1, <3>4, RowOfFacts DEF QuestionTx
    <3> QED BY <1>1, <3>1, <3>3, <3>5
  <2> QED BY <2>2, <2>3
<1>7. \A l \in Conns : Open(l)' =>
         /\ k \in tx'[l].removes => ~Unsettled(k)'
         /\ l # k /\ tx'[l].id = k => tx'[l].loadedRow # NoRow
  BY <1>5, <1>6, ConnectionsMove DEF Open
<1> QED BY <1>3, <1>4, <1>7

\* A first answer's row stays for the second question.
LEMMA FirstRowStep ==
    ASSUME RowsOK, TxOK, AnswersOK, QuestionsOK, NoProfileNoRows, RowsOfUnsettled, FirstRowStays,
           Observed, Step
    PROVE  FirstRowStays'
<1> SUFFICES ASSUME NEW k \in Conns, verdict'[k] = "inconclusive"
             PROVE  k \in DOMAIN rows' \/ OtherReal(k)'
  BY DEF FirstRowStays
<1>0. ASSUME NEW l \in Conns, verdict'[l] = "real"
      PROVE  OtherReal(k)'
  BY <1>0 DEF OtherReal
<1>1. OtherReal(k) => OtherReal(k)'
  BY RealIsFinal DEF OtherReal
<1>2. ASSUME NEW l \in Conns, AnswerGiven(l), NEW t, t = tx[l], TransactionOK(l, t),
             NEW mine, Committed(l, t, mine)
      PROVE  k \in DOMAIN rows' \/ OtherReal(k)'
  <2>1. CASE k = l
    <3>1. t.id = k
      BY <1>2, <2>1 DEF AnswerGiven, QuestionsOK, Open
    <3> QED BY <1>2, <3>1 DEF Committed
  <2>2. CASE k # l
    <3>1. verdict[k] = "inconclusive"
      BY <1>2, <2>2 DEF AnswerGiven
    <3>2. k \notin t.removes
      BY <1>2, <3>1 DEF RowsOfUnsettled, Unsettled, AnswerGiven, Open
    <3> QED BY <1>1, <1>2, <3>1, <3>2 DEF Committed, FirstRowStays
  <2> QED BY <2>1, <2>2
<1>3. CASE StillStep
  <2>1. rows' = rows
    BY <1>3, StillAfter
  <2>2. verdict[k] = "inconclusive"
    <3>1. ASSUME NEW w \in Workers, FailStep(w)
          PROVE  verdict[k] = "inconclusive"
      BY <3>1, NewVerdict DEF FailStep
    <3>2. CASE QuietStep
      BY <3>2, NewVerdict DEF QuietStep
    <3> QED BY <1>3, <3>1, <3>2 DEF StillStep, AskStep, ReadStep, EditStep, Started, Edited, scorerVars
  <2> QED BY <1>1, <2>1, <2>2 DEF FirstRowStays
<1>4. ASSUME NEW l \in Conns, NEW t \in Transactions, LeaveStep(l, t)
      PROVE  k \in DOMAIN rows' \/ OtherReal(k)'
  <2>1. /\ Committed(l, t, t.mine) /\ Closed(l) /\ t = tx[l] /\ asked[l] = 1
        /\ l \in DOMAIN tx /\ l \notin DOMAIN tx' /\ TransactionOK(l, t)
    BY <1>4 DEF LeaveStep, Committed, Closed, Open, TxOK
  <2>2. AnswerGiven(l)
    BY <1>4, <2>1, NewVerdict DEF LeaveStep, AnswerGiven
  <2> QED BY <1>2, <2>1, <2>2
<1>5. ASSUME NEW l \in Conns, NEW t \in Transactions, HoneypotStep(l, t)
      PROVE  k \in DOMAIN rows' \/ OtherReal(k)'
  <2>1. PICK mine : Committed(l, t, mine)
    BY <1>5 DEF HoneypotStep
  <2>2. /\ Closed(l) /\ t = tx[l]
        /\ l \in DOMAIN tx /\ l \notin DOMAIN tx' /\ TransactionOK(l, t)
    BY <2>1 DEF Committed, Closed, Open, TxOK
  <2>3. AnswerGiven(l)
    <3>1. verdict'[l] = "honeypot" /\ \A j \in Conns : j # l => verdict'[j] = verdict[j]
      BY <1>5, NewVerdict DEF HoneypotStep
    <3> QED BY <2>2, <3>1 DEF AnswerGiven
  <2> QED BY <1>2, <2>1, <2>2, <2>3
<1>6. ASSUME NEW e \in Events, NEW t \in Transactions, EventStep(e, t)
      PROVE  k \in DOMAIN rows' \/ OtherReal(k)'
  <2>1. Event(e, t) /\ verdict' = verdict /\ Committed(e, t, t.mine)
    BY <1>6 DEF EventStep, Committed, Closed, Open, TxOK, TransactionOK, scorerVars
  <2> QED BY <1>1, <2>1 DEF Event, Committed, FirstRowStays
<1>7. ASSUME NEW l \in Conns, NEW t, ForgetAllStep(l) \/ ForgetRowStep(l, t)
      PROVE  OtherReal(k)'
  <2>1. verdict'[l] = "real"
    BY <1>7, NewVerdict DEF ForgetAllStep, ForgetRowStep
  <2> QED BY <1>0, <2>1
<1>8. CASE AgeStep
  BY <1>1, <1>8 DEF AgeStep, scorerVars, FirstRowStays
<1> QED BY <1>3, <1>4, <1>5, <1>6, <1>7, <1>8 DEF Step, StillStep

\* A second question is a reconnect.
LEMMA ReconnectStep ==
    ASSUME RowsOK, TxOK, AnswersOK, QuestionsOK, RowsOfUnsettled, FirstRowStays,
           SecondQuestionIsReconnect, Step
    PROVE  SecondQuestionIsReconnect'
<1> SUFFICES ASSUME NEW k \in Conns, asked'[k] = 2
             PROVE  reconnected'[k] \/ \E l \in Conns \ {k} : verdict'[l] = "real"
  BY DEF SecondQuestionIsReconnect
<1>1. OtherReal(k) => \E l \in Conns \ {k} : verdict'[l] = "real"
  BY RealIsFinal
<1>2. asked'[k] = asked[k] /\ reconnected'[k] = reconnected[k]
        => reconnected'[k] \/ \E l \in Conns \ {k} : verdict'[l] = "real"
  BY <1>1 DEF SecondQuestionIsReconnect, OtherReal
<1>3. ASSUME NEW m \in Conns, NEW attempt \in 1 .. 2, NEW id \in Conns, NEW t \in Transactions,
             AskStep(m, attempt, id, t)
      PROVE  reconnected'[k] \/ \E l \in Conns \ {k} : verdict'[l] = "real"
  <2>1. CASE k # m
    <3>1. asked'[k] = asked[k] /\ reconnected'[k] = reconnected[k]
      BY <1>3, <2>1 DEF AskStep, AnswersOK
    <3> QED BY <1>2, <3>1
  <2>2. CASE k = m
    <3>1. attempt = 2
      BY <1>3, <2>2 DEF AskStep, AnswersOK
    <3>2. verdict[k] = "inconclusive"
      BY <1>3, <2>2, <3>1 DEF AskStep
    <3>3. CASE k \in DOMAIN rows
      <4>1. rows[k].age = 0
        BY <3>2, <3>3 DEF RowsOfUnsettled, Unsettled
      <4>2. FreshRows # {}
        BY <3>3, <4>1 DEF FreshRows
      <4> DEFINE is == FreshRows # {}
      <4>3. reconnected' = [reconnected EXCEPT ![k] = is] /\ is
        BY <1>3, <2>2, <4>2 DEF AskStep
      <4> HIDE DEF is
      <4>4. reconnected'[k] = is
        BY <4>3 DEF AnswersOK
      <4> QED BY <4>3, <4>4
    <3> QED BY <1>1, <3>2, <3>3 DEF FirstRowStays
  <2> QED BY <2>1, <2>2
<1>4. ASSUME UNCHANGED <<asked, reconnected>>
      PROVE  asked'[k] = asked[k] /\ reconnected'[k] = reconnected[k]
  BY <1>4
<1> QED BY <1>2, <1>3, <1>4, ConnectionsMove

-----------------------------------------------------------------------------
(* The ghosts.                                                              *)

\* An event is done with when its transaction closes, and only then.
LEMMA DoneMoves ==
    ASSUME TxOK, AnswersOK, Step, NEW e \in Events
    PROVE  \/ done'[e] = done[e]
           \/ e \in DOMAIN tx /\ e \notin DOMAIN tx'
<1>1. ASSUME NEW f \in Events, NEW d, Closed(f), done' = [done EXCEPT ![f] = d]
      PROVE  \/ done'[e] = done[e]
             \/ e \in DOMAIN tx /\ e \notin DOMAIN tx'
  BY <1>1, NewDone DEF Closed, Open
<1>2. done' = done \/ \E f \in Events, d \in {"committed", "failed"} :
                        Closed(f) /\ done' = [done EXCEPT ![f] = d]
  BY DEF Step, AskStep, ReadStep, EditStep, LeaveStep, HoneypotStep, EventStep, ForgetAllStep,
         ForgetRowStep, FailStep, QuietStep, AgeStep, Started, Edited, Committed
<1> QED BY <1>1, <1>2

\* An event that is read in was not done.
LEMMA OpenEvents ==
    ASSUME Step, NEW e \in Events, e \in DOMAIN tx', e \notin DOMAIN tx
    PROVE  done'[e] = "no"
<1>1. ASSUME NEW w, Closed(w)
      PROVE  FALSE
  BY <1>1 DEF Closed
<1>2. ASSUME NEW k \in Conns, NEW attempt, NEW id, NEW t, AskStep(k, attempt, id, t)
      PROVE  FALSE
  BY <1>2, Apart DEF AskStep, Started
<1>3. ASSUME NEW f \in Events, NEW t, ReadStep(f, t)
      PROVE  done'[e] = "no"
  BY <1>3 DEF ReadStep, Started
<1>4. ASSUME NEW f, NEW t, EditStep(f, t)
      PROVE  FALSE
  BY <1>4 DEF EditStep, Edited
<1>5. CASE QuietStep \/ AgeStep
  BY <1>5 DEF QuietStep, AgeStep, dbVars
<1> QED BY <1>1, <1>2, <1>3, <1>4, <1>5
        DEF Step, LeaveStep, HoneypotStep, EventStep, ForgetAllStep, ForgetRowStep, FailStep, Committed

\* Who counts is done.
LEMMA GhostsStep ==
    ASSUME TxOK, AnswersOK, QuestionsOK, GhostsOK, Observed, Step
    PROVE  GhostsOK'
<1>1. IsFiniteSet(DOMAIN tx')
  BY FewOpen DEF GhostsOK
<1>2. counted' \subseteq counted \cup (DOMAIN tx \ DOMAIN tx')
  BY DEF Observed
<1>3. IsFiniteSet(counted')
  <2>1. IsFiniteSet(DOMAIN tx \ DOMAIN tx')
    BY FS_Subset DEF GhostsOK
  <2>2. IsFiniteSet(counted \cup (DOMAIN tx \ DOMAIN tx'))
    BY <2>1, FS_Union DEF GhostsOK
  <2> QED BY <1>2, <2>2, FS_Subset
<1>4. ASSUME NEW e \in Events, e \in DOMAIN tx'
      PROVE  done'[e] = "no"
  <2>1. CASE e \in DOMAIN tx
    BY <1>4, <2>1, DoneMoves DEF GhostsOK, Open
  <2>2. CASE e \notin DOMAIN tx
    BY <1>4, <2>2, OpenEvents
  <2> QED BY <2>1, <2>2
<1>5. ASSUME NEW w \in counted', w \notin counted
      PROVE  Counts(w)
  BY <1>5 DEF Observed
<1>6. ASSUME NEW e \in Events, e \in counted'
      PROVE  done'[e] = "committed"
  <2>1. CASE e \in counted
    <3>1. done[e] = "committed" /\ e \notin DOMAIN tx
      BY <2>1 DEF GhostsOK, Open
    <3> QED BY <3>1, DoneMoves
  <2>2. CASE e \notin counted
    BY <1>5, <1>6, <2>2, Apart DEF Counts
  <2> QED BY <2>1, <2>2
<1>7. ASSUME NEW k \in Conns, k \in counted'
      PROVE  verdict'[k] = "honeypot"
  <2>1. CASE k \in counted
    BY <2>1, VerdictsAreFinal DEF GhostsOK, Unsettled
  <2>2. CASE k \notin counted
    BY <1>5, <1>7, <2>2, Apart DEF Counts
  <2> QED BY <2>1, <2>2
<1> QED BY <1>1, <1>3, <1>4, <1>6, <1>7 DEF GhostsOK, Open

\* One more worker is counted, or none.
LEMMA CountRises ==
    ASSUME GhostsOK, NEW w, w \notin counted, counted' = counted \cup {w}
    PROVE  Cardinality(counted') = Cardinality(counted) + 1 /\ Cardinality(counted) \in Nat
BY FS_AddElement, FS_CardinalityType DEF GhostsOK

\* No step takes a worker out while the profile is there, unless it deletes it.
LEMMA CountKept ==
    ASSUME AnswersOK, NoProfileNoRows, GhostsOK, GhostsOK', Observed, profile' # NoRow
    PROVE  Cardinality(counted) <= Cardinality(counted')
           /\ Cardinality(counted) \in Nat /\ Cardinality(counted') \in Nat
<1>1. counted \subseteq counted'
  BY DEF Observed
<1>2. IsFiniteSet(counted) /\ IsFiniteSet(counted')
  BY DEF GhostsOK
<1> QED BY <1>1, <1>2, FS_Subset, FS_CardinalityType

\* A profile goes only with a verdict that the connection is real.
LEMMA ProfileGoes ==
    ASSUME RowsOK, AnswersOK, NoProfileNoRows, Observed, Step, profile # NoRow, profile' = NoRow
    PROVE  \E k \in Conns : verdict'[k] = "real"
<1>1. CASE StillStep
  BY <1>1, StillAfter
<1>2. ASSUME NEW k \in Conns, NEW t \in Transactions, LeaveStep(k, t)
      PROVE  FALSE
  BY <1>2, ProfileAfter, TransactionFields DEF LeaveStep
<1>3. ASSUME NEW k \in Conns, NEW t \in Transactions, HoneypotStep(k, t)
      PROVE  FALSE
  BY <1>3, ProfileAfter DEF HoneypotStep
<1>4. ASSUME NEW e \in Events, NEW t \in Transactions, EventStep(e, t)
      PROVE  FALSE
  BY <1>4, ProfileAfter, TransactionFields DEF EventStep
<1>5. ASSUME NEW k \in Conns, ForgetAllStep(k)
      PROVE  verdict'[k] = "real"
  BY <1>5, NewVerdict DEF ForgetAllStep
<1>6. CASE AgeStep \/ \E k \in Conns, t \in Transactions : ForgetRowStep(k, t)
  BY <1>6 DEF AgeStep, ForgetRowStep
<1> QED BY <1>1, <1>2, <1>3, <1>4, <1>5, <1>6 DEF Step, StillStep

\* The profile that a transaction has read is the one of its start.
LEMMA StartedFresh ==
    ASSUME Step, NEW w \in DOMAIN tx'
    PROVE  \/ w \in DOMAIN tx /\ tx'[w].loaded = tx[w].loaded
           \/ tx'[w].loaded = profile /\ UNCHANGED <<profile, rows, alerts>>
<1>1. CASE ClosingStep
  BY <1>1 DEF ClosingStep
<1>2. ASSUME NEW v, NEW t, Started(v, t), t.loaded = profile
      PROVE  \/ w \in DOMAIN tx /\ tx'[w].loaded = tx[w].loaded
             \/ tx'[w].loaded = profile /\ UNCHANGED <<profile, rows, alerts>>
  BY <1>2 DEF Started
<1>3. ASSUME NEW e \in Events, NEW u \in Transactions, EditStep(e, u)
      PROVE  w \in DOMAIN tx /\ tx'[w].loaded = tx[w].loaded
  BY <1>3 DEF EditStep, Edited, Progress, SessionRead
<1> QED BY <1>1, <1>2, <1>3, Closing DEF AskStep, ReadStep, QuestionTx, EventTx

\* The session that an event's transaction has read is the one of a later step.
LEMMA SessionFresh ==
    ASSUME Step, NEW f \in Events, f \in DOMAIN tx', tx'[f].stage # "opened"
    PROVE  \/ f \in DOMAIN tx /\ tx[f].stage # "opened" /\ tx'[f].row = tx[f].row
           \/ RowWith(f, RowOf(SessionOf[f]), tx'[f].row)
<1>1. CASE ClosingStep
  BY <1>1 DEF ClosingStep
<1>2. ASSUME NEW v, NEW t, Started(v, t), v = f => t.stage = "opened"
      PROVE  f \in DOMAIN tx /\ tx[f].stage # "opened" /\ tx'[f].row = tx[f].row
  BY <1>2 DEF Started
<1>3. ASSUME NEW k \in Conns, NEW attempt, NEW id, NEW t, AskStep(k, attempt, id, t)
      PROVE  f \in DOMAIN tx /\ tx[f].stage # "opened" /\ tx'[f].row = tx[f].row
  BY <1>2, <1>3, Apart DEF AskStep
<1>4. ASSUME NEW e \in Events, NEW t, ReadStep(e, t)
      PROVE  f \in DOMAIN tx /\ tx[f].stage # "opened" /\ tx'[f].row = tx[f].row
  BY <1>2, <1>4 DEF ReadStep, EventTx
<1>5. ASSUME NEW e \in Events, NEW u \in Transactions, EditStep(e, u)
      PROVE  \/ f \in DOMAIN tx /\ tx[f].stage # "opened" /\ tx'[f].row = tx[f].row
             \/ RowWith(f, RowOf(SessionOf[f]), tx'[f].row)
  BY <1>5 DEF EditStep, Edited, Progress, SessionRead
<1> QED BY <1>1, <1>3, <1>4, <1>5, Closing

\* No open transaction has read more than there are commits.
LEMMA LoadedStep ==
    ASSUME RowsOK, TxOK, AnswersOK, QuestionsOK, NoProfileNoRows, GhostsOK, GhostsOK',
           LoadedBelowCount, CountsAndKeeps, Observed, Step
    PROVE  LoadedBelowCount'
<1> SUFFICES ASSUME ~SomeReal', NEW w \in DOMAIN tx', tx'[w].loaded # NoRow
             PROVE  profile' # NoRow /\ tx'[w].loaded.total <= Cardinality(counted')
  BY DEF LoadedBelowCount
<1>1. ~SomeReal
  BY RealIsFinal DEF SomeReal
<1>2. CASE w \in DOMAIN tx /\ tx'[w].loaded = tx[w].loaded
  <2>1. profile # NoRow /\ tx[w].loaded.total <= Cardinality(counted)
    BY <1>1, <1>2 DEF LoadedBelowCount
  <2>2. profile' # NoRow
    BY <2>1, ProfileGoes DEF SomeReal
  <2>3. tx[w].loaded.total \in Nat
    <3>1. tx[w].loaded \in Profiles
      BY <1>2, TransactionFields DEF TxOK, TransactionOK
    <3> QED BY <3>1 DEF Profiles
  <2> QED BY <1>2, <2>1, <2>2, <2>3, CountKept
<1>3. CASE tx'[w].loaded = profile /\ UNCHANGED <<profile, rows, alerts>>
  <2>1. profile # NoRow /\ profile' # NoRow
    BY <1>3
  <2>2. profile.total <= Cardinality(counted)
    BY <1>1, <2>1 DEF CountsAndKeeps, SomeReal
  <2>3. profile.total \in Nat
    BY <2>1 DEF RowsOK, Profiles
  <2> QED BY <1>3, <2>1, <2>2, <2>3, CountKept
<1> QED BY <1>2, <1>3, StartedFresh

\* A transaction that is alone has read what is there.
LEMMA AloneStep ==
    ASSUME RowsOK, TxOK, AnswersOK, NoProfileNoRows, OverlapSeen, AloneIsCurrent, Observed, Step
    PROVE  AloneIsCurrent'
<1> SUFFICES ASSUME overlapped' = {}, NEW w \in DOMAIN tx'
             PROVE  tx'[w].loaded = profile'
  BY DEF AloneIsCurrent
<1>1. overlapped = {} /\ \A v \in DOMAIN tx' : v = w
  BY DEF Observed
<1>2. CASE tx'[w].loaded = profile /\ UNCHANGED <<profile, rows, alerts>>
  BY <1>2
<1>3. CASE w \in DOMAIN tx /\ tx'[w].loaded = tx[w].loaded
  <2>1. tx[w].loaded = profile /\ \A v \in DOMAIN tx : v = w
    BY <1>1, <1>3 DEF AloneIsCurrent, OverlapSeen
  <2>2. ASSUME NEW v, Closed(v)
        PROVE  FALSE
    BY <2>1, <2>2 DEF Closed, Open
  <2>3. StillStep \/ AgeStep
    BY <2>2 DEF Step, StillStep, LeaveStep, HoneypotStep, EventStep, ForgetAllStep, ForgetRowStep,
                Committed
  <2>4. profile' = profile
    BY <2>3, StillAfter DEF AgeStep
  <2> QED BY <1>3, <2>1, <2>4
<1> QED BY <1>2, <1>3, StartedFresh

\* Later events have read what was committed alone.
LEMMA LaterStep ==
    ASSUME RowsOK, TxOK, AnswersOK, NoProfileNoRows, CountsAndKeeps, OverlapSeen, LaterEventsHaveIt,
           Observed, Step
    PROVE  LaterEventsHaveIt'
<1> SUFFICES ASSUME NEW e \in Events, e \in counted', e \notin overlapped',
                    NEW f \in Events, f \in DOMAIN tx', SessionOf[f] = SessionOf[e],
                    tx'[f].stage # "opened"
             PROVE  e \in tx'[f].row.events
  BY DEF LaterEventsHaveIt
<1>1. e \notin overlapped /\ profile' # NoRow
  BY DEF Observed
<1>2. CASE e \in counted
  <2>1. CASE f \in DOMAIN tx /\ tx[f].stage # "opened" /\ tx'[f].row = tx[f].row
    BY <1>1, <1>2, <2>1 DEF LaterEventsHaveIt
  <2>2. CASE RowWith(f, RowOf(SessionOf[f]), tx'[f].row)
    <3>1. profile # NoRow
      BY <1>2 DEF NoProfileNoRows
    <3>2. SessionOf[e] \in DOMAIN rows /\ e \in rows[SessionOf[e]].events
      BY <1>1, <1>2, <3>1 DEF CountsAndKeeps
    <3>3. RowOf(SessionOf[f]) = rows[SessionOf[e]] /\ RowOf(SessionOf[f]) # NoRow
      BY <3>2, RowOfFacts
    <3> QED BY <2>2, <3>2, <3>3 DEF RowWith
  <2> QED BY <2>1, <2>2, SessionFresh
<1>3. CASE e \notin counted
  <2>1. e \in DOMAIN tx /\ e \notin DOMAIN tx'
    BY <1>3 DEF Observed
  <2>2. f \in DOMAIN tx
    <3>1. ~ClosingStep => DOMAIN tx \subseteq DOMAIN tx'
      BY Closing DEF AskStep, ReadStep, EditStep, Started, Edited
    <3> QED BY <2>1, <3>1 DEF ClosingStep
  <2>3. e # f
    BY <2>1
  <2> QED BY <1>1, <2>1, <2>2, <2>3 DEF OverlapSeen
<1> QED BY <1>2, <1>3

\* The counter never counts what was not committed.
LEMMA NeverMore ==
    ASSUME RowsOK, TxOK, AnswersOK, QuestionsOK, NoProfileNoRows, GhostsOK, GhostsOK',
           LoadedBelowCount, CountsAndKeeps, Observed, Step,
           profile' # NoRow, \A k \in Conns : verdict'[k] # "real"
    PROVE  profile'.total <= Cardinality(counted')
<1>1. ~SomeReal
  BY RealIsFinal DEF SomeReal
<1>2. Cardinality(counted) \in Nat /\ Cardinality(counted) <= Cardinality(counted')
        /\ Cardinality(counted') \in Nat
  BY CountKept
<1>3. profile # NoRow => profile.total <= Cardinality(counted) /\ profile.total \in Nat
  BY <1>1 DEF CountsAndKeeps, SomeReal, RowsOK, Profiles
<1>4. CASE profile # NoRow /\ profile' = profile
  BY <1>2, <1>3, <1>4
<1>5. CASE StillStep \/ AgeStep \/ \E k \in Conns, t \in Transactions : ForgetRowStep(k, t)
  <2>1. profile' = profile
    BY <1>5, StillAfter DEF AgeStep, ForgetRowStep
  <2> QED BY <1>4, <2>1
<1>6. ASSUME NEW k \in Conns, NEW t \in Transactions, LeaveStep(k, t)
      PROVE  profile'.total <= Cardinality(counted')
  <2>1. profile' = IF profile = NoRow THEN NewProfile ELSE profile
    BY <1>6, LeaveAfter
  <2>2. CASE profile = NoRow
    <3>1. profile'.total = 0
      BY <2>1, <2>2, NewValues
    <3> DEFINE n == Cardinality(counted')
    <3>2. n \in Nat
      BY <1>2
    <3> HIDE DEF n
    <3>3. profile'.total <= n
      BY <3>1, <3>2
    <3> QED BY <3>3 DEF n
  <2> QED BY <1>4, <2>1, <2>2
<1>7. ASSUME NEW w, NEW t, Counted(w, t)
      PROVE  profile'.total <= Cardinality(counted')
  <2>1. CASE profile = NoRow
    <3>1. profile'.total = 1 /\ counted' = counted \cup {w} /\ w \notin counted
      BY <1>7, <2>1 DEF Counted
    <3>2. Cardinality(counted') = Cardinality(counted) + 1
      BY <3>1, CountRises
    <3> DEFINE n == Cardinality(counted)
    <3> DEFINE m == Cardinality(counted')
    <3>3. n \in Nat /\ m = n + 1
      BY <1>2, <3>2
    <3> HIDE DEF n, m
    <3>4. profile'.total <= m
      BY <3>1, <3>3
    <3> QED BY <3>4 DEF m
  <2>2. CASE profile # NoRow /\ profile' # profile
    <3>1. /\ t = tx[w] /\ w \in DOMAIN tx /\ w \notin counted /\ counted' = counted \cup {w}
          /\ t.loaded # NoRow /\ t.loaded \in Profiles /\ profile'.total = t.loaded.total + 1
      BY <1>7, <2>2 DEF Counted
    <3>2. t.loaded.total \in Nat /\ t.loaded.total <= Cardinality(counted)
      BY <1>1, <3>1 DEF LoadedBelowCount, Profiles
    <3> QED BY <1>2, <3>1, <3>2, CountRises
  <2> QED BY <1>4, <2>1, <2>2
<1>8. ASSUME NEW k \in Conns, ForgetAllStep(k)
      PROVE  FALSE
  BY <1>8 DEF ForgetAllStep
<1> QED BY <1>5, <1>6, <1>7, <1>8, HoneypotAfter, EventAfter DEF Step, StillStep

\* Where nothing overlaps, it counts every commit.
LEMMA CountsAll ==
    ASSUME RowsOK, TxOK, AnswersOK, QuestionsOK, NoProfileNoRows, GhostsOK, GhostsOK',
           AloneIsCurrent, CountsAndKeeps, Observed, Step, profile' # NoRow, overlapped' = {}
    PROVE  profile'.total = Cardinality(counted')
<1>1. overlapped = {}
  BY DEF Observed
<1>2. profile # NoRow => profile.total = Cardinality(counted)
  BY <1>1 DEF CountsAndKeeps
<1>3. Cardinality(counted) \in Nat
  BY FS_CardinalityType DEF GhostsOK
<1>4. profile = NoRow => counted = {}
  BY DEF NoProfileNoRows
<1>5. CASE StillStep
  BY <1>2, <1>5, StillAfter
<1>6. CASE AgeStep
  BY <1>2, <1>6, NobodyCounts DEF AgeStep
<1>7. ASSUME NEW k \in Conns, NEW t \in Transactions, ForgetRowStep(k, t)
      PROVE  profile'.total = Cardinality(counted')
  BY <1>2, <1>7, ForgottenAfter DEF ForgetRowStep
<1>8. ASSUME NEW k \in Conns, NEW t \in Transactions, LeaveStep(k, t)
      PROVE  profile'.total = Cardinality(counted')
  <2>1. /\ profile' = IF profile = NoRow THEN NewProfile ELSE profile
        /\ counted' = counted
    BY <1>8, LeaveAfter
  <2>2. CASE profile = NoRow
    BY <1>4, <2>1, <2>2, NewValues, FS_EmptySet
  <2> QED BY <1>2, <2>1, <2>2
<1>9. ASSUME NEW w, NEW t, Counted(w, t)
      PROVE  profile'.total = Cardinality(counted')
  <2>1. CASE profile = NoRow
    <3>1. profile'.total = 1 /\ counted' = counted \cup {w} /\ w \notin counted
      BY <1>9, <2>1 DEF Counted
    <3>2. Cardinality(counted) = 0
      BY <1>4, <2>1, FS_EmptySet
    <3> QED BY <3>1, <3>2, CountRises
  <2>2. CASE profile # NoRow
    <3>1. /\ t.loaded = profile /\ w \notin counted
          /\ profile'.total = profile.total + 1
          /\ profile \in Profiles
          /\ \/ counted' = counted \cup {w}
             \/ counted' = counted /\ profile' = profile
      BY <1>1, <1>9, <2>2 DEF Counted, AloneIsCurrent
    <3>2. profile.total \in Nat
      BY <3>1 DEF Profiles
    <3>3. profile' # profile
      BY <3>1, <3>2
    <3> QED BY <1>2, <2>2, <3>1, <3>3, CountRises
  <2> QED BY <2>1, <2>2
<1>10. ASSUME NEW k \in Conns, ForgetAllStep(k)
       PROVE  FALSE
  BY <1>10 DEF ForgetAllStep
<1> QED BY <1>5, <1>6, <1>7, <1>8, <1>9, <1>10, HoneypotAfter, EventAfter DEF Step, StillStep

\* What did not overlap keeps its event.
LEMMA KeepsEvents ==
    ASSUME RowsOK, TxOK, AnswersOK, QuestionsOK, NoProfileNoRows, GhostsOK,
           LaterEventsHaveIt, CountsAndKeeps, Observed, Step, profile' # NoRow,
           NEW e \in Events, e \in counted', e \notin overlapped'
    PROVE  SessionOf[e] \in DOMAIN rows' /\ e \in rows'[SessionOf[e]].events
<1> DEFINE s == SessionOf[e]
<1>1. e \in counted => s \in DOMAIN rows /\ e \in rows[s].events
  <2>1. e \notin overlapped
    BY DEF Observed
  <2>2. e \in counted => profile # NoRow
    BY DEF NoProfileNoRows
  <2> QED BY <2>1, <2>2 DEF CountsAndKeeps
<1>2. s \notin Conns /\ e \notin Conns
  BY Apart
<1> HIDE DEF s
<1>3. CASE StillStep
  <2>1. UNCHANGED <<rows, counted>>
    BY <1>3, StillAfter
  <2> QED BY <1>1, <2>1 DEF s
<1>4. ASSUME NEW k \in Conns, NEW t \in Transactions, NEW mine, Committed(k, t, mine), Question(k, t),
             e \in counted
      PROVE  s \in DOMAIN rows' /\ e \in rows'[s].events
  <2>1. s \notin t.removes /\ s # t.id
    BY <1>2, <1>4, TransactionFields DEF Question
  <2> QED BY <1>1, <1>4, <2>1 DEF Committed
<1>5. ASSUME NEW k \in Conns, NEW t \in Transactions, LeaveStep(k, t)
      PROVE  s \in DOMAIN rows' /\ e \in rows'[s].events
  <2>1. Question(k, t) /\ e \in counted /\ Committed(k, t, t.mine)
    BY <1>5, LeaveAfter DEF LeaveStep
  <2> QED BY <1>4, <2>1
<1>6. ASSUME NEW k \in Conns, NEW t \in Transactions, HoneypotStep(k, t)
      PROVE  s \in DOMAIN rows' /\ e \in rows'[s].events
  <2>1. PICK mine : Committed(k, t, mine)
    BY <1>6 DEF HoneypotStep
  <2>2. Question(k, t) /\ Counted(k, t)
    BY <1>6, HoneypotAfter
  <2>3. counted' = counted \cup {k} \/ counted' = counted
    BY <2>2 DEF Counted
  <2>4. e \in counted
    BY <1>2, <2>3
  <2> QED BY <1>4, <2>1, <2>2, <2>4
<1>7. ASSUME NEW f \in Events, NEW t \in Transactions, EventStep(f, t)
      PROVE  s \in DOMAIN rows' /\ e \in rows'[s].events
  <2>1. /\ Event(f, t) /\ Committed(f, t, t.mine) /\ counted' = counted \cup {f}
        /\ t = tx[f] /\ f \in DOMAIN tx /\ t.stage = "scored"
    BY <1>7, EventAfter DEF EventStep, Counted
  <2>2. t.removes = {} /\ t.id = SessionOf[f] /\ f \in t.row.events
    BY <2>1 DEF Event
  <2>3. CASE t.id = s
    <3>1. rows'[s].events = t.row.events
      BY <2>1, <2>3, WrittenRowFacts DEF Committed
    <3>2. e \in t.row.events
      <4>1. CASE e = f
        BY <2>2, <4>1
      <4>2. CASE e # f
        <5>1. e \in counted /\ e \notin overlapped
          BY <2>1, <4>2 DEF Observed
        <5> QED BY <2>1, <2>2, <2>3, <5>1 DEF LaterEventsHaveIt, s
      <4> QED BY <4>1, <4>2
    <3> QED BY <2>1, <2>3, <3>1, <3>2 DEF Committed
  <2>4. CASE t.id # s
    <3>1. e \in counted
      BY <2>1, <2>2, <2>4 DEF s
    <3> QED BY <1>1, <2>1, <2>2, <2>4, <3>1 DEF Committed
  <2> QED BY <2>3, <2>4
<1>8. ASSUME NEW k \in Conns, ForgetAllStep(k)
      PROVE  FALSE
  BY <1>8 DEF ForgetAllStep
<1>9. ASSUME NEW k \in Conns, NEW t \in Transactions, ForgetRowStep(k, t)
      PROVE  s \in DOMAIN rows' /\ e \in rows'[s].events
  <2>1. e \in counted
    BY <1>9, ForgottenAfter
  <2>2. Question(k, t)
    BY <1>9 DEF ForgetRowStep, Closed, Open, TxOK, TransactionOK
  <2>3. s \notin t.removes \cup {t.id}
    BY <1>2, <2>2, TransactionFields DEF Question
  <2> QED BY <1>1, <1>9, <2>1, <2>3 DEF ForgetRowStep
<1>10. CASE AgeStep
  <2>1. e \in counted
    BY <1>10, NobodyCounts DEF AgeStep
  <2> QED BY <1>1, <1>10, <2>1 DEF AgeStep, s
<1> QED BY <1>3, <1>5, <1>6, <1>7, <1>8, <1>9, <1>10 DEF Step, StillStep, s

-----------------------------------------------------------------------------
(* The theorems.                                                            *)

\* The invariant holds at first.
LEMMA RecInvInit ==
    ASSUME RecInit
    PROVE  RecInv
<1>1. profile = NoRow /\ rows = <<>> /\ alerts = {} /\ tx = <<>>
  BY DEF RecInit, DbInit
<1>2. DOMAIN rows = {} /\ DOMAIN tx = {}
  BY <1>1
<1>3. counted = {} /\ overlapped = {} /\ done = [e \in Events |-> "no"]
  BY DEF RecInit, IngestInit
<1>4. /\ asked = [k \in Conns |-> 0] /\ verdict = [k \in Conns |-> "none"]
      /\ reconnected = [k \in Conns |-> FALSE]
  BY DEF RecInit, ScorerInit
<1>5. RowsOK /\ TxOK /\ NoProfileNoRows
  BY <1>1, <1>2, <1>3 DEF RowsOK, TxOK, NoProfileNoRows
<1>6. AnswersOK
  BY <1>3, <1>4 DEF AnswersOK
<1>7. ZeroMeansNoHistory /\ HighProfileHasAlert /\ CountsAndKeeps
  BY <1>1 DEF ZeroMeansNoHistory, HighProfileHasAlert, CountsAndKeeps
<1>8. AlarmsBehindLevels /\ OverlapSeen /\ AloneIsCurrent /\ LaterEventsHaveIt /\ LoadedBelowCount
  BY <1>2, <1>3 DEF AlarmsBehindLevels, OverlapSeen, AloneIsCurrent, LaterEventsHaveIt, LoadedBelowCount
<1>9. QuestionsOK /\ RowsOfUnsettled /\ FirstRowStays /\ SecondQuestionIsReconnect
  BY <1>2, <1>4 DEF QuestionsOK, RowsOfUnsettled, FirstRowStays, SecondQuestionIsReconnect, Open
<1>10. GhostsOK
  BY <1>2, <1>3, FS_EmptySet DEF GhostsOK, Open
<1> QED BY <1>5, <1>6, <1>7, <1>8, <1>9, <1>10 DEF RecInv

\* Every step keeps it.
LEMMA RecInvStep ==
    ASSUME RecInv, [RecNext]_recVars
    PROVE  RecInv'
<1> USE DEF RecInv
<1>1. Step /\ Observed
  BY StepsAreObserved
<1>2. RowsOK' /\ TxOK' /\ AnswersOK' /\ NoProfileNoRows'
  BY <1>1, RowsStep, TxStep, AnswersStep, NothingStep
<1>3. ZeroMeansNoHistory' /\ HighProfileHasAlert' /\ AlarmsBehindLevels'
  BY <1>1, ZeroStep, HighStep, AlarmsStep
<1>4. QuestionsOK' /\ RowsOfUnsettled' /\ FirstRowStays' /\ SecondQuestionIsReconnect'
  BY <1>1, QuestionsStep, UnsettledStep, FirstRowStep, ReconnectStep
<1>5. GhostsOK'
  BY <1>1, GhostsStep
<1>6. OverlapSeen'
  BY <1>1 DEF Observed, OverlapSeen
<1>7. LoadedBelowCount' /\ AloneIsCurrent' /\ LaterEventsHaveIt'
  BY <1>1, <1>5, LoadedStep, AloneStep, LaterStep
<1>8. CountsAndKeeps'
  BY <1>1, <1>5, NeverMore, CountsAll, KeepsEvents DEF CountsAndKeeps
<1> QED BY <1>2, <1>3, <1>4, <1>5, <1>6, <1>7, <1>8

\* The invariant, of every behaviour.
THEOREM RecordsInvariant == RecSpec => []RecInv
<1>1. RecInit => RecInv
  BY RecInvInit
<1>2. RecInv /\ [RecNext]_recVars => RecInv'
  BY RecInvStep
<1> QED BY <1>1, <1>2, PTL DEF RecSpec

\* Whatever the order of questions and events: a profile without sessions has
\* nothing behind it that deleting it would lose (classify_connection).
THEOREM ForgettingIsSafe == RecSpec => []ZeroMeansNoHistory
<1>1. RecInv => ZeroMeansNoHistory
  BY DEF RecInv
<1> QED BY <1>1, RecordsInvariant, PTL

\* A profile at level 3 or more has an alert that was shown (ingest_event,
\* trigger_canary).
THEOREM HighMeansAlert == RecSpec => []HighProfileHasAlert
<1>1. RecInv => HighProfileHasAlert
  BY DEF RecInv
<1> QED BY <1>1, RecordsInvariant, PTL

\* The second question counts as a reconnect, unless another connection's
\* verdict has deleted the rows (classify_connection).
THEOREM SecondIsReconnect == RecSpec => []SecondQuestionIsReconnect
<1>1. RecInv => SecondQuestionIsReconnect
  BY DEF RecInv
<1> QED BY <1>1, RecordsInvariant, PTL

\* The counter is never too high without a deletion, right without overlaps,
\* and what did not overlap keeps its event (ingest_event).
THEOREM CountersAndEvents == RecSpec => []CountsAndKeeps
<1>1. RecInv => CountsAndKeeps
  BY DEF RecInv
<1> QED BY <1>1, RecordsInvariant, PTL

-----------------------------------------------------------------------------
(* The types of what the invariant does not speak of.                       *)

\* Rows are born by connections, baits cool down, alerts are shown, workers
\* count and overlap.
RestTyped ==
    /\ births \in Seq(Conns)
    /\ cooling \subseteq Baits
    /\ shown \subseteq Alerts
    /\ counted \subseteq Workers
    /\ overlapped \subseteq Workers

\* What an alarm shows is an alert.
LEMMA ShownTyped ==
    ASSUME NEW e \in Events, NEW level \in Levels, NEW stage, RaiseAlarm(e, level, stage),
           shown \subseteq Alerts
    PROVE  shown' \subseteq Alerts
BY AlarmIsAlert DEF RaiseAlarm

\* An event's step shows alerts and cools baits down.
LEMMA IngestTyped ==
    ASSUME RestTyped, NEW e \in Events, IngestStep(e)
    PROVE  cooling' \subseteq Baits /\ shown' \subseteq Alerts
<1>0. LevelOf[e] \in Levels /\ BaitOf[e] \in Levels /\ Worse(BaitOf[e], LevelOf[e]) \in Levels
  BY StoreValuesOK DEF Levels, Worse
<1>1. CASE TouchBait(e)
  <2>1. BaitOf[e] > 0 => BaitOf[e] \in Baits
    BY StoreValuesOK DEF Baits, Range
  <2> QED BY <1>1, <2>1 DEF TouchBait, RestTyped
<1>2. CASE TriggerCanary(e)
  BY <1>0, <1>2, ShownTyped DEF TriggerCanary, RestTyped
<1>3. CASE Score(e)
  BY <1>0, <1>3, ShownTyped DEF Score, RestTyped
<1>4. CASE ReadProfile(e) \/ ReadSession(e) \/ CommitEvent(e) \/ EventFails(e)
  BY <1>4 DEF ReadProfile, ReadSession, CommitEvent, EventFails, RestTyped
<1> QED BY <1>1, <1>2, <1>3, <1>4 DEF IngestStep

\* A row is born by the connection that is asked about.
LEMMA BirthsTyped ==
    ASSUME RestTyped, [RecNext]_recVars
    PROVE  births' \in Seq(Conns)
<1>1. ASSUME NEW k \in Conns, births' = Append(births, k)
      PROVE  births' \in Seq(Conns)
  BY <1>1 DEF RestTyped
<1>2. births' = births \/ \E k \in Conns : births' = Append(births, k)
  BY DEF RecNext, recVars, scorerVars, ScorerNext, RowAges, Ask, AskAgain, LeaveOpen, SendToHoneypot,
         ForgetProfile, ForgetRow, QuestionFails, Abandon
<1> QED BY <1>1, <1>2 DEF RestTyped

\* Every step of the writers keeps these types.
LEMMA RestStep ==
    ASSUME RecInv, RestTyped, [RecNext]_recVars
    PROVE  RestTyped'
<1>1. births' \in Seq(Conns)
  BY BirthsTyped
<1>2. cooling' \subseteq Baits /\ shown' \subseteq Alerts
  BY IngestTyped DEF RecNext, CooldownOver, recVars, ingestVars, RestTyped
<1>3. DOMAIN tx \subseteq Workers /\ DOMAIN tx' \subseteq Workers
  BY RecInvStep DEF RecInv, TxOK
<1>4. counted' \subseteq Workers /\ overlapped' \subseteq Workers
  BY <1>3 DEF RecNext, Observe, CooldownOver, recVars, ingestVars, RestTyped
<1> QED BY <1>1, <1>2, <1>4 DEF RestTyped

\* Every row, transaction, answer and alert keeps its type (the tables of
\* attacker_profiles, session_logs and alerts under both writers).
THEOREM RecordTypes == RecSpec => []RecTypeOK
<1>1. RecInit => RestTyped
  BY DEF RecInit, ScorerInit, IngestInit, RestTyped
<1>2. RecInv /\ RestTyped /\ [RecNext]_recVars => RestTyped'
  BY RestStep
<1>3. RecInv /\ RestTyped => RecTypeOK
  BY DEF RecInv, RestTyped, RecTypeOK, DbTypeOK, ScorerTypeOK, IngestTypeOK, RowsOK, TxOK,
         TransactionOK, AnswersOK, Range
<1> QED BY <1>1, <1>2, <1>3, RecordsInvariant, PTL DEF RecSpec
=============================================================================
