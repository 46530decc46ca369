--------------------------- MODULE GatewayScorer ---------------------------
(***************************************************************************)
(* What POST /score/initial does to the database (classify_connection in   *)
(* src/backend/services/gateway_scorer.py, score_initial in                *)
(* src/backend/routers/scoring.py).  How it comes to its verdict is in     *)
(* PreSession; here the verdict is free, except that a known attacker goes *)
(* to the honeypot and that a second question is always settled.  The      *)
(* transaction stays open while the LLM is asked.                          *)
(***************************************************************************)
EXTENDS BackendStore

VARIABLES
    asked,         \* questions asked about each connection
    verdict,       \* the last answer about each connection
    births,        \* the gateway rows made, by start_time, oldest first
    reconnected    \* ghost: is_reconnect of the last question

scorerVars == <<asked, verdict, births, reconnected>>

ScorerTypeOK ==
    /\ asked \in [Conns -> 0 .. 2]
    /\ verdict \in [Conns -> {"none", "inconclusive", "real", "honeypot", "gone"}]
    /\ births \in Seq(Conns)
    /\ reconnected \in [Conns -> BOOLEAN]

ScorerInit ==
    /\ asked = [k \in Conns |-> 0]
    /\ verdict = [k \in Conns |-> "none"]
    /\ births = <<>>
    /\ reconnected = [k \in Conns |-> FALSE]

FreshRows == {id \in DOMAIN rows : rows[id].age = 0}
StaleRows == {id \in DOMAIN rows : rows[id].kind = "gateway" /\ rows[id].age = 2}
NewestGatewayRow(id) ==
    \E i \in DOMAIN births :
      /\ births[i] = id /\ id \in FreshRows
      /\ \A j \in DOMAIN births : births[j] \in FreshRows => j <= i
GatewayRow == [kind |-> "gateway", age |-> 0, events |-> {}]

\* Mutant of Asked: only gateway rows count as a reconnect, and only other ones.
AskedOthers(k, attempt) ==
    /\ asked' = [asked EXCEPT ![k] = attempt]
    /\ reconnected' = [reconnected EXCEPT ![k] = FreshRows \ {k} # {}]

\* is_reconnect: any row of the address that is less than a minute old.
Asked(k, attempt) ==
    /\ asked' = [asked EXCEPT ![k] = attempt]
    /\ reconnected' = [reconnected EXCEPT ![k] = FreshRows # {}]

\* The first half of classify_connection: the profile is read, or made, and the
\* stale rows are marked for deletion.
Begin(k, attempt, id, lock) ==
    /\ ~Open(k) /\ asked[k] = attempt - 1
    /\ attempt = 2 => verdict[k] = "inconclusive"
    /\ Compatible(k, lock)
    /\ LET mine == IF profile = NoRow THEN NewProfile ELSE profile
       IN  tx' = With(tx, k, Transaction(id, GatewayRow, mine, StaleRows, lock))
    /\ Asked(k, attempt)
    /\ UNCHANGED <<profile, rows, alerts, verdict>>

\* A second question takes the newest fresh gateway row of the address and
\* writes nothing yet...
AskAgain(k, id) ==
    /\ NewestGatewayRow(id)
    /\ Begin(k, 2, id, 0)
    /\ UNCHANGED births

\* ...any other flushes a new row, with the profile if there is none.
Ask(k, attempt) ==
    /\ attempt = 2 => ~\E id \in Conns : NewestGatewayRow(id)
    /\ k \notin DOMAIN rows
    /\ Begin(k, attempt, k, IF profile = NoRow THEN 2 ELSE 1)
    /\ births' = Append(births, k)

Known(p) == p.level >= 2 /\ p.total >= 1
Answer(k, decision) == verdict' = [verdict EXCEPT ![k] = decision]

\* The rest of classify_connection, by the decision, and the commit. Nothing
\* is decided yet: the row stays for the second question.
LeaveOpen(k) ==
    /\ Open(k) /\ asked[k] = 1 /\ ~Known(tx[k].mine)
    /\ CommitWrites(k, tx[k].mine)
    /\ Answer(k, "inconclusive")
    /\ UNCHANGED <<asked, births, reconnected>>

SendToHoneypot(k) ==
    /\ Open(k)
    /\ CommitWrites(k, [tx[k].mine EXCEPT !.total = @ + 1])
    /\ Answer(k, "honeypot")
    /\ UNCHANGED <<asked, births, reconnected>>

NoHistory(p) == p.total = 0

\* A real user leaves no trace: a profile without sessions is deleted with all
\* that refers to it at that moment. A row that appears between this and the
\* commit violates its foreign key, which is one of the failures of QuestionFails.
ForgetProfile(k) ==
    /\ Open(k) /\ ~Known(tx[k].mine) /\ NoHistory(tx[k].mine)
    /\ Compatible(k, 3)
    /\ profile' = NoRow /\ rows' = <<>> /\ alerts' = {}
    /\ Close(k)
    /\ Answer(k, "real")
    /\ UNCHANGED <<asked, births, reconnected>>

\* ...and of an address that has a history only the row of this question goes.
ForgetRow(k) ==
    /\ Open(k) /\ ~Known(tx[k].mine) /\ ~NoHistory(tx[k].mine)
    /\ rows' = Without(rows, tx[k].removes \cup {tx[k].id})
    /\ Close(k)
    /\ Answer(k, "real")
    /\ UNCHANGED <<profile, alerts, asked, births, reconnected>>

\* The backend answers 500, and the gateway takes the honeypot.
QuestionFails(k) ==
    /\ RollBack(k)
    /\ Answer(k, "honeypot")
    /\ UNCHANGED <<asked, births, reconnected>>

\* The client leaves between the two questions.
Abandon(k) ==
    /\ ~Open(k) /\ verdict[k] = "inconclusive"
    /\ Answer(k, "gone")
    /\ UNCHANGED <<dbVars, asked, births, reconnected>>

\* A row grows a minute old, and a gateway row five, also while transactions are
\* open: but a connection's second question comes within a minute of its first,
\* and no transaction takes the four minutes in which a row it uses goes stale.
RowAges(id) ==
    /\ id \in DOMAIN rows
    /\ id \in Conns => verdict[id] # "inconclusive"
    /\ \/ rows[id].age = 0
       \/ /\ rows[id].age = 1 /\ rows[id].kind = "gateway"
          /\ \A w \in DOMAIN tx : tx[w].id # id
    /\ rows' = [rows EXCEPT ![id].age = @ + 1]
    /\ UNCHANGED <<profile, alerts, tx, scorerVars>>

ScorerNext ==
    \/ \E id \in Ids : RowAges(id)
    \/ \E k \in Conns :
         \/ \E attempt \in 1 .. 2 : Ask(k, attempt)
         \/ \E id \in Conns : AskAgain(k, id)
         \/ LeaveOpen(k) \/ SendToHoneypot(k) \/ ForgetProfile(k) \/ ForgetRow(k)
         \/ QuestionFails(k) \/ Abandon(k)
=============================================================================
