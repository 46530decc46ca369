---------------------------- MODULE AlertStream ----------------------------
(***************************************************************************)
(* AlertManager (src/backend/services/alert_manager.py) and the WebSocket  *)
(* handler of a dashboard (src/backend/routers/alerts.py): one bounded     *)
(* queue per connected dashboard.  A broadcast runs without an await; the  *)
(* handler waits in queue.get and in send_json.  Alerts are numbered in    *)
(* the order of their broadcasts.                                          *)
(***************************************************************************)
EXTENDS Naturals, Sequences, Functions

CONSTANTS
    Dashboards,    \* browser connections, each used once
    QueueSize,     \* the 100 of asyncio.Queue(maxsize=100)
    MaxAlerts      \* bound: alerts broadcast

ASSUME StreamConstantsOK == QueueSize \in Nat \ {0} /\ MaxAlerts \in Nat

VARIABLES
    sent,      \* alerts broadcast so far
    queue,     \* AlertManager.connections, by dashboard
    link,      \* the WebSocket of a dashboard
    inHand,    \* what the handler has taken and is sending, as a sequence of at most one
    got        \* what a dashboard has received

streamVars == <<sent, queue, link, inHand, got>>

Numbers == 1 .. MaxAlerts

StreamTypeOK ==
    /\ sent \in 0 .. MaxAlerts
    /\ DOMAIN queue \subseteq Dashboards
    /\ \A d \in DOMAIN queue : queue[d] \in Seq(Numbers) /\ Len(queue[d]) <= QueueSize
    /\ link \in [Dashboards -> {"new", "greeting", "open", "gone", "closed"}]
    /\ inHand \in [Dashboards -> Seq(Numbers)] /\ got \in [Dashboards -> Seq(Numbers)]

StreamInit ==
    /\ sent = 0
    /\ queue = <<>>
    /\ link = [d \in Dashboards |-> "new"]
    /\ inHand = [d \in Dashboards |-> <<>>]
    /\ got = [d \in Dashboards |-> <<>>]

Connected(d) == d \in DOMAIN queue

\* accept(): the token is still to come, as the first message.
AcceptDashboard(d) ==
    /\ link[d] = "new"
    /\ link' = [link EXCEPT ![d] = "greeting"]
    /\ UNCHANGED <<sent, queue, inHand, got>>

\* The token is an access token, and the dashboard gets a queue...
ConnectDashboard(d) ==
    /\ link[d] = "greeting"
    /\ link' = [link EXCEPT ![d] = "open"]
    /\ queue' = [c \in DOMAIN queue \cup {d} |-> IF c = d THEN <<>> ELSE queue[c]]
    /\ UNCHANGED <<sent, inHand, got>>

\* ...or it is missing, of another type or invalid, and the socket is closed.
RefuseDashboard(d) ==
    /\ link[d] = "greeting"
    /\ link' = [link EXCEPT ![d] = "closed"]
    /\ UNCHANGED <<sent, queue, inHand, got>>

\* Mutant of Push: the queue has no limit.
PushForever(q, alert) == Append(q, alert)

\* Mutant of Push: a full queue keeps what it has.
PushUnlessFull(q, alert) == IF Len(q) < QueueSize THEN Append(q, alert) ELSE q

\* Mutant of Push: a full queue is emptied.
PushAfterClearing(q, alert) == IF Len(q) < QueueSize THEN Append(q, alert) ELSE <<alert>>

\* A full queue loses its oldest alert.
Push(q, alert) == Append(IF Len(q) < QueueSize THEN q ELSE Tail(q), alert)

Broadcast ==
    /\ sent < MaxAlerts
    /\ sent' = sent + 1
    /\ queue' = [d \in DOMAIN queue |-> Push(queue[d], sent + 1)]
    /\ UNCHANGED <<link, inHand, got>>

TakeAlert(d) ==
    /\ Connected(d) /\ inHand[d] = <<>> /\ queue[d] # <<>>
    /\ inHand' = [inHand EXCEPT ![d] = <<Head(queue[d])>>]
    /\ queue' = [queue EXCEPT ![d] = Tail(@)]
    /\ UNCHANGED <<sent, link, got>>

\* Mutant of SendAlert: a failed send is given up, and the handler goes on.
SendAlertAgain(d) ==
    /\ inHand[d] # <<>>
    /\ inHand' = [inHand EXCEPT ![d] = <<>>]
    /\ got' = IF link[d] = "open" THEN [got EXCEPT ![d] = @ \o inHand[d]] ELSE got
    /\ UNCHANGED <<sent, queue, link>>

\* send_json: it raises when the dashboard has gone, and only then does the
\* handler end and take its queue away.
SendAlert(d) ==
    /\ inHand[d] # <<>>
    /\ inHand' = [inHand EXCEPT ![d] = <<>>]
    /\ IF link[d] = "open"
       THEN /\ got' = [got EXCEPT ![d] = @ \o inHand[d]]
            /\ UNCHANGED <<queue, link>>
       ELSE /\ queue' = [c \in DOMAIN queue \ {d} |-> queue[c]]
            /\ link' = [link EXCEPT ![d] = "closed"]
            /\ UNCHANGED got
    /\ UNCHANGED sent

\* The browser closes the socket, or the network does.
LeaveDashboard(d) ==
    /\ link[d] = "open"
    /\ link' = [link EXCEPT ![d] = "gone"]
    /\ UNCHANGED <<sent, queue, inHand, got>>

StreamNext ==
    \/ Broadcast
    \/ \E d \in Dashboards :
         \/ AcceptDashboard(d) \/ ConnectDashboard(d) \/ RefuseDashboard(d)
         \/ TakeAlert(d) \/ SendAlert(d) \/ LeaveDashboard(d)

\* The handler is a task of its own: it runs when its queue has something,
\* and a send returns or raises.
StreamFairness == \A d \in Dashboards : WF_streamVars(TakeAlert(d)) /\ WF_streamVars(SendAlert(d))

StreamSpec == StreamInit /\ [][StreamNext]_streamVars

-----------------------------------------------------------------------------
\* What a queue holds are the newest alerts, without a gap, however slow its
\* dashboard is; and a dashboard receives them in order, none twice.
NewestInOrder ==
    \A d \in Dashboards :
      /\ Connected(d) => \A i \in DOMAIN queue[d] : queue[d][i] = sent - Len(queue[d]) + i
      /\ \A i, j \in DOMAIN got[d] : i < j => got[d][i] < got[d][j]

\* An alert that is put into the queue of a dashboard that stays is received,
\* unless QueueSize newer ones push it out first.
AlertArrives ==
    \A d \in Dashboards, n \in Numbers :
      (Connected(d) /\ n \in Range(queue[d])) ~>
        (link[d] # "open" \/ n \in Range(got[d]) \/ sent >= n + QueueSize)

\* The queue of a dashboard that has gone is taken away as soon as an alert is
\* put into it: it does not stay full for ever.
AbandonedQueueGoes ==
    \A d \in Dashboards : (link[d] = "gone" /\ queue[d] # <<>>) ~> ~Connected(d)
=============================================================================
