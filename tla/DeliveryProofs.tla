--------------------------- MODULE DeliveryProofs ---------------------------
(***************************************************************************)
(* What may be lost on the way, and what may come twice: alerts in the     *)
(* queue of a dashboard (AlertStream), notices of touched bait and their   *)
(* tokens (CanaryWebhook), and the events a collector keeps (SplunkPath);  *)
(* for any number of them, any sizes and any restarts.                     *)
(***************************************************************************)
EXTENDS AlertStream, CanaryWebhook, SplunkPath, FiniteSetTheorems, TLAPS

-----------------------------------------------------------------------------
(* The queue of a dashboard holds the newest alerts, without a gap.         *)

States == {"new", "greeting", "open", "gone", "closed"}

\* The alerts of a dashboard, from the last one received to the newest in its
\* queue: each stage is older than the next.
Shape ==
    /\ sent \in Nat
    /\ DOMAIN queue \subseteq Dashboards
    /\ \A d \in DOMAIN queue : queue[d] \in Seq(Nat) /\ Len(queue[d]) <= QueueSize
    /\ link \in [Dashboards -> States]
    /\ inHand \in [Dashboards -> Seq(Nat)]
    /\ got \in [Dashboards -> Seq(Nat)]

\* What the handler holds, which is one alert, was received by nobody before.
InHandNext(d) ==
    \/ inHand[d] = <<>>
    \/ \E n \in Nat : inHand[d] = <<n>> /\ \A i \in DOMAIN got[d] : got[d][i] < n

\* The entries of a queue are numbered up to n without a gap.
UpTo(q, n) == \A i \in 1 .. Len(q) : q[i] = n - Len(q) + i

\* A queue ends with the newest alert, and what went before is older.
QueueNext(d) ==
    /\ UpTo(queue[d], sent)
    /\ \A i \in DOMAIN got[d] : got[d][i] <= sent - Len(queue[d])
    /\ inHand[d] # <<>> => inHand[d][1] <= sent - Len(queue[d])

\* A dashboard without a token yet has nothing.
NothingYet(d) ==
    link[d] \in {"new", "greeting"} => ~Connected(d) /\ inHand[d] = <<>> /\ got[d] = <<>>

InOrder(d) == \A i, j \in DOMAIN got[d] : i < j => got[d][i] < got[d][j]

Line(d) ==
    /\ InHandNext(d) /\ NothingYet(d) /\ InOrder(d)
    /\ Connected(d) => QueueNext(d)

StreamInv == Shape /\ \A d \in Dashboards : Line(d)

-----------------------------------------------------------------------------
\* No dashboard is connected at the start.
LEMMA StreamInitInv == StreamInit => StreamInv
BY DEF StreamInit, StreamInv, Shape, States, Line, InHandNext, NothingYet, InOrder, Connected

\* Appending the next number keeps a queue without a gap...
LEMMA Appended ==
    ASSUME NEW q \in Seq(Nat), NEW n \in Nat, UpTo(q, n)
    PROVE  /\ Append(q, n + 1) \in Seq(Nat) /\ Len(Append(q, n + 1)) = Len(q) + 1
           /\ UpTo(Append(q, n + 1), n + 1)
<1> DEFINE a == Append(q, n + 1)
<1>1. a \in Seq(Nat) /\ Len(a) = Len(q) + 1 /\ Len(q) \in Nat /\ a[Len(q) + 1] = n + 1
  OBVIOUS
<1>2. \A i \in 1 .. Len(q) : a[i] = q[i]
  OBVIOUS
<1> HIDE DEF a
<1>3. ASSUME NEW i \in 1 .. Len(a) PROVE a[i] = n + 1 - Len(a) + i
  <2>1. CASE i = Len(q) + 1
    BY <1>1, <2>1
  <2>2. CASE i # Len(q) + 1
    <3>1. i \in 1 .. Len(q)
      BY <1>1, <2>2
    <3>2. a[i] = n - Len(q) + i
      BY <1>2, <3>1 DEF UpTo
    <3> QED BY <1>1, <3>1, <3>2
  <2> QED BY <2>1, <2>2
<1> QED BY <1>1, <1>3 DEF UpTo, a

\* ...and so does taking the first one away.
LEMMA Tailed ==
    ASSUME NEW q \in Seq(Nat), NEW n \in Nat, UpTo(q, n), q # <<>>
    PROVE  /\ Tail(q) \in Seq(Nat) /\ Len(Tail(q)) = Len(q) - 1
           /\ UpTo(Tail(q), n)
           /\ Head(q) = n - Len(Tail(q)) /\ Head(q) \in Nat
<1> DEFINE t == Tail(q)
<1>1. /\ t \in Seq(Nat) /\ Len(t) = Len(q) - 1 /\ Len(q) \in Nat \ {0}
      /\ Head(q) = q[1] /\ q[1] \in Nat
  OBVIOUS
<1>2. \A i \in 1 .. Len(q) - 1 : t[i] = q[i + 1]
  OBVIOUS
<1> HIDE DEF t
<1>3. ASSUME NEW i \in 1 .. Len(t) PROVE t[i] = n - Len(t) + i
  <2>1. i \in 1 .. Len(q) - 1 /\ i + 1 \in 1 .. Len(q)
    BY <1>1
  <2>2. t[i] = n - Len(q) + (i + 1)
    BY <1>2, <2>1 DEF UpTo
  <2> QED BY <1>1, <2>1, <2>2
<1>4. q[1] = n - Len(t)
  <2>1. 1 \in 1 .. Len(q)
    BY <1>1
  <2>2. q[1] = n - Len(q) + 1
    BY <2>1 DEF UpTo
  <2> QED BY <1>1, <2>2
<1> QED BY <1>1, <1>3, <1>4 DEF UpTo, t

\* A full queue gives up its first alert for the new one, another grows by it.
LEMMA Pushed ==
    ASSUME NEW q \in Seq(Nat), NEW n \in Nat, Len(q) <= QueueSize, UpTo(q, n)
    PROVE  /\ Push(q, n + 1) \in Seq(Nat) /\ UpTo(Push(q, n + 1), n + 1)
           /\ Len(Push(q, n + 1)) <= QueueSize
           /\ Len(Push(q, n + 1)) <= Len(q) + 1
<1>1. QueueSize \in Nat \ {0} /\ Len(q) \in Nat
  BY StreamConstantsOK DEF StreamConstantsOK
<1>2. CASE Len(q) < QueueSize
  <2>1. Push(q, n + 1) = Append(q, n + 1)
    BY <1>2 DEF Push
  <2>2. /\ Append(q, n + 1) \in Seq(Nat) /\ Len(Append(q, n + 1)) = Len(q) + 1
        /\ UpTo(Append(q, n + 1), n + 1)
    BY Appended
  <2>3. Len(q) + 1 <= QueueSize /\ Len(q) + 1 <= Len(q) + 1
    BY <1>1, <1>2
  <2> QED BY ONLY <2>1, <2>2, <2>3, Zenon
<1>3. CASE ~(Len(q) < QueueSize)
  <2>1. q # <<>>
    BY <1>1, <1>3
  <2> DEFINE t == Tail(q)
  <2>2. Push(q, n + 1) = Append(t, n + 1)
    BY <1>3 DEF Push
  <2>3. t \in Seq(Nat) /\ Len(t) = Len(q) - 1 /\ UpTo(t, n)
    BY <2>1, Tailed
  <2> HIDE DEF t
  <2>4. /\ Append(t, n + 1) \in Seq(Nat) /\ Len(Append(t, n + 1)) = Len(q)
        /\ UpTo(Append(t, n + 1), n + 1)
    BY <1>1, <2>3, Appended
  <2>5. Len(q) <= QueueSize /\ Len(q) <= Len(q) + 1
    BY <1>1
  <2> QED BY ONLY <2>2, <2>4, <2>5, Zenon
<1> QED BY <1>2, <1>3

\* A dashboard whose variables stay keeps its line.
LEMMA LineKept ==
    ASSUME NEW d, Line(d), link'[d] = link[d], inHand'[d] = inHand[d], got'[d] = got[d],
           Connected(d)' <=> Connected(d), Connected(d) => queue'[d] = queue[d], sent' = sent
    PROVE  Line(d)'
BY DEF Line, InHandNext, NothingYet, InOrder, QueueNext, Connected

\* A broadcast pushes into every queue.
LEMMA BroadcastKeeps == StreamInv /\ Broadcast => StreamInv'
<1> SUFFICES ASSUME StreamInv, Broadcast PROVE StreamInv'
  OBVIOUS
<1>1. /\ sent' = sent + 1 /\ sent \in Nat
      /\ queue' = [d \in DOMAIN queue |-> Push(queue[d], sent + 1)]
      /\ link' = link /\ inHand' = inHand /\ got' = got
  BY DEF Broadcast, StreamInv, Shape
<1>2. ASSUME NEW d \in DOMAIN queue
      PROVE  /\ queue'[d] \in Seq(Nat) /\ Len(queue'[d]) <= QueueSize
             /\ UpTo(queue'[d], sent')
             /\ Len(queue'[d]) <= Len(queue[d]) + 1
  <2>1. /\ queue[d] \in Seq(Nat) /\ Len(queue[d]) <= QueueSize
        /\ UpTo(queue[d], sent)
    BY DEF StreamInv, Shape, Line, QueueNext, Connected
  <2>2. queue'[d] = Push(queue[d], sent + 1)
    BY <1>1
  <2> QED BY <1>1, <2>1, <2>2, Pushed
<1>3. Shape'
  BY <1>1, <1>2 DEF StreamInv, Shape
<1>4. ASSUME NEW d \in Dashboards PROVE Line(d)'
  <2>1. InHandNext(d)' /\ NothingYet(d)' /\ InOrder(d)'
    BY <1>1 DEF StreamInv, Line, InHandNext, NothingYet, InOrder, Connected
  <2>2. ASSUME Connected(d)' PROVE QueueNext(d)'
    <3>1. d \in DOMAIN queue
      BY <1>1, <2>2 DEF Connected
    <3>2. QueueNext(d) /\ queue[d] \in Seq(Nat) /\ got[d] \in Seq(Nat) /\ inHand[d] \in Seq(Nat)
      BY <3>1 DEF StreamInv, Shape, Line, Connected
    <3>3. /\ Len(queue[d]) \in Nat /\ Len(queue'[d]) \in Nat
          /\ sent - Len(queue[d]) <= sent' - Len(queue'[d])
      BY <1>1, <1>2, <3>1, <3>2
    <3>4. \A i \in DOMAIN got[d] : got[d][i] \in Nat
      BY <3>2
    <3>5. inHand[d] # <<>> => inHand[d][1] \in Nat
      BY <3>2
    <3> QED BY <1>1, <1>2, <3>1, <3>2, <3>3, <3>4, <3>5 DEF QueueNext
  <2> QED BY <2>1, <2>2 DEF Line
<1> QED BY <1>3, <1>4 DEF StreamInv

\* The handler takes the oldest alert of its queue.
LEMMA TakeKeeps == ASSUME NEW d \in Dashboards, StreamInv, TakeAlert(d) PROVE StreamInv'
<1>1. /\ d \in DOMAIN queue /\ inHand[d] = <<>> /\ queue[d] # <<>>
      /\ inHand' = [inHand EXCEPT ![d] = <<Head(queue[d])>>]
      /\ queue' = [queue EXCEPT ![d] = Tail(queue[d])]
      /\ sent' = sent /\ link' = link /\ got' = got
  BY DEF TakeAlert, Connected
<1>2. /\ queue[d] \in Seq(Nat) /\ Len(queue[d]) <= QueueSize /\ got[d] \in Seq(Nat) /\ sent \in Nat
      /\ inHand \in [Dashboards -> Seq(Nat)]
  BY <1>1 DEF StreamInv, Shape
<1> DEFINE t == Tail(queue[d])
           h == Head(queue[d])
<1>4. QueueNext(d)
  BY <1>1 DEF StreamInv, Line, Connected
<1>3. /\ t \in Seq(Nat) /\ Len(t) = Len(queue[d]) - 1 /\ UpTo(t, sent)
      /\ h = sent - Len(t) /\ h \in Nat
  BY <1>1, <1>2, <1>4, Tailed DEF QueueNext
<1>5. Len(queue[d]) \in Nat /\ Len(t) \in Nat
  BY <1>2, <1>3
<1> HIDE DEF t, h
<1>6. inHand' = [inHand EXCEPT ![d] = <<h>>] /\ queue' = [queue EXCEPT ![d] = t]
  BY <1>1 DEF t, h
<1>7. Shape'
  <2>1. <<h>> \in Seq(Nat)
    BY <1>3
  <2>2. Len(t) <= QueueSize
    BY <1>2, <1>3, StreamConstantsOK DEF StreamConstantsOK
  <2> QED BY <1>1, <1>3, <1>6, <2>1, <2>2 DEF StreamInv, Shape
<1>8. ASSUME NEW e \in Dashboards, e # d PROVE Line(e)'
  BY <1>1, <1>2, <1>6, <1>8, LineKept DEF StreamInv, Connected
<1>9. Line(d)'
  <2>1. inHand'[d] = <<h>> /\ got'[d] = got[d] /\ queue'[d] = t /\ link'[d] = link[d]
    BY <1>1, <1>2, <1>6
  <2>2. \A i \in DOMAIN got[d] : got[d][i] < h
    <3>1. ASSUME NEW i \in DOMAIN got[d] PROVE got[d][i] < h
      <4>1. got[d][i] \in Nat /\ got[d][i] <= sent - Len(queue[d])
        BY <1>2, <1>4 DEF QueueNext
      <4>2. sent \in Nat /\ h = sent - Len(t) /\ Len(t) = Len(queue[d]) - 1
        BY <1>2, <1>3
      <4>3. ASSUME NEW a \in Nat, NEW long \in Nat, NEW short \in Nat, NEW n \in Nat,
                   a <= n - long, short = long - 1
            PROVE  a < n - short
        BY ONLY <4>3
      <4> QED BY ONLY <1>5, <4>1, <4>2, <4>3
    <3> QED BY <3>1
  <2>3. link[d] \notin {"new", "greeting"} /\ InOrder(d)
    BY <1>1 DEF StreamInv, Line, NothingYet, Connected
  <2>4. \A i \in DOMAIN got[d] : got[d][i] <= sent - Len(t)
    <3>1. ASSUME NEW i \in DOMAIN got[d] PROVE got[d][i] <= sent - Len(t)
      <4>1. got[d][i] \in Nat
        BY <1>2
      <4> QED BY <1>3, <2>2, <4>1
    <3> QED BY <3>1
  <2>5. QueueNext(d)'
    <3>1. UpTo(t, sent) /\ h <= sent - Len(t)
      BY <1>2, <1>3, <1>5
    <3>2. <<h>> # <<>> => <<h>>[1] <= sent - Len(t)
      BY <3>1
    <3>3. UpTo(queue'[d], sent')
      BY ONLY <1>1, <2>1, <3>1, Zenon
    <3> QED BY <1>1, <2>1, <2>4, <3>2, <3>3 DEF QueueNext
  <2>6. InHandNext(d)' /\ NothingYet(d)' /\ InOrder(d)'
    <3>1. InHandNext(d)'
      BY <1>3, <2>1, <2>2 DEF InHandNext
    <3> QED BY <2>1, <2>3, <3>1 DEF NothingYet, InOrder
  <2> QED BY <2>5, <2>6 DEF Line
<1> QED BY <1>7, <1>8, <1>9 DEF StreamInv

\* A sequence with one more at its end.
LEMMA OneFurther ==
    ASSUME NEW p \in Seq(Nat), NEW n \in Nat
    PROVE  /\ p \o <<n>> \in Seq(Nat) /\ Len(p \o <<n>>) = Len(p) + 1 /\ Len(p) \in Nat
           /\ (p \o <<n>>)[Len(p) + 1] = n /\ \A i \in 1 .. Len(p) : (p \o <<n>>)[i] = p[i]
           /\ DOMAIN (p \o <<n>>) = 1 .. Len(p) + 1 /\ DOMAIN p = 1 .. Len(p)
OBVIOUS

\* What the handler has sent was received last, and is older than the queue.
LEMMA SentKeeps ==
    ASSUME NEW d \in Dashboards, StreamInv, SendAlert(d), link[d] = "open"
    PROVE  StreamInv'
<1>1. /\ inHand[d] # <<>> /\ inHand' = [inHand EXCEPT ![d] = <<>>]
      /\ got' = [got EXCEPT ![d] = got[d] \o inHand[d]]
      /\ queue' = queue /\ link' = link /\ sent' = sent
  BY DEF SendAlert
<1>2. PICK last \in Nat : inHand[d] = <<last>> /\ \A i \in DOMAIN got[d] : got[d][i] < last
  BY <1>1 DEF StreamInv, Line, InHandNext
<1> DEFINE all == got[d] \o <<last>>
<1>3. got[d] \in Seq(Nat)
  BY DEF StreamInv, Shape
<1>4. /\ all \in Seq(Nat) /\ Len(all) = Len(got[d]) + 1 /\ Len(got[d]) \in Nat
      /\ all[Len(got[d]) + 1] = last /\ \A i \in 1 .. Len(got[d]) : all[i] = got[d][i]
      /\ DOMAIN all = 1 .. Len(got[d]) + 1 /\ DOMAIN got[d] = 1 .. Len(got[d])
  BY <1>3, OneFurther
<1>5. \A i \in 1 .. Len(got[d]) : got[d][i] < last /\ got[d][i] \in Nat
  BY <1>2, <1>3, <1>4
<1> HIDE DEF all
<1>6. \A i, j \in DOMAIN all : i < j => all[i] < all[j]
  <2>1. ASSUME NEW i \in DOMAIN all, NEW j \in DOMAIN all, i < j PROVE all[i] < all[j]
    <3>1. i \in 1 .. Len(got[d])
      BY <1>4, <2>1
    <3>2. CASE j = Len(got[d]) + 1
      BY <1>4, <1>5, <3>1, <3>2
    <3>3. CASE j # Len(got[d]) + 1
      <4>1. j \in 1 .. Len(got[d])
        BY <1>4, <3>3
      <4>2. got[d][i] < got[d][j]
        BY <1>4, <2>1, <3>1, <4>1 DEF StreamInv, Line, InOrder
      <4> QED BY <1>4, <3>1, <4>1, <4>2
    <3> QED BY <3>2, <3>3
  <2> QED BY <2>1
<1>7. /\ got' = [got EXCEPT ![d] = all] /\ got \in [Dashboards -> Seq(Nat)]
      /\ inHand \in [Dashboards -> Seq(Nat)]
  BY <1>1, <1>2 DEF all, StreamInv, Shape
<1>8. Shape'
  <2>1. <<>> \in Seq(Nat)
    OBVIOUS
  <2> QED BY <1>1, <1>4, <1>7, <2>1 DEF StreamInv, Shape
<1>9. ASSUME NEW e \in Dashboards, e # d PROVE Line(e)'
  BY <1>1, <1>7, <1>9, LineKept DEF StreamInv, Connected
<1>10. Line(d)'
  <2>1. inHand'[d] = <<>> /\ got'[d] = all
    BY <1>1, <1>7
  <2>2. InHandNext(d)' /\ InOrder(d)'
    BY <1>6, <2>1 DEF InHandNext, InOrder
  <2>3. NothingYet(d)'
    BY <1>1 DEF StreamInv, Line, NothingYet
  <2>4. ASSUME Connected(d)' PROVE QueueNext(d)'
    <3>1. QueueNext(d)
      BY <1>1, <2>4 DEF StreamInv, Line, Connected
    <3>2. last <= sent - Len(queue[d])
      BY <1>1, <1>2, <3>1 DEF QueueNext
    <3>3. \A i \in DOMAIN all : all[i] <= sent - Len(queue[d])
      BY <1>4, <3>1, <3>2 DEF QueueNext
    <3>4. UpTo(queue[d], sent)'
      BY <1>1, <3>1 DEF QueueNext
    <3> QED BY <1>1, <2>1, <3>3, <3>4 DEF QueueNext
  <2> QED BY <2>2, <2>3, <2>4 DEF Line
<1> QED BY <1>8, <1>9, <1>10 DEF StreamInv

\* A send that raises takes the queue away.
LEMMA FailedSendKeeps ==
    ASSUME NEW d \in Dashboards, StreamInv, SendAlert(d), link[d] # "open"
    PROVE  StreamInv'
<1>1. /\ inHand' = [inHand EXCEPT ![d] = <<>>] /\ link' = [link EXCEPT ![d] = "closed"]
      /\ queue' = [c \in DOMAIN queue \ {d} |-> queue[c]]
      /\ got' = got /\ sent' = sent
  BY DEF SendAlert
<1>2. Shape'
  BY <1>1 DEF StreamInv, Shape, States
<1>3. ASSUME NEW e \in Dashboards, e # d PROVE Line(e)'
  BY <1>1, <1>3, LineKept DEF StreamInv, Shape, Connected
<1>4. Line(d)'
  BY <1>1 DEF StreamInv, Shape, Line, InHandNext, NothingYet, InOrder, Connected
<1> QED BY <1>2, <1>3, <1>4 DEF StreamInv

\* A dashboard that is let in starts with an empty queue.
LEMMA ConnectKeeps ==
    ASSUME NEW d \in Dashboards, StreamInv, ConnectDashboard(d)
    PROVE  StreamInv'
<1>1. /\ link[d] = "greeting" /\ link' = [link EXCEPT ![d] = "open"]
      /\ queue' = [c \in DOMAIN queue \cup {d} |-> IF c = d THEN <<>> ELSE queue[c]]
      /\ inHand' = inHand /\ got' = got /\ sent' = sent
  BY DEF ConnectDashboard
<1>2. Shape'
  <2>1. <<>> \in Seq(Nat) /\ Len(<<>>) <= QueueSize
    BY StreamConstantsOK DEF StreamConstantsOK
  <2> QED BY <1>1, <2>1 DEF StreamInv, Shape, States
<1>3. ASSUME NEW e \in Dashboards, e # d PROVE Line(e)'
  BY <1>1, <1>3, LineKept DEF StreamInv, Shape, Connected
<1>4. Line(d)'
  <2>1. inHand'[d] = <<>> /\ got'[d] = <<>> /\ queue'[d] = <<>> /\ link'[d] = "open"
    BY <1>1 DEF StreamInv, Shape, Line, NothingYet
  <2> QED BY <2>1 DEF Line, InHandNext, NothingYet, InOrder, QueueNext, UpTo
<1> QED BY <1>2, <1>3, <1>4 DEF StreamInv

\* A link that changes without a queue only matters for NothingYet.
LEMMA LinkKeeps ==
    ASSUME NEW d \in Dashboards, StreamInv,
           AcceptDashboard(d) \/ RefuseDashboard(d) \/ LeaveDashboard(d)
    PROVE  StreamInv'
<1>1. /\ queue' = queue /\ inHand' = inHand /\ got' = got /\ sent' = sent
      /\ \E l \in {"greeting", "closed", "gone"} : link' = [link EXCEPT ![d] = l]
      /\ link[d] = "new" \/ link'[d] # "greeting"
  BY DEF AcceptDashboard, RefuseDashboard, LeaveDashboard, StreamInv, Shape
<1>2. Shape'
  BY <1>1 DEF StreamInv, Shape, States
<1>3. ASSUME NEW e \in Dashboards PROVE Line(e)'
  <2>1. NothingYet(e)'
    BY <1>1 DEF StreamInv, Shape, Line, NothingYet, Connected
  <2> QED BY <1>1, <2>1 DEF StreamInv, Line, InHandNext, InOrder, QueueNext, UpTo, Connected
<1> QED BY <1>2, <1>3 DEF StreamInv

-----------------------------------------------------------------------------
\* Every step keeps the line of every dashboard.
LEMMA StreamStepInv == StreamInv /\ [StreamNext]_streamVars => StreamInv'
<1> SUFFICES ASSUME StreamInv, [StreamNext]_streamVars PROVE StreamInv'
  OBVIOUS
<1>1. ASSUME NEW d \in Dashboards, SendAlert(d) PROVE StreamInv'
  BY <1>1, SentKeeps, FailedSendKeeps
<1>2. CASE UNCHANGED streamVars
  BY <1>2 DEF streamVars, StreamInv, Shape, Line, InHandNext, NothingYet, InOrder, QueueNext,
              UpTo, Connected
<1> QED BY <1>1, <1>2, BroadcastKeeps, TakeKeeps, ConnectKeeps, LinkKeeps DEF StreamNext

\* A queue holds the newest alerts without a gap, and a dashboard receives them
\* in order and none twice (AlertManager.broadcast, the handler ws_alerts).
THEOREM NewestFirstToLast == StreamSpec => []NewestInOrder
<1>1. StreamInv => NewestInOrder
  <2> SUFFICES ASSUME StreamInv, NEW d \in Dashboards
               PROVE  /\ Connected(d) => \A i \in DOMAIN queue[d] : queue[d][i] = sent - Len(queue[d]) + i
                      /\ InOrder(d)
    BY DEF NewestInOrder, InOrder
  <2>1. ASSUME Connected(d), NEW i \in DOMAIN queue[d]
        PROVE  queue[d][i] = sent - Len(queue[d]) + i
    <3>1. queue[d] \in Seq(Nat) /\ UpTo(queue[d], sent)
      BY <2>1 DEF StreamInv, Shape, Line, QueueNext, Connected
    <3>2. i \in 1 .. Len(queue[d])
      BY <3>1
    <3> QED BY <3>1, <3>2 DEF UpTo
  <2> QED BY <2>1 DEF StreamInv, Line
<1> QED BY <1>1, StreamInitInv, StreamStepInv, PTL DEF StreamSpec

-----------------------------------------------------------------------------
(* The types of queues and numbers.                                        *)

\* Numbered alerts, one at a time, in bounded queues.
LEMMA QueueFacts ==
    ASSUME NEW q \in Seq(Numbers)
    PROVE  /\ q # <<>> => Head(q) \in Numbers /\ Tail(q) \in Seq(Numbers) /\ Len(Tail(q)) <= Len(q)
           /\ <<>> \in Seq(Numbers) /\ Len(<<>>) = 0 /\ Len(q) \in Nat
           /\ \A n \in Numbers : <<n>> \in Seq(Numbers)
           /\ \A p \in Seq(Numbers) : q \o p \in Seq(Numbers)
<1> HIDE DEF Numbers
<1>1. ASSUME q # <<>> PROVE Head(q) \in Numbers /\ Tail(q) \in Seq(Numbers) /\ Len(Tail(q)) <= Len(q)
  BY <1>1
<1>2. <<>> \in Seq(Numbers) /\ Len(<<>>) = 0 /\ Len(q) \in Nat
  OBVIOUS
<1>3. ASSUME NEW n \in Numbers PROVE <<n>> \in Seq(Numbers)
  OBVIOUS
<1>4. ASSUME NEW p \in Seq(Numbers) PROVE q \o p \in Seq(Numbers)
  OBVIOUS
<1> QED BY <1>1, <1>2, <1>3, <1>4

\* A queue that is pushed into keeps its type and its limit.
LEMMA PushFacts ==
    ASSUME NEW q \in Seq(Numbers), Len(q) <= QueueSize, NEW n \in Numbers
    PROVE  Push(q, n) \in Seq(Numbers) /\ Len(Push(q, n)) <= QueueSize
<1> HIDE DEF Numbers
<1>0. QueueSize \in Nat \ {0} /\ Len(q) \in Nat
  BY StreamConstantsOK DEF StreamConstantsOK
<1>1. CASE Len(q) < QueueSize
  <2>1. Append(q, n) \in Seq(Numbers) /\ Len(Append(q, n)) = Len(q) + 1
    OBVIOUS
  <2> QED BY <1>0, <1>1, <2>1 DEF Push
<1>2. CASE ~(Len(q) < QueueSize)
  <2> DEFINE t == Tail(q)
  <2>1. t \in Seq(Numbers) /\ Len(t) = Len(q) - 1
    <3>1. q # <<>>
      BY <1>0, <1>2
    <3> QED BY <3>1
  <2>2. Push(q, n) = Append(t, n)
    BY <1>2 DEF Push
  <2> HIDE DEF t
  <2>3. Append(t, n) \in Seq(Numbers) /\ Len(Append(t, n)) = Len(t) + 1
    BY <2>1
  <2> QED BY <1>0, <2>1, <2>2, <2>3
<1> QED BY <1>1, <1>2

\* Nothing is sent yet.
LEMMA StreamTypeInit == StreamInit => StreamTypeOK
<1>1. <<>> \in Seq(Numbers)
  OBVIOUS
<1> QED BY <1>1, StreamConstantsOK DEF StreamConstantsOK, StreamInit, StreamTypeOK

\* One case per action.
LEMMA StreamTypeStep == StreamTypeOK /\ [StreamNext]_streamVars => StreamTypeOK'
<1> SUFFICES ASSUME StreamTypeOK, [StreamNext]_streamVars PROVE StreamTypeOK'
  OBVIOUS
<1>0. ASSUME NEW d \in Dashboards
      PROVE  /\ inHand[d] \in Seq(Numbers) /\ got[d] \in Seq(Numbers)
             /\ d \in DOMAIN queue => queue[d] \in Seq(Numbers) /\ Len(queue[d]) <= QueueSize
  BY DEF StreamTypeOK
<1>1. CASE Broadcast
  <2>1. sent + 1 \in Numbers /\ sent + 1 \in 0 .. MaxAlerts
    BY <1>1, StreamConstantsOK DEF StreamConstantsOK, Broadcast, StreamTypeOK, Numbers
  <2>2. ASSUME NEW d \in DOMAIN queue
        PROVE  Push(queue[d], sent + 1) \in Seq(Numbers) /\ Len(Push(queue[d], sent + 1)) <= QueueSize
    BY <2>1, PushFacts DEF StreamTypeOK
  <2> QED BY <1>1, <2>1, <2>2 DEF Broadcast, StreamTypeOK
<1>2. ASSUME NEW d \in Dashboards, AcceptDashboard(d) \/ RefuseDashboard(d) \/ LeaveDashboard(d)
      PROVE  StreamTypeOK'
  BY <1>2 DEF AcceptDashboard, RefuseDashboard, LeaveDashboard, StreamTypeOK
<1>3. ASSUME NEW d \in Dashboards, ConnectDashboard(d) PROVE StreamTypeOK'
  <2>1. <<>> \in Seq(Numbers) /\ Len(<<>>) <= QueueSize
    BY StreamConstantsOK DEF StreamConstantsOK
  <2> QED BY <1>3, <2>1 DEF ConnectDashboard, StreamTypeOK
<1>4. ASSUME NEW d \in Dashboards, TakeAlert(d) PROVE StreamTypeOK'
  <2> DEFINE h == Head(queue[d])
             t == Tail(queue[d])
  <2>1. h \in Numbers /\ t \in Seq(Numbers) /\ Len(t) <= QueueSize
    <3>1. d \in DOMAIN queue /\ queue[d] # <<>> /\ queue[d] \in Seq(Numbers) /\ Len(queue[d]) <= QueueSize
      BY <1>0, <1>4 DEF TakeAlert, Connected
    <3>2. Len(queue[d]) \in Nat /\ Len(t) \in Nat /\ Len(t) <= Len(queue[d]) /\ t \in Seq(Numbers)
      BY <3>1, QueueFacts
    <3> QED BY <3>1, <3>2, QueueFacts, StreamConstantsOK DEF StreamConstantsOK
  <2>2. inHand' = [inHand EXCEPT ![d] = <<h>>] /\ queue' = [queue EXCEPT ![d] = t]
    BY <1>4 DEF TakeAlert
  <2> HIDE DEF h, t
  <2>3. <<h>> \in Seq(Numbers)
    BY <2>1
  <2> QED BY <1>4, <2>1, <2>2, <2>3 DEF TakeAlert, StreamTypeOK
<1>5. ASSUME NEW d \in Dashboards, SendAlert(d) PROVE StreamTypeOK'
  <2>1. <<>> \in Seq(Numbers)
    OBVIOUS
  <2>2. inHand' \in [Dashboards -> Seq(Numbers)]
    BY <1>5, <2>1 DEF SendAlert, StreamTypeOK
  <2>3. CASE link[d] = "open"
    <3> DEFINE all == got[d] \o inHand[d]
    <3>1. all \in Seq(Numbers)
      BY <1>0, QueueFacts
    <3>2. got' = [got EXCEPT ![d] = all]
      BY <1>5, <2>3 DEF SendAlert
    <3> HIDE DEF all
    <3>3. got' \in [Dashboards -> Seq(Numbers)]
      BY <3>1, <3>2 DEF StreamTypeOK
    <3> QED BY <1>5, <2>2, <2>3, <3>3 DEF SendAlert, StreamTypeOK
  <2>4. CASE link[d] # "open"
    <3>1. /\ queue' = [c \in DOMAIN queue \ {d} |-> queue[c]]
          /\ link' = [link EXCEPT ![d] = "closed"] /\ got' = got /\ sent' = sent
      BY <1>5, <2>4 DEF SendAlert
    <3>2. link' \in [Dashboards -> {"new", "greeting", "open", "gone", "closed"}]
      BY <3>1 DEF StreamTypeOK
    <3>3. /\ DOMAIN queue' \subseteq Dashboards
          /\ \A c \in DOMAIN queue' : queue'[c] \in Seq(Numbers) /\ Len(queue'[c]) <= QueueSize
      BY <3>1 DEF StreamTypeOK
    <3> QED BY <2>2, <3>1, <3>2, <3>3 DEF StreamTypeOK
  <2> QED BY <2>3, <2>4
<1>6. CASE UNCHANGED streamVars
  BY <1>6 DEF streamVars, StreamTypeOK
<1> QED BY <1>1, <1>2, <1>3, <1>4, <1>5, <1>6 DEF StreamNext

\* Alerts, queues and links keep their types, and each queue its limit.
THEOREM StreamTypes == StreamSpec => []StreamTypeOK
BY StreamTypeInit, StreamTypeStep, PTL DEF StreamSpec

-----------------------------------------------------------------------------
(* Notices, their nonces and their tokens.                                  *)

\* Types.
NoticesOK ==
    /\ boots \in Nat /\ accepted \in Seq(Notices \X Nat) /\ nonces \in Seq(Notices)
    /\ Len(nonces) <= MaxNonces /\ Len(nonces) <= Len(accepted)

\* The cache holds what was accepted last, of this boot; unless it is full that
\* is all this boot has accepted.
CacheIsTheLast ==
    /\ \A p \in 1 .. Len(nonces) :
         accepted[Len(accepted) - Len(nonces) + p] = <<nonces[p], boots>>
    /\ \A i \in 1 .. Len(accepted) : accepted[i][2] <= boots
    /\ Len(nonces) < MaxNonces =>
         \A i \in 1 .. Len(accepted) - Len(nonces) : accepted[i][2] < boots

\* The alarms of a token.
AlarmsOf(t) == {c \in alarmed : TokenOf[accepted[c][1]] = t}

TokensOK ==
    /\ token \in [Tokens -> {"never", "removed"} \cup Stored]
    /\ triggers \in [Tokens -> Nat]
    /\ alarmed \subseteq 1 .. Len(accepted)
    /\ DOMAIN calls \subseteq 1 .. Len(accepted)

\* A call under way has given no alarm yet, and has read no count above the alarms.
CallsReadLess ==
    \A c \in DOMAIN calls :
      /\ c \notin alarmed
      /\ calls[c] \in Nat
      /\ \A t : t = TokenOf[accepted[c][1]] => calls[c] <= Cardinality(AlarmsOf(t))

WebhookInv == NoticesOK /\ CacheIsTheLast /\ ReplayNeedsFlood
TokenInv == NoticesOK /\ TokensOK /\ CallsReadLess /\ TriggeredTokensStay

\* What the constants are.
LEMMA WebhookConstants ==
    /\ \A n \in Notices : TokenOf[n] \in Tokens
    /\ MaxNonces \in Nat /\ MaxNonces > 0
BY WebhookConstantsOK DEF WebhookConstantsOK, Tokens, Range

\* The places of a sequence with one more at its end.
LEMMA AppendFacts ==
    ASSUME NEW S, NEW q \in Seq(S), NEW x \in S
    PROVE  /\ Append(q, x) \in Seq(S) /\ Len(Append(q, x)) = Len(q) + 1
           /\ Append(q, x)[Len(q) + 1] = x
           /\ \A i \in 1 .. Len(q) : Append(q, x)[i] = q[i]
OBVIOUS

\* A notice is accepted.
Accepted(n) ==
    /\ n \in Notices /\ n \notin Range(nonces)
    /\ nonces' = Remember(n) /\ accepted' = Append(accepted, <<n, boots>>) /\ boots' = boots
\* The backend starts anew.
Rebooted == boots' = boots + 1 /\ nonces' = <<>> /\ accepted' = accepted

\* The cache with a notice more.
LEMMA RememberFacts ==
    ASSUME NoticesOK, NEW n \in Notices
    PROVE  /\ Remember(n) \in Seq(Notices)
           /\ Len(nonces) < MaxNonces =>
                /\ Len(Remember(n)) = Len(nonces) + 1
                /\ Remember(n)[Len(nonces) + 1] = n
                /\ \A p \in 1 .. Len(nonces) : Remember(n)[p] = nonces[p]
           /\ Len(nonces) = MaxNonces =>
                /\ Len(Remember(n)) = Len(nonces)
                /\ Remember(n)[Len(nonces)] = n
                /\ \A p \in 1 .. Len(nonces) - 1 : Remember(n)[p] = nonces[p + 1]
<1>1. CASE Len(nonces) < MaxNonces
  <2>1. Remember(n) = Append(nonces, n)
    BY <1>1 DEF Remember
  <2> QED BY <1>1, <2>1, AppendFacts DEF NoticesOK
<1>2. CASE Len(nonces) = MaxNonces
  <2> DEFINE rest == Tail(nonces)
  <2>1. Remember(n) = Append(rest, n)
    BY <1>2, WebhookConstants DEF Remember
  <2>2. nonces \in Seq(Notices) /\ nonces # <<>>
    BY <1>2, WebhookConstants DEF NoticesOK
  <2>3. /\ rest \in Seq(Notices) /\ Len(rest) = Len(nonces) - 1
        /\ \A p \in 1 .. Len(rest) : rest[p] = nonces[p + 1]
    BY <2>2
  <2>4. Len(nonces) \in Nat /\ Len(nonces) > 0
    BY <2>2, <1>2, WebhookConstants
  <2> HIDE DEF rest
  <2>5. /\ Append(rest, n) \in Seq(Notices) /\ Len(Append(rest, n)) = Len(rest) + 1
        /\ Append(rest, n)[Len(rest) + 1] = n
        /\ \A i \in 1 .. Len(rest) : Append(rest, n)[i] = rest[i]
    BY <2>3, AppendFacts
  <2>6. Len(rest) + 1 = Len(nonces)
    BY <2>3, <2>4
  <2> QED BY <1>2, <2>1, <2>3, <2>4, <2>5, <2>6
<1>3. Len(nonces) < MaxNonces \/ Len(nonces) = MaxNonces
  BY WebhookConstants DEF NoticesOK
<1>4. ~(Len(nonces) < MaxNonces /\ Len(nonces) = MaxNonces)
  BY WebhookConstants DEF NoticesOK
<1> QED BY <1>1, <1>2, <1>3, <1>4

\* The types after a notice.
LEMMA NoticesAccepted ==
    ASSUME NoticesOK, NEW n, Accepted(n)
    PROVE  /\ NoticesOK' /\ Len(accepted') = Len(accepted) + 1
           /\ accepted'[Len(accepted) + 1] = <<n, boots>>
           /\ \A i \in 1 .. Len(accepted) : accepted'[i] = accepted[i]
           /\ Len(accepted) \in Nat /\ Len(nonces) \in Nat
<1>1. n \in Notices /\ <<n, boots>> \in Notices \X Nat
  BY DEF NoticesOK, Accepted
<1>2. /\ accepted' \in Seq(Notices \X Nat) /\ Len(accepted') = Len(accepted) + 1
      /\ accepted'[Len(accepted) + 1] = <<n, boots>>
      /\ \A i \in 1 .. Len(accepted) : accepted'[i] = accepted[i]
  BY <1>1, AppendFacts DEF NoticesOK, Accepted
<1>3. Len(accepted) \in Nat /\ Len(nonces) \in Nat
  BY DEF NoticesOK
<1>4. nonces' \in Seq(Notices) /\ Len(nonces') <= MaxNonces /\ Len(nonces') <= Len(nonces) + 1
  BY <1>1, <1>3, RememberFacts, WebhookConstants DEF NoticesOK, Accepted
<1>5. Len(nonces') \in Nat
  BY <1>4
<1>6. Len(nonces') <= Len(accepted')
  BY <1>2, <1>3, <1>4, <1>5 DEF NoticesOK
<1> QED BY <1>2, <1>3, <1>4, <1>6 DEF NoticesOK, Accepted

\* The cache holds the last notices after one more.
LEMMA CacheAccepted ==
    ASSUME NoticesOK, CacheIsTheLast, NEW n, Accepted(n)
    PROVE  CacheIsTheLast'
<1> DEFINE L == Len(accepted)
<1> DEFINE N == Len(nonces)
<1> DEFINE L2 == Len(accepted')
<1> DEFINE N2 == Len(nonces')
<1>1. /\ L2 = L + 1 /\ accepted'[L + 1] = <<n, boots>> /\ boots' = boots
      /\ \A i \in 1 .. L : accepted'[i] = accepted[i]
      /\ L \in Nat /\ N \in Nat /\ N <= L /\ N <= MaxNonces /\ n \in Notices
      /\ MaxNonces \in Nat /\ MaxNonces > 0 /\ boots \in Nat
  BY NoticesAccepted, WebhookConstants DEF NoticesOK, Accepted
<1>2. N < MaxNonces => /\ N2 = N + 1 /\ nonces'[N + 1] = n
                       /\ \A p \in 1 .. N : nonces'[p] = nonces[p]
  BY <1>1, RememberFacts DEF Accepted
<1>3. N = MaxNonces => /\ N2 = N /\ nonces'[N] = n
                       /\ \A p \in 1 .. N - 1 : nonces'[p] = nonces[p + 1]
  BY <1>1, RememberFacts DEF Accepted
<1>4. /\ \A p \in 1 .. N : accepted[L - N + p] = <<nonces[p], boots>>
      /\ \A i \in 1 .. L : accepted[i][2] <= boots
      /\ N < MaxNonces => \A i \in 1 .. L - N : accepted[i][2] < boots
  BY DEF CacheIsTheLast
<1> HIDE DEF L, N, L2, N2
<1>5. \A p \in 1 .. N2 : accepted'[L2 - N2 + p] = <<nonces'[p], boots>>
  <2> SUFFICES ASSUME NEW p \in 1 .. N2
               PROVE  accepted'[L2 - N2 + p] = <<nonces'[p], boots>>
    OBVIOUS
  <2>1. CASE N < MaxNonces
    <3>1. L2 - N2 + p = L - N + p /\ p \in 1 .. N + 1
      BY <1>1, <1>2, <2>1
    <3>2. CASE p = N + 1
      <4>1. L2 - N2 + p = L + 1
        BY <1>1, <3>1, <3>2
      <4> QED BY <1>1, <1>2, <2>1, <3>2, <4>1
    <3>3. CASE p # N + 1
      <4>1. p \in 1 .. N /\ L - N + p \in 1 .. L
        BY <1>1, <3>1, <3>3
      <4> QED BY <1>1, <1>2, <1>4, <2>1, <3>1, <4>1
    <3> QED BY <3>2, <3>3
  <2>2. CASE N = MaxNonces
    <3>1. p \in 1 .. N /\ L2 - N2 + p = L - N + (p + 1)
      BY <1>1, <1>3, <2>2
    <3>2. CASE p = N
      <4>1. L2 - N2 + p = L + 1
        BY <1>1, <3>1, <3>2
      <4> QED BY <1>1, <1>3, <2>2, <3>2, <4>1
    <3>3. CASE p # N
      <4>1. p \in 1 .. N - 1 /\ p + 1 \in 1 .. N /\ L - N + (p + 1) \in 1 .. L
        BY <1>1, <3>1, <3>3
      <4> QED BY <1>1, <1>3, <1>4, <2>2, <3>1, <4>1
    <3> QED BY <3>2, <3>3
  <2> QED BY <1>1, <2>1, <2>2
<1>6. \A i \in 1 .. L2 : accepted'[i][2] <= boots
  <2> SUFFICES ASSUME NEW i \in 1 .. L2
               PROVE  accepted'[i][2] <= boots
    OBVIOUS
  <2>1. CASE i = L + 1
    BY <1>1, <2>1
  <2>2. CASE i # L + 1
    <3>1. i \in 1 .. L
      BY <1>1, <2>2
    <3> QED BY <1>1, <1>4, <3>1
  <2> QED BY <2>1, <2>2
<1>7. N2 < MaxNonces => \A i \in 1 .. L2 - N2 : accepted'[i][2] < boots
  <2> SUFFICES ASSUME N2 < MaxNonces, NEW i \in 1 .. L2 - N2
               PROVE  accepted'[i][2] < boots
    OBVIOUS
  <2>1. N < MaxNonces
    BY <1>1, <1>3
  <2>2. i \in 1 .. L - N /\ i \in 1 .. L
    BY <1>1, <1>2, <2>1
  <2> QED BY <1>1, <1>4, <2>1, <2>2
<1> QED BY <1>1, <1>5, <1>6, <1>7 DEF CacheIsTheLast, L2, N2

\* The same notice of the same boot is not accepted while the cache has it.
LEMMA FloodAccepted ==
    ASSUME NoticesOK, CacheIsTheLast, ReplayNeedsFlood, NEW n, Accepted(n)
    PROVE  ReplayNeedsFlood'
<1> DEFINE L == Len(accepted)
<1> DEFINE N == Len(nonces)
<1>1. /\ Len(accepted') = L + 1 /\ accepted'[L + 1] = <<n, boots>>
      /\ \A i \in 1 .. L : accepted'[i] = accepted[i]
      /\ L \in Nat /\ N \in Nat /\ N <= L /\ N <= MaxNonces /\ MaxNonces \in Nat /\ boots \in Nat
      /\ accepted \in Seq(Notices \X Nat) /\ accepted' \in Seq(Notices \X Nat)
  BY NoticesAccepted, WebhookConstants DEF NoticesOK
<1>2. /\ \A p \in 1 .. N : accepted[L - N + p] = <<nonces[p], boots>>
      /\ N < MaxNonces => \A i \in 1 .. L - N : accepted[i][2] < boots
  BY DEF CacheIsTheLast
<1>3. \A p \in 1 .. N : nonces[p] # n
  <2>1. DOMAIN nonces = 1 .. N
    BY DEF NoticesOK
  <2> QED BY <2>1 DEF Accepted, Range
<1>4. DOMAIN accepted = 1 .. L /\ DOMAIN accepted' = 1 .. L + 1
  BY <1>1
<1> HIDE DEF L, N
<1> SUFFICES ASSUME NEW i \in 1 .. L + 1, NEW j \in 1 .. L + 1, i < j, accepted'[i] = accepted'[j]
             PROVE  j - i > MaxNonces
  BY <1>4 DEF ReplayNeedsFlood
<1>5. CASE j \in 1 .. L
  <2>1. i \in 1 .. L
    BY <1>1, <1>5
  <2> QED BY <1>1, <1>4, <1>5, <2>1 DEF ReplayNeedsFlood
<1>6. CASE j = L + 1
  <2>1. i \in 1 .. L /\ accepted[i] = <<n, boots>>
    BY <1>1, <1>6
  <2>2. i <= L - N
    <3> SUFFICES ASSUME i > L - N
                 PROVE  FALSE
      BY <1>1
    <3> DEFINE p == i - (L - N)
    <3>1. p \in 1 .. N /\ L - N + p = i
      BY <1>1, <2>1
    <3>2. accepted[i] = <<nonces[p], boots>>
      BY <1>2, <3>1
    <3> QED BY <1>3, <2>1, <3>1, <3>2
  <2>3. N = MaxNonces
    <3> SUFFICES ASSUME N < MaxNonces
                 PROVE  FALSE
      BY <1>1
    <3>1. i \in 1 .. L - N
      BY <1>1, <2>1, <2>2
    <3>2. accepted[i][2] < boots
      BY <1>2, <3>1
    <3> QED BY <1>1, <2>1, <3>2
  <2> QED BY <1>1, <1>6, <2>1, <2>2, <2>3
<1> QED BY <1>1, <1>5, <1>6

\* What the steps do to the notices.
LEMMA NoticesMove ==
    ASSUME [WebhookNext]_webhookVars, NoticesOK
    PROVE  \/ \E n \in Notices : Accepted(n)
           \/ Rebooted
           \/ UNCHANGED <<nonces, accepted, boots>>
BY DEF WebhookNext, webhookVars, FireWebhook, AcceptNotice, CommitNotice, NoticeFails,
       CreateCanaryToken, DeleteCanaryToken, RebootBackend, RebootTripwire, MinutePasses,
       Accepted, Rebooted

\* A start of the backend empties the cache.
LEMMA NoticesRebooted ==
    ASSUME NoticesOK, CacheIsTheLast, ReplayNeedsFlood, Rebooted
    PROVE  WebhookInv'
<1>1. boots \in Nat /\ boots' = boots + 1 /\ accepted' = accepted /\ Len(accepted) \in Nat
  BY DEF NoticesOK, Rebooted
<1>2. nonces' \in Seq(Notices) /\ Len(nonces') = 0
  BY DEF Rebooted
<1>3. NoticesOK'
  BY <1>1, <1>2, WebhookConstants DEF NoticesOK
<1>4. \A i \in 1 .. Len(accepted) : accepted[i][2] \in Nat /\ accepted[i][2] <= boots
  BY DEF NoticesOK, CacheIsTheLast
<1>5. CacheIsTheLast'
  <2>1. \A p \in 1 .. Len(nonces') :
          accepted'[Len(accepted') - Len(nonces') + p] = <<nonces'[p], boots'>>
    BY <1>2
  <2>2. \A i \in 1 .. Len(accepted') : accepted'[i][2] <= boots' /\ accepted'[i][2] < boots'
    BY <1>1, <1>4
  <2>3. \A i \in 1 .. Len(accepted') - Len(nonces') : accepted'[i][2] < boots'
    BY <1>1, <1>2, <2>2
  <2> QED BY <2>1, <2>2, <2>3 DEF CacheIsTheLast
<1>6. ReplayNeedsFlood'
  BY <1>1 DEF ReplayNeedsFlood
<1> QED BY <1>3, <1>5, <1>6 DEF WebhookInv

\* Every step keeps it.
LEMMA WebhookInvStep ==
    ASSUME WebhookInv, [WebhookNext]_webhookVars
    PROVE  WebhookInv'
<1>1. ASSUME NEW n \in Notices, Accepted(n)
      PROVE  WebhookInv'
  BY <1>1, NoticesAccepted, CacheAccepted, FloodAccepted DEF WebhookInv
<1>2. CASE UNCHANGED <<nonces, accepted, boots>>
  BY <1>2 DEF WebhookInv, NoticesOK, CacheIsTheLast, ReplayNeedsFlood
<1> QED BY <1>1, <1>2, NoticesMove, NoticesRebooted DEF WebhookInv

\* A notice counts again only after a restart or a flood of others: whatever
\* the network brings again, and for any size of the cache (_NonceCache).
THEOREM NoReplayWithoutFlood == WebhookSpec => []ReplayNeedsFlood
<1>1. WebhookInit => WebhookInv
  <2> SUFFICES ASSUME WebhookInit PROVE WebhookInv
    OBVIOUS
  <2>1. nonces = <<>> /\ accepted = <<>> /\ boots = 0
    BY DEF WebhookInit
  <2>2. NoticesOK
    BY <2>1, WebhookConstants DEF NoticesOK
  <2>3. CacheIsTheLast /\ ReplayNeedsFlood
    BY <2>1 DEF CacheIsTheLast, ReplayNeedsFlood
  <2> QED BY <2>2, <2>3 DEF WebhookInv
<1>2. WebhookInv /\ [WebhookNext]_webhookVars => WebhookInv'
  BY WebhookInvStep
<1>3. WebhookInv => ReplayNeedsFlood
  BY DEF WebhookInv
<1> QED BY <1>1, <1>2, <1>3, PTL DEF WebhookSpec

-----------------------------------------------------------------------------
(* Tokens and their alarms.                                                 *)

\* One more alarm raises the number of alarms of its token by one.
LEMMA AlarmsRise ==
    ASSUME TokensOK, NEW c, c \notin alarmed, alarmed' = alarmed \cup {c},
           accepted' = accepted, NEW t
    PROVE  /\ IsFiniteSet(AlarmsOf(t)) /\ Cardinality(AlarmsOf(t)) \in Nat
           /\ AlarmsOf(t) \subseteq AlarmsOf(t)'
           /\ TokenOf[accepted[c][1]] = t =>
                Cardinality(AlarmsOf(t)') = Cardinality(AlarmsOf(t)) + 1
           /\ TokenOf[accepted[c][1]] # t => AlarmsOf(t)' = AlarmsOf(t)
<1>1. IsFiniteSet(AlarmsOf(t))
  <2>1. IsFiniteSet(1 .. Len(accepted))
    BY FS_Interval DEF TokensOK, NoticesOK
  <2>2. AlarmsOf(t) \subseteq 1 .. Len(accepted)
    BY DEF AlarmsOf, TokensOK
  <2> QED BY <2>1, <2>2, FS_Subset
<1>2. TokenOf[accepted[c][1]] = t => AlarmsOf(t)' = AlarmsOf(t) \cup {c} /\ c \notin AlarmsOf(t)
  BY DEF AlarmsOf
<1>3. TokenOf[accepted[c][1]] # t => AlarmsOf(t)' = AlarmsOf(t)
  BY DEF AlarmsOf
<1>4. AlarmsOf(t) \subseteq AlarmsOf(t)'
  BY DEF AlarmsOf
<1> QED BY <1>1, <1>2, <1>3, <1>4, FS_AddElement, FS_CardinalityType

\* Alarms stay who they are while notices come in.
LEMMA AlarmsStay ==
    ASSUME TokensOK, UNCHANGED alarmed, \A i \in 1 .. Len(accepted) : accepted'[i] = accepted[i]
    PROVE  \A t : AlarmsOf(t)' = AlarmsOf(t)
BY DEF AlarmsOf, TokensOK

\* The property, in terms of AlarmsOf.
LEMMA StayFacts ==
    /\ TriggeredTokensStay <=>
         \A t \in Tokens :
           /\ triggers[t] <= Cardinality(AlarmsOf(t))
           /\ AlarmsOf(t) # {} => triggers[t] > 0 /\ token[t] \in Stored
    /\ TriggeredTokensStay' <=>
         \A t \in Tokens :
           /\ triggers'[t] <= Cardinality(AlarmsOf(t)')
           /\ AlarmsOf(t)' # {} => triggers'[t] > 0 /\ token'[t] \in Stored
BY DEF TriggeredTokensStay, AlarmsOf

\* A notice is accepted: its call has read the count.
LEMMA TokensAccepted ==
    ASSUME TokenInv, NEW n \in Notices, AcceptNotice(n)
    PROVE  TokenInv'
<1> USE DEF TokenInv
<1>1. Accepted(n) /\ UNCHANGED <<token, triggers, alarmed>>
  BY DEF AcceptNotice, Accepted
<1>2. /\ NoticesOK' /\ Len(accepted') = Len(accepted) + 1
      /\ accepted'[Len(accepted) + 1] = <<n, boots>>
      /\ \A i \in 1 .. Len(accepted) : accepted'[i] = accepted[i]
      /\ Len(accepted) \in Nat
  BY <1>1, NoticesAccepted
<1>3. \A t : AlarmsOf(t)' = AlarmsOf(t)
  BY <1>1, <1>2, AlarmsStay
<1> DEFINE c == Len(accepted) + 1
<1>4. /\ DOMAIN calls' = DOMAIN calls \cup {c}
      /\ calls'[c] = triggers[TokenOf[n]]
      /\ \A d \in DOMAIN calls : d # c => calls'[d] = calls[d]
  BY DEF AcceptNotice, Extended
<1>5. c \notin 1 .. Len(accepted) /\ c \in 1 .. Len(accepted')
        /\ 1 .. Len(accepted) \subseteq 1 .. Len(accepted')
  BY <1>2
<1>6. TokensOK'
  BY <1>1, <1>4, <1>5 DEF TokensOK
<1>7. TriggeredTokensStay'
  BY <1>1, <1>3, StayFacts
<1>8. accepted'[c] = <<n, boots>>
  BY <1>2
<1> HIDE DEF c
<1>9. ASSUME NEW d \in DOMAIN calls'
      PROVE  /\ d \notin alarmed'
             /\ calls'[d] \in Nat
             /\ \A t : t = TokenOf[accepted'[d][1]] => calls'[d] <= Cardinality(AlarmsOf(t)')
  <2>1. CASE d = c
    <3>1. TokenOf[n] \in Tokens /\ accepted'[d][1] = n
      BY <1>8, <2>1, WebhookConstants
    <3>2. triggers[TokenOf[n]] \in Nat /\ triggers[TokenOf[n]] <= Cardinality(AlarmsOf(TokenOf[n]))
      BY <3>1, StayFacts DEF TokensOK
    <3>3. d \notin alarmed'
      BY <1>1, <1>5, <2>1 DEF TokensOK
    <3> QED BY <1>3, <1>4, <2>1, <3>1, <3>2, <3>3
  <2>2. CASE d # c
    <3>1. d \in DOMAIN calls /\ d \in 1 .. Len(accepted) /\ calls'[d] = calls[d]
      BY <1>4, <2>2 DEF TokensOK
    <3> QED BY <1>1, <1>2, <1>3, <3>1 DEF CallsReadLess
  <2> QED BY <2>1, <2>2
<1>10. CallsReadLess'
  BY <1>9 DEF CallsReadLess
<1> QED BY <1>2, <1>6, <1>7, <1>10

\* A call is over: the others stay.
CallOver(c) ==
    /\ c \in DOMAIN calls /\ DOMAIN calls' = DOMAIN calls \ {c}
    /\ \A d \in DOMAIN calls' : calls'[d] = calls[d]
    /\ UNCHANGED <<nonces, accepted, boots, token>>

\* A call is committed, and its token counts one more than it read.
LEMMA TokensCommitted ==
    ASSUME TokenInv, NEW c, CallOver(c), NEW t \in Tokens, t = TokenOf[accepted[c][1]],
           token[t] \in Stored, triggers' = [triggers EXCEPT ![t] = calls[c] + 1],
           alarmed' = alarmed \cup {c}
    PROVE  TokenInv'
<1> USE DEF TokenInv
<1>1. NoticesOK'
  BY DEF NoticesOK, CallOver
<1>2. c \notin alarmed /\ calls[c] \in Nat /\ calls[c] <= Cardinality(AlarmsOf(t))
  BY DEF CallsReadLess, CallOver
<1>3. accepted' = accepted
  BY DEF CallOver
<1>4. /\ Cardinality(AlarmsOf(t)) \in Nat
      /\ Cardinality(AlarmsOf(t)') = Cardinality(AlarmsOf(t)) + 1
      /\ \A u : u # t => AlarmsOf(u)' = AlarmsOf(u)
  BY <1>2, <1>3, AlarmsRise
<1>5. TokensOK'
  <2>1. calls[c] + 1 \in Nat
    BY <1>2
  <2>2. triggers' \in [Tokens -> Nat]
    BY <2>1 DEF TokensOK
  <2>3. c \in 1 .. Len(accepted)
    BY DEF TokensOK, CallOver
  <2> QED BY <2>2, <2>3 DEF TokensOK, CallOver
<1>6. TriggeredTokensStay'
  <2> SUFFICES ASSUME NEW u \in Tokens
               PROVE  /\ triggers'[u] <= Cardinality(AlarmsOf(u)')
                      /\ AlarmsOf(u)' # {} => triggers'[u] > 0 /\ token'[u] \in Stored
    BY StayFacts
  <2>1. CASE u = t
    <3>1. triggers'[u] = calls[c] + 1
      BY <2>1 DEF TokensOK
    <3>2. triggers'[u] <= Cardinality(AlarmsOf(t)) + 1 /\ triggers'[u] > 0
      BY <1>2, <1>4, <3>1
    <3> QED BY <1>4, <2>1, <3>2 DEF CallOver
  <2>2. CASE u # t
    <3>1. triggers'[u] = triggers[u] /\ token'[u] = token[u]
      BY <2>2 DEF TokensOK, CallOver
    <3> QED BY <1>4, <2>2, <3>1, StayFacts
  <2> QED BY <2>1, <2>2
<1>7. ASSUME NEW d \in DOMAIN calls'
      PROVE  /\ d \notin alarmed'
             /\ calls'[d] \in Nat
             /\ \A u : u = TokenOf[accepted'[d][1]] => calls'[d] <= Cardinality(AlarmsOf(u)')
  <2>1. /\ d \notin alarmed /\ calls[d] \in Nat
        /\ \A u : u = TokenOf[accepted[d][1]] => calls[d] <= Cardinality(AlarmsOf(u))
        /\ d # c /\ calls'[d] = calls[d]
    BY DEF CallsReadLess, CallOver
  <2>2. ASSUME NEW w, w = TokenOf[accepted[d][1]]
        PROVE  calls[d] <= Cardinality(AlarmsOf(w)')
    <3>1. calls[d] <= Cardinality(AlarmsOf(w))
      BY <2>1, <2>2
    <3> QED BY <1>4, <2>1, <3>1
  <2> QED BY <1>3, <2>1, <2>2
<1>8. CallsReadLess'
  BY <1>7 DEF CallsReadLess
<1> QED BY <1>1, <1>5, <1>6, <1>8

\* No count and no alarm changes, and what has alarms is kept.
LEMMA TokensKept ==
    ASSUME TokenInv, NoticesOK', UNCHANGED <<accepted, triggers, alarmed>>,
           token' \in [Tokens -> {"never", "removed"} \cup Stored],
           \A t \in Tokens : triggers[t] > 0 /\ token[t] \in Stored => token'[t] \in Stored,
           DOMAIN calls' \subseteq DOMAIN calls, \A d \in DOMAIN calls' : calls'[d] = calls[d]
    PROVE  TokenInv'
<1> USE DEF TokenInv
<1>1. \A t : AlarmsOf(t)' = AlarmsOf(t)
  BY DEF AlarmsOf
<1>2. TokensOK'
  BY DEF TokensOK
<1>3. TriggeredTokensStay'
  BY <1>1, StayFacts
<1>4. CallsReadLess'
  BY <1>1 DEF CallsReadLess
<1> QED BY <1>2, <1>3, <1>4

\* Every step keeps the tokens' invariant.
LEMMA TokenInvStep ==
    ASSUME TokenInv, [WebhookNext]_webhookVars
    PROVE  TokenInv'
<1> USE DEF TokenInv
<1>1. ASSUME NEW n \in Notices, AcceptNotice(n)
      PROVE  TokenInv'
  BY <1>1, TokensAccepted
<1>2. ASSUME NEW c, CallOver(c), UNCHANGED <<triggers, alarmed>>
      PROVE  TokenInv'
  <2>1. NoticesOK'
    BY <1>2 DEF CallOver, NoticesOK
  <2> QED BY <1>2, <2>1, TokensKept DEF CallOver, TokensOK
<1>3. ASSUME NEW c, CommitNotice(c) \/ NoticeFails(c)
      PROVE  CallOver(c)
  BY <1>3 DEF CommitNotice, NoticeFails, CallOver, Restrict
<1>4. ASSUME NEW c, CommitNotice(c)
      PROVE  TokenInv'
  <2> DEFINE t == TokenOf[accepted[c][1]]
  <2>1. c \in 1 .. Len(accepted)
    BY <1>4 DEF CommitNotice, TokensOK
  <2>2. t \in Tokens
    BY <2>1, WebhookConstants DEF NoticesOK
  <2>3. CASE token[t] \in Stored
    <3>1. triggers' = [triggers EXCEPT ![t] = calls[c] + 1] /\ alarmed' = alarmed \cup {c}
      BY <1>4, <2>3 DEF CommitNotice
    <3> QED BY <1>3, <1>4, <2>2, <2>3, <3>1, TokensCommitted
  <2>4. CASE token[t] \notin Stored
    <3>1. UNCHANGED <<triggers, alarmed>>
      BY <1>4, <2>4 DEF CommitNotice
    <3> QED BY <1>2, <1>3, <1>4, <3>1
  <2> QED BY <2>3, <2>4
<1>5. ASSUME NEW c, NoticeFails(c)
      PROVE  TokenInv'
  BY <1>2, <1>3, <1>5 DEF NoticeFails
<1>6. ASSUME NEW t \in Tokens, CreateCanaryToken(t) \/ DeleteCanaryToken(t)
      PROVE  TokenInv'
  <2>1. NoticesOK' /\ UNCHANGED <<accepted, triggers, alarmed, calls>>
    BY <1>6 DEF CreateCanaryToken, DeleteCanaryToken, NoticesOK
  <2>2. /\ token' \in [Tokens -> {"never", "removed"} \cup Stored]
        /\ \A u \in Tokens : token[u] \in Stored => token'[u] \in Stored
    BY <1>6 DEF CreateCanaryToken, DeleteCanaryToken, TokensOK, Stored
  <2> QED BY <2>1, <2>2, TokensKept
<1>7. CASE RebootBackend
  <2>1. NoticesOK' /\ UNCHANGED <<accepted, triggers, alarmed>> /\ calls' = <<>>
    BY <1>7, WebhookConstants DEF RebootBackend, NoticesOK
  <2>2. token' = [t \in Tokens |-> EnsureToken(t)]
    BY <1>7 DEF RebootBackend
  <2>3. ASSUME NEW t \in Tokens
        PROVE  /\ EnsureToken(t) \in {"never", "removed"} \cup Stored
               /\ triggers[t] > 0 /\ token[t] \in Stored => EnsureToken(t) \in Stored
    BY DEF EnsureToken, TokensOK, Stored
  <2> QED BY <2>1, <2>2, <2>3, TokensKept
<1>8. ASSUME UNCHANGED <<nonces, accepted, boots, calls, token, triggers, alarmed>>
      PROVE  TokenInv'
  <2>1. NoticesOK'
    BY <1>8 DEF NoticesOK
  <2> QED BY <1>8, <2>1, TokensKept DEF TokensOK
<1>9. ASSUME NEW n \in Notices, FireWebhook(n)
      PROVE  TokenInv'
  BY <1>8, <1>9 DEF FireWebhook
<1>10. CASE MinutePasses \/ RebootTripwire \/ UNCHANGED webhookVars
  BY <1>8, <1>10 DEF MinutePasses, RebootTripwire, webhookVars
<1> QED BY <1>1, <1>4, <1>5, <1>6, <1>7, <1>9, <1>10 DEF WebhookNext

\* A token never counts more alarms than it gave, however calls overlap, and one
\* that has given an alarm survives every start of the backend
\* (trigger_canary, ensure_canary_tokens).
THEOREM TriggeredTokensAreKept == WebhookSpec => []TriggeredTokensStay
<1>1. WebhookInit => TokenInv
  <2> SUFFICES ASSUME WebhookInit PROVE TokenInv
    OBVIOUS
  <2>1. /\ nonces = <<>> /\ accepted = <<>> /\ boots = 0 /\ alarmed = {} /\ calls = <<>>
        /\ token = [t \in Tokens |-> IF t \in Canonical THEN "active" ELSE "never"]
        /\ triggers = [t \in Tokens |-> 0]
    BY DEF WebhookInit
  <2>2. NoticesOK
    BY <2>1, WebhookConstants DEF NoticesOK
  <2>3. TokensOK /\ CallsReadLess
    BY <2>1 DEF TokensOK, CallsReadLess, Stored
  <2>4. \A t \in Tokens : AlarmsOf(t) = {} /\ triggers[t] = 0
    BY <2>1 DEF AlarmsOf
  <2>5. TriggeredTokensStay
    BY <2>4, StayFacts, FS_EmptySet
  <2> QED BY <2>2, <2>3, <2>5 DEF TokenInv
<1>2. TokenInv /\ [WebhookNext]_webhookVars => TokenInv'
  BY TokenInvStep
<1>3. TokenInv => TriggeredTokensStay
  BY DEF TokenInv
<1> QED BY <1>1, <1>2, <1>3, PTL DEF WebhookSpec

-----------------------------------------------------------------------------
(* The types of notices and tokens.                                         *)

\* The type, with the counts that calls have read.
WebhookTyped == WebhookTypeOK /\ \A c \in DOMAIN calls : calls[c] \in Nat

\* A function with an entry more, or with fewer.
LEMMA ExtendedFacts ==
    ASSUME NEW f, NEW x, NEW y, NEW S, NEW T, DOMAIN f \subseteq S, Range(f) \subseteq T,
           x \in S, y \in T
    PROVE  DOMAIN Extended(f, x, y) \subseteq S /\ Range(Extended(f, x, y)) \subseteq T
BY DEF Extended, Range

\* The nonces never outgrow the cache.
LEMMA RememberTypes ==
    ASSUME nonces \in Seq(Notices), Len(nonces) <= MaxNonces, NEW n \in Notices
    PROVE  Remember(n) \in Seq(Notices) /\ Len(Remember(n)) <= MaxNonces
<1>0. MaxNonces \in Nat \ {0} /\ Len(nonces) \in Nat
  BY WebhookConstantsOK DEF WebhookConstantsOK
<1>1. CASE Len(nonces) < MaxNonces
  <2>1. Append(nonces, n) \in Seq(Notices) /\ Len(Append(nonces, n)) = Len(nonces) + 1
    OBVIOUS
  <2> QED BY <1>0, <1>1, <2>1 DEF Remember
<1>2. CASE ~(Len(nonces) < MaxNonces)
  <2> DEFINE t == Tail(nonces)
  <2>1. t \in Seq(Notices) /\ Len(t) = Len(nonces) - 1
    <3>1. nonces # <<>>
      BY <1>0, <1>2
    <3> QED BY <3>1
  <2>2. Remember(n) = Append(t, n)
    BY <1>2 DEF Remember
  <2> HIDE DEF t
  <2>3. Append(t, n) \in Seq(Notices) /\ Len(Append(t, n)) = Len(t) + 1
    BY <2>1
  <2> QED BY <1>0, <2>1, <2>2, <2>3
<1> QED BY <1>1, <1>2

\* One case per action.
LEMMA WebhookTypeStep == WebhookTyped /\ [WebhookNext]_webhookVars => WebhookTyped'
<1> SUFFICES ASSUME WebhookTyped, [WebhookNext]_webhookVars PROVE WebhookTyped'
  OBVIOUS
<1>a. /\ {MaxMinutes, MaxBoots, MaxCalls} \subseteq Nat
      /\ \A n \in Notices : PathOf[n] \in Range(PathOf) /\ TokenOf[n] \in Tokens
  BY WebhookConstantsOK DEF WebhookConstantsOK, Range, Tokens
<1>b. /\ minute \in 0 .. MaxMinutes /\ boots \in 0 .. MaxBoots
      /\ accepted \in Seq(Notices \X (0 .. MaxBoots)) /\ DOMAIN calls \subseteq DOMAIN accepted
  BY DEF WebhookTyped, WebhookTypeOK
<1>1. CASE MinutePasses
  <2>1. minute' \in 0 .. MaxMinutes
    BY <1>a, <1>b, <1>1 DEF MinutePasses
  <2> QED BY <1>1, <2>1 DEF MinutePasses, WebhookTyped, WebhookTypeOK
<1>2. CASE RebootBackend
  <2>1. boots' \in 0 .. MaxBoots
    BY <1>a, <1>b, <1>2 DEF RebootBackend
  <2>2. nonces' = <<>> /\ calls' = <<>> /\ <<>> \in Seq(Notices) /\ Len(<<>>) = 0
    BY <1>2 DEF RebootBackend
  <2>3. token' \in [Tokens -> {"never", "removed"} \cup Stored]
    <3>1. ASSUME NEW t \in Tokens PROVE EnsureToken(t) \in {"never", "removed"} \cup Stored
      BY DEF EnsureToken, WebhookTyped, WebhookTypeOK, Stored
    <3> QED BY <1>2, <3>1 DEF RebootBackend
  <2>4. Len(nonces') <= MaxNonces
    BY <2>2, WebhookConstantsOK DEF WebhookConstantsOK
  <2> QED BY <1>2, <2>1, <2>2, <2>3, <2>4 DEF RebootBackend, WebhookTyped, WebhookTypeOK
<1>3. CASE RebootTripwire
  BY <1>3 DEF RebootTripwire, WebhookTyped, WebhookTypeOK, Range
<1>4. ASSUME NEW n \in Notices, FireWebhook(n) PROVE WebhookTyped'
  <2>1. DOMAIN tripped' \subseteq Range(PathOf) /\ Range(tripped') \subseteq 0 .. MaxMinutes
    BY <1>a, <1>b, <1>4, ExtendedFacts DEF FireWebhook, WebhookTyped, WebhookTypeOK
  <2>2. DOMAIN posted' \subseteq Notices /\ Range(posted') \subseteq 0 .. MaxMinutes
    BY <1>a, <1>b, <1>4, ExtendedFacts DEF FireWebhook, WebhookTyped, WebhookTypeOK
  <2> QED BY <1>4, <2>1, <2>2 DEF FireWebhook, WebhookTyped, WebhookTypeOK
<1>5. ASSUME NEW n \in Notices, AcceptNotice(n) PROVE WebhookTyped'
  <2>1. nonces' \in Seq(Notices) /\ Len(nonces') <= MaxNonces
    BY <1>5, RememberTypes DEF AcceptNotice, WebhookTyped, WebhookTypeOK
  <2> DEFINE pair == <<n, boots>>
             place == Len(accepted) + 1
             read == triggers[TokenOf[n]]
  <2>2. /\ accepted' = Append(accepted, pair) /\ pair \in Notices \X (0 .. MaxBoots)
        /\ calls' = Extended(calls, place, read)
        /\ UNCHANGED <<minute, tripped, posted, token, triggers, alarmed, boots>>
    BY <1>b, <1>5 DEF AcceptNotice
  <2>3. read \in Nat
    BY <1>a DEF WebhookTyped, WebhookTypeOK
  <2> HIDE DEF pair, read
  <2>4. /\ accepted' \in Seq(Notices \X (0 .. MaxBoots))
        /\ DOMAIN accepted \subseteq DOMAIN accepted' /\ place \in DOMAIN accepted'
    <3> DEFINE S == Notices \X (0 .. MaxBoots)
    <3>1. accepted \in Seq(S) /\ pair \in S
      BY <1>b, <2>2
    <3> HIDE DEF S
    <3>2. /\ Append(accepted, pair) \in Seq(S) /\ Len(accepted) \in Nat
          /\ Len(Append(accepted, pair)) = Len(accepted) + 1
          /\ DOMAIN accepted = 1 .. Len(accepted)
          /\ DOMAIN Append(accepted, pair) = 1 .. Len(accepted) + 1
      BY <3>1
    <3>3. 1 .. Len(accepted) \subseteq 1 .. place /\ place \in 1 .. place
      BY <3>2
    <3> QED BY <2>2, <3>2, <3>3 DEF S
  <2> HIDE DEF place
  <2>5. DOMAIN calls' \subseteq DOMAIN accepted' /\ \A c \in DOMAIN calls' : calls'[c] \in Nat
    BY <1>b, <2>2, <2>3, <2>4 DEF Extended, WebhookTyped
  <2>6. alarmed' \subseteq DOMAIN accepted'
    BY <2>2, <2>4 DEF WebhookTyped, WebhookTypeOK
  <2> QED BY <2>1, <2>2, <2>4, <2>5, <2>6 DEF WebhookTyped, WebhookTypeOK
<1>6. ASSUME NEW c \in 1 .. MaxCalls, CommitNotice(c) PROVE WebhookTyped'
  <2> DEFINE t == TokenOf[accepted[c][1]]
  <2>1. c \in DOMAIN calls /\ calls[c] \in Nat
    BY <1>6 DEF CommitNotice, WebhookTyped
  <2>2. t \in Tokens
    <3>1. c \in DOMAIN accepted /\ accepted[c] \in Notices \X (0 .. MaxBoots)
      BY <1>b, <2>1
    <3> QED BY <1>a, <3>1
  <2>3. /\ \/ triggers' = [triggers EXCEPT ![t] = calls[c] + 1] /\ alarmed' = alarmed \cup {c}
           \/ triggers' = triggers /\ alarmed' = alarmed
        /\ calls' = Restrict(calls, DOMAIN calls \ {c})
        /\ UNCHANGED <<minute, tripped, posted, nonces, accepted, token, boots>>
    BY <1>6 DEF CommitNotice
  <2> HIDE DEF t
  <2> DEFINE m == calls[c] + 1
  <2>a. m \in Nat
    BY <2>1
  <2>4. triggers' \in [Tokens -> Nat]
    <3> HIDE DEF m
    <3>1. triggers \in [Tokens -> Nat]
      BY DEF WebhookTyped, WebhookTypeOK
    <3>2. [triggers EXCEPT ![t] = m] \in [Tokens -> Nat]
      BY <2>a, <2>2, <3>1
    <3>3. triggers' = [triggers EXCEPT ![t] = m] \/ triggers' = triggers
      BY <2>3 DEF m
    <3> QED BY <3>1, <3>2, <3>3
  <2>5. alarmed' \subseteq DOMAIN accepted
    BY <1>b, <2>1, <2>3 DEF WebhookTyped, WebhookTypeOK
  <2>6. DOMAIN calls' \subseteq DOMAIN calls /\ \A d \in DOMAIN calls' : calls'[d] = calls[d]
    BY <2>3 DEF Restrict
  <2> QED BY <2>3, <2>4, <2>5, <2>6 DEF WebhookTyped, WebhookTypeOK
<1>7. ASSUME NEW c \in 1 .. MaxCalls, NoticeFails(c) PROVE WebhookTyped'
  <2>1. DOMAIN calls' \subseteq DOMAIN calls /\ \A d \in DOMAIN calls' : calls'[d] = calls[d]
    BY <1>7 DEF NoticeFails, Restrict
  <2> QED BY <1>7, <2>1 DEF NoticeFails, WebhookTyped, WebhookTypeOK
<1>8. ASSUME NEW t \in Tokens, CreateCanaryToken(t) \/ DeleteCanaryToken(t) PROVE WebhookTyped'
  BY <1>8 DEF CreateCanaryToken, DeleteCanaryToken, WebhookTyped, WebhookTypeOK, Stored
<1>9. CASE UNCHANGED webhookVars
  BY <1>9 DEF webhookVars, WebhookTyped, WebhookTypeOK
<1> QED BY <1>1, <1>2, <1>3, <1>4, <1>5, <1>6, <1>7, <1>8, <1>9 DEF WebhookNext

\* Notices, nonces, calls, tokens and their counts keep their types, and the
\* cache its limit.
THEOREM WebhookTypes == WebhookSpec => []WebhookTypeOK
<1>1. WebhookInit => WebhookTyped
  <2> SUFFICES ASSUME WebhookInit PROVE WebhookTyped
    OBVIOUS
  <2>1. <<>> \in Seq(Notices) /\ <<>> \in Seq(Notices \X (0 .. MaxBoots)) /\ Len(<<>>) = 0 /\ DOMAIN <<>> = {}
    OBVIOUS
  <2>2. 0 \in 0 .. MaxMinutes /\ 0 \in 0 .. MaxBoots /\ 0 <= MaxNonces
    BY WebhookConstantsOK DEF WebhookConstantsOK
  <2> QED BY <2>1, <2>2 DEF WebhookInit, WebhookTyped, WebhookTypeOK, Stored, Range
<1>2. WebhookTyped => WebhookTypeOK
  BY DEF WebhookTyped
<1> QED BY <1>1, <1>2, WebhookTypeStep, PTL DEF WebhookSpec

-----------------------------------------------------------------------------
(* What the collector has beyond its file.                                  *)

\* The file holds no more than the list may, and while the collector runs the
\* file is how its list began; what the list has beyond it was counted since the
\* last multiple of SaveEvery.
FileOK ==
    /\ file # Unreadable => file \in Seq(1 .. MaxLogged) /\ Len(file) <= KeepEvents
    /\ collector = "up" /\ file # Unreadable =>
         /\ Len(file) <= Len(kept)
         /\ \A i \in 1 .. Len(file) : file[i] = kept[i]
         /\ Len(kept) - Len(file) <= Len(kept) % SaveEvery
SplunkInv == SplunkTypeOK /\ FileOK

\* The remainder grows by one until it is zero again.
LEMMA NextRemainder ==
    ASSUME NEW s \in Nat, s > 0, NEW n \in Nat
    PROVE  /\ n % s \in Nat /\ n % s < s
           /\ (n + 1) % s # 0 => (n + 1) % s = (n % s) + 1
OBVIOUS

\* A beginning of a sequence, place by place.
LEMMA PrefixByPlaces ==
    ASSUME NEW S, NEW p \in Seq(S), NEW q \in Seq(S), Len(p) <= Len(q),
           \A i \in 1 .. Len(p) : p[i] = q[i]
    PROVE  IsPrefix(p, q)
BY DEF IsPrefix

\* What is first in a sequence and what comes after.
LEMMA FirstAndRest ==
    ASSUME NEW S, NEW q \in Seq(S), q # <<>>
    PROVE  Head(q) \in S /\ Tail(q) \in Seq(S)
OBVIOUS

\* A sequence without its first element.
LEMMA WithoutFirst ==
    ASSUME NEW S, NEW q \in Seq(S), NEW n \in Nat, Len(q) = n + 1
    PROVE  SubSeq(q, 2, n + 1) \in Seq(S) /\ Len(SubSeq(q, 2, n + 1)) = n
OBVIOUS

\* An event is added, and the oldest goes when there are too many.
LEMMA ReceivedFacts ==
    ASSUME SplunkTypeOK, NEW n \in 1 .. MaxLogged, NEW events, events = Shortened(Append(kept, n))
    PROVE  /\ events \in Seq(1 .. MaxLogged) /\ Len(events) <= KeepEvents
           /\ Len(kept) = KeepEvents => Len(events) = KeepEvents
           /\ Len(kept) < KeepEvents =>
                Len(events) = Len(kept) + 1 /\ \A i \in 1 .. Len(kept) : events[i] = kept[i]
<1> DEFINE longer == Append(kept, n)
<1>1. longer \in Seq(1 .. MaxLogged) /\ Len(longer) = Len(kept) + 1
        /\ \A i \in 1 .. Len(kept) : longer[i] = kept[i]
  BY DEF SplunkTypeOK
<1>2. KeepEvents \in Nat /\ KeepEvents > 0 /\ Len(kept) \in Nat /\ Len(kept) <= KeepEvents
  BY SplunkConstantsOK DEF SplunkConstantsOK, SplunkTypeOK
<1>3. events = Shortened(longer)
  OBVIOUS
<1> HIDE DEF longer
<1>4. CASE Len(kept) < KeepEvents
  <2>1. events = longer
    BY <1>1, <1>2, <1>3, <1>4 DEF Shortened
  <2> QED BY <1>1, <1>2, <1>4, <2>1
<1>5. CASE Len(kept) = KeepEvents
  <2>1. /\ Len(longer) = KeepEvents + 1 /\ Len(longer) > KeepEvents
        /\ Len(longer) - KeepEvents + 1 = 2
    BY <1>1, <1>2, <1>5
  <2>2. events = SubSeq(longer, 2, KeepEvents + 1)
    BY <1>3, <2>1 DEF Shortened
  <2>3. events \in Seq(1 .. MaxLogged) /\ Len(events) = KeepEvents
    BY <1>1, <1>2, <2>1, <2>2, WithoutFirst
  <2> QED BY <1>2, <1>5, <2>3
<1> QED BY <1>2, <1>4, <1>5

\* The collector takes an event.
LEMMA ReceiveKeeps ==
    ASSUME SplunkInv, collector = "up", NEW n \in 1 .. MaxLogged, ReceiveEvent(n), collector' = collector
    PROVE  /\ kept' \in Seq(1 .. MaxLogged) /\ Len(kept') <= KeepEvents
           /\ file' = Unreadable \/ file' \in Seq(1 .. MaxLogged)
           /\ FileOK'
<1> DEFINE events == Shortened(Append(kept, n))
<1>1. SplunkTypeOK /\ FileOK /\ kept' = events
        /\ file' = IF SavesAfter(events) THEN events ELSE file
  BY DEF SplunkInv, ReceiveEvent
<1>2. /\ events \in Seq(1 .. MaxLogged) /\ Len(events) <= KeepEvents
      /\ Len(kept) = KeepEvents => Len(events) = KeepEvents
      /\ Len(kept) < KeepEvents =>
           Len(events) = Len(kept) + 1 /\ \A i \in 1 .. Len(kept) : events[i] = kept[i]
  BY <1>1, ReceivedFacts
<1>3. /\ KeepEvents \in Nat /\ SaveEvery \in Nat /\ SaveEvery > 0 /\ KeepEvents % SaveEvery = 0
      /\ kept \in Seq(1 .. MaxLogged) /\ Len(kept) \in Nat /\ Len(kept) <= KeepEvents
  BY <1>1, SplunkConstantsOK DEF SplunkConstantsOK, SplunkTypeOK
<1> HIDE DEF events
<1>4. CASE SavesAfter(events)
  <2>1. Len(events) % SaveEvery = 0 /\ Len(events) \in Nat /\ file' = events
    BY <1>1, <1>2, <1>4 DEF SavesAfter
  <2> QED BY <1>1, <1>2, <2>1 DEF FileOK
<1>5. CASE ~SavesAfter(events)
  <2>1. Len(kept) < KeepEvents /\ Len(events) % SaveEvery # 0
    BY <1>2, <1>3, <1>5 DEF SavesAfter
  <2>2. Len(events) % SaveEvery = (Len(kept) % SaveEvery) + 1 /\ Len(kept) % SaveEvery \in Nat
    BY <1>2, <1>3, <2>1, NextRemainder
  <2>3. file' = file
    BY <1>1, <1>5
  <2>4. CASE file = Unreadable
    BY <1>1, <1>2, <2>3, <2>4 DEF FileOK
  <2>5. CASE file # Unreadable
    <3>1. /\ file \in Seq(1 .. MaxLogged) /\ Len(file) <= KeepEvents /\ Len(file) <= Len(kept)
          /\ \A i \in 1 .. Len(file) : file[i] = kept[i]
          /\ Len(kept) - Len(file) <= Len(kept) % SaveEvery /\ Len(file) \in Nat
      BY <1>1, <2>5 DEF FileOK
    <3>2. /\ Len(events) - Len(file) <= Len(events) % SaveEvery
          /\ Len(file) <= Len(events)
          /\ \A i \in 1 .. Len(file) : file[i] = events[i]
      BY <1>2, <1>3, <2>1, <2>2, <3>1
    <3> QED BY <1>1, <1>2, <2>3, <3>1, <3>2 DEF FileOK
  <2> QED BY <2>4, <2>5
<1> QED BY <1>4, <1>5

\* One POST, whether the collector is there or not.
LEMMA SendKeeps ==
    ASSUME SplunkInv, NEW n \in 1 .. MaxLogged, SendEvent(n)
    PROVE  /\ totalSent' \in 0 .. MaxForwards /\ collector' \in {"up", "down"}
           /\ kept' \in Seq(1 .. MaxLogged) /\ Len(kept') <= KeepEvents
           /\ file' = Unreadable \/ file' \in Seq(1 .. MaxLogged)
           /\ FileOK'
<1>1. SplunkTypeOK /\ FileOK /\ collector' = collector
  BY DEF SplunkInv, SendEvent
<1>2. totalSent' \in 0 .. MaxForwards
  BY <1>1, SplunkConstantsOK DEF SendEvent, SplunkConstantsOK, SplunkTypeOK
<1>3. CASE collector = "up"
  BY <1>1, <1>2, <1>3, ReceiveKeeps DEF SendEvent, SplunkTypeOK
<1>4. CASE collector # "up"
  BY <1>1, <1>2, <1>4 DEF SendEvent, SplunkTypeOK, FileOK
<1> QED BY <1>3, <1>4

\* Every step keeps the invariant.
LEMMA SplunkInvStep ==
    ASSUME SplunkInv, [SplunkNext]_splunkVars
    PROVE  SplunkInv'
<1> USE DEF SplunkInv
<1>1. CASE ForwardEvent
  <2>1. logged + 1 \in 1 .. MaxLogged /\ logged' = logged + 1 /\ pending' = pending /\ SendEvent(logged + 1)
    BY <1>1, SplunkConstantsOK DEF ForwardEvent, SplunkTypeOK, SplunkConstantsOK
  <2> HIDE DEF SplunkInv
  <2>2. /\ totalSent' \in 0 .. MaxForwards /\ collector' \in {"up", "down"}
        /\ kept' \in Seq(1 .. MaxLogged) /\ Len(kept') <= KeepEvents
        /\ file' = Unreadable \/ file' \in Seq(1 .. MaxLogged)
        /\ FileOK'
    BY <2>1, SendKeeps
  <2> QED BY <2>1, <2>2 DEF SplunkInv, SplunkTypeOK
<1>2. CASE StartSync
  <2> DEFINE batch == IF logged > MaxBatch THEN MaxBatch ELSE logged
  <2>1. batch \in Nat /\ batch <= MaxLogged
    BY SplunkConstantsOK DEF SplunkTypeOK, SplunkConstantsOK
  <2>2. pending' = [i \in 1 .. batch |-> i]
        /\ UNCHANGED <<logged, totalSent, collector, kept, file>>
    BY <1>2 DEF StartSync
  <2> HIDE DEF batch
  <2>3. pending' \in Seq(1 .. MaxLogged)
    BY <2>1, <2>2, SplunkConstantsOK DEF SplunkConstantsOK
  <2> QED BY <2>2, <2>3 DEF SplunkTypeOK, FileOK
<1>3. CASE SyncNext
  <2>1. /\ Head(pending) \in 1 .. MaxLogged /\ pending' \in Seq(1 .. MaxLogged)
        /\ logged' = logged /\ SendEvent(Head(pending))
    <3>1. pending \in Seq(1 .. MaxLogged) /\ pending # <<>>
      BY <1>3 DEF SyncNext, SplunkTypeOK
    <3>2. Head(pending) \in 1 .. MaxLogged /\ Tail(pending) \in Seq(1 .. MaxLogged)
      BY <3>1, FirstAndRest
    <3> QED BY <1>3, <3>2 DEF SyncNext
  <2> HIDE DEF SplunkInv
  <2>2. /\ totalSent' \in 0 .. MaxForwards /\ collector' \in {"up", "down"}
        /\ kept' \in Seq(1 .. MaxLogged) /\ Len(kept') <= KeepEvents
        /\ file' = Unreadable \/ file' \in Seq(1 .. MaxLogged)
        /\ FileOK'
    BY <2>1, SendKeeps
  <2> QED BY <2>1, <2>2 DEF SplunkInv, SplunkTypeOK
<1>4. CASE CollectorKilled
  BY <1>4, SplunkConstantsOK DEF CollectorKilled, SplunkTypeOK, FileOK, SplunkConstantsOK
<1>5. CASE CollectorKilledSaving
  BY <1>5, SplunkConstantsOK DEF CollectorKilledSaving, SplunkTypeOK, FileOK, SplunkConstantsOK
<1>6. CASE CollectorInterrupted
  BY <1>6, SplunkConstantsOK DEF CollectorInterrupted, SplunkTypeOK, FileOK, SplunkConstantsOK
<1>7. CASE CollectorStarts
  <2>1. /\ UNCHANGED <<logged, pending, totalSent, file>> /\ collector' = "up"
        /\ kept' = IF file = Unreadable THEN <<>> ELSE file
    BY <1>7 DEF CollectorStarts
  <2>2. KeepEvents \in Nat /\ SaveEvery \in Nat /\ SaveEvery > 0
    BY SplunkConstantsOK DEF SplunkConstantsOK
  <2>3. CASE file = Unreadable
    BY <2>1, <2>2, <2>3 DEF SplunkTypeOK, FileOK
  <2>4. CASE file # Unreadable
    <3>1. Len(file) \in Nat /\ Len(file) % SaveEvery >= 0 /\ kept' = file
      BY <2>1, <2>2, <2>4, NextRemainder DEF FileOK
    <3> QED BY <2>1, <2>4, <3>1 DEF SplunkTypeOK, FileOK
  <2> QED BY <2>3, <2>4
<1>8. CASE UNCHANGED splunkVars
  BY <1>8 DEF splunkVars, SplunkTypeOK, FileOK
<1> QED BY <1>1, <1>2, <1>3, <1>4, <1>5, <1>6, <1>7, <1>8 DEF SplunkNext

\* The file is the beginning of the list, and what it misses was counted since
\* the list was last saved.
LEMMA SplunkInvariant == SplunkSpec => []SplunkInv
<1>1. SplunkInit => SplunkInv
  <2>1. ASSUME SplunkInit PROVE SplunkInv
    <3>1. SaveEvery \in Nat /\ SaveEvery > 0 /\ KeepEvents \in Nat
            /\ MaxLogged \in Nat /\ MaxForwards \in Nat
      BY SplunkConstantsOK DEF SplunkConstantsOK
    <3>2. 0 % SaveEvery >= 0
      BY <3>1, NextRemainder
    <3> QED BY <2>1, <3>1, <3>2 DEF SplunkInit, SplunkInv, SplunkTypeOK, FileOK
  <2> QED BY <2>1
<1>2. SplunkInv /\ [SplunkNext]_splunkVars => SplunkInv'
  BY SplunkInvStep
<1> QED BY <1>1, <1>2, PTL DEF SplunkSpec

\* A kill of the collector that does not come while the file is being written
\* loses less than SaveEvery events, whatever starts, kills and interrupts came
\* before, and also once the list is full (_handle_hec_post, _load_events).
THEOREM LittleIsUnsaved == SplunkSpec => []FewEventsUnsaved
<1>1. SplunkInv => FewEventsUnsaved
  <2> SUFFICES ASSUME SplunkInv, collector = "up", file # Unreadable
               PROVE  IsPrefix(file, kept) /\ Len(kept) - Len(file) < SaveEvery
    BY DEF FewEventsUnsaved
  <2>1. /\ file \in Seq(1 .. MaxLogged) /\ kept \in Seq(1 .. MaxLogged) /\ Len(file) <= Len(kept)
        /\ \A i \in 1 .. Len(file) : file[i] = kept[i]
        /\ Len(kept) - Len(file) <= Len(kept) % SaveEvery
    BY DEF SplunkInv, FileOK, SplunkTypeOK
  <2>2. Len(kept) % SaveEvery < SaveEvery /\ Len(kept) % SaveEvery \in Nat
          /\ Len(kept) \in Nat /\ Len(file) \in Nat /\ SaveEvery \in Nat
    BY <2>1, NextRemainder, SplunkConstantsOK DEF SplunkConstantsOK
  <2> QED BY <2>1, <2>2, PrefixByPlaces
<1> QED BY <1>1, SplunkInvariant, PTL

\* The collector's list and file keep their types and limits.
THEOREM SplunkTypes == SplunkSpec => []SplunkTypeOK
<1>1. SplunkInv => SplunkTypeOK
  BY DEF SplunkInv
<1> QED BY <1>1, SplunkInvariant, PTL
=============================================================================
