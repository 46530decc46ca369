-------------------------- MODULE LogWatcherProofs --------------------------
(***************************************************************************)
(* Proofs about the log watcher, for any log, any number of events per     *)
(* line and any failures: it ingests no event twice that it has not        *)
(* forgotten, its state stays within its bounds, and while the log is      *)
(* neither torn nor replaced a failure costs the events of one line only.  *)
(***************************************************************************)
EXTENDS LogWatcher, FiniteSetTheorems, TLAPS

-----------------------------------------------------------------------------
(* The part of the type that the proof needs. *)

Typed ==
    /\ written \in 0 .. MaxEvents
    /\ file \in Seq(HalfLines) /\ old \in Seq(HalfLines)
    /\ opened \in {"nothing", "path", "replaced"}
    /\ offset \in Nat \cup {NoOffset}
    /\ opened # "nothing" => offset \in Nat
    /\ todo \in Seq(Events)
    /\ ingested \in Seq(Events)

\* A line is written as two halves that hold its events.
LEMMA HalvesFacts ==
    ASSUME NEW line \in Seq(Events)
    PROVE  Halves(line) \in Seq(HalfLines)
BY DEF Halves, HalfLines

\* A watcher that has not begun is of its type.
LEMMA TypedInit == Init => Typed
BY WatcherConstantsOK DEF WatcherConstantsOK, Init, Typed

\* Every step keeps it, one case per action.
LEMMA TypedStep == Typed /\ [Next]_vars => Typed'
<1> SUFFICES ASSUME Typed, [Next]_vars PROVE Typed'
  OBVIOUS
<1> USE WatcherConstantsOK DEF WatcherConstantsOK, Typed, logVars, handleVars
<1>1. ASSUME NEW n \in 1 .. MaxPerLine, WriteLine(n) PROVE Typed'
  <2> DEFINE line == [i \in 1 .. n |-> written + i]
  <2>1. written + n \in 0 .. MaxEvents /\ line \in Seq(Events)
    BY <1>1 DEF WriteLine, Events
  <2> HIDE DEF line
  <2>2. Halves(line) \in Seq(HalfLines) /\ Halves(line)[1] \in HalfLines
    BY <2>1, HalvesFacts DEF Halves, HalfLines
  <2>3. \/ file' = file \o Halves(line)
        \/ file' = Append(file, Halves(line)[1])
    BY <1>1 DEF WriteLine, line
  <2>4. file' \in Seq(HalfLines)
    <3>1. ASSUME NEW h \in Seq(HalfLines) PROVE file \o h \in Seq(HalfLines)
      OBVIOUS
    <3>2. ASSUME NEW h \in HalfLines PROVE Append(file, h) \in Seq(HalfLines)
      OBVIOUS
    <3> QED BY <2>2, <2>3, <3>1, <3>2, Zenon
  <2> QED BY <1>1, <2>1, <2>4 DEF WriteLine
<1>2. CASE FinishLine
  <2>1. Last(file) \in HalfLines
    BY <1>2 DEF FinishLine, Unfinished, Last
  <2>2. Halves(Last(file).events)[2] \in HalfLines
    BY <2>1 DEF Halves, HalfLines
  <2>3. file' \in Seq(HalfLines)
    BY <1>2, <2>2 DEF FinishLine
  <2> QED BY <1>2, <2>3 DEF FinishLine
<1>3. CASE ReplaceLog
  <2>1. file' \in Seq(HalfLines)
    BY <1>3 DEF ReplaceLog
  <2> QED BY <1>3, <2>1 DEF ReplaceLog, Fault
<1>4. CASE Poll
  BY <1>4 DEF Poll
<1>5. CASE ReadLine
  <2>1. Content \in Seq(HalfLines) /\ offset \in Nat
    BY <1>5 DEF ReadLine, Content
  <2> DEFINE next == Content[offset + 1]
  <2>2. next \in HalfLines
    BY <1>5, <2>1 DEF ReadLine
  <2>3. next.events \in Seq(Events) /\ Front(next.events) \in Seq(Events)
    BY <2>2 DEF HalfLines, Front
  <2>4. /\ offset' \in Nat
        /\ todo' \in {next.events, Front(next.events), todo}
    BY <1>5, <2>1 DEF ReadLine
  <2>5. todo' \in Seq(Events)
    BY <2>3, <2>4
  <2> QED BY <1>5, <2>4, <2>5 DEF ReadLine
<1>6. CASE EndOfFile
  BY <1>6 DEF EndOfFile, CloseFile
<1>7. CASE SkipSeen
  <2>1. todo' \in Seq(Events)
    BY <1>7 DEF SkipSeen
  <2> QED BY <1>7, <2>1 DEF SkipSeen
<1>8. CASE Ingest
  <2>1. todo' \in Seq(Events) /\ ingested' \in Seq(Events)
    BY <1>8 DEF Ingest
  <2> QED BY <1>8, <2>1 DEF Ingest
<1>9. CASE IngestFails
  BY <1>9 DEF IngestFails, CloseFile
<1>10. CASE Restart
  BY <1>10 DEF Restart, CloseFile
<1>11. CASE ReadFails
  BY <1>11 DEF ReadFails, CloseFile
<1>12. CASE UNCHANGED vars
  BY <1>12 DEF vars
<1> QED
  BY <1>1, <1>2, <1>3, <1>4, <1>5, <1>6, <1>7, <1>8, <1>9, <1>10, <1>11, <1>12
     DEF Next, Honeypot, Process

-----------------------------------------------------------------------------
(* No event twice. *)

\* What has been ingested is remembered, or was forgotten.
Remembered == \A i \in DOMAIN ingested : Key[ingested[i]] \in seen \cup forgotten

IInv == Typed /\ Remembered /\ IngestedOnce

\* What was seen or forgotten stays so.
LEMMA NeverUnseen == [Next]_vars => seen \cup forgotten \subseteq (seen \cup forgotten)'
<1> SUFFICES ASSUME [Next]_vars PROVE seen \cup forgotten \subseteq (seen \cup forgotten)'
  OBVIOUS
<1>1. ASSUME NEW e, MarkSeen(e) PROVE seen \cup forgotten \subseteq (seen \cup forgotten)'
  BY <1>1 DEF MarkSeen
<1>2. CASE Ingest
  BY <1>1, <1>2 DEF Ingest
<1>3. CASE IngestFails
  BY <1>1, <1>3 DEF IngestFails
<1>4. CASE Restart
  BY <1>4 DEF Restart
<1>5. CASE UNCHANGED <<seen, forgotten>>
  BY <1>5
<1>6. \/ Ingest \/ IngestFails \/ Restart
      \/ UNCHANGED <<seen, forgotten>>
  BY DEF Next, Honeypot, Process, WriteLine, FinishLine, ReplaceLog, Poll, ReadLine,
         ReadFails, EndOfFile, SkipSeen, vars
<1> QED BY <1>2, <1>3, <1>4, <1>5, <1>6

\* Forgetting is not taken back.
LEMMA ForgottenStays == [Next]_vars => forgotten \subseteq forgotten'
<1> SUFFICES ASSUME [Next]_vars PROVE forgotten \subseteq forgotten'
  OBVIOUS
<1>1. ASSUME NEW e, MarkSeen(e) PROVE forgotten \subseteq forgotten'
  BY <1>1 DEF MarkSeen
<1>2. \/ \E e : MarkSeen(e)
      \/ Restart
      \/ UNCHANGED forgotten
  BY DEF Next, Honeypot, Process, WriteLine, FinishLine, ReplaceLog, Poll, ReadLine,
         ReadFails, EndOfFile, SkipSeen, Ingest, IngestFails, vars
<1> QED BY <1>1, <1>2 DEF Restart

\* Ingesting an event that was not seen keeps the promise; nothing else ingests.
LEMMA OnceStep == IInv /\ [Next]_vars => IInv'
<1> SUFFICES ASSUME IInv, [Next]_vars PROVE Remembered' /\ IngestedOnce'
  BY TypedStep DEF IInv
<1> USE DEF IInv
<1>1. CASE Ingest
  <2> DEFINE e == Head(todo)
             n == Len(ingested)
  <2>1. /\ ingested \in Seq(Events) /\ n \in Nat
        /\ ingested' = Append(ingested, e)
        /\ Key[e] \notin seen /\ MarkSeen(e)
    BY <1>1 DEF Ingest, Typed
  <2> HIDE DEF e
  <2>2. /\ DOMAIN ingested = 1 .. n
        /\ DOMAIN ingested' = 1 .. n + 1
        /\ \A i \in 1 .. n : ingested'[i] = ingested[i]
        /\ ingested'[n + 1] = e
    BY <2>1
  <2>3. Key[e] \in (seen \cup forgotten)'
    BY <2>1 DEF MarkSeen
  <2>4. Remembered'
    BY <2>2, <2>3, NeverUnseen DEF Remembered
  <2>5. IngestedOnce'
    <3> SUFFICES ASSUME NEW i \in 1 .. n + 1, NEW j \in 1 .. n + 1, i < j,
                        ingested'[i] = ingested'[j]
                 PROVE  Key[ingested'[i]] \in forgotten'
      BY <2>2 DEF IngestedOnce
    <3>1. CASE j = n + 1
      <4>1. i \in 1 .. n /\ ingested[i] = e
        BY <2>1, <2>2, <3>1
      <4>2. Key[e] \in forgotten
        BY <2>1, <2>2, <4>1 DEF Remembered
      <4> QED BY <2>2, <4>1, <4>2, ForgottenStays
    <3>2. CASE j # n + 1
      <4>1. i \in 1 .. n /\ j \in 1 .. n
        BY <2>1, <3>2
      <4>2. Key[ingested[i]] \in forgotten
        BY <2>2, <4>1 DEF IngestedOnce
      <4> QED BY <2>2, <4>1, <4>2, ForgottenStays
    <3> QED BY <3>1, <3>2
  <2> QED BY <2>4, <2>5
<1>2. CASE UNCHANGED ingested
  <2>1. Remembered'
    BY <1>2, NeverUnseen DEF Remembered
  <2>2. IngestedOnce'
    BY <1>2, ForgottenStays DEF IngestedOnce
  <2> QED BY <2>1, <2>2
<1>3. Ingest \/ UNCHANGED ingested
  BY DEF Next, Honeypot, Process, WriteLine, FinishLine, ReplaceLog, Poll, ReadLine,
         ReadFails, EndOfFile, SkipSeen, IngestFails, Restart, vars
<1> QED BY <1>1, <1>2, <1>3

\* No rotation, trim, restart or failure makes the watcher ingest an event twice
\* that its seen-set still holds.
THEOREM NothingTwice == Spec => []IngestedOnce
<1>1. Init => IInv
  BY TypedInit DEF IInv, Init, Remembered, IngestedOnce
<1>2. IInv => IngestedOnce
  BY DEF IInv
<1> QED BY <1>1, <1>2, OnceStep, PTL DEF Spec
-----------------------------------------------------------------------------
(* Types and bounds. *)

\* A line has an event at least, so the log has at most two halves per event,
\* and one less while its last line is not finished.
Sized ==
    /\ seen \subseteq Events /\ Cardinality(seen) <= MaxSeen
    /\ faults \in 0 .. MaxFaults
    /\ start \in Offsets
    /\ calm \in BOOLEAN
    /\ failed \subseteq Events /\ forgotten \subseteq Events
    /\ Len(file) <= 2 * written /\ (Unfinished => Len(file) < 2 * written)
    /\ Len(old) <= 2 * MaxEvents
    /\ offset # NoOffset => offset <= 2 * MaxEvents

\* The seen-set never grows beyond its limit.
LEMMA MarkedFacts ==
    ASSUME Sized, NEW e \in Events, MarkSeen(e)
    PROVE  seen' \subseteq Events /\ Cardinality(seen') <= MaxSeen /\ forgotten' \subseteq Events
<1> DEFINE marked == seen \cup {Key[e]}
<1>1. marked \subseteq Events /\ MaxSeen \in Nat
  BY WatcherConstantsOK DEF Sized, WatcherConstantsOK, Events
<1>2. Cardinality(marked) \in Nat
  <2>1. IsFiniteSet(Events)
    BY WatcherConstantsOK, FS_Interval DEF WatcherConstantsOK, Events
  <2> QED BY <1>1, <2>1, FS_Subset, FS_CardinalityType
<1>3. CASE Cardinality(marked) > MaxSeen
  <2>1. seen' = {} /\ forgotten' = forgotten \cup marked
    BY <1>3 DEF MarkSeen
  <2> QED BY <1>1, <2>1, FS_EmptySet DEF Sized
<1>4. CASE ~(Cardinality(marked) > MaxSeen)
  <2>1. seen' = marked /\ forgotten' = forgotten
    BY <1>4 DEF MarkSeen
  <2> HIDE DEF marked
  <2> QED BY <1>1, <1>2, <1>4, <2>1 DEF Sized
<1> QED BY <1>3, <1>4

\* What a new line adds to the log.
LEMMA WrittenFacts ==
    ASSUME Typed, NEW n \in 1 .. MaxPerLine, WriteLine(n)
    PROVE  \E line \in Seq(Events) :
             /\ Len(line) = n /\ \A i \in 1 .. n : line[i] = written + i
             /\ \/ file' = file \o Halves(line)
                \/ file' = Append(file, Halves(line)[1])
<1> DEFINE line == [i \in 1 .. n |-> written + i]
<1>1. /\ line \in Seq(Events) /\ Len(line) = n
      /\ \A i \in 1 .. n : line[i] = written + i
  BY WatcherConstantsOK DEF WatcherConstantsOK, WriteLine, Typed, Events
<1>2. \/ file' = file \o Halves(line)
      \/ file' = Append(file, Halves(line)[1])
  BY DEF WriteLine
<1> HIDE DEF line
<1> QED BY <1>1, <1>2

\* Two sequences in a row.
LEMMA ConcatFacts ==
    ASSUME NEW S, NEW p \in Seq(S), NEW q \in Seq(S)
    PROVE  /\ p \o q \in Seq(S) /\ Len(p \o q) = Len(p) + Len(q)
           /\ \A i \in 1 .. Len(p) : (p \o q)[i] = p[i]
           /\ \A i \in 1 .. Len(q) : (p \o q)[Len(p) + i] = q[i]
OBVIOUS

\* The rest of a sequence ends as the sequence does.
LEMMA RestFacts ==
    ASSUME NEW S, NEW q \in Seq(S), NEW m \in Nat, m <= Len(q)
    PROVE  LET rest == SubSeq(q, m + 1, Len(q))
           IN  /\ rest \in Seq(S) /\ Len(rest) = Len(q) - m
               /\ m < Len(q) => rest[Len(q) - m] = q[Len(q)]
OBVIOUS

\* The log keeps its halves; a line adds a head, with or without its tail.
LEMMA LogGrows ==
    ASSUME Typed, NEW line \in Seq(Events),
           \/ file' = file \o Halves(line)
           \/ file' = Append(file, Halves(line)[1])
    PROVE  /\ Len(file) \in Nat /\ Len(file') \in {Len(file) + 1, Len(file) + 2}
           /\ \A i \in 1 .. Len(file) : file'[i] = file[i]
           /\ file'[Len(file) + 1] = [events |-> line, half |-> "head"]
           /\ Len(file') = Len(file) + 2 => file'[Len(file) + 2].half = "tail"
<1> DEFINE halves == Halves(line)
<1>1. /\ halves \in Seq(HalfLines) /\ Len(halves) = 2
      /\ halves[1] = [events |-> line, half |-> "head"] /\ halves[2].half = "tail"
  BY HalvesFacts DEF Halves
<1>2. halves[1] \in HalfLines
  BY <1>1 DEF HalfLines
<1> HIDE DEF halves
<1>3. CASE file' = file \o Halves(line)
  <2>1. file' = file \o halves /\ file \in Seq(HalfLines)
    BY <1>3 DEF Typed, halves
  <2>2. /\ Len(file') = Len(file) + Len(halves) /\ Len(file) \in Nat
        /\ \A i \in 1 .. Len(file) : file'[i] = file[i]
        /\ \A i \in 1 .. Len(halves) : file'[Len(file) + i] = halves[i]
    <3>1. /\ Len(file \o halves) = Len(file) + Len(halves) /\ Len(file) \in Nat
          /\ \A i \in 1 .. Len(file) : (file \o halves)[i] = file[i]
          /\ \A i \in 1 .. Len(halves) : (file \o halves)[Len(file) + i] = halves[i]
      <4>1. file \in Seq(HalfLines) /\ halves \in Seq(HalfLines)
        BY <1>1, <2>1
      <4> QED BY ONLY <4>1, ConcatFacts
    <3> QED BY <2>1, <3>1
  <2>3. file'[Len(file) + 1] = halves[1] /\ file'[Len(file) + 2] = halves[2]
    BY <1>1, <2>2
  <2> QED BY <1>1, <2>2, <2>3
<1>4. CASE file' = Append(file, Halves(line)[1])
  <2>1. file' = Append(file, halves[1]) /\ file \in Seq(HalfLines)
    BY <1>4 DEF Typed, halves
  <2>2. Len(file') = Len(file) + 1 /\ Len(file) \in Nat
    BY <1>2, <2>1
  <2>3. /\ \A i \in 1 .. Len(file) : file'[i] = file[i]
        /\ file'[Len(file) + 1] = halves[1]
    BY <1>2, <2>1
  <2> QED BY <1>1, <2>2, <2>3
<1> QED BY <1>3, <1>4

\* What is first in a sequence and what comes after.
LEMMA FirstAndRest ==
    ASSUME NEW S, NEW q \in Seq(S), q # <<>>
    PROVE  Head(q) \in S /\ Tail(q) \in Seq(S)
OBVIOUS

\* A line is finished by its tail.
LEMMA LineFinished ==
    ASSUME Typed, FinishLine
    PROVE  /\ Len(file) \in Nat /\ Len(file) > 0 /\ Len(file') = Len(file) + 1
           /\ file[Len(file)].half = "head"
           /\ \A i \in 1 .. Len(file) : file'[i] = file[i]
           /\ file'[Len(file) + 1].half = "tail"
<1>1. file \in Seq(HalfLines) /\ file # <<>> /\ file[Len(file)].half = "head"
  BY DEF FinishLine, Unfinished, Last, Typed
<1>2. Len(file) \in Nat /\ Len(file) > 0 /\ Last(file) \in HalfLines
  BY <1>1 DEF Last
<1> DEFINE tail == Halves(Last(file).events)[2]
<1>3. tail \in HalfLines /\ tail.half = "tail"
  BY <1>2 DEF Halves, HalfLines
<1>4. file' = Append(file, tail)
  BY DEF FinishLine
<1> HIDE DEF tail
<1> QED BY <1>1, <1>2, <1>3, <1>4

\* Every step keeps the bounds.
LEMMA SizedStep ==
    ASSUME Typed, Sized, [Next]_vars, Typed'
    PROVE  Sized'
<1> DEFINE len == Len(file)
<1>0. /\ {MaxEvents, MaxFaults, MaxSeen} \subseteq Nat /\ MaxPerLine \in Nat \ {0} /\ NoOffset \notin Nat
      /\ file \in Seq(HalfLines) /\ len \in Nat /\ len <= 2 * written
      /\ written \in Nat /\ written <= MaxEvents
      /\ Unfinished => len < 2 * written
  BY WatcherConstantsOK DEF WatcherConstantsOK, Typed, Sized
<1>1. ASSUME NEW n \in 1 .. MaxPerLine, WriteLine(n) PROVE Sized'
  <2>1. PICK line \in Seq(Events) : \/ file' = file \o Halves(line)
                                    \/ file' = Append(file, Halves(line)[1])
    BY <1>1, WrittenFacts
  <2>2. /\ Len(file') \in {len + 1, len + 2}
        /\ Len(file') = len + 2 => file'[len + 2].half = "tail"
    BY <2>1, LogGrows
  <2>3. written' = written + n /\ n \in Nat /\ n > 0
    BY <1>0, <1>1 DEF WriteLine
  <2>4. Len(file') <= 2 * written' /\ (Unfinished' => Len(file') < 2 * written')
    BY <1>0, <2>2, <2>3 DEF Unfinished, Last
  <2> QED BY <1>1, <2>4 DEF WriteLine, handleVars, Sized
<1>2. CASE FinishLine
  <2>1. Len(file') = len + 1 /\ file'[len + 1].half = "tail" /\ Unfinished
    BY <1>2, LineFinished DEF FinishLine
  <2>2. Len(file') <= 2 * written /\ ~Unfinished'
    BY <1>0, <2>1 DEF Unfinished, Last
  <2> QED BY <1>2, <2>2 DEF FinishLine, handleVars, Sized
<1>3. CASE ReplaceLog
  <2>1. PICK k \in 1 .. Len(file) \div 2 : file' = SubSeq(file, 2 * k + 1, Len(file))
    BY <1>3 DEF ReplaceLog
  <2>2. k \in Nat /\ k > 0 /\ 2 * k <= len
    BY <1>0, <2>1
  <2>3. /\ file' \in Seq(HalfLines) /\ Len(file') = len - 2 * k
        /\ 2 * k < len => file'[len - 2 * k] = file[len]
    <3> DEFINE m == 2 * k
    <3>1. m \in Nat /\ m <= Len(file) /\ file' = SubSeq(file, m + 1, Len(file))
      BY <2>1, <2>2
    <3> HIDE DEF m
    <3>2. LET rest == SubSeq(file, m + 1, Len(file))
          IN  /\ rest \in Seq(HalfLines) /\ Len(rest) = Len(file) - m
              /\ m < Len(file) => rest[Len(file) - m] = file[Len(file)]
      BY <1>0, <3>1, RestFacts
    <3>3. /\ file' \in Seq(HalfLines) /\ Len(file') = len - m
          /\ m < len => file'[len - m] = file[len]
      BY <3>1, <3>2
    <3> QED BY <3>3 DEF m
  <2>4. ~Unfinished'
    <3>1. file # <<>> /\ file[len].half # "head"
      BY <1>3 DEF ReplaceLog, Unfinished, Last
    <3>2. CASE 2 * k < len
      BY <2>3, <3>1, <3>2 DEF Unfinished, Last
    <3>3. CASE 2 * k = len
      BY <2>3, <3>3 DEF Unfinished
    <3> QED BY <1>0, <2>2, <3>2, <3>3
  <2>5. Len(file') <= 2 * written /\ Len(old') <= 2 * MaxEvents
    BY <1>0, <1>3, <2>2, <2>3 DEF ReplaceLog, Sized
  <2>6. faults' \in 0 .. MaxFaults
    BY <1>0, <1>3 DEF ReplaceLog, Fault, Sized
  <2> QED BY <1>3, <2>4, <2>5, <2>6 DEF ReplaceLog, Sized
<1>4. CASE Poll
  <2>1. len <= 2 * MaxEvents
    BY <1>0
  <2>2. offset' \in {len, 0, offset} /\ start' \in {len, start}
    BY <1>4 DEF Poll
  <2>3. start' \in Offsets
    BY <1>0, <2>1, <2>2 DEF Sized, Offsets
  <2>4. offset' # NoOffset => offset' <= 2 * MaxEvents
    BY <1>0, <2>1, <2>2 DEF Sized
  <2> QED BY <1>4, <2>3, <2>4 DEF Poll, logVars, Sized, Unfinished
<1>5. CASE ReadLine
  <2>1. Len(Content) <= 2 * MaxEvents /\ Len(Content) \in Nat /\ offset \in Nat
    BY <1>0, <1>5 DEF ReadLine, Content, Sized, Typed
  <2>2. offset' \in Nat /\ offset' <= Len(Content)
    BY <1>5, <2>1 DEF ReadLine
  <2>3. calm' \in BOOLEAN
    BY <1>5 DEF ReadLine, Sized
  <2>4. offset' <= 2 * MaxEvents
    BY <1>0, <2>1, <2>2
  <2> QED BY <1>5, <2>3, <2>4 DEF ReadLine, logVars, Sized, Unfinished
<1>6. CASE EndOfFile
  BY <1>0, <1>6 DEF EndOfFile, CloseFile, logVars, Sized, Unfinished
<1>7. CASE SkipSeen
  BY <1>7 DEF SkipSeen, logVars, handleVars, Sized, Unfinished
<1>8. ASSUME todo # <<>> PROVE Head(todo) \in Events
  BY <1>8, FirstAndRest DEF Typed
<1>9. CASE Ingest
  <2>1. seen' \subseteq Events /\ Cardinality(seen') <= MaxSeen /\ forgotten' \subseteq Events
    BY <1>8, <1>9, MarkedFacts DEF Ingest
  <2> QED BY <1>9, <2>1 DEF Ingest, logVars, handleVars, Sized, Unfinished
<1>10. CASE IngestFails
  <2>1. seen' \subseteq Events /\ Cardinality(seen') <= MaxSeen /\ forgotten' \subseteq Events
    BY <1>8, <1>10, MarkedFacts DEF IngestFails, Sized
  <2>2. failed' \subseteq Events
    BY <1>8, <1>10 DEF IngestFails, Sized
  <2>3. faults' \in 0 .. MaxFaults
    BY <1>0, <1>10 DEF IngestFails, MayFail, Fault, Sized
  <2> QED BY <1>0, <1>10, <2>1, <2>2, <2>3 DEF IngestFails, CloseFile, logVars, Sized, Unfinished
<1>11. CASE Restart
  <2>1. Cardinality(seen') <= MaxSeen
    BY <1>0, <1>11, FS_EmptySet DEF Restart
  <2>2. faults' \in 0 .. MaxFaults
    BY <1>0, <1>11 DEF Restart, Fault, Sized
  <2>3. forgotten' \subseteq Events /\ seen' \subseteq Events
    BY <1>11 DEF Restart, Sized
  <2>4. UNCHANGED <<file, written, start, failed>> /\ calm' = FALSE /\ old' = <<>> /\ offset' = NoOffset
    BY <1>11 DEF Restart, CloseFile, logVars
  <2>5. Len(old') <= 2 * MaxEvents
    BY <1>0, <2>4
  <2> QED BY <2>1, <2>2, <2>3, <2>4, <2>5 DEF Sized, Unfinished
<1>12. CASE ReadFails
  <2>1. faults' \in 0 .. MaxFaults
    BY <1>0, <1>12 DEF ReadFails, Fault, Sized
  <2> QED BY <1>0, <1>12, <2>1 DEF ReadFails, CloseFile, logVars, Sized, Unfinished
<1>13. CASE UNCHANGED vars
  BY <1>13 DEF vars, logVars, handleVars, Sized, Unfinished
<1> QED
  BY <1>1, <1>2, <1>3, <1>4, <1>5, <1>6, <1>7, <1>9, <1>10, <1>11, <1>12, <1>13
     DEF Next, Honeypot, Process

\* A watcher that has not begun is within its bounds.
LEMMA SizedInit == Init => Sized
<1> SUFFICES ASSUME Init PROVE Sized
  OBVIOUS
<1>1. Cardinality(seen) = 0
  BY FS_EmptySet DEF Init
<1> QED BY <1>1, WatcherConstantsOK DEF WatcherConstantsOK, Init, Sized, Offsets, Unfinished

\* Log, offset, line in hand and the sets of events keep their types, and the
\* seen-set its limit, whatever is written, replaced, torn or restarted.
THEOREM WatcherTypes == Spec => []TypeOK
<1>1. Init => Typed /\ Sized
  BY TypedInit, SizedInit
<1>2. Typed /\ Sized /\ [Next]_vars => (Typed /\ Sized)'
  BY TypedStep, SizedStep
<1>3. Typed /\ Sized => TypeOK
  <2> SUFFICES ASSUME Typed, Sized PROVE TypeOK
    OBVIOUS
  <2>1. offset \in Offsets \cup {NoOffset}
    BY DEF Typed, Sized, Offsets
  <2> QED BY <2>1 DEF Typed, Sized, TypeOK
<1> QED BY <1>1, <1>2, <1>3, PTL DEF Spec

-----------------------------------------------------------------------------
(* What a failure costs. *)

Increasing(s) == \A i, j \in DOMAIN s : i < j => s[i] < s[j]
AllBefore(s, t) == \A i \in DOMAIN s, j \in DOMAIN t : s[i] < t[j]
UpTo(s, n) == \A i \in DOMAIN s : s[i] <= n

\* The log: a head is followed by its tail, and events are numbered as written.
LinesOK ==
    \A i \in 1 .. Len(file) : file[i].half = "head" =>
      /\ i < Len(file) => file[i + 1].half = "tail"
      /\ Increasing(file[i].events) /\ UpTo(file[i].events, written)
      /\ \A j \in i + 1 .. Len(file) :
           file[j].half = "head" => AllBefore(file[i].events, file[j].events)

\* The watcher's place in it.
PlaceOK ==
    /\ opened # "replaced"
    /\ offset = NoOffset => ingested = <<>> /\ todo = <<>>
    /\ offset # NoOffset => start <= offset /\ offset <= Len(file)

\* What is ingested and what is in hand are in order, the latter on one line,
\* and all that lies ahead comes after them.
OrderOK ==
    /\ Increasing(ingested) /\ Increasing(todo) /\ AllBefore(ingested, todo)
    /\ UpTo(ingested, written) /\ UpTo(todo, written)
AheadOK ==
    offset # NoOffset =>
      \A i \in 1 .. Len(file) : offset < i /\ file[i].half = "head" =>
        AllBefore(ingested, file[i].events) /\ AllBefore(todo, file[i].events)
InHandOK ==
    todo # <<>> => \E i \in 1 .. Len(file) : ToSet(todo) \subseteq ToSet(file[i].events)

\* What has been passed is ingested, in hand, or was cost by a failure.
IsPassed(e) ==
    /\ offset # NoOffset
    /\ \E i \in 1 .. Len(file) :
         start < i /\ i <= offset /\ file[i].half = "head" /\ e \in ToSet(file[i].events)
Cost(e) == Shadowed(e) \/ \E f \in failed : f <= e /\ SameLine(e, f)
LossOK ==
    /\ \A k \in seen : \E f \in ToSet(ingested) \cup failed : Key[f] = k
    /\ \A e : IsPassed(e) => e \in ToSet(ingested) \/ e \in ToSet(todo) \/ Cost(e)

Calm == LinesOK /\ PlaceOK /\ OrderOK /\ AheadOK /\ InHandOK /\ LossOK
WatchInv == Typed /\ Sized /\ (calm => Calm)

\* Events are numbers.
LEMMA NumbersUpTo ==
    ASSUME NEW s \in Seq(Events), NEW n, UpTo(s, n)
    PROVE  \A k \in DOMAIN s : s[k] \in Nat /\ s[k] <= n
<1>1. \A k \in DOMAIN s : s[k] \in Events
  OBVIOUS
<1>2. Events \subseteq Nat
  BY DEF Events
<1> QED BY <1>1, <1>2 DEF UpTo

\* A half line holds the events of its line.
LEMMA EventsOfLine ==
    ASSUME NEW log \in Seq(HalfLines), NEW i \in 1 .. Len(log)
    PROVE  log[i].events \in Seq(Events)
<1>1. log[i] \in HalfLines
  OBVIOUS
<1> QED BY <1>1 DEF HalfLines

\* The steps that move the watcher but change neither the log nor the events.
LEMMA SameLog ==
    ASSUME Calm, UNCHANGED <<file, written, ingested, todo, seen, failed, offset, start>>,
           opened' # "replaced"
    PROVE  Calm'
<1> USE DEF Calm
<1>1. LinesOK'
  BY DEF LinesOK
<1>2. PlaceOK'
  BY DEF PlaceOK
<1>3. OrderOK' /\ AheadOK' /\ InHandOK'
  BY DEF OrderOK, AheadOK, InHandOK
<1>4. LossOK'
  BY DEF LossOK, IsPassed, Cost, SameLine, Shadowed
<1> QED BY <1>1, <1>2, <1>3, <1>4

\* What the watcher knows of the log stays true while the log grows.
LEMMA LogGrowsCalmly ==
    ASSUME WatchInv, Calm, NEW n \in Nat, written' = written + n, Len(file') \in Nat,
           Len(file) <= Len(file'), \A i \in 1 .. Len(file) : file'[i] = file[i],
           LinesOK',
           \A i \in 1 .. Len(file') : i > Len(file) /\ file'[i].half = "head" =>
             \A k \in DOMAIN file'[i].events :
               file'[i].events[k] \in Nat /\ file'[i].events[k] > written,
           UNCHANGED <<handleVars, todo, seen, ingested, start, failed>>
    PROVE  Calm'
<1> USE DEF Calm
<1>1. /\ file \in Seq(HalfLines) /\ Len(file) \in Nat /\ written \in Nat
      /\ ingested \in Seq(Events) /\ todo \in Seq(Events)
      /\ offset \in Nat \cup {NoOffset} /\ NoOffset \notin Nat
      /\ UNCHANGED <<opened, offset, todo, seen, ingested, start, failed>>
  BY WatcherConstantsOK DEF WatchInv, Typed, handleVars, WatcherConstantsOK
<1>2. PlaceOK'
  <2>1. start \in Nat
    BY DEF WatchInv, Sized, Offsets
  <2> QED BY <1>1, <2>1 DEF PlaceOK
<1>3. \A i \in DOMAIN ingested : ingested[i] \in Nat /\ ingested[i] <= written
  BY <1>1, NumbersUpTo DEF OrderOK
<1>4. \A i \in DOMAIN todo : todo[i] \in Nat /\ todo[i] <= written
  BY <1>1, NumbersUpTo DEF OrderOK
<1>5. OrderOK'
  <2>1. UpTo(ingested', written') /\ UpTo(todo', written')
    BY <1>1, <1>3, <1>4 DEF UpTo
  <2> QED BY <1>1, <2>1 DEF OrderOK
<1>6. AheadOK'
  <2> SUFFICES ASSUME offset # NoOffset, NEW i \in 1 .. Len(file'), offset < i, file'[i].half = "head"
               PROVE  AllBefore(ingested, file'[i].events) /\ AllBefore(todo, file'[i].events)
    BY <1>1 DEF AheadOK
  <2>1. CASE i <= Len(file)
    BY <1>1, <2>1 DEF AheadOK
  <2>2. CASE i > Len(file)
    <3>1. \A k \in DOMAIN file'[i].events :
            file'[i].events[k] \in Nat /\ file'[i].events[k] > written
      BY <2>2
    <3> QED BY <1>1, <1>3, <1>4, <3>1 DEF AllBefore
  <2> QED BY <1>1, <2>1, <2>2
<1>7. InHandOK'
  BY <1>1 DEF InHandOK
<1>8. LossOK'
  <2>1. \A e : IsPassed(e)' => IsPassed(e)
    BY <1>1 DEF IsPassed, PlaceOK
  <2>2. \A e : Cost(e) => Cost(e)'
    BY <1>1 DEF Cost, SameLine, Shadowed
  <2> QED BY <1>1, <2>1, <2>2 DEF LossOK
<1> QED BY <1>2, <1>5, <1>6, <1>7, <1>8

\* A line is written.
LEMMA WrittenCalmly ==
    ASSUME WatchInv, Calm, NEW n \in 1 .. MaxPerLine, WriteLine(n)
    PROVE  Calm'
<1> DEFINE len == Len(file)
<1>1. PICK line \in Seq(Events) :
        /\ Len(line) = n /\ \A i \in 1 .. n : line[i] = written + i
        /\ \/ file' = file \o Halves(line)
           \/ file' = Append(file, Halves(line)[1])
  BY WrittenFacts DEF WatchInv
<1>2. /\ len \in Nat /\ Len(file') \in {len + 1, len + 2}
      /\ \A i \in 1 .. len : file'[i] = file[i]
      /\ file'[len + 1] = [events |-> line, half |-> "head"]
      /\ Len(file') = len + 2 => file'[len + 2].half = "tail"
  BY <1>1, LogGrows DEF WatchInv
<1>3. /\ n \in Nat /\ written \in Nat /\ written' = written + n
      /\ UNCHANGED <<handleVars, todo, seen, ingested, start, failed>>
      /\ len > 0 => file[len].half # "head"
      /\ file \in Seq(HalfLines)
  BY DEF WriteLine, WatchInv, Typed, Unfinished, Last
<1>4. DOMAIN line = 1 .. n
  BY <1>1
<1> HIDE DEF len
<1>5. /\ Increasing(line) /\ UpTo(line, written + n)
      /\ \A k \in DOMAIN line : line[k] \in Nat /\ line[k] > written
  BY <1>1, <1>3, <1>4 DEF Increasing, UpTo
<1>6. /\ file'[len + 1].half = "head" /\ file'[len + 1].events = line
  BY <1>2
<1>7. \A i \in 1 .. Len(file') : i \in 1 .. len \/ i = len + 1 \/ (i = len + 2 /\ file'[i].half = "tail")
  BY <1>2
<1>8. \A i \in 1 .. len : file[i].events \in Seq(Events)
  BY <1>3, EventsOfLine DEF len
<1>9. ASSUME NEW i \in 1 .. Len(file'), file'[i].half = "head"
      PROVE  /\ i < Len(file') => file'[i + 1].half = "tail"
             /\ Increasing(file'[i].events) /\ UpTo(file'[i].events, written')
             /\ \A j \in i + 1 .. Len(file') :
                  file'[j].half = "head" => AllBefore(file'[i].events, file'[j].events)
  <2>1. CASE i \in 1 .. len
    <3> DEFINE s == file[i].events
    <3>1. /\ file'[i] = file[i] /\ file[i].half = "head" /\ i # len
      BY <1>2, <1>3, <1>9, <2>1
    <3>2. /\ i < len => file[i + 1].half = "tail"
          /\ Increasing(s) /\ UpTo(s, written)
          /\ \A j \in i + 1 .. len : file[j].half = "head" => AllBefore(s, file[j].events)
      BY <2>1, <3>1 DEF Calm, LinesOK, len
    <3>3. i < len /\ i + 1 \in 1 .. len
      BY <1>2, <2>1, <3>1
    <3>4. file'[i + 1].half = "tail"
      BY <1>2, <3>2, <3>3
    <3>5. s \in Seq(Events)
      BY <1>8, <2>1
    <3>6. file'[i].events = s
      BY <3>1
    <3> HIDE DEF s
    <3>7. \A k \in DOMAIN s : s[k] \in Nat /\ s[k] <= written
      BY <3>2, <3>5, NumbersUpTo
    <3>8. UpTo(s, written') /\ AllBefore(s, line)
      BY <1>3, <1>5, <3>7 DEF UpTo, AllBefore
    <3>9. ASSUME NEW j \in i + 1 .. Len(file'), file'[j].half = "head"
          PROVE  AllBefore(s, file'[j].events)
      <4>1. j \in 1 .. Len(file')
        BY <1>2, <2>1
      <4>2. CASE j \in 1 .. len
        <5>1. j \in i + 1 .. len /\ file'[j] = file[j]
          BY <1>2, <4>2, <3>9
        <5> QED BY <3>2, <3>9, <5>1
      <4>3. CASE j = len + 1
        BY <1>6, <3>8, <4>3
      <4> QED BY <1>7, <3>9, <4>1, <4>2, <4>3
    <3> QED BY <3>2, <3>4, <3>6, <3>8, <3>9
  <2>2. CASE i = len + 1
    <3>1. i < Len(file') => file'[i + 1].half = "tail"
      BY <1>2, <2>2
    <3>2. \A j \in i + 1 .. Len(file') : file'[j].half # "head"
      BY <1>2, <2>2
    <3> QED BY <1>3, <1>5, <1>6, <2>2, <3>1, <3>2
  <2> QED BY <1>7, <1>9, <2>1, <2>2
<1>10. LinesOK'
  BY <1>9 DEF LinesOK
<1>11. \A i \in 1 .. Len(file') : i > len /\ file'[i].half = "head" =>
         \A k \in DOMAIN file'[i].events :
           file'[i].events[k] \in Nat /\ file'[i].events[k] > written
  BY <1>2, <1>5, <1>6, <1>7
<1>12. Len(file') \in Nat /\ len <= Len(file')
  BY <1>2
<1> QED BY <1>2, <1>3, <1>10, <1>11, <1>12, LogGrowsCalmly DEF len

\* A line is finished.
LEMMA FinishedCalmly ==
    ASSUME WatchInv, Calm, FinishLine
    PROVE  Calm'
<1> DEFINE len == Len(file)
<1>1. /\ len \in Nat /\ len > 0 /\ Len(file') = len + 1
      /\ \A i \in 1 .. len : file'[i] = file[i]
      /\ file'[len + 1].half = "tail"
  BY LineFinished DEF WatchInv
<1>2. /\ written \in Nat /\ written' = written + 0
      /\ UNCHANGED <<handleVars, todo, seen, ingested, start, failed>>
  BY DEF FinishLine, WatchInv, Typed
<1>3. LinesOK
  BY DEF Calm
<1>4. LinesOK'
  <2> SUFFICES ASSUME NEW i \in 1 .. Len(file'), file'[i].half = "head"
               PROVE  /\ i < Len(file') => file'[i + 1].half = "tail"
                      /\ Increasing(file'[i].events) /\ UpTo(file'[i].events, written')
                      /\ \A j \in i + 1 .. Len(file') :
                           file'[j].half = "head" => AllBefore(file'[i].events, file'[j].events)
    BY DEF LinesOK
  <2>1. i \in 1 .. len /\ file'[i] = file[i]
    BY <1>1
  <2>2. /\ i < len => file[i + 1].half = "tail"
        /\ Increasing(file[i].events) /\ UpTo(file[i].events, written)
        /\ \A j \in i + 1 .. len : file[j].half = "head" => AllBefore(file[i].events, file[j].events)
    BY <1>3, <2>1 DEF LinesOK
  <2> HIDE DEF len
  <2>3. i < Len(file') => file'[i + 1].half = "tail"
    BY <1>1, <2>1, <2>2
  <2>4. \A j \in i + 1 .. Len(file') :
          file'[j].half = "head" => j \in i + 1 .. len /\ file'[j] = file[j]
    BY <1>1, <2>1
  <2>5. written' = written
    BY <1>2
  <2> QED BY <2>1, <2>2, <2>3, <2>4, <2>5
<1>5. /\ Len(file') \in Nat /\ len <= Len(file')
      /\ \A i \in 1 .. Len(file') : ~(i > len /\ file'[i].half = "head")
  BY <1>1
<1> QED BY <1>1, <1>2, <1>4, <1>5, LogGrowsCalmly

\* The first poll starts at the end, the others where the last one left off.
LEMMA PolledCalmly ==
    ASSUME WatchInv, Calm, Poll
    PROVE  Calm'
<1> USE DEF Calm
<1>1. /\ UNCHANGED <<file, written, ingested, todo, seen, failed>> /\ opened' = "path"
      /\ Len(file) \in Nat /\ offset \in Nat \cup {NoOffset} /\ NoOffset \notin Nat
  BY WatcherConstantsOK DEF Poll, logVars, WatchInv, Typed, WatcherConstantsOK
<1>2. CASE offset = NoOffset
  <2>1. offset' = Len(file) /\ start' = Len(file)
    BY <1>2 DEF Poll
  <2>2. ingested = <<>> /\ todo = <<>>
    BY <1>2 DEF PlaceOK
  <2>3. LinesOK' /\ PlaceOK' /\ OrderOK' /\ InHandOK'
    BY <1>1, <2>1 DEF LinesOK, PlaceOK, OrderOK, InHandOK
  <2>4. AheadOK' /\ LossOK'
    BY <1>1, <2>1 DEF AheadOK, LossOK, IsPassed
  <2> QED BY <2>3, <2>4
<1>3. CASE offset # NoOffset
  <2>1. offset <= Len(file) /\ offset \in Nat
    BY <1>1, <1>3 DEF PlaceOK
  <2>2. offset' = offset /\ start' = start
    BY <1>1, <1>3, <2>1 DEF Poll
  <2> QED BY <1>1, <2>2, SameLog
<1> QED BY <1>2, <1>3

\* A line is read, whole, or what is left of it.
LEMMA ReadCalmly ==
    ASSUME WatchInv, Calm, ReadLine, calm'
    PROVE  Calm'
<1> USE DEF Calm
<1>1. /\ UNCHANGED <<file, written, opened, ingested, seen, failed, start>>
      /\ Len(file) \in Nat /\ offset \in Nat /\ NoOffset \notin Nat /\ start \in Nat
      /\ start <= offset /\ offset < Len(file) /\ todo = <<>> /\ Content = file
      /\ file \in Seq(HalfLines) /\ ingested \in Seq(Events)
  BY WatcherConstantsOK
     DEF ReadLine, logVars, WatchInv, Typed, Sized, PlaceOK, Content, WatcherConstantsOK, Offsets
<1> DEFINE next == file[offset + 1]
<1>2. next.events \in Seq(Events) /\ offset + 1 \in 1 .. Len(file)
  <2>1. offset + 1 \in 1 .. Len(file)
    BY <1>1
  <2> QED BY <1>1, <2>1, EventsOfLine
<1>3. ToSet(todo) = {}
  BY <1>1 DEF ToSet
<1>4. LinesOK'
  BY <1>1 DEF LinesOK
<1>5. CASE next.half = "head" /\ offset + 1 < Len(file)
  <2>1. offset' = offset + 2 /\ todo' = next.events
    BY <1>1, <1>5 DEF ReadLine
  <2>2. /\ file[offset + 2].half = "tail"
        /\ Increasing(next.events) /\ UpTo(next.events, written)
        /\ \A j \in offset + 2 .. Len(file) :
             file[j].half = "head" => AllBefore(next.events, file[j].events)
    <3>1. /\ file[(offset + 1) + 1].half = "tail"
          /\ Increasing(next.events) /\ UpTo(next.events, written)
          /\ \A j \in (offset + 1) + 1 .. Len(file) :
               file[j].half = "head" => AllBefore(next.events, file[j].events)
      BY <1>2, <1>5 DEF LinesOK
    <3>2. (offset + 1) + 1 = offset + 2
      BY <1>1
    <3> QED BY <3>1, <3>2
  <2>3. AllBefore(ingested, next.events)
    BY <1>1, <1>2, <1>5 DEF AheadOK
  <2>4. next.events = file[offset + 1].events
    OBVIOUS
  <2>5. next.half = "head"
    BY <1>5
  <2> HIDE DEF next
  <2>6. PlaceOK'
    BY <1>1, <1>5, <2>1 DEF PlaceOK
  <2>7. OrderOK'
    BY <1>1, <2>1, <2>2, <2>3 DEF OrderOK
  <2>8. AheadOK'
    <3> SUFFICES ASSUME NEW i \in 1 .. Len(file), offset + 2 < i, file[i].half = "head"
                 PROVE  AllBefore(ingested, file[i].events) /\ AllBefore(next.events, file[i].events)
      BY <1>1, <2>1 DEF AheadOK
    <3>1. offset < i /\ i \in offset + 2 .. Len(file)
      BY <1>1
    <3> QED BY <1>1, <2>2, <3>1 DEF AheadOK
  <2>9. InHandOK'
    BY <1>1, <1>2, <2>1, <2>4 DEF InHandOK
  <2>10. LossOK'
    <3>1. ASSUME NEW e, IsPassed(e)'
          PROVE  IsPassed(e) \/ e \in ToSet(next.events)
      <4>1. PICK i \in 1 .. Len(file) :
              start < i /\ i <= offset + 2 /\ file[i].half = "head" /\ e \in ToSet(file[i].events)
        BY <1>1, <2>1, <3>1 DEF IsPassed
      <4>2. i # offset + 2
        BY <2>2, <4>1
      <4>3. i <= offset \/ i = offset + 1
        BY <1>1, <4>1, <4>2
      <4> QED BY <1>1, <2>4, <4>1, <4>3 DEF IsPassed
    <3>2. \A e : Cost(e) => Cost(e)'
      BY <1>1 DEF Cost, SameLine, Shadowed
    <3> QED BY <1>1, <1>3, <2>1, <3>1, <3>2 DEF LossOK
  <2> QED BY <1>4, <2>6, <2>7, <2>8, <2>9, <2>10
<1>6. CASE next.half = "tail"
  <2>1. offset' = offset + 1 /\ todo' = todo
    BY <1>1, <1>6 DEF ReadLine
  <2>2. file[offset + 1].half # "head"
    BY <1>6
  <2> HIDE DEF next
  <2>3. PlaceOK' /\ OrderOK' /\ InHandOK'
    BY <1>1, <2>1 DEF PlaceOK, OrderOK, InHandOK
  <2>4. AheadOK'
    BY <1>1, <2>1 DEF AheadOK
  <2>5. LossOK'
    <3>1. ASSUME NEW e, IsPassed(e)' PROVE IsPassed(e)
      <4>1. PICK i \in 1 .. Len(file) :
              start < i /\ i <= offset + 1 /\ file[i].half = "head" /\ e \in ToSet(file[i].events)
        BY <1>1, <2>1, <3>1 DEF IsPassed
      <4>2. i <= offset
        BY <1>1, <2>2, <4>1
      <4> QED BY <1>1, <4>1, <4>2 DEF IsPassed
    <3>2. \A e : Cost(e) => Cost(e)'
      BY <1>1 DEF Cost, SameLine, Shadowed
    <3> QED BY <1>1, <2>1, <3>1, <3>2 DEF LossOK
  <2> QED BY <1>4, <2>3, <2>4, <2>5
<1>7. \/ next.half = "head" /\ offset + 1 < Len(file)
      \/ next.half = "tail"
  BY <1>1 DEF ReadLine
<1> QED BY <1>5, <1>6, <1>7

\* The line in hand, event by event.
LEMMA InHandFacts ==
    ASSUME NEW q \in Seq(Events), q # <<>>
    PROVE  LET e == Head(q)  rest == Tail(q) IN
           /\ e \in Nat /\ e = q[1] /\ 1 \in DOMAIN q /\ rest \in Seq(Events)
           /\ \A k \in DOMAIN rest : k + 1 \in DOMAIN q /\ rest[k] = q[k + 1] /\ k \in Nat /\ k >= 1
           /\ \A k \in DOMAIN q : k \in Nat /\ (k = 1 \/ (k > 1 /\ k - 1 \in DOMAIN rest))
           /\ \A k \in DOMAIN q : q[k] \in Nat
           /\ ToSet(q) = {e} \cup ToSet(rest)
<1> DEFINE e == Head(q)
           rest == Tail(q)
<1>1. /\ Len(q) \in Nat /\ Len(q) >= 1 /\ e = q[1] /\ DOMAIN q = 1 .. Len(q)
      /\ rest \in Seq(Events) /\ Len(rest) = Len(q) - 1 /\ DOMAIN rest = 1 .. Len(rest)
      /\ \A k \in 1 .. Len(rest) : rest[k] = q[k + 1]
  OBVIOUS
<1>2. \A k \in DOMAIN q : q[k] \in Events
  OBVIOUS
<1>3. Events \subseteq Nat
  BY DEF Events
<1> HIDE DEF e, rest
<1>4. /\ \A k \in DOMAIN rest : k + 1 \in DOMAIN q /\ rest[k] = q[k + 1] /\ k \in Nat /\ k >= 1
      /\ \A k \in DOMAIN q : k \in Nat /\ (k = 1 \/ (k > 1 /\ k - 1 \in DOMAIN rest))
      /\ 1 \in DOMAIN q
  BY <1>1
<1>5. ToSet(q) = {e} \cup ToSet(rest)
  <2>1. ASSUME NEW x \in ToSet(q) PROVE x \in {e} \cup ToSet(rest)
    <3>1. PICK k \in DOMAIN q : x = q[k]
      BY DEF ToSet
    <3>2. CASE k = 1
      BY <1>1, <3>1, <3>2
    <3>3. CASE k > 1
      <4>1. k \in Nat /\ k - 1 \in DOMAIN rest /\ (k - 1) + 1 = k
        BY <1>4, <3>3
      <4>2. rest[k - 1] = q[k]
        BY <1>4, <4>1
      <4> QED BY <3>1, <4>1, <4>2 DEF ToSet
    <3> QED BY <1>4, <3>2, <3>3
  <2>2. {e} \cup ToSet(rest) \subseteq ToSet(q)
    BY <1>1, <1>4 DEF ToSet
  <2> QED BY <2>1, <2>2
<1>6. e \in Nat /\ \A k \in DOMAIN q : q[k] \in Nat
  BY <1>1, <1>2, <1>3, <1>4
<1> QED BY <1>1, <1>4, <1>5, <1>6 DEF e, rest

\* What is in hand is on one line.
LEMMA InHandOnOneLine ==
    ASSUME WatchInv, Calm, NEW x \in ToSet(todo), NEW y \in ToSet(todo)
    PROVE  SameLine(x, y)
<1>1. todo # <<>>
  BY DEF ToSet
<1>2. PICK i \in 1 .. Len(file) : ToSet(todo) \subseteq ToSet(file[i].events)
  BY <1>1 DEF Calm, InHandOK
<1>3. i \in DOMAIN file
  BY DEF WatchInv, Typed
<1> QED BY <1>2, <1>3 DEF SameLine

\* What all steps about the event in hand have in common.
EventDone(e) ==
    /\ e = Head(todo) /\ todo # <<>> /\ offset # NoOffset /\ opened' # "replaced"
    /\ UNCHANGED <<file, written, offset, start>>
    /\ seen' \subseteq seen \cup {Key[e]}

\* After such a step the rest of the line is in order, and on its line.
LEMMA RestCalmly ==
    ASSUME WatchInv, Calm, NEW e, EventDone(e), NEW rest, rest = Tail(todo), todo' = rest
    PROVE  /\ LinesOK' /\ PlaceOK' /\ InHandOK'
           /\ Increasing(rest) /\ UpTo(rest, written) /\ AllBefore(ingested, rest)
           /\ \A k \in DOMAIN rest : e < rest[k]
           /\ \A i \in 1 .. Len(file) : offset < i /\ file[i].half = "head" =>
                AllBefore(rest, file[i].events)
<1> USE DEF Calm, EventDone
<1>1. todo \in Seq(Events) /\ todo # <<>>
  BY DEF WatchInv, Typed
<1>2. /\ e \in Nat /\ e = todo[1] /\ 1 \in DOMAIN todo /\ rest \in Seq(Events)
      /\ \A k \in DOMAIN rest : k + 1 \in DOMAIN todo /\ rest[k] = todo[k + 1] /\ k \in Nat /\ k >= 1
      /\ ToSet(todo) = {e} \cup ToSet(rest)
  BY <1>1, InHandFacts
<1>3. LinesOK' /\ PlaceOK' /\ InHandOK'
  <2>1. LinesOK'
    BY DEF LinesOK
  <2>2. PlaceOK'
    BY DEF PlaceOK
  <2>3. PICK i \in 1 .. Len(file) : ToSet(todo) \subseteq ToSet(file[i].events)
    BY DEF InHandOK
  <2>4. ToSet(rest) \subseteq ToSet(file[i].events)
    BY <1>2, <2>3
  <2>5. InHandOK'
    BY <2>4 DEF InHandOK
  <2> QED BY <2>1, <2>2, <2>5
<1>4. Increasing(todo) /\ UpTo(todo, written) /\ AllBefore(ingested, todo)
  BY DEF OrderOK
<1>5. Increasing(rest) /\ \A k \in DOMAIN rest : e < rest[k]
  <2>1. ASSUME NEW i \in DOMAIN rest, NEW j \in DOMAIN rest, i < j
        PROVE  rest[i] < rest[j]
    <3>1. i + 1 \in DOMAIN todo /\ j + 1 \in DOMAIN todo /\ i + 1 < j + 1
      BY <1>2, <2>1
    <3> QED BY <1>2, <1>4, <3>1 DEF Increasing
  <2>2. ASSUME NEW k \in DOMAIN rest PROVE e < rest[k]
    <3>1. k + 1 \in DOMAIN todo /\ 1 < k + 1 /\ rest[k] = todo[k + 1]
      BY <1>2
    <3> QED BY <1>2, <1>4, <3>1 DEF Increasing
  <2> QED BY <2>1, <2>2 DEF Increasing
<1>6. UpTo(rest, written) /\ AllBefore(ingested, rest)
  BY <1>2, <1>4 DEF UpTo, AllBefore
<1>7. ASSUME NEW i \in 1 .. Len(file), offset < i, file[i].half = "head"
      PROVE  AllBefore(rest, file[i].events)
  <2>1. AllBefore(todo, file[i].events)
    BY <1>7 DEF AheadOK
  <2> QED BY <1>2, <2>1 DEF AllBefore
<1> QED BY <1>3, <1>5, <1>6, <1>7

\* An event that was seen is skipped: it is ingested, or has failed.
LEMMA SkippedCalmly ==
    ASSUME WatchInv, Calm, SkipSeen
    PROVE  Calm'
<1> DEFINE e == Head(todo)
           rest == Tail(todo)
<1>1. /\ todo \in Seq(Events) /\ todo # <<>> /\ todo' = rest /\ Key[e] \in seen
      /\ UNCHANGED <<file, written, offset, start, opened, ingested, failed, seen>>
      /\ offset # NoOffset
  BY DEF SkipSeen, logVars, handleVars, WatchInv, Typed, Calm, PlaceOK
<1>2. e \in Nat /\ ToSet(todo) = {e} \cup ToSet(rest)
  BY <1>1, InHandFacts
<1>3. EventDone(e)
  BY <1>1 DEF EventDone, Calm, PlaceOK
<1>4. /\ LinesOK' /\ PlaceOK' /\ InHandOK'
      /\ Increasing(rest) /\ UpTo(rest, written) /\ AllBefore(ingested, rest)
      /\ \A i \in 1 .. Len(file) : offset < i /\ file[i].half = "head" =>
           AllBefore(rest, file[i].events)
  BY <1>1, <1>3, RestCalmly
<1> HIDE DEF e, rest
<1>5. OrderOK' /\ AheadOK'
  BY <1>1, <1>4 DEF OrderOK, AheadOK, Calm
<1>6. e \in ToSet(ingested) \/ Cost(e)
  <2>1. PICK f \in ToSet(ingested) \cup failed : Key[f] = Key[e]
    BY <1>1 DEF Calm, LossOK
  <2>2. SameLine(e, e)
    BY <1>2, InHandOnOneLine
  <2>3. CASE f = e
    BY <1>2, <2>1, <2>2, <2>3 DEF Cost
  <2>4. CASE f # e
    BY <2>1, <2>4 DEF Cost, Shadowed
  <2> QED BY <2>3, <2>4
<1>7. LossOK'
  <2>1. \A x : (IsPassed(x)' <=> IsPassed(x)) /\ (Cost(x)' <=> Cost(x))
    BY <1>1 DEF IsPassed, Cost, SameLine, Shadowed
  <2> QED BY <1>1, <1>2, <1>6, <2>1 DEF Calm, LossOK
<1> QED BY <1>4, <1>5, <1>7 DEF Calm

\* An event is ingested.
LEMMA IngestedCalmly ==
    ASSUME WatchInv, Calm, Ingest
    PROVE  Calm'
<1> DEFINE e == Head(todo)
           rest == Tail(todo)
           n == Len(ingested)
<1>1. /\ todo \in Seq(Events) /\ todo # <<>> /\ todo' = rest
      /\ ingested \in Seq(Events) /\ n \in Nat /\ ingested' = Append(ingested, e)
      /\ UNCHANGED <<file, written, offset, start, opened, failed>>
      /\ offset # NoOffset /\ seen' \subseteq seen \cup {Key[e]}
  BY DEF Ingest, MarkSeen, logVars, handleVars, WatchInv, Typed, Calm, PlaceOK
<1>2. e \in Nat /\ e = todo[1] /\ 1 \in DOMAIN todo /\ ToSet(todo) = {e} \cup ToSet(rest)
  BY <1>1, InHandFacts
<1>3. EventDone(e)
  BY <1>1 DEF EventDone, Calm, PlaceOK
<1>4. /\ LinesOK' /\ PlaceOK' /\ InHandOK'
      /\ Increasing(rest) /\ UpTo(rest, written) /\ AllBefore(ingested, rest)
      /\ \A k \in DOMAIN rest : e < rest[k]
      /\ \A i \in 1 .. Len(file) : offset < i /\ file[i].half = "head" =>
           AllBefore(rest, file[i].events)
  BY <1>1, <1>3, RestCalmly
<1>5. /\ DOMAIN ingested = 1 .. n /\ DOMAIN ingested' = 1 .. n + 1
      /\ \A k \in 1 .. n : ingested'[k] = ingested[k]
      /\ ingested'[n + 1] = e
  BY <1>1
<1> HIDE DEF e, rest, n
<1>6. \A k \in DOMAIN ingested' : k \in DOMAIN ingested \/ k = n + 1
  BY <1>1, <1>5
<1>7. /\ Increasing(ingested) /\ UpTo(ingested, written)
      /\ \A k \in DOMAIN ingested : ingested[k] < e
      /\ e <= written
  BY <1>2 DEF Calm, OrderOK, AllBefore, UpTo
<1>8. OrderOK'
  <2>1. Increasing(ingested')
    <3> SUFFICES ASSUME NEW i \in 1 .. n + 1, NEW j \in 1 .. n + 1, i < j
                 PROVE  ingested'[i] < ingested'[j]
      BY <1>5 DEF Increasing
    <3>1. i \in 1 .. n
      BY <1>1
    <3>2. j \in 1 .. n \/ j = n + 1
      BY <1>1
    <3> QED BY <1>5, <1>7, <3>1, <3>2 DEF Increasing
  <2>2. UpTo(ingested', written)
    BY <1>5, <1>6, <1>7 DEF UpTo
  <2>3. AllBefore(ingested', rest)
    BY <1>4, <1>5, <1>6 DEF AllBefore
  <2> QED BY <1>1, <1>4, <2>1, <2>2, <2>3 DEF OrderOK
<1>9. AheadOK'
  <2> SUFFICES ASSUME NEW i \in 1 .. Len(file), offset < i, file[i].half = "head"
               PROVE  AllBefore(ingested', file[i].events) /\ AllBefore(rest, file[i].events)
    BY <1>1 DEF AheadOK
  <2>1. AllBefore(ingested, file[i].events) /\ AllBefore(todo, file[i].events)
    BY <1>1 DEF Calm, AheadOK
  <2>2. AllBefore(ingested', file[i].events)
    BY <1>2, <1>5, <1>6, <2>1 DEF AllBefore
  <2> QED BY <1>4, <2>2
<1>10. LossOK'
  <2>1. ToSet(ingested) \cup {e} \subseteq ToSet(ingested')
    <3>1. \A k \in DOMAIN ingested : k \in DOMAIN ingested' /\ ingested'[k] = ingested[k]
      BY <1>1, <1>5
    <3>2. n + 1 \in DOMAIN ingested' /\ ingested'[n + 1] = e
      BY <1>1, <1>5
    <3> QED BY <3>1, <3>2 DEF ToSet
  <2>2. \A x : (IsPassed(x)' <=> IsPassed(x)) /\ (Cost(x) => Cost(x)')
    BY <1>1, <2>1 DEF IsPassed, Cost, SameLine, Shadowed
  <2> QED BY <1>1, <1>2, <2>1, <2>2 DEF Calm, LossOK
<1> QED BY <1>4, <1>8, <1>9, <1>10 DEF Calm

\* A failure costs what is in hand, and nothing else.
LEMMA FailedCalmly ==
    ASSUME WatchInv, Calm, IngestFails
    PROVE  Calm'
<1> DEFINE e == Head(todo)
<1>1. /\ todo \in Seq(Events) /\ todo # <<>> /\ todo' = <<>> /\ opened' = "nothing"
      /\ UNCHANGED <<file, written, offset, start, ingested>>
      /\ failed' = failed \cup {e}
      /\ offset # NoOffset /\ seen' \subseteq seen \cup {Key[e]}
  BY DEF IngestFails, CloseFile, MarkSeen, logVars, WatchInv, Typed, Calm, PlaceOK
<1>2. /\ e \in Nat /\ e = todo[1] /\ 1 \in DOMAIN todo /\ ToSet(todo) = {e} \cup ToSet(Tail(todo))
      /\ \A k \in DOMAIN todo : k \in Nat /\ (k = 1 \/ k > 1)
  BY <1>1, InHandFacts
<1> HIDE DEF e
<1>3. LinesOK' /\ PlaceOK' /\ InHandOK'
  BY <1>1 DEF Calm, LinesOK, PlaceOK, InHandOK
<1>4. OrderOK' /\ AheadOK'
  <2>1. Increasing(<<>>) /\ UpTo(<<>>, written) /\ AllBefore(ingested, <<>>)
    BY DEF Increasing, UpTo, AllBefore
  <2>2. \A s : AllBefore(<<>>, s)
    BY DEF AllBefore
  <2> QED BY <1>1, <2>1, <2>2 DEF Calm, OrderOK, AheadOK
<1>5. ASSUME NEW x \in ToSet(todo) PROVE Cost(x)'
  <2>1. PICK k \in DOMAIN todo : x = todo[k]
    BY DEF ToSet
  <2>2. e <= x
    <3>1. CASE k = 1
      BY <1>2, <2>1, <3>1
    <3>2. CASE k > 1
      <4>1. e < x
        BY <1>2, <2>1, <3>2 DEF Calm, OrderOK, Increasing
      <4>2. x \in Nat
        BY <1>1, <2>1, InHandFacts
      <4> QED BY <1>2, <4>1, <4>2
    <3> QED BY <1>2, <2>1, <3>1, <3>2
  <2>3. SameLine(x, e)
    BY <1>2, InHandOnOneLine
  <2> QED BY <1>1, <2>2, <2>3 DEF Cost, SameLine, Shadowed
<1>6. LossOK'
  <2>1. \A x : (IsPassed(x)' <=> IsPassed(x)) /\ (Cost(x) => Cost(x)')
    BY <1>1 DEF IsPassed, Cost, SameLine, Shadowed
  <2> QED BY <1>1, <1>5, <2>1 DEF Calm, LossOK
<1> QED BY <1>3, <1>4, <1>6 DEF Calm

\* Every step keeps the invariant.
LEMMA WatchInvStep ==
    ASSUME WatchInv, [Next]_vars
    PROVE  WatchInv'
<1>1. Typed' /\ Sized'
  BY TypedStep, SizedStep DEF WatchInv
<1> SUFFICES ASSUME calm'
             PROVE  Calm'
  BY <1>1 DEF WatchInv
<1>2. ReplaceLog => ~calm'
  BY DEF ReplaceLog
<1>3. Restart => ~calm'
  BY DEF Restart
<1>4. calm
  <2>1. ReadLine \/ UNCHANGED calm
    BY <1>2, <1>3 DEF Next, Honeypot, Process, WriteLine, FinishLine, Poll, ReadFails, EndOfFile,
                      SkipSeen, Ingest, IngestFails, vars
  <2> QED BY <2>1 DEF ReadLine
<1>5. Calm
  BY <1>4 DEF WatchInv
<1>6. CASE EndOfFile
  <2>1. opened' = "nothing" /\ UNCHANGED <<file, written, ingested, todo, seen, failed, offset, start>>
    BY <1>6 DEF EndOfFile, CloseFile, logVars
  <2> QED BY <1>5, <2>1, SameLog
<1>7. CASE ReadFails
  <2>1. opened' = "nothing" /\ UNCHANGED <<file, written, ingested, todo, seen, failed, offset, start>>
    BY <1>7 DEF ReadFails, CloseFile, logVars
  <2> QED BY <1>5, <2>1, SameLog
<1>8. CASE UNCHANGED vars
  <2>1. UNCHANGED <<opened, file, written, ingested, todo, seen, failed, offset, start>>
    BY <1>8 DEF vars, logVars, handleVars
  <2> QED BY <1>5, <2>1, SameLog DEF Calm, PlaceOK
<1> QED BY <1>2, <1>3, <1>5, <1>6, <1>7, <1>8, WrittenCalmly, FinishedCalmly, PolledCalmly, ReadCalmly,
           SkippedCalmly, IngestedCalmly, FailedCalmly DEF Next, Honeypot, Process

\* A part of a sequence, place by place.
LEMMA PartFacts ==
    ASSUME NEW S, NEW q \in Seq(S), NEW m \in Nat, NEW n \in Nat, m <= n, n <= Len(q)
    PROVE  /\ DOMAIN SubSeq(q, m + 1, n) = 1 .. n - m
           /\ \A i \in 1 .. n - m : SubSeq(q, m + 1, n)[i] = q[m + i]
OBVIOUS

\* The property follows: what is passed is passed on the log as it is.
LEMMA CostFollows ==
    ASSUME WatchInv
    PROVE  FailureCostsOneLine
<1> SUFFICES ASSUME calm
             PROVE  /\ \A e \in Passed \ ToSet(ingested \o todo) :
                         Shadowed(e) \/ \E f \in failed : f <= e /\ SameLine(e, f)
                    /\ \A i, j \in DOMAIN (ingested \o todo) :
                         i < j => (ingested \o todo)[i] < (ingested \o todo)[j]
  BY DEF FailureCostsOneLine
<1> DEFINE both == ingested \o todo
           n == Len(ingested)
           m == Len(todo)
<1>1. Calm /\ ingested \in Seq(Events) /\ todo \in Seq(Events) /\ n \in Nat /\ m \in Nat
  BY DEF WatchInv, Typed
<1>2. /\ DOMAIN both = 1 .. n + m /\ DOMAIN ingested = 1 .. n /\ DOMAIN todo = 1 .. m
      /\ \A i \in 1 .. n : both[i] = ingested[i]
      /\ \A i \in 1 .. m : both[n + i] = todo[i]
  <2>1. ingested \in Seq(Events) /\ todo \in Seq(Events)
    BY <1>1
  <2>2. /\ both \in Seq(Events) /\ Len(both) = n + m
        /\ \A i \in 1 .. n : both[i] = ingested[i]
        /\ \A i \in 1 .. m : both[n + i] = todo[i]
    BY ONLY <2>1, ConcatFacts
  <2> HIDE DEF both
  <2> QED BY <2>1, <2>2
<1> HIDE DEF both, n, m
<1>3. ToSet(ingested) \cup ToSet(todo) \subseteq ToSet(both)
  <2>1. \A i \in 1 .. n : i \in 1 .. n + m
    BY <1>1
  <2>2. \A i \in 1 .. m : n + i \in 1 .. n + m
    BY <1>1
  <2> QED BY <1>2, <2>1, <2>2 DEF ToSet
<1>4. ASSUME NEW e \in Passed PROVE IsPassed(e)
  <2>1. /\ offset # NoOffset /\ e \in EventsIn(SubSeq(file, start + 1, offset))
        /\ offset \in Nat /\ start \in Nat /\ start <= offset /\ offset <= Len(file)
        /\ file \in Seq(HalfLines) /\ Len(file) \in Nat
    BY <1>1, <1>4 DEF Passed, WatchInv, Typed, Sized, Offsets, Calm, PlaceOK
  <2> DEFINE part == SubSeq(file, start + 1, offset)
  <2>2. DOMAIN part = 1 .. offset - start /\ \A i \in 1 .. offset - start : part[i] = file[start + i]
    BY <2>1, PartFacts
  <2> HIDE DEF part
  <2>3. PICK i \in DOMAIN part : part[i].half = "head" /\ e \in ToSet(part[i].events)
    BY <2>1 DEF EventsIn, part
  <2>4. /\ start + i \in 1 .. Len(file) /\ start < start + i /\ start + i <= offset
        /\ part[i] = file[start + i]
    BY <2>1, <2>2
  <2> QED BY <2>1, <2>3, <2>4 DEF IsPassed
<1>5. \A e \in Passed \ ToSet(both) : Shadowed(e) \/ \E f \in failed : f <= e /\ SameLine(e, f)
  BY <1>1, <1>3, <1>4 DEF Calm, LossOK, Cost
<1>6. \A i, j \in DOMAIN both : i < j => both[i] < both[j]
  <2> SUFFICES ASSUME NEW i \in 1 .. n + m, NEW j \in 1 .. n + m, i < j
               PROVE  both[i] < both[j]
    BY <1>2
  <2>1. Increasing(ingested) /\ Increasing(todo) /\ AllBefore(ingested, todo)
    BY <1>1 DEF Calm, OrderOK
  <2>2. CASE j <= n
    <3>1. i \in 1 .. n /\ j \in 1 .. n
      BY <1>1, <2>2
    <3> QED BY <1>2, <2>1, <3>1 DEF Increasing
  <2>3. CASE i <= n /\ j > n
    <3>1. i \in 1 .. n /\ j - n \in 1 .. m /\ n + (j - n) = j
      BY <1>1, <2>3
    <3>2. both[j] = todo[j - n]
      BY <1>2, <3>1
    <3> QED BY <1>2, <2>1, <3>1, <3>2 DEF AllBefore
  <2>4. CASE i > n
    <3>1. /\ i - n \in 1 .. m /\ j - n \in 1 .. m /\ n + (j - n) = j /\ n + (i - n) = i
          /\ i - n < j - n
      BY <1>1, <2>4
    <3>2. both[j] = todo[j - n] /\ both[i] = todo[i - n]
      BY <1>2, <3>1
    <3> QED BY <1>2, <2>1, <3>1, <3>2 DEF Increasing
  <2> QED BY <1>1, <2>2, <2>3, <2>4
<1> QED BY <1>5, <1>6 DEF both

\* Without a restart, a replaced log or a torn line, what the watcher has passed
\* is ingested in the order of writing, and an event is missing only if it, or an
\* earlier one of its line, raised: for lines of any length and any failures.
THEOREM FailureIsContained == Spec => []FailureCostsOneLine
<1>1. Init => WatchInv
  <2> SUFFICES ASSUME Init PROVE Calm
    BY TypedInit, SizedInit DEF WatchInv
  <2>1. /\ file = <<>> /\ opened = "nothing" /\ offset = NoOffset /\ todo = <<>> /\ seen = {}
        /\ ingested = <<>> /\ failed = {}
    BY DEF Init
  <2>2. LinesOK /\ PlaceOK /\ InHandOK /\ AheadOK
    BY <2>1 DEF LinesOK, PlaceOK, InHandOK, AheadOK
  <2>3. OrderOK /\ LossOK
    BY <2>1 DEF OrderOK, LossOK, IsPassed, Increasing, AllBefore, UpTo
  <2> QED BY <2>2, <2>3 DEF Calm
<1>2. WatchInv /\ [Next]_vars => WatchInv'
  BY WatchInvStep
<1>3. WatchInv => FailureCostsOneLine
  BY CostFollows
<1> QED BY <1>1, <1>2, <1>3, PTL DEF Spec

=============================================================================
