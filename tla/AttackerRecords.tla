--------------------------- MODULE AttackerRecords ---------------------------
(***************************************************************************)
(* The two writers of one address's rows together: the scorer's questions  *)
(* (GatewayScorer) and the ingestion of events (Ingest), with what the     *)
(* rows must satisfy whatever their order.                                 *)
(***************************************************************************)
EXTENDS GatewayScorer, Ingest

CONSTANT MaxWorkers    \* bound: connections and events that come up at all

ASSUME MaxWorkersOK == MaxWorkers \in Nat

recVars == <<dbVars, scorerVars, ingestVars>>

RecTypeOK == DbTypeOK /\ ScorerTypeOK /\ IngestTypeOK
RecInit == DbInit /\ ScorerInit /\ IngestInit

\* The ghosts follow the steps of both writers: who overlapped, and whose
\* commits have raised the counter since the profile is there.
Counts(w) ==
    \/ w \in Events /\ done'[w] = "committed"
    \/ w \in Conns /\ verdict'[w] = "honeypot" /\ profile' # profile

Observe ==
    /\ overlapped' = overlapped \cup (IF Cardinality(DOMAIN tx') > 1 THEN DOMAIN tx' ELSE {})
    /\ counted' = IF profile' = NoRow THEN {}
                  ELSE counted \cup {w \in DOMAIN tx \ DOMAIN tx' : Counts(w)}

FewWorkers ==
    Cardinality({k \in Conns : asked'[k] > 0} \cup {e \in Events : done'[e] # "no" \/ e \in DOMAIN tx'})
      <= MaxWorkers

RecNext ==
    \/ ScorerNext /\ Observe /\ UNCHANGED <<done, cooling, shown>> /\ FewWorkers
    \/ (\E e \in Events : IngestStep(e)) /\ Observe /\ UNCHANGED scorerVars /\ FewWorkers
    \/ (\E bait \in Baits : CooldownOver(bait)) /\ UNCHANGED scorerVars

RecSpec == RecInit /\ [][RecNext]_recVars

-----------------------------------------------------------------------------
\* A profile without sessions has no row but those of open questions, and no
\* alert: this is what makes it safe for a "real" verdict to delete it.
ZeroMeansNoHistory ==
    profile # NoRow /\ profile.total = 0 =>
        alerts = {} /\ \A id \in DOMAIN rows : rows[id].kind = "gateway"

\* A profile of level 3 or more has an alert of that height or above behind it
\* that dashboards were shown, although levels and alerts are written by
\* different columns of different transactions, and rows are deleted under
\* both. (The converse fails: what is rolled back has been shown already.)
HighProfileHasAlert ==
    profile # NoRow /\ profile.level >= 3 => \E a \in alerts \cap shown : a.level >= 3

\* A connection's second question finds a fresh row, so that it counts as a
\* reconnect, unless a verdict about another connection has deleted the rows.
\* (It comes within the minute in which rows count: see RowAges.)
SecondQuestionIsReconnect ==
    \A k \in Conns :
      asked[k] = 2 => reconnected[k] \/ \E l \in Conns \ {k} : verdict[l] = "real"

\* The counter never counts what was not committed, unless the profile it was
\* read from has been deleted and made anew meanwhile; where no transactions
\* overlap it counts every commit; and what did not overlap keeps its event.
CountsAndKeeps ==
    profile # NoRow =>
      /\ (\A k \in Conns : verdict[k] # "real") => profile.total <= Cardinality(counted)
      /\ overlapped = {} => profile.total = Cardinality(counted)
      /\ \A e \in counted \cap Events :
           e \notin overlapped => SessionOf[e] \in DOMAIN rows /\ e \in rows[SessionOf[e]].events

\* A profile that has a history is kept when a connection is judged real: only
\* a profile without sessions is forgotten.
ProfileKeptWithHistory ==
    [][\A k \in Conns :
         /\ verdict[k] # "real" /\ verdict'[k] = "real"
         /\ profile # NoRow /\ profile.total >= 1
         => profile' # NoRow]_recVars
=============================================================================
