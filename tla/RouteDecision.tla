--------------------------- MODULE RouteDecision ---------------------------
(***************************************************************************)
(* What the SSH gateway promises about ONE connection: a routing decision  *)
(* that may be revised while it is provisional, becomes final at most once *)
(* and never changes after that, and the publications of that decision to  *)
(* the rest of the system (the SDN controller and the backend's routing    *)
(* table).  SshGateway is shown to implement this module, and the          *)
(* connections of DeceptionRouting decide by its rules.                    *)
(***************************************************************************)
CONSTANT Publishers   \* what may publish: the score task and the SSH channels

VARIABLES decision,   \* "none", "real" or "honeypot"
          final,      \* has the credential fast path spoken?
          published   \* publications made so far, one per publisher at most

vars == <<decision, final, published>>

Targets == {"real", "honeypot"}
Publications == [target : Targets, by : Publishers]

Init ==
    /\ decision = "none"
    /\ final = FALSE
    /\ published = {}

\* A provisional decision that nobody is told about.
Default ==
    /\ decision = "none"
    /\ decision' = "honeypot"
    /\ UNCHANGED <<final, published>>

\* A provisional decision taken by scoring: allowed only before the final one.
Revise(p, d) ==
    /\ ~final
    /\ decision' = d
    /\ published' = published \cup {[target |-> d, by |-> p]}
    /\ UNCHANGED final

\* The final decision. It may be repeated, never contradicted.
Settle(p, d) ==
    /\ final => d = decision
    /\ decision' = d
    /\ final' = TRUE
    /\ published' = published \cup {[target |-> d, by |-> p]}

Next ==
    \/ Default
    \/ \E p \in Publishers, d \in Targets : Revise(p, d) \/ Settle(p, d)

Spec == Init /\ [][Next]_vars
=============================================================================
