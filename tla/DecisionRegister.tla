-------------------------- MODULE DecisionRegister --------------------------
(***************************************************************************)
(* What the backend's routing table promises to the gateways: for every    *)
(* client the latest decision written about it, for Duration after it was  *)
(* written, and nothing else.  There is no crash and no disk here: a       *)
(* decision in force stays in force.                                       *)
(***************************************************************************)
EXTENDS Naturals

CONSTANTS Clients, Targets, Duration

VARIABLES now, inForce      \* inForce: a function on the clients decided about

Entries == [target : Targets, expires : Nat]
InForceAt(t, f) == [ip \in {i \in DOMAIN f : f[i].expires > t} |-> f[ip]]

Init == now = 0 /\ inForce = <<>>

Write(ip, target) ==
    /\ inForce' = [i \in DOMAIN inForce \cup {ip} |->
                     IF i = ip THEN [target |-> target, expires |-> now + Duration]
                               ELSE inForce[i]]
    /\ UNCHANGED now

Tick ==
    /\ now' = now + 1
    /\ inForce' = InForceAt(now + 1, inForce)

Next == Tick \/ \E ip \in Clients, target \in Targets : Write(ip, target)
Spec == Init /\ [][Next]_<<now, inForce>>
=============================================================================
