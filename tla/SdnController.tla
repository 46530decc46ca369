---------------------------- MODULE SdnController ----------------------------
(***************************************************************************)
(* src/sdn/controller.py and flow_manager.py: the routes the gateways post *)
(* to the controller, the MAC addresses it learns, the flow-mods it sends, *)
(* and the flows that the switches hold because of them.                   *)
(*                                                                         *)
(* Flow-mods travel to a switch in order, later than the handler that sent *)
(* them, and those sent to a switch that is gone are lost: the controller  *)
(* never takes a switch out of its list.  Time is relative: a route counts *)
(* down to its expiry, a flow counts up to its idle timeout.               *)
(***************************************************************************)
EXTENDS Naturals, SequencesExt, Functions

CONSTANTS
    Clients,       \* source addresses that get redirected
    Elsewhere,     \* the source of any other packet, IPv4 or not
    Servers,       \* the targets: real server, honeypot, or a raw address
    Switches,      \* datapath ids
    Hosts,         \* what is attached to a switch, by its MAC address
    PortsOf,       \* the ports of each switch behind which each of them may be
    Duration,      \* "duration" of a route
    IdleTimeout,   \* idle_timeout of a flow
    MaxInFlight    \* bound: flow-mods on their way to one switch

ASSUME SdnConstantsOK ==
    /\ Elsewhere \notin Clients
    /\ Servers \subseteq Hosts
    /\ PortsOf \in [Switches -> [Hosts -> SUBSET (Nat \ {0})]]
    /\ Duration \in Nat \ {0}
    /\ IdleTimeout \in Nat \ {0}
    /\ MaxInFlight \in Nat \ {0}

VARIABLES
    routes,      \* routing_table: by client, the target and the time left
    datapaths,   \* datapaths: every switch that has ever said hello
    macToPort,   \* mac_to_port: per switch, in the order of learning
    alive,       \* switches whose connection to the controller is up
    inFlight,    \* per switch: flow-mods sent and not yet applied
    flows,       \* per switch: redirect flows by client
    missed       \* ghost: (switch, client) pairs for which a flow-mod was lost
                 \* since the last one that arrived

vars == <<routes, datapaths, macToPort, alive, inFlight, flows, missed>>

Ports == UNION {PortsOf[s][h] : s \in Switches, h \in Hosts}
Routes == [target : Servers, left : 0 .. Duration]
Flows == [target : Servers, port : Ports, idle : 0 .. IdleTimeout]
FlowMods == [op : {"install"}, ip : Clients, target : Servers, port : Ports]
              \cup [op : {"remove"}, ip : Clients]
Tables(Entries) == UNION {[D -> Entries] : D \in SUBSET Clients}

TypeOK ==
    /\ routes \in Tables(Routes)
    /\ datapaths \subseteq Switches
    /\ macToPort \in [Switches -> Seq([mac : Hosts, port : Ports])]
    /\ alive \subseteq datapaths
    /\ inFlight \in [Switches -> Seq(FlowMods)]
    /\ flows \in [Switches -> Tables(Flows)]
    /\ missed \subseteq Switches \X Clients

Init ==
    /\ routes = <<>>
    /\ datapaths = {}
    /\ macToPort = [s \in Switches |-> <<>>]
    /\ alive = {}
    /\ inFlight = [s \in Switches |-> <<>>]
    /\ flows = [s \in Switches |-> <<>>]
    /\ missed = {}

Set(f, x, y) == [i \in DOMAIN f \cup {x} |-> IF i = x THEN y ELSE f[i]]
Without(f, x) == Restrict(f, DOMAIN f \ {x})

-----------------------------------------------------------------------------
(* The controller. Ryu runs a handler to its end before the next one.      *)

\* _lookup_out_port: the first port learned, whoever is behind it. The target
\* is looked at by nobody.
Known(s) == macToPort[s] # <<>>
LookupOutPort(s) == Head(macToPort[s]).port

\* send_msg, for the switches of S: mod is the flow-mod for each.
SendTo(S, ip, mod) ==
    /\ inFlight' = [s \in Switches |->
         IF s \in S \cap alive THEN Append(inFlight[s], mod[s]) ELSE inFlight[s]]
    /\ missed' = missed \cup ((S \ alive) \X {ip})

Room(S) == \A s \in S \cap alive : Len(inFlight[s]) < MaxInFlight

\* FlowManager.install_redirect_flow.
InstallRedirect(S, ip, target) ==
    /\ Room(S)
    /\ SendTo(S, ip, [s \in S |-> [op |-> "install", ip |-> ip, target |-> target,
                                   port |-> LookupOutPort(s)]])

\* Mutant of AddFlow: milliseconds where seconds are meant.
AddFlowMillis(ip, target) ==
    /\ routes' = Set(routes, ip, [target |-> target, left |-> Duration * 1000])
    /\ InstallRedirect({s \in datapaths : Known(s)}, ip, target)
    /\ UNCHANGED <<datapaths, macToPort, alive, flows>>

\* Mutant of AddFlow: a client that has a route keeps it.
AddFlowOnce(ip, target) ==
    /\ routes' = IF ip \in DOMAIN routes THEN routes
                 ELSE Set(routes, ip, [target |-> target, left |-> Duration])
    /\ InstallRedirect({s \in datapaths : Known(s)}, ip, target)
    /\ UNCHANGED <<datapaths, macToPort, alive, flows>>

\* POST /sdns/flows. A switch without a learned port gets no flow.
AddFlow(ip, target) ==
    /\ routes' = Set(routes, ip, [target |-> target, left |-> Duration])
    /\ InstallRedirect({s \in datapaths : Known(s)}, ip, target)
    /\ UNCHANGED <<datapaths, macToPort, alive, flows>>

\* DELETE /sdns/flows/{ip}.
DelFlow(ip) ==
    /\ routes' = Without(routes, ip)
    /\ Room(datapaths)
    /\ SendTo(datapaths, ip, [s \in datapaths |-> [op |-> "remove", ip |-> ip]])
    /\ UNCHANGED <<datapaths, macToPort, alive, flows>>

\* switch_features_handler: a switch says hello, for the first time or again.
SwitchFeatures(s) ==
    /\ s \notin alive
    /\ datapaths' = datapaths \cup {s}
    /\ alive' = alive \cup {s}
    /\ UNCHANGED <<routes, macToPort, inFlight, flows, missed>>

\* The last port a MAC address was seen at, in the place where it was first seen.
Learn(s, mac, port) ==
    macToPort' = [macToPort EXCEPT ![s] =
      IF \E i \in DOMAIN @ : @[i].mac = mac
      THEN [i \in DOMAIN @ |-> IF @[i].mac = mac THEN [mac |-> mac, port |-> port] ELSE @[i]]
      ELSE Append(@, [mac |-> mac, port |-> port])]

\* Mutant of PacketIn: an expired route is as good as any.
PacketInStale(s, mac, ip, inPort) ==
    /\ s \in alive
    /\ Learn(s, mac, inPort)
    /\ \/ /\ ip \notin DOMAIN routes
          /\ UNCHANGED <<inFlight, missed>>
       \/ /\ ip \in DOMAIN routes
          /\ Room({s})
          /\ SendTo({s}, ip, [t \in {s} |->
               [op |-> "install", ip |-> ip, target |-> routes[ip].target,
                port |-> Head(macToPort'[t]).port]])
    /\ UNCHANGED <<routes, datapaths, alive, flows>>

\* packet_in_handler. The packet that asks is forwarded to where it was going,
\* redirect or not; an expired route is dropped, its flow is not. (left = 0 is
\* expires_at < now: the clock is a float and never hits the very instant.)
PacketIn(s, mac, ip, inPort) ==
    /\ s \in alive
    /\ Learn(s, mac, inPort)
    /\ \/ /\ ip \notin DOMAIN routes
          /\ UNCHANGED <<routes, inFlight, missed>>
       \/ /\ ip \in DOMAIN routes /\ routes[ip].left = 0
          /\ routes' = Without(routes, ip)
          /\ UNCHANGED <<inFlight, missed>>
       \/ /\ ip \in DOMAIN routes /\ routes[ip].left > 0
          /\ Room({s})
          /\ SendTo({s}, ip, [t \in {s} |->
               [op |-> "install", ip |-> ip, target |-> routes[ip].target,
                port |-> Head(macToPort'[t]).port]])
          /\ UNCHANGED routes
    /\ UNCHANGED <<datapaths, alive, flows>>

-----------------------------------------------------------------------------
(* The switches. *)

Applied(f, mod) ==
    IF mod.op = "remove" THEN Without(f, mod.ip)
    ELSE Set(f, mod.ip, [target |-> mod.target, port |-> mod.port, idle |-> 0])

FlowModApplied(s) ==
    /\ inFlight[s] # <<>>
    /\ flows' = [flows EXCEPT ![s] = Applied(@, Head(inFlight[s]))]
    /\ inFlight' = [inFlight EXCEPT ![s] = Tail(@)]
    /\ missed' = missed \ {<<s, Head(inFlight[s]).ip>>}
    /\ UNCHANGED <<routes, datapaths, macToPort, alive>>

\* A packet of a redirected client: it never reaches the controller.
Redirected(s, ip) ==
    /\ ip \in DOMAIN flows[s]
    /\ flows' = [flows EXCEPT ![s][ip].idle = 0]
    /\ UNCHANGED <<routes, datapaths, macToPort, alive, inFlight, missed>>

\* Mutant of FlowIdle: idle_timeout is 0, which is no timeout.
FlowNeverIdle(s, ip) == FALSE /\ UNCHANGED vars

\* The switch drops a flow that nothing has matched for idle_timeout.
FlowIdle(s, ip) ==
    /\ ip \in DOMAIN flows[s] /\ flows[s][ip].idle = IdleTimeout
    /\ flows' = [flows EXCEPT ![s] = Without(@, ip)]
    /\ UNCHANGED <<routes, datapaths, macToPort, alive, inFlight, missed>>

\* The connection breaks; what was on its way is lost, the flows stay.
SwitchLost(s) ==
    /\ s \in alive
    /\ alive' = alive \ {s}
    /\ inFlight' = [inFlight EXCEPT ![s] = <<>>]
    /\ missed' = missed \cup ({s} \X {inFlight[s][i].ip : i \in DOMAIN inFlight[s]})
    /\ UNCHANGED <<routes, datapaths, macToPort, flows>>

Tick ==
    /\ routes' = [ip \in DOMAIN routes |->
         [routes[ip] EXCEPT !.left = IF @ = 0 THEN 0 ELSE @ - 1]]
    /\ flows' = [s \in Switches |-> [ip \in DOMAIN flows[s] |->
         [flows[s][ip] EXCEPT !.idle = IF @ = IdleTimeout THEN @ ELSE @ + 1]]]
    /\ UNCHANGED <<datapaths, macToPort, alive, inFlight, missed>>

Switch(s) ==
    \/ SwitchFeatures(s) \/ SwitchLost(s) \/ FlowModApplied(s)
    \/ \E ip \in Clients : Redirected(s, ip) \/ FlowIdle(s, ip)
    \/ \E ip \in Clients \cup {Elsewhere}, mac \in Hosts : \E inPort \in PortsOf[s][mac] :
         PacketIn(s, mac, ip, inPort)

Next ==
    \/ \E ip \in Clients :
         \/ \E target \in Servers : AddFlow(ip, target)
         \/ DelFlow(ip)
    \/ \E s \in Switches : Switch(s)
    \/ Tick

Spec == Init /\ [][Next]_vars

(* Time passes, a switch applies what it has received and drops what is    *)
(* idle. Nothing makes clients, gateways or a broken connection act.       *)
FairSpec ==
    /\ Spec
    /\ WF_vars(Tick)
    /\ \A s \in Switches :
         /\ WF_vars(FlowModApplied(s))
         /\ \A ip \in Clients : WF_vars(FlowIdle(s, ip))

-----------------------------------------------------------------------------
(* Properties. *)

\* Where a switch will send a client once it has applied what is on its way: the
\* last flow-mod about the client decides, or else the flow there is.
NoneAbout(mods, ip) == \A i \in DOMAIN mods : mods[i].ip # ip
LastAbout(mods, ip, i) ==
    /\ i \in DOMAIN mods /\ mods[i].ip = ip
    /\ \A j \in DOMAIN mods : mods[j].ip = ip => j <= i
Leads(mods, f, ip, target) ==
    \/ \E i \in DOMAIN mods :
         LastAbout(mods, ip, i) /\ mods[i].op = "install" /\ mods[i].target = target
    \/ NoneAbout(mods, ip) /\ ip \in DOMAIN f /\ f[ip].target = target
WillLead(s, ip, target) == Leads(inFlight[s], flows[s], ip, target)

\* The switches agree with the table: whatever the order of posts, packets,
\* deletions and idle timeouts, the flow of a client that has a route leads to
\* the target of that route, unless a flow-mod about the client was lost.
FlowsFollowRoutes ==
    \A s \in Switches, target \in Servers : \A ip \in DOMAIN routes :
      WillLead(s, ip, target) =>
        routes[ip].target = target \/ <<s, ip>> \in missed

\* A redirect comes into being only for a route in force: an expired or deleted
\* one is not revived by a late packet of the client.
WillRedirect(s, ip) == \E target \in Servers : WillLead(s, ip, target)
RedirectNeedsRoute ==
    [][\A s \in Switches, ip \in Clients :
         WillRedirect(s, ip)' /\ ~WillRedirect(s, ip) =>
           \/ ip \in DOMAIN routes' /\ routes'[ip].left > 0
           \/ <<s, ip>> \in missed']_vars

\* A client that falls silent, and about whom nothing is posted, is released by
\* every switch, even one that missed the deletion of its route.
Refreshed(s, ip) ==
    \/ Redirected(s, ip)
    \/ FlowModApplied(s) /\ Head(inFlight[s]).ip = ip
QuietClientReleased ==
    \A s \in Switches, ip \in Clients :
      <>[][~Refreshed(s, ip)]_vars => <>[](ip \notin DOMAIN flows[s])

\* docs-site/dev/sdn-controller.md, "Rewrite destination IP to honeypot, output
\* to honeypot port": a redirect leaves by the port of its target.
RedirectReachesTarget ==
    \A s \in Switches : \A ip \in DOMAIN flows[s] :
      flows[s][ip].port \in PortsOf[s][flows[s][ip].target]
=============================================================================
