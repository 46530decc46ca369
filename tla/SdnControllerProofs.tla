------------------------ MODULE SdnControllerProofs ------------------------
(***************************************************************************)
(* Proofs about SdnController, for any clients, servers, switches, hosts   *)
(* and ports, and any duration, idle timeout and bound on what is in       *)
(* flight.                                                                 *)
(***************************************************************************)
EXTENDS SdnController, TLAPS

-----------------------------------------------------------------------------
(* Tables and sequences. *)

\* The fresh process has empty tables.
LEMMA EmptyTables ==
    ASSUME NEW E
    PROVE  <<>> \in Tables(E) /\ DOMAIN <<>> = {}
<1>1. <<>> \in [{} -> E]
  OBVIOUS
<1> QED BY <1>1 DEF Tables

\* The clients and entries of a table.
LEMMA TableFacts ==
    ASSUME NEW E, NEW f \in Tables(E)
    PROVE  /\ DOMAIN f \subseteq Clients
           /\ \A ip \in DOMAIN f : f[ip] \in E
           /\ f = [ip \in DOMAIN f |-> f[ip]]
BY DEF Tables

\* A function from clients to entries is a table.
LEMMA IsTable ==
    ASSUME NEW E, NEW D \in SUBSET Clients, NEW f \in [D -> E]
    PROVE  f \in Tables(E)
BY DEF Tables

\* A table with one more entry, or another, is a table.
LEMMA SetIsTable ==
    ASSUME NEW E, NEW f \in Tables(E), NEW x \in Clients, NEW y \in E
    PROVE  Set(f, x, y) \in Tables(E)
<1> DEFINE D == DOMAIN f \cup {x}
<1>1. D \in SUBSET Clients /\ Set(f, x, y) \in [D -> E]
  BY TableFacts DEF Set
<1> QED BY <1>1, IsTable

\* Removing an entry of a table.
LEMMA WithoutFacts ==
    ASSUME NEW E, NEW f \in Tables(E), NEW x
    PROVE  /\ Without(f, x) \in Tables(E)
           /\ DOMAIN Without(f, x) = DOMAIN f \ {x}
           /\ \A i \in DOMAIN f \ {x} : Without(f, x)[i] = f[i]
<1> DEFINE D == DOMAIN f \ {x}
<1>1. Without(f, x) = [i \in D |-> f[i]]
  BY DEF Without, Restrict
<1>2. D \in SUBSET Clients /\ Without(f, x) \in [D -> E]
  BY <1>1, TableFacts
<1>3. Without(f, x) \in Tables(E)
  BY <1>2, IsTable
<1> QED BY <1>1, <1>3

\* A sequence with one more element at its end.
LEMMA AppendFacts ==
    ASSUME NEW S, NEW q \in Seq(S), NEW m \in S
    PROVE  /\ Append(q, m) \in Seq(S)
           /\ Len(q) \in Nat
           /\ DOMAIN q = 1 .. Len(q)
           /\ DOMAIN Append(q, m) = 1 .. Len(q) + 1
           /\ Append(q, m)[Len(q) + 1] = m
           /\ \A i \in 1 .. Len(q) : Append(q, m)[i] = q[i]
OBVIOUS

\* A sequence without its first element.
LEMMA TailFacts ==
    ASSUME NEW S, NEW q \in Seq(S), q # <<>>
    PROVE  /\ Tail(q) \in Seq(S)
           /\ Head(q) \in S /\ Head(q) = q[1]
           /\ Len(q) \in Nat \ {0}
           /\ DOMAIN q = 1 .. Len(q)
           /\ DOMAIN Tail(q) = 1 .. Len(q) - 1
           /\ \A i \in 1 .. Len(q) - 1 : Tail(q)[i] = q[i + 1]
OBVIOUS

-----------------------------------------------------------------------------
(* What a change of the flow-mods on their way, or of the flows, does to    *)
(* where the switch will lead a client.                                    *)

\* A flow-mod sent decides about its own client.
LEMMA AppendDecides ==
    ASSUME NEW q \in Seq(FlowMods), NEW m \in FlowMods, NEW f, NEW target
    PROVE  /\ ~NoneAbout(Append(q, m), m.ip)
           /\ Leads(Append(q, m), f, m.ip, target) <=>
                m.op = "install" /\ m.target = target
<1> DEFINE p == Append(q, m)
<1> DEFINE n == Len(q)
<1>1. /\ n \in Nat /\ DOMAIN p = 1 .. n + 1 /\ p[n + 1] = m
  BY AppendFacts
<1> HIDE DEF p, n
<1>2. n + 1 \in DOMAIN p /\ \A j \in DOMAIN p : j <= n + 1
  BY <1>1
<1>3. ~NoneAbout(p, m.ip)
  BY <1>1, <1>2 DEF NoneAbout
<1>4. LastAbout(p, m.ip, n + 1)
  BY <1>1, <1>2 DEF LastAbout
<1>5. ASSUME NEW i \in DOMAIN p, LastAbout(p, m.ip, i)
      PROVE  i = n + 1
  BY <1>1, <1>2, <1>5 DEF LastAbout
<1>6. Leads(p, f, m.ip, target) <=> m.op = "install" /\ m.target = target
  BY <1>1, <1>2, <1>3, <1>4, <1>5 DEF Leads
<1> QED BY <1>3, <1>6 DEF p

\* A flow-mod sent says nothing about the other clients.
LEMMA AppendKeepsOthers ==
    ASSUME NEW q \in Seq(FlowMods), NEW m \in FlowMods, NEW f, NEW target,
           NEW ip, ip # m.ip
    PROVE  /\ NoneAbout(Append(q, m), ip) <=> NoneAbout(q, ip)
           /\ Leads(Append(q, m), f, ip, target) <=> Leads(q, f, ip, target)
<1> DEFINE p == Append(q, m)
<1> DEFINE n == Len(q)
<1>1. /\ n \in Nat /\ DOMAIN q = 1 .. n
      /\ DOMAIN p = 1 .. n + 1 /\ p[n + 1] = m
      /\ \A i \in 1 .. n : p[i] = q[i]
  BY AppendFacts
<1> HIDE DEF p, n
<1>2. \A i \in DOMAIN p : \/ i \in DOMAIN q /\ p[i] = q[i]
                          \/ i \notin DOMAIN q /\ p[i].ip # ip
  BY <1>1
<1>3. \A i \in DOMAIN q : i \in DOMAIN p
  BY <1>1
<1>4. NoneAbout(p, ip) <=> NoneAbout(q, ip)
  BY <1>2, <1>3 DEF NoneAbout
<1>5. \A i : LastAbout(p, ip, i) <=> LastAbout(q, ip, i)
  BY <1>2, <1>3 DEF LastAbout
<1>6. Leads(p, f, ip, target) <=> Leads(q, f, ip, target)
  <2>1. ASSUME Leads(p, f, ip, target) PROVE Leads(q, f, ip, target)
    <3>1. CASE NoneAbout(p, ip)
      BY <1>4, <2>1, <3>1 DEF Leads, LastAbout, NoneAbout
    <3>2. CASE ~NoneAbout(p, ip)
      <4>1. PICK i \in DOMAIN p : /\ LastAbout(p, ip, i) /\ p[i].op = "install"
                                  /\ p[i].target = target
        BY <2>1, <3>2 DEF Leads
      <4>2. LastAbout(q, ip, i) /\ i \in DOMAIN q /\ p[i] = q[i]
        BY <1>2, <1>5, <4>1 DEF LastAbout
      <4> QED BY <4>1, <4>2 DEF Leads
    <3> QED BY <3>1, <3>2
  <2>2. ASSUME Leads(q, f, ip, target) PROVE Leads(p, f, ip, target)
    <3>1. CASE NoneAbout(q, ip)
      BY <1>4, <2>2, <3>1 DEF Leads, LastAbout, NoneAbout
    <3>2. CASE ~NoneAbout(q, ip)
      <4>1. PICK i \in DOMAIN q : /\ LastAbout(q, ip, i) /\ q[i].op = "install"
                                  /\ q[i].target = target
        BY <2>2, <3>2 DEF Leads
      <4>2. LastAbout(p, ip, i) /\ i \in DOMAIN p /\ p[i] = q[i]
        BY <1>2, <1>3, <1>5, <4>1
      <4> QED BY <4>1, <4>2 DEF Leads
    <3> QED BY <3>1, <3>2
  <2> QED BY <2>1, <2>2
<1> QED BY <1>4, <1>6 DEF p

\* Applying a flow-mod to the flows of a switch.
LEMMA AppliedFacts ==
    ASSUME NEW m \in FlowMods, NEW f \in Tables(Flows), NEW ip
    PROVE  /\ Applied(f, m) \in Tables(Flows)
           /\ m.op = "remove" => m.ip \notin DOMAIN Applied(f, m)
           /\ m.op # "remove" => /\ m.op = "install"
                                 /\ m.ip \in DOMAIN Applied(f, m)
                                 /\ Applied(f, m)[m.ip].target = m.target
           /\ ip # m.ip => /\ ip \in DOMAIN Applied(f, m) <=> ip \in DOMAIN f
                           /\ ip \in DOMAIN f => Applied(f, m)[ip] = f[ip]
<1>0. \E x : x = m.ip
  OBVIOUS
<1> PICK x : x = m.ip
  BY <1>0
<1>1. CASE m.op = "remove"
  <2> DEFINE g == Without(f, x)
  <2>1. Applied(f, m) = g
    BY <1>1 DEF Applied
  <2>2. ASSUME NEW z
        PROVE  /\ Without(f, z) \in Tables(Flows)
               /\ DOMAIN Without(f, z) = DOMAIN f \ {z}
               /\ \A i \in DOMAIN f \ {z} : Without(f, z)[i] = f[i]
    BY ONLY f \in Tables(Flows), WithoutFacts
  <2>3. /\ g \in Tables(Flows) /\ DOMAIN g = DOMAIN f \ {x}
        /\ \A i \in DOMAIN f \ {x} : g[i] = f[i]
    BY <2>2
  <2> HIDE DEF g
  <2> QED BY <1>1, <2>1, <2>3
<1>2. CASE m.op # "remove"
  <2>1. m \in [op : {"install"}, ip : Clients, target : Servers, port : Ports]
    BY <1>2 DEF FlowMods
  <2> DEFINE e == [target |-> m.target, port |-> m.port, idle |-> 0]
  <2>2. e \in Flows /\ x \in Clients /\ e.target = m.target /\ m.op = "install"
    BY <2>1, SdnConstantsOK DEF Flows, SdnConstantsOK
  <2>3. Applied(f, m) = Set(f, x, e)
    BY <1>2 DEF Applied
  <2> HIDE DEF e
  <2> DEFINE g == Set(f, x, e)
  <2>4. /\ DOMAIN g = DOMAIN f \cup {x} /\ g[x] = e
        /\ \A i \in DOMAIN f : i # x => g[i] = f[i]
    BY DEF Set
  <2>6. g \in Tables(Flows)
    BY <2>2, SetIsTable
  <2> HIDE DEF g
  <2>5. Applied(f, m) = g
    BY <2>3 DEF g
  <2> QED BY <1>2, <2>2, <2>4, <2>5, <2>6
<1> QED BY <1>1, <1>2

\* Applying the next flow-mod leads no client elsewhere than announced.
LEMMA ApplyKeepsLeads ==
    ASSUME NEW q \in Seq(FlowMods), q # <<>>, NEW f \in Tables(Flows), NEW target,
           NEW ip
    PROVE  /\ Applied(f, Head(q)) \in Tables(Flows)
           /\ NoneAbout(q, ip) <=> NoneAbout(Tail(q), ip) /\ ip # Head(q).ip
           /\ Leads(Tail(q), Applied(f, Head(q)), ip, target) <=>
                Leads(q, f, ip, target)
<1> DEFINE p == Tail(q)
<1> DEFINE n == Len(q)
<1> DEFINE m == Head(q)
<1> DEFINE g == Applied(f, Head(q))
<1>1. /\ n \in Nat \ {0} /\ DOMAIN q = 1 .. n /\ m = q[1] /\ m \in FlowMods
      /\ DOMAIN p = 1 .. n - 1
      /\ \A i \in 1 .. n - 1 : p[i] = q[i + 1]
  BY TailFacts
<1>4. /\ g \in Tables(Flows)
      /\ m.op = "remove" => m.ip \notin DOMAIN g
      /\ m.op # "remove" => /\ m.op = "install"
                            /\ m.ip \in DOMAIN g /\ g[m.ip].target = m.target
      /\ ip # m.ip => /\ ip \in DOMAIN g <=> ip \in DOMAIN f
                      /\ ip \in DOMAIN f => g[ip] = f[ip]
  BY <1>1, AppliedFacts
<1> HIDE DEF p, n, m, g
<1>5. \A i \in DOMAIN p : i + 1 \in DOMAIN q /\ q[i + 1] = p[i] /\ i \in Nat
  BY <1>1
<1>6. \A i \in DOMAIN q : i = 1 \/ (i - 1 \in DOMAIN p /\ p[i - 1] = q[i])
  BY <1>1
<1>7. DOMAIN q \subseteq Nat /\ 1 \in DOMAIN q /\ DOMAIN p \subseteq Nat
  BY <1>1
<1>8. NoneAbout(q, ip) <=> NoneAbout(p, ip) /\ ip # m.ip
  BY <1>1, <1>5, <1>6, <1>7 DEF NoneAbout
<1>9. ASSUME NEW i \in DOMAIN p, LastAbout(p, ip, i)
      PROVE  LastAbout(q, ip, i + 1)
  <2>1. i \in Nat /\ i + 1 \in DOMAIN q /\ q[i + 1].ip = ip
    BY <1>5, <1>9 DEF LastAbout
  <2>2. ASSUME NEW j \in DOMAIN q, q[j].ip = ip
        PROVE  j <= i + 1
    <3>1. CASE j = 1
      BY <2>1, <3>1
    <3>2. CASE j # 1
      <4>1. j - 1 \in DOMAIN p /\ p[j - 1].ip = ip
        BY <1>6, <2>2, <3>2
      <4>2. j - 1 <= i /\ j \in Nat
        BY <1>7, <1>9, <4>1 DEF LastAbout
      <4> QED BY <2>1, <4>2
    <3> QED BY <3>1, <3>2
  <2> QED BY <2>1, <2>2 DEF LastAbout
<1>10. \A i \in DOMAIN q :
         LastAbout(q, ip, i) /\ i # 1 => LastAbout(p, ip, i - 1)
  BY <1>5, <1>6, <1>7 DEF LastAbout
<1>11. LastAbout(q, ip, 1) <=> NoneAbout(p, ip) /\ ip = m.ip
  <2>1. ASSUME LastAbout(q, ip, 1) PROVE NoneAbout(p, ip) /\ ip = m.ip
    BY <1>1, <1>5, <1>7, <2>1 DEF LastAbout, NoneAbout
  <2>2. ASSUME NoneAbout(p, ip), ip = m.ip PROVE LastAbout(q, ip, 1)
    BY <1>1, <1>6, <1>7, <2>2 DEF LastAbout, NoneAbout
  <2> QED BY <2>1, <2>2
<1>12. ASSUME Leads(p, g, ip, target) PROVE Leads(q, f, ip, target)
  <2>1. CASE NoneAbout(p, ip)
    <3>1. ip \in DOMAIN g /\ g[ip].target = target
      BY <1>12, <2>1 DEF Leads, LastAbout, NoneAbout
    <3>2. CASE ip = m.ip
      BY <1>1, <1>4, <1>7, <1>11, <2>1, <3>1, <3>2 DEF Leads
    <3>3. CASE ip # m.ip
      BY <1>4, <1>8, <2>1, <3>1, <3>3 DEF Leads
    <3> QED BY <3>2, <3>3
  <2>2. CASE ~NoneAbout(p, ip)
    <3>1. PICK i \in DOMAIN p : /\ LastAbout(p, ip, i) /\ p[i].op = "install"
                                /\ p[i].target = target
      BY <1>12, <2>2 DEF Leads
    <3>2. /\ i + 1 \in DOMAIN q /\ LastAbout(q, ip, i + 1)
          /\ q[i + 1].op = "install" /\ q[i + 1].target = target
      BY <1>5, <1>9, <3>1
    <3> QED BY <3>2 DEF Leads
  <2> QED BY <2>1, <2>2
<1>13. ASSUME Leads(q, f, ip, target) PROVE Leads(p, g, ip, target)
  <2>1. CASE NoneAbout(q, ip)
    BY <1>4, <1>8, <1>13, <2>1 DEF Leads, LastAbout, NoneAbout
  <2>2. CASE ~NoneAbout(q, ip)
    <3>1. PICK i \in DOMAIN q : /\ LastAbout(q, ip, i) /\ q[i].op = "install"
                                /\ q[i].target = target
      BY <1>13, <2>2 DEF Leads
    <3>2. CASE i = 1
      BY <1>1, <1>4, <1>11, <3>1, <3>2 DEF Leads
    <3>3. CASE i # 1
      <4>1. /\ i - 1 \in DOMAIN p /\ LastAbout(p, ip, i - 1)
            /\ p[i - 1].op = "install" /\ p[i - 1].target = target
        BY <1>6, <1>10, <3>1, <3>3
      <4> QED BY <4>1 DEF Leads
    <3> QED BY <3>2, <3>3
  <2> QED BY <2>1, <2>2
<1> QED BY <1>4, <1>8, <1>12, <1>13 DEF p, m, g

\* Counting idle time, or resetting it, leads no client elsewhere.
LEMMA SameTargetsSameLeads ==
    ASSUME NEW q, NEW f, NEW g, NEW ip, NEW target,
           DOMAIN g = DOMAIN f, \A i \in DOMAIN f : g[i].target = f[i].target
    PROVE  Leads(q, g, ip, target) <=> Leads(q, f, ip, target)
BY DEF Leads

\* A flow that times out leads nobody anywhere.
LEMMA WithoutLeadsNoFurther ==
    ASSUME NEW q, NEW f \in Tables(Flows), NEW x, NEW ip, NEW target,
           Leads(q, Without(f, x), ip, target)
    PROVE  Leads(q, f, ip, target)
<1>1. /\ DOMAIN Without(f, x) \subseteq DOMAIN f
      /\ \A i \in DOMAIN Without(f, x) : Without(f, x)[i] = f[i]
  <2> DEFINE g == Without(f, x)
  <2>1. DOMAIN g = DOMAIN f \ {x} /\ \A i \in DOMAIN f \ {x} : g[i] = f[i]
    BY WithoutFacts
  <2> HIDE DEF g
  <2> QED BY <2>1 DEF g
<1> QED BY <1>1 DEF Leads

\* When nothing is on its way the flows decide.
LEMMA NothingOnItsWay ==
    ASSUME NEW q, NEW f, NEW ip, NEW target
    PROVE  /\ NoneAbout(<<>>, ip)
           /\ Leads(<<>>, f, ip, target) <=> ip \in DOMAIN f /\ f[ip].target = target
           /\ NoneAbout(q, ip) =>
                (Leads(<<>>, f, ip, target) <=> Leads(q, f, ip, target))
BY DEF NoneAbout, LastAbout, Leads

-----------------------------------------------------------------------------
(* Type correctness. *)

\* A learned port is a port, also right after the learning.
LEMMA LearnFacts ==
    ASSUME TypeOK, NEW s \in Switches, NEW mac \in Hosts, NEW port \in PortsOf[s][mac],
           Learn(s, mac, port)
    PROVE  /\ macToPort' \in [Switches -> Seq([mac : Hosts, port : Ports])]
           /\ macToPort'[s] # <<>>
           /\ Head(macToPort'[s]).port \in Ports
           /\ \A t \in Switches : Known(t) => Known(t)'
<1> DEFINE L == [mac : Hosts, port : Ports]
<1> DEFINE q == macToPort[s]
<1> DEFINE new == [mac |-> mac, port |-> port]
<1> DEFINE moved == [i \in DOMAIN q |-> IF q[i].mac = mac THEN new ELSE q[i]]
<1> DEFINE p == IF \E i \in DOMAIN q : q[i].mac = mac THEN moved ELSE Append(q, new)
<1>1. macToPort \in [Switches -> Seq(L)] /\ q \in Seq(L)
  BY DEF TypeOK
<1>2. new \in L
  BY DEF Ports
<1>3. macToPort' = [macToPort EXCEPT ![s] = p]
  BY DEF Learn
<1>4. p \in Seq(L) /\ p # <<>>
  <2>1. CASE \E i \in DOMAIN q : q[i].mac = mac
    <3> HIDE DEF new, q, L
    <3>1. Len(q) \in Nat /\ DOMAIN q = 1 .. Len(q) /\ \A i \in DOMAIN q : q[i] \in L
      BY <1>1
    <3>2. moved \in [1 .. Len(q) -> L]
      BY <1>2, <3>1
    <3>3. moved \in Seq(L)
      <4> HIDE DEF moved
      <4> QED BY <3>1, <3>2
    <3>4. moved # <<>>
      BY <2>1, <3>1
    <3> QED BY <2>1, <3>3, <3>4
  <2>2. CASE ~\E i \in DOMAIN q : q[i].mac = mac
    <3> HIDE DEF new, q, L
    <3> QED BY <1>1, <1>2, <2>2
  <2> QED BY <2>1, <2>2
<1> HIDE DEF p
<1>5. macToPort' \in [Switches -> Seq(L)] /\ macToPort'[s] = p
  BY <1>1, <1>3, <1>4
<1>6. Head(p) \in L
  <2> HIDE DEF L
  <2> QED BY <1>4, TailFacts
<1>7. \A t \in Switches : Known(t) => Known(t)'
  BY <1>1, <1>3, <1>4 DEF Known
<1> QED BY <1>4, <1>5, <1>6, <1>7

\* Sending flow-mods keeps the types of what it changes.
LEMMA SendToTypes ==
    ASSUME TypeOK, NEW S \in SUBSET Switches, NEW ip \in Clients, NEW mod,
           \A s \in S : mod[s] \in FlowMods, SendTo(S, ip, mod)
    PROVE  /\ inFlight' \in [Switches -> Seq(FlowMods)]
           /\ missed' \subseteq Switches \X Clients
<1>1. ASSUME NEW s \in Switches
      PROVE  (IF s \in S \cap alive THEN Append(inFlight[s], mod[s]) ELSE inFlight[s])
               \in Seq(FlowMods)
  <2>1. inFlight[s] \in Seq(FlowMods)
    BY DEF TypeOK
  <2> QED BY <2>1
<1>2. inFlight' \in [Switches -> Seq(FlowMods)]
  BY <1>1 DEF SendTo
<1>3. missed' \subseteq Switches \X Clients
  BY DEF SendTo, TypeOK
<1> QED BY <1>2, <1>3

\* What install_redirect_flow sends are flow-mods.
LEMMA InstallIsFlowMod ==
    ASSUME NEW ip \in Clients, NEW target \in Servers, NEW port \in Ports
    PROVE  [op |-> "install", ip |-> ip, target |-> target, port |-> port] \in FlowMods
BY DEF FlowMods

\* The deletion of a redirect is a flow-mod.
LEMMA RemoveIsFlowMod ==
    ASSUME NEW ip \in Clients
    PROVE  [op |-> "remove", ip |-> ip] \in FlowMods
BY DEF FlowMods

\* The first port learned is a port.
LEMMA LookupIsPort ==
    ASSUME TypeOK, NEW s \in Switches, Known(s)
    PROVE  LookupOutPort(s) \in Ports
<1> DEFINE L == [mac : Hosts, port : Ports]
<1>1. macToPort[s] \in Seq(L) /\ macToPort[s] # <<>>
  BY DEF TypeOK, Known
<1>2. Head(macToPort[s]) \in L
  <2> HIDE DEF L
  <2> QED BY <1>1, TailFacts
<1> QED BY <1>2 DEF LookupOutPort

\* The fresh controller and the switches it has not seen are well typed.
LEMMA TypeInit == Init => TypeOK
<1> SUFFICES ASSUME Init PROVE TypeOK
  OBVIOUS
<1>1. routes \in Tables(Routes)
  BY EmptyTables DEF Init
<1>2. flows \in [Switches -> Tables(Flows)]
  BY EmptyTables DEF Init
<1>3. /\ datapaths \subseteq Switches /\ alive \subseteq datapaths
      /\ missed \subseteq Switches \X Clients
  BY DEF Init
<1>4. /\ macToPort \in [Switches -> Seq([mac : Hosts, port : Ports])]
      /\ inFlight \in [Switches -> Seq(FlowMods)]
  BY DEF Init
<1> QED BY <1>1, <1>2, <1>3, <1>4 DEF TypeOK

\* Every handler, of the controller and of the switches, keeps the types.
LEMMA TypeStep == TypeOK /\ [Next]_vars => TypeOK'
<1> SUFFICES ASSUME TypeOK, [Next]_vars PROVE TypeOK'
  OBVIOUS
<1> DEFINE Installed == {s \in datapaths : Known(s)}
<1>1. ASSUME NEW ip \in Clients, NEW target \in Servers, AddFlow(ip, target)
      PROVE  TypeOK'
  <2> DEFINE mod == [s \in Installed |->
                       [op |-> "install", ip |-> ip, target |-> target,
                        port |-> LookupOutPort(s)]]
  <2> DEFINE r == [target |-> target, left |-> Duration]
  <2>1. SendTo(Installed, ip, mod)
    BY <1>1 DEF AddFlow, InstallRedirect
  <2>2. Installed \in SUBSET Switches
    BY DEF TypeOK
  <2>3. \A s \in Installed : mod[s] \in FlowMods
    BY <2>2, LookupIsPort, InstallIsFlowMod
  <2>4. /\ inFlight' \in [Switches -> Seq(FlowMods)]
        /\ missed' \subseteq Switches \X Clients
    <3> HIDE DEF mod, Installed
    <3> QED BY <2>1, <2>2, <2>3, SendToTypes
  <2>5. r \in Routes
    BY SdnConstantsOK DEF Routes, SdnConstantsOK
  <2>6. routes' = Set(routes, ip, r) /\ routes \in Tables(Routes)
    BY <1>1 DEF AddFlow, TypeOK
  <2>7. routes' \in Tables(Routes)
    <3> HIDE DEF r
    <3> QED BY <2>5, <2>6, SetIsTable
  <2> QED BY <1>1, <2>4, <2>7 DEF AddFlow, TypeOK
<1>2. ASSUME NEW ip \in Clients, DelFlow(ip)
      PROVE  TypeOK'
  <2> DEFINE mod == [s \in datapaths |-> [op |-> "remove", ip |-> ip]]
  <2>1. SendTo(datapaths, ip, mod)
    BY <1>2 DEF DelFlow
  <2>2. datapaths \in SUBSET Switches
    BY DEF TypeOK
  <2>3. \A s \in datapaths : mod[s] \in FlowMods
    BY RemoveIsFlowMod
  <2>4. /\ inFlight' \in [Switches -> Seq(FlowMods)]
        /\ missed' \subseteq Switches \X Clients
    <3> HIDE DEF mod
    <3> QED BY <2>1, <2>2, <2>3, SendToTypes
  <2>5. routes' \in Tables(Routes)
    BY <1>2, WithoutFacts DEF DelFlow, TypeOK
  <2> QED BY <1>2, <2>4, <2>5 DEF DelFlow, TypeOK
<1>3. ASSUME NEW s \in Switches, SwitchFeatures(s)
      PROVE  TypeOK'
  BY <1>3 DEF SwitchFeatures, TypeOK
<1>4. ASSUME NEW s \in Switches, SwitchLost(s)
      PROVE  TypeOK'
  <2>1. inFlight' \in [Switches -> Seq(FlowMods)]
    BY <1>4 DEF SwitchLost, TypeOK
  <2>2. \A i \in DOMAIN inFlight[s] : inFlight[s][i] \in FlowMods
    BY DEF TypeOK
  <2>3. \A i \in DOMAIN inFlight[s] : inFlight[s][i].ip \in Clients
    BY <2>2 DEF FlowMods
  <2>4. missed' \subseteq Switches \X Clients
    BY <1>4, <2>3 DEF SwitchLost, TypeOK
  <2>5. alive' \subseteq datapaths'
    BY <1>4 DEF SwitchLost, TypeOK
  <2> QED BY <1>4, <2>1, <2>4, <2>5 DEF SwitchLost, TypeOK
<1>5. ASSUME NEW s \in Switches, FlowModApplied(s)
      PROVE  TypeOK'
  <2>1. inFlight[s] \in Seq(FlowMods) /\ inFlight[s] # <<>> /\ flows[s] \in Tables(Flows)
    BY <1>5 DEF FlowModApplied, TypeOK
  <2>2. Tail(inFlight[s]) \in Seq(FlowMods)
    BY <2>1, TailFacts
  <2>3. Applied(flows[s], Head(inFlight[s])) \in Tables(Flows)
    BY <2>1, ApplyKeepsLeads
  <2>4. inFlight' \in [Switches -> Seq(FlowMods)]
    BY <1>5, <2>2 DEF FlowModApplied, TypeOK
  <2>5. flows' \in [Switches -> Tables(Flows)]
    BY <1>5, <2>3 DEF FlowModApplied, TypeOK
  <2>6. missed' \subseteq Switches \X Clients
    BY <1>5 DEF FlowModApplied, TypeOK
  <2> QED BY <1>5, <2>4, <2>5, <2>6 DEF FlowModApplied, TypeOK
<1>6. ASSUME NEW s \in Switches, NEW ip \in Clients, Redirected(s, ip)
      PROVE  TypeOK'
  <2>1. flows[s] \in Tables(Flows) /\ ip \in DOMAIN flows[s]
    BY <1>6 DEF Redirected, TypeOK
  <2> DEFINE g == [flows[s] EXCEPT ![ip].idle = 0]
  <2>2. flows[s] \in [DOMAIN flows[s] -> Flows] /\ DOMAIN flows[s] \in SUBSET Clients
    BY <2>1, TableFacts
  <2>3. g \in [DOMAIN flows[s] -> Flows]
    BY <2>1, <2>2, SdnConstantsOK DEF Flows, SdnConstantsOK
  <2>4. g \in Tables(Flows)
    BY <2>2, <2>3, IsTable
  <2>5. flows' = [flows EXCEPT ![s] = g]
    BY <1>6, <2>1 DEF Redirected, TypeOK
  <2> HIDE DEF g
  <2>6. flows' \in [Switches -> Tables(Flows)]
    BY <2>4, <2>5 DEF TypeOK
  <2> QED BY <1>6, <2>6 DEF Redirected, TypeOK
<1>7. ASSUME NEW s \in Switches, NEW ip \in Clients, FlowIdle(s, ip)
      PROVE  TypeOK'
  <2>1. Without(flows[s], ip) \in Tables(Flows)
    BY WithoutFacts DEF TypeOK
  <2>2. flows' \in [Switches -> Tables(Flows)]
    BY <1>7, <2>1 DEF FlowIdle, TypeOK
  <2> QED BY <1>7, <2>2 DEF FlowIdle, TypeOK
<1>8. ASSUME NEW s \in Switches, NEW ip \in Clients \cup {Elsewhere},
             NEW mac \in Hosts, NEW at \in PortsOf[s][mac], PacketIn(s, mac, ip, at)
      PROVE  TypeOK'
  <2>1. /\ macToPort' \in [Switches -> Seq([mac : Hosts, port : Ports])]
        /\ Head(macToPort'[s]).port \in Ports
    BY <1>8, LearnFacts DEF PacketIn
  <2>2. routes' \in Tables(Routes)
    <3>1. routes' = routes \/ routes' = Without(routes, ip)
      BY <1>8 DEF PacketIn
    <3>2. routes \in Tables(Routes) /\ Without(routes, ip) \in Tables(Routes)
      BY WithoutFacts DEF TypeOK
    <3> QED BY <3>1, <3>2
  <2>3. /\ inFlight' \in [Switches -> Seq(FlowMods)]
        /\ missed' \subseteq Switches \X Clients
    <3>1. CASE UNCHANGED <<inFlight, missed>>
      BY <3>1 DEF TypeOK
    <3>2. CASE ~UNCHANGED <<inFlight, missed>>
      <4> DEFINE mod == [t \in {s} |->
                           [op |-> "install", ip |-> ip, target |-> routes[ip].target,
                            port |-> Head(macToPort'[t]).port]]
      <4>1. ip \in DOMAIN routes /\ SendTo({s}, ip, mod)
        BY <1>8, <3>2 DEF PacketIn
      <4>2. routes \in Tables(Routes)
        BY DEF TypeOK
      <4>3. ip \in Clients /\ routes[ip] \in Routes
        BY <4>1, <4>2, TableFacts
      <4>4. routes[ip].target \in Servers
        BY <4>3 DEF Routes
      <4>5. \A t \in {s} : mod[t] \in FlowMods
        BY <2>1, <4>3, <4>4, InstallIsFlowMod
      <4>6. {s} \in SUBSET Switches
        OBVIOUS
      <4> HIDE DEF mod
      <4> QED BY <4>1, <4>3, <4>5, <4>6, SendToTypes
    <3> QED BY <3>1, <3>2
  <2> QED BY <1>8, <2>1, <2>2, <2>3 DEF PacketIn, TypeOK
<1>9. ASSUME Tick PROVE TypeOK'
  <2>1. routes' \in Tables(Routes)
    <3>1. routes \in [DOMAIN routes -> Routes] /\ DOMAIN routes \in SUBSET Clients
      BY TableFacts DEF TypeOK
    <3>2. \A ip \in DOMAIN routes :
            [routes[ip] EXCEPT !.left = IF @ = 0 THEN 0 ELSE @ - 1] \in Routes
      BY <3>1, SdnConstantsOK DEF Routes, SdnConstantsOK
    <3>3. routes' \in [DOMAIN routes -> Routes]
      BY <1>9, <3>2 DEF Tick
    <3> QED BY <3>1, <3>3, IsTable
  <2>2. ASSUME NEW s \in Switches PROVE flows'[s] \in Tables(Flows)
    <3> DEFINE D == DOMAIN flows[s]
    <3>1. flows[s] \in [D -> Flows] /\ D \in SUBSET Clients
      BY TableFacts DEF TypeOK
    <3>0. ASSUME NEW e \in Flows
          PROVE  [e EXCEPT !.idle = IF @ = IdleTimeout THEN @ ELSE @ + 1] \in Flows
      BY SdnConstantsOK DEF Flows, SdnConstantsOK
    <3>2. \A ip \in D :
            [flows[s][ip] EXCEPT !.idle = IF @ = IdleTimeout THEN @ ELSE @ + 1] \in Flows
      BY <3>0, <3>1
    <3>3. flows'[s] = [ip \in D |->
            [flows[s][ip] EXCEPT !.idle = IF @ = IdleTimeout THEN @ ELSE @ + 1]]
      BY <1>9 DEF Tick
    <3>4. flows'[s] \in [D -> Flows]
      BY <3>2, <3>3
    <3> HIDE DEF D
    <3> QED BY <3>1, <3>4, IsTable
  <2>3. flows' \in [Switches -> Tables(Flows)]
    BY <1>9, <2>2 DEF Tick
  <2> QED BY <1>9, <2>1, <2>3 DEF Tick, TypeOK
<1>10. CASE UNCHANGED vars
  BY <1>10 DEF vars, TypeOK
<1> QED BY <1>1, <1>2, <1>3, <1>4, <1>5, <1>6, <1>7, <1>8, <1>9, <1>10
        DEF Next, Switch

\* Type correctness of the controller and the switches.
THEOREM SdnTypes == Spec => []TypeOK
BY TypeInit, TypeStep, PTL DEF Spec

-----------------------------------------------------------------------------
(* The flows follow the routes. The last flow-mod on its way decides about  *)
(* a client, and it says what the route says; a switch that was down when   *)
(* the route changed has nothing on its way, and is marked as having missed *)
(* the change. A switch that gets no flow-mod because the controller knows  *)
(* no port of it, or has never heard of it, holds no flow either.           *)

OnlyAliveReceive == \A s \in Switches : s \notin alive => inFlight[s] = <<>>

RedirectsAreKnown ==
    \A s \in Switches :
      \/ DOMAIN flows[s] # {}
      \/ \E i \in DOMAIN inFlight[s] : inFlight[s][i].op = "install"
      => s \in datapaths /\ Known(s)

LastWordIsTheRoute ==
    \A s \in Switches, target \in Servers : \A ip \in DOMAIN routes :
      WillLead(s, ip, target) =>
        \/ routes[ip].target = target
        \/ <<s, ip>> \in missed /\ NoneAbout(inFlight[s], ip)

SdnInv == TypeOK /\ OnlyAliveReceive /\ RedirectsAreKnown /\ LastWordIsTheRoute

\* What a flow-mod says: the client goes to this target.
Installs(mod, target) == mod.op = "install" /\ mod.target = target

\* One flow-mod about client c for each of the switches of S.
Sent(S, c, mod) ==
    /\ S \subseteq Switches /\ c \in Clients
    /\ \A s \in S : mod[s] \in FlowMods /\ mod[s].ip = c
    /\ SendTo(S, c, mod)
    /\ flows' = flows

\* A switch that is up and gets a flow-mod will do what it says; one that is down
\* has missed it.
LEMMA SentDecides ==
    ASSUME TypeOK, NEW S, NEW c, NEW mod, Sent(S, c, mod),
           NEW s \in Switches, NEW target
    PROVE  /\ s \in S \cap alive =>
                (WillLead(s, c, target)' <=> Installs(mod[s], target))
           /\ s \in S \ alive => <<s, c>> \in missed'
           /\ missed \subseteq missed'
<1>1. /\ s \in S \cap alive => inFlight'[s] = Append(inFlight[s], mod[s])
      /\ s \in S \ alive => <<s, c>> \in missed'
      /\ missed \subseteq missed'
  BY DEF Sent, SendTo
<1>2. inFlight[s] \in Seq(FlowMods) /\ flows' = flows
  BY DEF Sent, TypeOK
<1>3. ASSUME s \in S \cap alive
      PROVE  WillLead(s, c, target)' <=> Installs(mod[s], target)
  <2> DEFINE m == mod[s]
  <2>1. m \in FlowMods /\ m.ip = c
    BY <1>3 DEF Sent
  <2>2. Leads(Append(inFlight[s], m), flows[s], m.ip, target) <=>
          m.op = "install" /\ m.target = target
    <3> HIDE DEF m
    <3> QED BY <1>2, <2>1, AppendDecides
  <2> QED BY <1>1, <1>2, <1>3, <2>1, <2>2 DEF WillLead, Installs
<1> QED BY <1>1, <1>3

\* Nothing changes for the other clients, nor at the other switches.
LEMMA SentKeepsOthers ==
    ASSUME TypeOK, NEW S, NEW c, NEW mod, Sent(S, c, mod),
           NEW s \in Switches, NEW ip, NEW target, ip # c \/ s \notin S \cap alive
    PROVE  /\ NoneAbout(inFlight[s], ip)' <=> NoneAbout(inFlight[s], ip)
           /\ WillLead(s, ip, target)' <=> WillLead(s, ip, target)
<1>1. /\ s \in S \cap alive => inFlight'[s] = Append(inFlight[s], mod[s])
      /\ s \notin S \cap alive => inFlight'[s] = inFlight[s]
      /\ flows' = flows
  BY DEF Sent, SendTo
<1>2. inFlight[s] \in Seq(FlowMods)
  BY DEF TypeOK
<1>3. CASE s \notin S \cap alive
  BY <1>1, <1>3 DEF WillLead
<1>4. CASE s \in S \cap alive
  <2>1. mod[s] \in FlowMods /\ ip # mod[s].ip
    BY <1>4 DEF Sent
  <2>2. /\ NoneAbout(Append(inFlight[s], mod[s]), ip) <=> NoneAbout(inFlight[s], ip)
        /\ Leads(Append(inFlight[s], mod[s]), flows[s], ip, target) <=>
             Leads(inFlight[s], flows[s], ip, target)
    BY <1>2, <2>1, AppendKeepsOthers
  <2> QED BY <1>1, <1>4, <2>2 DEF WillLead
<1> QED BY <1>3, <1>4

\* POST /sdns/flows sends the route to every switch it knows a port of.
LEMMA AddFlowSends ==
    ASSUME TypeOK, NEW c \in Clients, NEW to \in Servers, AddFlow(c, to)
    PROVE  \E mod : /\ Sent({s \in datapaths : Known(s)}, c, mod)
                    /\ \A s \in {t \in datapaths : Known(t)} : mod[s].target = to
<1> DEFINE S == {t \in datapaths : Known(t)}
<1> DEFINE mod == [t \in S |-> [op |-> "install", ip |-> c, target |-> to,
                                port |-> LookupOutPort(t)]]
<1>1. SendTo(S, c, mod) /\ flows' = flows
  BY DEF AddFlow, InstallRedirect
<1>2. S \subseteq Switches
  BY DEF TypeOK
<1>3. \A t \in S : mod[t] \in FlowMods /\ mod[t].ip = c /\ mod[t].target = to
  BY <1>2, LookupIsPort, InstallIsFlowMod
<1> HIDE DEF mod
<1>4. Sent(S, c, mod)
  BY <1>1, <1>2, <1>3 DEF Sent
<1> QED BY <1>3, <1>4

\* DELETE /sdns/flows/{ip} sends the deletion to every switch there ever was.
LEMMA DelFlowSends ==
    ASSUME TypeOK, NEW c \in Clients, DelFlow(c)
    PROVE  \E mod : /\ Sent(datapaths, c, mod)
                    /\ \A s \in datapaths : mod[s].op # "install"
<1> DEFINE mod == [t \in datapaths |-> [op |-> "remove", ip |-> c]]
<1>1. SendTo(datapaths, c, mod) /\ flows' = flows
  BY DEF DelFlow
<1>2. datapaths \subseteq Switches
  BY DEF TypeOK
<1>3. \A t \in datapaths : /\ mod[t] \in FlowMods /\ mod[t].ip = c
                           /\ mod[t].op # "install"
  BY RemoveIsFlowMod
<1> HIDE DEF mod
<1>4. Sent(datapaths, c, mod)
  BY <1>1, <1>2, <1>3 DEF Sent
<1> QED BY <1>3, <1>4

\* A packet of a client with a route in force sends the route to its switch.
LEMMA PacketInSends ==
    ASSUME TypeOK, NEW d \in Switches, NEW c, NEW mac \in Hosts, NEW at \in PortsOf[d][mac],
           PacketIn(d, mac, c, at), ~UNCHANGED <<inFlight, missed>>
    PROVE  /\ c \in DOMAIN routes /\ routes[c].left > 0 /\ routes' = routes
           /\ d \in alive
           /\ \E mod : Sent({d}, c, mod) /\ mod[d].target = routes[c].target
<1> DEFINE mod == [t \in {d} |->
                     [op |-> "install", ip |-> c, target |-> routes[c].target,
                      port |-> Head(macToPort'[t]).port]]
<1>1. /\ c \in DOMAIN routes /\ routes[c].left > 0 /\ routes' = routes
      /\ d \in alive /\ SendTo({d}, c, mod) /\ flows' = flows
  BY DEF PacketIn
<1>2. c \in Clients /\ routes[c] \in Routes
  BY <1>1, TableFacts DEF TypeOK
<1>3. Head(macToPort'[d]).port \in Ports
  BY LearnFacts DEF PacketIn
<1>4. \A t \in {d} : /\ mod[t] \in FlowMods /\ mod[t].ip = c
                     /\ mod[t].target = routes[c].target
  BY <1>2, <1>3, InstallIsFlowMod DEF Routes
<1>5. \E m : m = mod
  OBVIOUS
<1> HIDE DEF mod
<1>6. PICK m : m = mod
  BY <1>5
<1>7. Sent({d}, c, m)
  BY <1>1, <1>2, <1>4, <1>6 DEF Sent
<1> QED BY <1>1, <1>4, <1>6, <1>7

\* What a switch does when it applies the next flow-mod.
LEMMA ApplyFacts ==
    ASSUME TypeOK, NEW d \in Switches, FlowModApplied(d),
           NEW s \in Switches, NEW ip, NEW target
    PROVE  /\ WillLead(s, ip, target)' <=> WillLead(s, ip, target)
           /\ <<s, ip>> \in missed /\ NoneAbout(inFlight[s], ip) =>
                <<s, ip>> \in missed' /\ NoneAbout(inFlight[s], ip)'
<1>1. CASE s = d
  <2>1. /\ inFlight[d] \in Seq(FlowMods) /\ inFlight[d] # <<>>
        /\ flows[d] \in Tables(Flows)
    BY DEF FlowModApplied, TypeOK
  <2>2. /\ inFlight'[d] = Tail(inFlight[d])
        /\ flows'[d] = Applied(flows[d], Head(inFlight[d]))
        /\ missed' = missed \ {<<d, Head(inFlight[d]).ip>>}
    BY DEF FlowModApplied, TypeOK
  <2>3. /\ NoneAbout(inFlight[d], ip) =>
             ip # Head(inFlight[d]).ip /\ NoneAbout(Tail(inFlight[d]), ip)
        /\ Leads(Tail(inFlight[d]), Applied(flows[d], Head(inFlight[d])), ip, target)
             <=> Leads(inFlight[d], flows[d], ip, target)
    BY <2>1, ApplyKeepsLeads
  <2> QED BY <1>1, <2>2, <2>3 DEF WillLead
<1>2. CASE s # d
  <2>1. inFlight'[s] = inFlight[s] /\ flows'[s] = flows[s]
    BY <1>2 DEF FlowModApplied, TypeOK
  <2>2. <<s, ip>> \in missed => <<s, ip>> \in missed'
    BY <1>2 DEF FlowModApplied
  <2> QED BY <2>1, <2>2 DEF WillLead
<1> QED BY <1>1, <1>2

\* The steps that only touch flows, by taking them away or counting their idle
\* time, or that only touch routes, lead nobody to a new place.
LEMMA QuietFacts ==
    ASSUME TypeOK, NEW d \in Switches, NEW c \in Clients,
           Redirected(d, c) \/ FlowIdle(d, c) \/ Tick \/ SwitchFeatures(d)
             \/ UNCHANGED <<inFlight, flows>>,
           NEW s \in Switches, NEW ip, NEW target
    PROVE  /\ inFlight' = inFlight
           /\ WillLead(s, ip, target)' => WillLead(s, ip, target)
           /\ DOMAIN flows'[s] \subseteq DOMAIN flows[s]
<1>1. inFlight' = inFlight
  BY DEF Redirected, FlowIdle, Tick, SwitchFeatures
<1>2. flows[s] \in Tables(Flows) /\ flows[s] = [i \in DOMAIN flows[s] |-> flows[s][i]]
  BY TableFacts DEF TypeOK
<1>3. CASE Redirected(d, c) \/ Tick
  <2>1. /\ DOMAIN flows'[s] = DOMAIN flows[s]
        /\ \A i \in DOMAIN flows[s] : flows'[s][i].target = flows[s][i].target
    <3>0. \A i \in DOMAIN flows[s] :
            flows[s][i] \in [target : Servers, port : Ports, idle : 0 .. IdleTimeout]
      BY <1>2, TableFacts DEF Flows
    <3>1. CASE Redirected(d, c)
      BY <1>2, <3>0, <3>1 DEF Redirected, TypeOK
    <3>2. CASE Tick
      BY <3>0, <3>2 DEF Tick
    <3> QED BY <1>3, <3>1, <3>2
  <2>2. Leads(inFlight[s], flows'[s], ip, target) <=>
          Leads(inFlight[s], flows[s], ip, target)
    BY <2>1, SameTargetsSameLeads
  <2> QED BY <1>1, <2>1, <2>2 DEF WillLead
<1>4. CASE FlowIdle(d, c)
  <2>1. CASE s = d
    <3>1. flows'[s] = Without(flows[s], c)
      BY <1>4, <2>1 DEF FlowIdle, TypeOK
    <3>2. Leads(inFlight[s], Without(flows[s], c), ip, target) =>
            Leads(inFlight[s], flows[s], ip, target)
      BY <1>2, WithoutLeadsNoFurther
    <3>3. DOMAIN Without(flows[s], c) \subseteq DOMAIN flows[s]
      BY DEF Without, Restrict
    <3> QED BY <1>1, <3>1, <3>2, <3>3 DEF WillLead
  <2>2. CASE s # d
    <3>1. flows'[s] = flows[s]
      BY <1>4, <2>2 DEF FlowIdle, TypeOK
    <3> QED BY <1>1, <3>1 DEF WillLead
  <2> QED BY <2>1, <2>2
<1>5. CASE SwitchFeatures(d) \/ UNCHANGED <<inFlight, flows>>
  BY <1>5 DEF SwitchFeatures, WillLead
<1> QED BY <1>1, <1>3, <1>4, <1>5

\* A connection that breaks takes the last word about a client with it, but then
\* the switch is marked as having missed it.
LEMMA LostFacts ==
    ASSUME TypeOK, NEW d \in Switches, SwitchLost(d),
           NEW s \in Switches, NEW ip, NEW target
    PROVE  /\ s # d => /\ inFlight'[s] = inFlight[s]
                       /\ WillLead(s, ip, target)' <=> WillLead(s, ip, target)
           /\ NoneAbout(inFlight[s], ip) =>
                /\ NoneAbout(inFlight[s], ip)'
                /\ WillLead(s, ip, target)' <=> WillLead(s, ip, target)
           /\ s = d => inFlight'[d] = <<>> /\ NoneAbout(inFlight[d], ip)'
           /\ s = d /\ ~NoneAbout(inFlight[d], ip) => <<d, ip>> \in missed'
           /\ missed \subseteq missed'
<1>1. CASE s # d
  <2>1. inFlight'[s] = inFlight[s] /\ flows' = flows /\ missed \subseteq missed'
    BY <1>1 DEF SwitchLost, TypeOK
  <2> QED BY <1>1, <2>1 DEF WillLead
<1>2. CASE s = d
  <2>1. inFlight'[d] = <<>> /\ flows' = flows /\ missed \subseteq missed'
    BY DEF SwitchLost, TypeOK
  <2>2. ~NoneAbout(inFlight[d], ip) => <<d, ip>> \in missed'
    BY DEF SwitchLost, NoneAbout
  <2>3. /\ NoneAbout(<<>>, ip)
        /\ NoneAbout(inFlight[d], ip) =>
             (Leads(<<>>, flows[d], ip, target) <=>
                Leads(inFlight[d], flows[d], ip, target))
    BY NothingOnItsWay
  <2> QED BY <1>2, <2>1, <2>2, <2>3 DEF WillLead
<1> QED BY <1>1, <1>2

\* Nothing is on its way to a controller that has just started.
LEMMA SdnInvInit == Init => SdnInv
<1> SUFFICES ASSUME Init PROVE SdnInv
  OBVIOUS
<1>1. TypeOK
  BY TypeInit
<1>2. /\ \A s \in Switches : inFlight[s] = <<>> /\ DOMAIN flows[s] = {}
      /\ DOMAIN routes = {}
  BY EmptyTables DEF Init
<1>3. OnlyAliveReceive /\ RedirectsAreKnown /\ LastWordIsTheRoute
  BY <1>2 DEF OnlyAliveReceive, RedirectsAreKnown, LastWordIsTheRoute
<1> QED BY <1>1, <1>3 DEF SdnInv

\* Only to a live switch is anything sent, and what is lost leaves nothing.
LEMMA OnlyAliveStep ==
    ASSUME SdnInv, [Next]_vars
    PROVE  OnlyAliveReceive'
<1> SUFFICES ASSUME NEW s \in Switches, s \notin alive'
             PROVE  inFlight'[s] = <<>>
  BY DEF OnlyAliveReceive
<1>1. TypeOK /\ (s \notin alive => inFlight[s] = <<>>)
  BY DEF SdnInv, OnlyAliveReceive
<1>2. ASSUME NEW ip \in Clients, NEW target \in Servers, AddFlow(ip, target)
      PROVE  inFlight'[s] = <<>>
  BY <1>1, <1>2 DEF AddFlow, InstallRedirect, SendTo
<1>3. ASSUME NEW ip \in Clients, DelFlow(ip)
      PROVE  inFlight'[s] = <<>>
  BY <1>1, <1>3 DEF DelFlow, SendTo
<1>4. ASSUME NEW d \in Switches, SwitchFeatures(d)
      PROVE  inFlight'[s] = <<>>
  BY <1>1, <1>4 DEF SwitchFeatures
<1>5. ASSUME NEW d \in Switches, SwitchLost(d)
      PROVE  inFlight'[s] = <<>>
  BY <1>1, <1>5 DEF SwitchLost, TypeOK
<1>6. ASSUME NEW d \in Switches, FlowModApplied(d)
      PROVE  inFlight'[s] = <<>>
  BY <1>1, <1>6 DEF FlowModApplied, TypeOK
<1>7. ASSUME NEW d \in Switches, NEW ip \in Clients, Redirected(d, ip) \/ FlowIdle(d, ip)
      PROVE  inFlight'[s] = <<>>
  BY <1>1, <1>7 DEF Redirected, FlowIdle
<1>8. ASSUME NEW d \in Switches, NEW ip \in Clients \cup {Elsewhere},
             NEW mac \in Hosts, NEW at \in PortsOf[d][mac], PacketIn(d, mac, ip, at)
      PROVE  inFlight'[s] = <<>>
  BY <1>1, <1>8 DEF PacketIn, SendTo
<1>9. CASE Tick \/ UNCHANGED vars
  BY <1>1, <1>9 DEF Tick, vars
<1> QED BY <1>2, <1>3, <1>4, <1>5, <1>6, <1>7, <1>8, <1>9 DEF Next, Switch

\* A flow-mod on its way, or an element of what is left of a sequence of them.
InstallOnWay(s) == \E i \in DOMAIN inFlight[s] : inFlight[s][i].op = "install"

\* After sending, an install is on its way only if one was or one was sent.
LEMMA SendInstalls ==
    ASSUME TypeOK, NEW S \in SUBSET Switches, NEW c \in Clients, NEW mod,
           \A s \in S : mod[s] \in FlowMods, SendTo(S, c, mod),
           NEW s \in Switches, InstallOnWay(s)'
    PROVE  InstallOnWay(s) \/ (s \in S \cap alive /\ mod[s].op = "install")
<1>1. CASE s \in S \cap alive
  <2> DEFINE q == inFlight[s]
  <2> DEFINE m == mod[s]
  <2>1. inFlight'[s] = Append(q, m) /\ q \in Seq(FlowMods) /\ m \in FlowMods
    BY <1>1 DEF SendTo, TypeOK
  <2> HIDE DEF q, m
  <2>2. PICK i \in DOMAIN Append(q, m) : Append(q, m)[i].op = "install"
    BY <2>1 DEF InstallOnWay
  <2>3. \/ i \in DOMAIN q /\ q[i] = Append(q, m)[i]
        \/ m = Append(q, m)[i]
    BY <2>1, AppendFacts
  <2> QED BY <1>1, <2>2, <2>3 DEF InstallOnWay, q, m
<1>2. CASE s \notin S \cap alive
  BY <1>2 DEF SendTo, InstallOnWay
<1> QED BY <1>1, <1>2

\* A switch gets a flow only through a port the controller has learned.
LEMMA KnownStep ==
    ASSUME SdnInv, [Next]_vars
    PROVE  RedirectsAreKnown'
<1> SUFFICES ASSUME NEW s \in Switches, DOMAIN flows'[s] # {} \/ InstallOnWay(s)'
             PROVE  s \in datapaths' /\ Known(s)'
  BY DEF RedirectsAreKnown, InstallOnWay
<1>1. /\ TypeOK
      /\ DOMAIN flows[s] # {} \/ InstallOnWay(s) => s \in datapaths /\ Known(s)
  BY DEF SdnInv, RedirectsAreKnown, InstallOnWay
<1>2. ASSUME NEW ip \in Clients, NEW target \in Servers, AddFlow(ip, target)
      PROVE  s \in datapaths' /\ Known(s)'
  <2> DEFINE S == {t \in datapaths : Known(t)}
  <2> DEFINE mod == [t \in S |-> [op |-> "install", ip |-> ip, target |-> target,
                                  port |-> LookupOutPort(t)]]
  <2>1. SendTo(S, ip, mod) /\ UNCHANGED <<datapaths, macToPort, flows>>
    BY <1>2 DEF AddFlow, InstallRedirect
  <2>2. S \in SUBSET Switches /\ \A t \in S : mod[t] \in FlowMods
    BY <1>1, LookupIsPort, InstallIsFlowMod DEF TypeOK
  <2>3. InstallOnWay(s)' => InstallOnWay(s) \/ s \in S
    <3> HIDE DEF S, mod
    <3> QED BY <1>1, <2>1, <2>2, SendInstalls
  <2>4. Known(s) <=> Known(s)'
    BY <2>1 DEF Known
  <2> QED BY <1>1, <2>1, <2>3, <2>4
<1>3. ASSUME NEW ip \in Clients, DelFlow(ip)
      PROVE  s \in datapaths' /\ Known(s)'
  <2> DEFINE mod == [t \in datapaths |-> [op |-> "remove", ip |-> ip]]
  <2>1. SendTo(datapaths, ip, mod) /\ UNCHANGED <<datapaths, macToPort, flows>>
    BY <1>3 DEF DelFlow
  <2>2. /\ datapaths \in SUBSET Switches
        /\ \A t \in datapaths : mod[t] \in FlowMods /\ mod[t].op # "install"
    BY <1>1, RemoveIsFlowMod DEF TypeOK
  <2>3. InstallOnWay(s)' => InstallOnWay(s)
    <3> HIDE DEF mod
    <3> QED BY <1>1, <2>1, <2>2, SendInstalls
  <2> QED BY <1>1, <2>1, <2>3 DEF Known
<1>4. ASSUME NEW d \in Switches, SwitchFeatures(d)
      PROVE  s \in datapaths' /\ Known(s)'
  BY <1>1, <1>4 DEF SwitchFeatures, Known, InstallOnWay
<1>5. ASSUME NEW d \in Switches, SwitchLost(d)
      PROVE  s \in datapaths' /\ Known(s)'
  <2>1. InstallOnWay(s)' => InstallOnWay(s)
    BY <1>1, <1>5 DEF SwitchLost, InstallOnWay, TypeOK
  <2> QED BY <1>1, <1>5, <2>1 DEF SwitchLost, Known
<1>6. ASSUME NEW d \in Switches, FlowModApplied(d)
      PROVE  s \in datapaths' /\ Known(s)'
  <2>1. CASE s = d
    <3> DEFINE q == inFlight[s]
    <3>1. /\ q \in Seq(FlowMods) /\ q # <<>> /\ flows[s] \in Tables(Flows)
          /\ inFlight'[s] = Tail(q) /\ flows'[s] = Applied(flows[s], Head(q))
      BY <1>1, <1>6, <2>1 DEF FlowModApplied, TypeOK
    <3> HIDE DEF q
    <3>2. /\ Head(q) = q[1] /\ 1 \in DOMAIN q
          /\ \A i \in DOMAIN Tail(q) : i + 1 \in DOMAIN q /\ Tail(q)[i] = q[i + 1]
      <4>1. /\ Head(q) = q[1] /\ Len(q) \in Nat \ {0} /\ DOMAIN q = 1 .. Len(q)
            /\ DOMAIN Tail(q) = 1 .. Len(q) - 1
            /\ \A i \in 1 .. Len(q) - 1 : Tail(q)[i] = q[i + 1]
        BY <3>1, TailFacts
      <4> QED BY <4>1
    <3>3. InstallOnWay(s)' => InstallOnWay(s)
      BY <3>1, <3>2 DEF InstallOnWay, q
    <3>4. Head(q).op = "install" => InstallOnWay(s)
      BY <3>2 DEF InstallOnWay, q
    <3>5. Head(q).op # "install" => DOMAIN flows'[s] \subseteq DOMAIN flows[s]
      <4>1. Head(q) \in FlowMods
        BY <3>1, TailFacts
      <4>2. Head(q).op \in {"install", "remove"}
        BY <4>1 DEF FlowMods
      <4> QED BY <3>1, <4>2 DEF Applied, Without, Restrict
    <3> QED BY <1>1, <1>6, <3>3, <3>4, <3>5 DEF FlowModApplied, Known
  <2>2. CASE s # d
    BY <1>1, <1>6, <2>2 DEF FlowModApplied, TypeOK, Known, InstallOnWay
  <2> QED BY <2>1, <2>2
<1>7. ASSUME NEW d \in Switches, NEW ip \in Clients, Redirected(d, ip) \/ FlowIdle(d, ip)
      PROVE  s \in datapaths' /\ Known(s)'
  <2>1. DOMAIN flows'[s] \subseteq DOMAIN flows[s]
    BY <1>1, <1>7, QuietFacts
  <2> QED BY <1>1, <1>7, <2>1 DEF Redirected, FlowIdle, Known, InstallOnWay
<1>8. ASSUME NEW d \in Switches, NEW ip \in Clients \cup {Elsewhere},
             NEW mac \in Hosts, NEW at \in PortsOf[d][mac], PacketIn(d, mac, ip, at)
      PROVE  s \in datapaths' /\ Known(s)'
  <2>1. /\ macToPort'[d] # <<>> /\ Head(macToPort'[d]).port \in Ports
        /\ Known(s) => Known(s)'
    BY <1>1, <1>8, LearnFacts DEF PacketIn
  <2>2. CASE UNCHANGED inFlight
    BY <1>1, <1>8, <2>1, <2>2 DEF PacketIn, InstallOnWay
  <2>3. CASE ~UNCHANGED inFlight
    <3> DEFINE mod == [t \in {d} |->
                         [op |-> "install", ip |-> ip, target |-> routes[ip].target,
                          port |-> Head(macToPort'[t]).port]]
    <3>1. ip \in DOMAIN routes /\ SendTo({d}, ip, mod)
      BY <1>8, <2>3 DEF PacketIn
    <3>2. ip \in Clients /\ routes[ip] \in Routes
      BY <1>1, <3>1, TableFacts DEF TypeOK
    <3>3. \A t \in {d} : mod[t] \in FlowMods
      BY <2>1, <3>2, InstallIsFlowMod DEF Routes
    <3>4. {d} \in SUBSET Switches
      OBVIOUS
    <3> HIDE DEF mod
    <3>5. InstallOnWay(s)' => InstallOnWay(s) \/ s \in {d} \cap alive
      BY <1>1, <3>1, <3>2, <3>3, <3>4, SendInstalls
    <3> QED BY <1>1, <1>8, <2>1, <3>5 DEF PacketIn, TypeOK, Known
  <2> QED BY <2>2, <2>3
<1>9. ASSUME Tick PROVE s \in datapaths' /\ Known(s)'
  BY <1>1, <1>9 DEF Tick, Known, InstallOnWay
<1>10. CASE UNCHANGED vars
  BY <1>1, <1>10 DEF vars, Known, InstallOnWay
<1> QED BY <1>2, <1>3, <1>4, <1>5, <1>6, <1>7, <1>8, <1>9, <1>10 DEF Next, Switch

\* Whatever is sent, applied, lost, added, deleted or expired, the last word on
\* its way to a switch is the route's, or the switch is known to have missed it.
LEMMA LastWordStep ==
    ASSUME SdnInv, [Next]_vars
    PROVE  LastWordIsTheRoute'
<1> DEFINE Good(s, ip, target) ==
      \/ routes[ip].target = target
      \/ <<s, ip>> \in missed /\ NoneAbout(inFlight[s], ip)
<1> SUFFICES ASSUME NEW s \in Switches, NEW target \in Servers,
                    NEW ip \in DOMAIN routes', WillLead(s, ip, target)'
             PROVE  Good(s, ip, target)'
  BY DEF LastWordIsTheRoute
<1>1. /\ TypeOK
      /\ ip \in DOMAIN routes /\ WillLead(s, ip, target) => Good(s, ip, target)
  BY DEF SdnInv, LastWordIsTheRoute
<1>2. WillLead(s, ip, target) => s \in datapaths /\ Known(s)
  <2>1. SdnInv
    OBVIOUS
  <2>2. WillLead(s, ip, target) =>
          \/ DOMAIN flows[s] # {}
          \/ \E i \in DOMAIN inFlight[s] : inFlight[s][i].op = "install"
    BY DEF WillLead, Leads
  <2> QED BY <2>1, <2>2 DEF SdnInv, RedirectsAreKnown
<1>3. s \notin alive => NoneAbout(inFlight[s], ip)
  BY DEF SdnInv, OnlyAliveReceive, NoneAbout
<1>4. ASSUME NEW c \in Clients, NEW to \in Servers, AddFlow(c, to)
      PROVE  Good(s, ip, target)'
  <2> DEFINE S == {t \in datapaths : Known(t)}
  <2>1. PICK mod : Sent(S, c, mod) /\ \A t \in S : mod[t].target = to
    BY <1>1, <1>4, AddFlowSends
  <2>2. /\ DOMAIN routes' = DOMAIN routes \cup {c}
        /\ routes'[c].target = to
        /\ ip # c => routes'[ip] = routes[ip]
    BY <1>4 DEF AddFlow, Set
  <2>3. s \in S <=> s \in datapaths /\ Known(s)
    OBVIOUS
  <2> HIDE DEF S
  <2>4. /\ s \in S \cap alive => (WillLead(s, c, target)' <=> Installs(mod[s], target))
        /\ s \in S \ alive => <<s, c>> \in missed'
        /\ missed \subseteq missed'
    BY <1>1, <2>1, SentDecides
  <2>5. ip # c \/ s \notin S \cap alive =>
          /\ NoneAbout(inFlight[s], ip)' <=> NoneAbout(inFlight[s], ip)
          /\ WillLead(s, ip, target)' <=> WillLead(s, ip, target)
    BY <1>1, <2>1, SentKeepsOthers
  <2>6. CASE ip # c
    <3>1. Good(s, ip, target)
      BY <1>1, <2>2, <2>5, <2>6
    <3> QED BY <2>2, <2>4, <2>5, <2>6, <3>1
  <2>7. CASE ip = c /\ s \in S \cap alive
    BY <2>1, <2>2, <2>4, <2>7 DEF Installs
  <2>8. CASE ip = c /\ s \notin S \cap alive
    BY <1>2, <1>3, <2>3, <2>4, <2>5, <2>8
  <2> QED BY <2>6, <2>7, <2>8
<1>5. ASSUME NEW c \in Clients, DelFlow(c)
      PROVE  Good(s, ip, target)'
  <2>1. PICK mod : Sent(datapaths, c, mod)
    BY <1>1, <1>5, DelFlowSends
  <2>2. ip \in DOMAIN routes \ {c} /\ routes'[ip] = routes[ip]
    BY <1>5 DEF DelFlow, Without, Restrict
  <2>3. missed \subseteq missed'
    BY <1>1, <2>1, SentDecides
  <2>4. /\ NoneAbout(inFlight[s], ip)' <=> NoneAbout(inFlight[s], ip)
        /\ WillLead(s, ip, target)' <=> WillLead(s, ip, target)
    BY <1>1, <2>1, <2>2, SentKeepsOthers
  <2> QED BY <1>1, <2>2, <2>3, <2>4
<1>6. ASSUME NEW d \in Switches, SwitchFeatures(d)
      PROVE  Good(s, ip, target)'
  BY <1>1, <1>6 DEF SwitchFeatures, WillLead
<1>7. ASSUME NEW d \in Switches, SwitchLost(d)
      PROVE  Good(s, ip, target)'
  <2>1. routes' = routes
    BY <1>7 DEF SwitchLost
  <2>2. /\ s # d => /\ inFlight'[s] = inFlight[s]
                    /\ WillLead(s, ip, target)' <=> WillLead(s, ip, target)
        /\ NoneAbout(inFlight[s], ip) =>
             /\ NoneAbout(inFlight[s], ip)'
             /\ WillLead(s, ip, target)' <=> WillLead(s, ip, target)
        /\ s = d => NoneAbout(inFlight[d], ip)'
        /\ s = d /\ ~NoneAbout(inFlight[d], ip) => <<d, ip>> \in missed'
        /\ missed \subseteq missed'
    BY <1>1, <1>7, LostFacts
  <2>3. CASE s = d /\ ~NoneAbout(inFlight[d], ip)
    BY <2>2, <2>3
  <2>4. CASE s # d \/ NoneAbout(inFlight[d], ip)
    <3>1. Good(s, ip, target)
      BY <1>1, <2>1, <2>2, <2>4
    <3>2. NoneAbout(inFlight[s], ip) => NoneAbout(inFlight[s], ip)'
      BY <2>2, <2>4
    <3> QED BY <2>1, <2>2, <3>1, <3>2
  <2> QED BY <2>3, <2>4
<1>8. ASSUME NEW d \in Switches, FlowModApplied(d)
      PROVE  Good(s, ip, target)'
  <2>1. routes' = routes
    BY <1>8 DEF FlowModApplied
  <2>2. /\ WillLead(s, ip, target)
        /\ <<s, ip>> \in missed /\ NoneAbout(inFlight[s], ip) =>
             <<s, ip>> \in missed' /\ NoneAbout(inFlight[s], ip)'
    BY <1>1, <1>8, ApplyFacts
  <2> QED BY <1>1, <2>1, <2>2
<1>9. ASSUME NEW d \in Switches, NEW c \in Clients, Redirected(d, c) \/ FlowIdle(d, c)
      PROVE  Good(s, ip, target)'
  <2>1. routes' = routes /\ missed' = missed
    BY <1>9 DEF Redirected, FlowIdle
  <2>2. inFlight' = inFlight /\ WillLead(s, ip, target)
    BY <1>1, <1>9, QuietFacts
  <2> QED BY <1>1, <2>1, <2>2
<1>10. ASSUME NEW d \in Switches, NEW c \in Clients \cup {Elsewhere},
              NEW mac \in Hosts, NEW at \in PortsOf[d][mac], PacketIn(d, mac, c, at)
       PROVE  Good(s, ip, target)'
  <2>1. ip \in DOMAIN routes /\ routes'[ip] = routes[ip]
    BY <1>10 DEF PacketIn, Without, Restrict
  <2>2. CASE UNCHANGED <<inFlight, missed>>
    <3>1. WillLead(s, ip, target)
      BY <1>10, <2>2 DEF PacketIn, WillLead
    <3> QED BY <1>1, <2>1, <2>2, <3>1
  <2>3. CASE ~UNCHANGED <<inFlight, missed>>
    <3>1. /\ c \in DOMAIN routes /\ d \in alive
          /\ \E mod : Sent({d}, c, mod) /\ mod[d].target = routes[c].target
      BY <1>1, <1>10, <2>3, PacketInSends
    <3>2. PICK mod : Sent({d}, c, mod) /\ mod[d].target = routes[c].target
      BY <3>1
    <3>3. /\ s \in {d} \cap alive =>
               (WillLead(s, c, target)' <=> Installs(mod[s], target))
          /\ missed \subseteq missed'
      BY <1>1, <3>2, SentDecides
    <3>4. ip # c \/ s # d =>
            /\ NoneAbout(inFlight[s], ip)' <=> NoneAbout(inFlight[s], ip)
            /\ WillLead(s, ip, target)' <=> WillLead(s, ip, target)
      BY <1>1, <3>2, SentKeepsOthers
    <3>5. CASE ip = c /\ s = d
      BY <2>1, <3>1, <3>2, <3>3, <3>5 DEF Installs
    <3>6. CASE ip # c \/ s # d
      <4>1. Good(s, ip, target)
        BY <1>1, <2>1, <3>4, <3>6
      <4> QED BY <2>1, <3>3, <3>4, <3>6, <4>1
    <3> QED BY <3>5, <3>6
  <2> QED BY <2>2, <2>3
<1>11. ASSUME Tick PROVE Good(s, ip, target)'
  <2>1. ip \in DOMAIN routes /\ missed' = missed
    BY <1>11 DEF Tick
  <2>2. routes[ip] \in [target : Servers, left : 0 .. Duration]
    BY <1>1, <2>1, TableFacts DEF TypeOK, Routes
  <2>3. routes'[ip].target = routes[ip].target
    BY <1>11, <2>1, <2>2 DEF Tick
  <2>4. ASSUME NEW c \in Clients
        PROVE  inFlight' = inFlight /\ WillLead(s, ip, target)
    BY <1>1, <1>11, QuietFacts
  <2>5. ip \in Clients
    BY <1>1, <2>1, TableFacts DEF TypeOK
  <2> QED BY <1>1, <2>1, <2>3, <2>4, <2>5
<1>12. CASE UNCHANGED vars
  BY <1>1, <1>12 DEF vars, WillLead
<1> HIDE DEF Good
<1> QED BY <1>4, <1>5, <1>6, <1>7, <1>8, <1>9, <1>10, <1>11, <1>12 DEF Next, Switch

\* The inductive invariant of the controller and the switches.
LEMMA SdnInvStep == SdnInv /\ [Next]_vars => SdnInv'
BY TypeStep, OnlyAliveStep, KnownStep, LastWordStep DEF SdnInv

\* The switches agree with the table of the controller, for any number of
\* switches, clients and flow-mods on their way.
THEOREM SwitchesAgree == Spec => []FlowsFollowRoutes
<1>1. SdnInv => FlowsFollowRoutes
  BY DEF SdnInv, LastWordIsTheRoute, FlowsFollowRoutes
<1> QED BY <1>1, SdnInvInit, SdnInvStep, PTL DEF Spec

-----------------------------------------------------------------------------
(* Redirects come from routes in force. *)

RedirectStep ==
    \A s \in Switches, ip \in Clients :
      WillRedirect(s, ip)' /\ ~WillRedirect(s, ip) =>
        \/ ip \in DOMAIN routes' /\ routes'[ip].left > 0
        \/ <<s, ip>> \in missed'

\* Only a post or a packet under a route in force, or the loss of a deletion,
\* starts a redirect.
LEMMA RedirectOnlyByRoute == TypeOK /\ [Next]_vars => RedirectStep
<1> DEFINE Fine(s, ip) == \/ ip \in DOMAIN routes /\ routes[ip].left > 0
                          \/ <<s, ip>> \in missed
<1> SUFFICES ASSUME TypeOK, [Next]_vars, NEW s \in Switches, NEW ip \in Clients,
                    NEW target \in Servers, WillLead(s, ip, target)',
                    ~WillLead(s, ip, target)
             PROVE  Fine(s, ip)'
  BY DEF RedirectStep, WillRedirect
<1>1. ASSUME NEW c \in Clients, NEW to \in Servers, AddFlow(c, to)
      PROVE  Fine(s, ip)'
  <2>1. PICK mod : Sent({t \in datapaths : Known(t)}, c, mod)
    BY <1>1, AddFlowSends
  <2>2. c \in DOMAIN routes' /\ routes'[c].left > 0
    BY <1>1, SdnConstantsOK DEF AddFlow, Set, SdnConstantsOK
  <2>3. ip # c => (WillLead(s, ip, target)' <=> WillLead(s, ip, target))
    BY <2>1, SentKeepsOthers
  <2> QED BY <2>2, <2>3
<1>2. ASSUME NEW c \in Clients, DelFlow(c)
      PROVE  Fine(s, ip)'
  <2>1. PICK mod : Sent(datapaths, c, mod) /\ \A t \in datapaths : mod[t].op # "install"
    BY <1>2, DelFlowSends
  <2>2. s \in datapaths \cap alive =>
          (WillLead(s, c, target)' <=> Installs(mod[s], target))
    BY <2>1, SentDecides
  <2>3. ip # c \/ s \notin datapaths \cap alive =>
          (WillLead(s, ip, target)' <=> WillLead(s, ip, target))
    BY <2>1, SentKeepsOthers
  <2> QED BY <2>1, <2>2, <2>3 DEF Installs
<1>3. ASSUME NEW d \in Switches, SwitchFeatures(d)
      PROVE  Fine(s, ip)'
  BY <1>3 DEF SwitchFeatures, WillLead
<1>4. ASSUME NEW d \in Switches, SwitchLost(d)
      PROVE  Fine(s, ip)'
  <2>1. /\ s # d \/ NoneAbout(inFlight[s], ip) =>
             (WillLead(s, ip, target)' <=> WillLead(s, ip, target))
        /\ s = d /\ ~NoneAbout(inFlight[d], ip) => <<d, ip>> \in missed'
    BY <1>4, LostFacts
  <2> QED BY <2>1
<1>5. ASSUME NEW d \in Switches, FlowModApplied(d)
      PROVE  Fine(s, ip)'
  BY <1>5, ApplyFacts
<1>6. ASSUME NEW d \in Switches, NEW c \in Clients, Redirected(d, c) \/ FlowIdle(d, c)
      PROVE  Fine(s, ip)'
  BY <1>6, QuietFacts
<1>7. ASSUME NEW d \in Switches, NEW c \in Clients \cup {Elsewhere},
             NEW mac \in Hosts, NEW at \in PortsOf[d][mac], PacketIn(d, mac, c, at)
      PROVE  Fine(s, ip)'
  <2>1. CASE UNCHANGED <<inFlight, missed>>
    BY <1>7, <2>1 DEF PacketIn, WillLead
  <2>2. CASE ~UNCHANGED <<inFlight, missed>>
    <3>1. /\ c \in DOMAIN routes /\ routes[c].left > 0 /\ routes' = routes
          /\ \E mod : Sent({d}, c, mod)
      BY <1>7, <2>2, PacketInSends
    <3>2. PICK mod : Sent({d}, c, mod)
      BY <3>1
    <3>3. ip # c => (WillLead(s, ip, target)' <=> WillLead(s, ip, target))
      BY <3>2, SentKeepsOthers
    <3> QED BY <3>1, <3>3
  <2> QED BY <2>1, <2>2
<1>8. CASE Tick
  BY <1>8, QuietFacts
<1>9. CASE UNCHANGED vars
  BY <1>9 DEF vars, WillLead
<1> HIDE DEF Fine
<1> QED BY <1>1, <1>2, <1>3, <1>4, <1>5, <1>6, <1>7, <1>8, <1>9 DEF Next, Switch

\* No expired or deleted route is revived at a switch.
THEOREM RedirectsComeFromRoutes == Spec => RedirectNeedsRoute
BY TypeInit, TypeStep, RedirectOnlyByRoute, PTL
   DEF Spec, RedirectNeedsRoute, RedirectStep

=============================================================================
