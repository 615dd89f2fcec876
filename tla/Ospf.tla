-------------------------------- MODULE Ospf --------------------------------
(***************************************************************************)
(* OSPF as OspfEngine computes it: which interfaces run it, who is adjacent *)
(* to whom and in which role, and the routes each router derives.  Nothing  *)
(* is exchanged between routers, all of it is a function of configuration   *)
(* and of what is up, so every operator takes the ports c (see SecurePorts) *)
(* and, from there, O, the set of OSPF interfaces.                          *)
(*                                                                          *)
(* Addresses are numbers below Space and networks <<base, size>>, sizes     *)
(* powers of two, so the longer prefix is the smaller size.  Wildcards are  *)
(* contiguous.  A router id is compared with addresses and is a number too. *)
(***************************************************************************)
EXTENDS SecurePorts

CONSTANTS
  Routers, Hosts,  \* numbers
  Loopbacks,       \* loopback interfaces, <<router, number>>
  Pids,            \* OSPF process numbers
  Space,           \* number of addresses
  Plan,            \* <<interface, address, size of the network>>: what ip address may set
  Statements,      \* [net, area] of network commands
  RouterIds

None == Space
Everything == <<0, Space>>
Addresses == 0..(Space - 1)
Nodes == Routers \cup Hosts
L3Ports == DevicePorts \cup Loopbacks
Of(n) == {p \in L3Ports : p[1] = n}

ASSUME RouterAssumption ==
  /\ Routers \subseteq Nat /\ Hosts \subseteq Nat /\ Routers \cap Hosts = {}
  /\ DevicePorts \subseteq Nodes \X Nat /\ Loopbacks \subseteq Routers \X Nat
  /\ Loopbacks \cap (DevicePorts \cup SwitchPorts) = {}
  /\ {p \in DevicePorts : p[1] \in Hosts} \subseteq Cabled
  /\ Pids \subseteq Nat \ {0} /\ Space \in Nat /\ Macs \subseteq DevicePorts
  /\ Plan \subseteq L3Ports \X Addresses \X Nat
  /\ Statements \subseteq [net : Addresses \X Nat, area : Nat] /\ RouterIds \subseteq Addresses

VARIABLES
  ifc,     \* configuration of each interface
  proc,    \* the OSPF processes of each router
  static,  \* static routes of each node, [net, via, out, dist]
  routing  \* nodes with ip routing

ospfVars == <<ifc, proc, static, routing>>

NewInterface == [addr |-> None, size |-> 1, pid |-> 0, area |-> 0, cost |-> 0, bw |-> 10,
                 prio |-> 1, hello |-> 10, dead |-> 40, type |-> "broadcast"]
NewProcess == [runs |-> TRUE, rid |-> None, nets |-> <<>>, passive |-> {}, pdefault |-> FALSE,
               active |-> {}, originate |-> "no", ref |-> 100, paths |-> 4, shut |-> FALSE]
NoProcess == [NewProcess EXCEPT !.runs = FALSE]

\* First element in the order of <<number, port>> pairs.
Before(a, b) == a[1] < b[1] \/ (a[1] = b[1] /\ a[2] < b[2])
First(S) == CHOOSE a \in S : \A b \in S \ {a} : Before(a, b)
Least(S) == UNION {{a \in T : \A b \in T : a <= b} : T \in {S}}
MinOf(S) == The(Least(S))
MaxOf(S) == The(UNION {{a \in T : \A b \in T : a >= b} : T \in {S}})

NetOf(a, size) == <<a - (a % size), size>>
In(a, net) == net[1] <= a /\ a < net[1] + net[2]


-----------------------------------------------------------------------------
(* Interfaces.                                                              *)

Up(p, c) == IF p \in Loopbacks THEN p \notin shut ELSE PhysUp(p, c)
UpIp(n, c) == {p \in Of(n) : ifc[p].addr # None /\ Up(p, c)}

Highest(up) ==
  IF up = {} THEN None
  ELSE MaxOf({ifc[p].addr : p \in IF up \cap Loopbacks # {} THEN up \cap Loopbacks ELSE up})
RouterId(n, i, c) ==
  IF proc[n][i].rid # None THEN proc[n][i].rid ELSE The({Highest(up) : up \in {UpIp(n, c)}})

\* The area of an interface in process i: its own configuration, else the first
\* network statement that matches; areas count from 0.
Matching(p, nets) == {k \in DOMAIN nets : In(ifc[p].addr, nets[k].net)}
Statement(p, nets) == {nets[k].area : k \in {k \in Matching(p, nets) : k = MinOf(Matching(p, nets))}}
Areas(p, i) ==
  IF ifc[p].pid # 0 THEN IF ifc[p].pid = i THEN {ifc[p].area} ELSE {}
  ELSE Statement(p, proc[p[1]][i].nets)

Claims(p, c) == {i \in Pids : /\ proc[p[1]][i].runs /\ ~proc[p[1]][i].shut
                              /\ RouterId(p[1], i, c) # None /\ Areas(p, i) # {}}

Cost(p, i) ==
  IF p \in Loopbacks THEN 1
  ELSE IF ifc[p].cost # 0 THEN ifc[p].cost
  ELSE LET q == proc[p[1]][i].ref \div ifc[p].bw IN IF q < 1 THEN 1 ELSE q

Passive(p, i) ==
  LET d == proc[p[1]][i] IN p \in d.passive \/ (d.pdefault /\ p \notin d.active)

OspfInterface(p, i, c) ==
  LET loop == p \in Loopbacks
  IN [port |-> p, addr |-> ifc[p].addr, area |-> CHOOSE a \in Areas(p, i) : TRUE,
      net |-> IF loop THEN <<ifc[p].addr, 1>> ELSE NetOf(ifc[p].addr, ifc[p].size),
      rid |-> RouterId(p[1], i, c), cost |-> Cost(p, i), prio |-> ifc[p].prio,
      timers |-> <<ifc[p].hello, ifc[p].dead>>, passive |-> Passive(p, i),
      type |-> IF loop THEN "loopback" ELSE ifc[p].type]

\* The lowest process that takes an interface has it.
OspfInterfaces(c) ==
  UNION {{OspfInterface(p, i, c) : i \in Least(Claims(p, c))} : p \in UNION {UpIp(n, c) : n \in Routers}}


-----------------------------------------------------------------------------
(* Adjacency and election.                                                  *)

Speaks(o) == ~o.passive /\ o.type \in {"broadcast", "point-to-point"}

SameGroup(o, q, c) ==
  /\ o.area = q.area /\ o.net = q.net /\ o.timers = q.timers /\ o.type = q.type
  /\ o.port = q.port \/ Joined(o.port, q.port, c)

Group(o, O, c) == {q \in O : Speaks(q) /\ SameGroup(o, q, c)}

Outranks(a, b) ==
  \/ a.prio > b.prio
  \/ a.prio = b.prio /\ (a.rid > b.rid \/ (a.rid = b.rid /\ Before(a.port, b.port)))
Top(S) == {a \in S : \A b \in S \ {a} : Outranks(a, b)}

Designated(G) == Top({o \in G : o.prio > 0})
Backup(G) == Top({o \in G : o.prio > 0} \ Designated(G))

Foreign(o, q) == q.port[1] # o.port[1] /\ q.rid # o.rid
Neighbours(o, O, c) ==
  IF Speaks(o) THEN {q \in Group(o, O, c) : Foreign(o, q)} ELSE {}

Role(o, G) ==
  IF o.type = "point-to-point" THEN "-"
  ELSE IF o \in Designated(G) THEN "DR" ELSE IF o \in Backup(G) THEN "BDR" ELSE "DROTHER"

\* Only the neighbour's role is looked at.
FullOneSided(o, q, O, c) ==
  o.type = "point-to-point" \/ Role(q, Group(o, O, c)) \in {"DR", "BDR"}

\* What show ip ospf neighbor says on o's router of its neighbour q.
Full(o, q, O, c) ==
  LET G == Group(o, O, c)
  IN o.type = "point-to-point" \/ Role(o, G) \in {"DR", "BDR"} \/ Role(q, G) \in {"DR", "BDR"}


-----------------------------------------------------------------------------
(* Shortest paths.                                                          *)

\* The address of the wrong end.
AreaEdgesOwnAddress(a, O, c) ==
  UNION {{<<o.port[1], q.port[1], o.cost, o.addr, o.port>> : q \in Neighbours(o, O, c)} :
           o \in {o \in O : o.area = a}}

\* Edges among the routers of an area, <<from, to, cost, address of to, port of
\* from>>.  Pairs that stay in 2WAY count like all others.
AreaEdges(a, O, c) ==
  UNION {{<<o.port[1], q.port[1], o.cost, q.addr, o.port>> : q \in Neighbours(o, O, c)} :
           o \in {o \in O : o.area = a}}

\* Dijkstra from n: dist of the settled routers as pairs, hops as <<router,
\* <<address, port>>>>.  All routers at the next distance settle together; costs
\* are positive, so their predecessors have settled before.
Spf(n, a, E) ==
  LET Run[k \in 0..Cardinality(Routers)] ==
        IF k = 0 THEN [area |-> a, dist |-> {<<n, 0>>}, hops |-> {}]
        ELSE LET s == Run[k - 1]
                 out == {x \in s.dist \X E : /\ x[1][1] = x[2][1]
                                             /\ \A d \in s.dist : d[1] # x[2][2]}
                 near == {x \in out : \A y \in out : x[1][2] + x[2][3] <= y[1][2] + y[2][3]}
             IN [area |-> a, dist |-> s.dist \cup {<<x[2][2], x[1][2] + x[2][3]>> : x \in near},
                 hops |-> s.hops \cup UNION {IF x[1][1] = n THEN {<<x[2][2], <<x[2][4], x[2][5]>>>>}
                            ELSE {<<x[2][2], h[2]>> : h \in {h \in s.hops : h[1] = x[1][1]}} : x \in near}]
  IN Run[Cardinality(Routers)]

\* Next hops in the order of the address, one without an address first, then of
\* the port.
Rank(via) == IF via = None THEN 0 ELSE via + 1
HopBefore(g, h) == Rank(g[1]) < Rank(h[1]) \/ (g[1] = h[1] /\ Before(g[2], h[2]))
FirstHops(S, k) == {h \in S : Cardinality({g \in S : HopBefore(g, h)}) < k}

ActiveProcesses(n) == {proc[n][i] : i \in {i \in Pids : proc[n][i].runs /\ ~proc[n][i].shut}}
MaximumPaths(n) == IF ActiveProcesses(n) = {} THEN 4 ELSE MinOf({d.paths : d \in ActiveProcesses(n)})

\* The owner's own cost is forgotten.
AreaRoutesNoStub(n, S, O) ==
  LET Owned(net) == {o \in O : o.net = net}
      Offers(net) == {d \in S.dist : \E o \in Owned(net) : d[1] = o.port[1]}
      Metric(net) == MinOf({f[2] : f \in Offers(net)})
      Hops(net) == {h[2] : h \in {h \in S.hops : <<h[1], Metric(net)>> \in Offers(net)}}
      Foreigns == {net \in {o.net : o \in O} :
                     (\A o \in Owned(net) : o.port[1] # n) /\ Offers(net) # {}}
  IN {[code |-> "O", net |-> net, metric |-> Metric(net),
       hops |-> FirstHops(Hops(net), MaximumPaths(n))] : net \in Foreigns}

\* The routes of one area: for each network that n has not itself in the area, the
\* least distance to an owner plus the owner's cost, through all hops that attain it.
AreaRoutes(n, S, O) ==
  LET Owned(net) == {o \in O : o.net = net}
      Offers(net) == {<<x[1][2] + x[2].cost, x[1][1]>> :
                        x \in {x \in S.dist \X Owned(net) : x[1][1] = x[2].port[1]}}
      Metric(net) == MinOf({f[1] : f \in Offers(net)})
      Hops(net) == {h[2] : h \in {h \in S.hops : <<Metric(net), h[1]>> \in Offers(net)}}
      Foreigns == {net \in {o.net : o \in O} :
                     (\A o \in Owned(net) : o.port[1] # n) /\ Offers(net) # {}}
  IN {[code |-> "O", net |-> net, metric |-> Metric(net),
       hops |-> FirstHops(Hops(net), MaximumPaths(n))] : net \in Foreigns}

\* Over the areas the lower metric wins, equal ones share their hops.
Merged(R) ==
  {[r EXCEPT !.hops = UNION {q.hops : q \in {q \in R : q.net = r.net /\ q.metric = r.metric}}] :
     r \in {r \in R : \A q \in R : q.net = r.net => r.metric <= q.metric}}

\* The routers that announce a default route to n.
Originates(d, n) ==
  d.runs /\ ~d.shut /\ (d.originate = "always" \/ (d.originate = "yes" /\
    \E r \in ToSet(static[n]) : r.net = Everything))
Originators(n) == {m \in Routers \ {n} : \E i \in Pids : Originates(proc[m][i], m)}

\* A default through the nearest of them, over all areas; T are the trees.
DefaultRoutes(n, T) ==
  LET far == {d \in UNION {t.dist : t \in T} : d[1] \in Originators(n)}
      near == MinOf({d[2] : d \in far})
      hops == UNION {{h[2] : h \in {h \in t.hops : <<h[1], near>> \in t.dist /\ h[1] \in Originators(n)}} :
                       t \in T}
  IN IF far = {} THEN {}
     ELSE {[code |-> "O*E2", net |-> Everything, metric |-> 1,
            hops |-> FirstHops(hops, MaximumPaths(n))]}

Edges(O, c) == {[area |-> a, edges |-> AreaEdges(a, O, c)] : a \in {o.area : o \in O}}
Trees(n, E) == {Spf(n, e.area, e.edges) : e \in E}

IntraAreaRoutes(n, T, O) ==
  UNION {Merged(R) : R \in {UNION {AreaRoutes(n, t, {o \in O : o.area = t.area}) : t \in T}}}
Combined(intra, default) == {r \in intra : default = {} \/ r.net # Everything} \cup default

Routes(n, O, E) ==
  IF n \notin Routers \cap routing THEN {}
  ELSE UNION {UNION {Combined(IntraAreaRoutes(n, T, O), default) : default \in {DefaultRoutes(n, T)}} :
                T \in {Trees(n, E)}}


-----------------------------------------------------------------------------
(* Why a router has no FULL neighbour.                                      *)

FullNeighbours(n, O, c) ==
  UNION {{q \in Neighbours(o, O, c) : Full(o, q, O, c)} : o \in {o \in O : o.port[1] = n}}

OnLink(o, q, c) == q.port[1] # o.port[1] /\ q.type # "loopback" /\ Joined(o.port, q.port, c)

\* Timers are not compared.
MismatchesNoTimer(o, q) ==
  {x \in {"passive", "area", "subnet", "type", "router ID", "no DR"} :
     CASE x = "passive" -> q.passive
       [] x = "area" -> q.area # o.area
       [] x = "subnet" -> q.net # o.net
       [] x = "type" -> q.type # o.type
       [] x = "router ID" -> q.rid = o.rid
       [] x = "no DR" -> o.type = "broadcast" /\ o.prio = 0 /\ q.prio = 0}

Mismatches(o, q) ==
  {x \in {"passive", "area", "subnet", "timer", "type", "router ID", "no DR"} :
     CASE x = "passive" -> q.passive
       [] x = "area" -> q.area # o.area
       [] x = "subnet" -> q.net # o.net
       [] x = "timer" -> q.timers # o.timers
       [] x = "type" -> q.type # o.type
       [] x = "router ID" -> q.rid = o.rid
       [] x = "no DR" -> o.type = "broadcast" /\ o.prio = 0 /\ q.prio = 0}

Diagnose(n, O, c) ==
  LET mine == {o \in O : o.port[1] = n /\ o.type # "loopback"}
      running == {i \in Pids : proc[n][i].runs}
      Peers(o) == {q \in O : OnLink(o, q, c)}
  IN IF running = {} THEN {"no process"}
     ELSE IF \A i \in running : proc[n][i].shut THEN {"shut down"}
     ELSE IF \A i \in running : proc[n][i].shut \/ RouterId(n, i, c) = None THEN {"no router ID"}
     ELSE IF mine = {} THEN {"no interface"}
     ELSE UNION {IF o.passive THEN {"passive here"}
                 ELSE IF Peers(o) = {} THEN {"alone"}
                 ELSE UNION {Mismatches(o, q) : q \in Peers(o)} : o \in mine}


-----------------------------------------------------------------------------
(* Configuration: interfaces.                                               *)

SetInterface(p, s) == ifc' = [ifc EXCEPT ![p] = s] /\ UNCHANGED <<proc, static, routing>>

IpAddress(p) ==
  \E x \in Plan : x[1] = p /\ SetInterface(p, [ifc[p] EXCEPT !.addr = x[2], !.size = x[3]])
NoIpAddress(p) == SetInterface(p, [ifc[p] EXCEPT !.addr = None, !.size = 1])

\* The values include the one the no form restores.
IpOspfCost(p) == \E v \in {0, 30} : SetInterface(p, [ifc[p] EXCEPT !.cost = v])
IpOspfPriority(p) == \E v \in 0..2 : SetInterface(p, [ifc[p] EXCEPT !.prio = v])
HelloInterval(p) == \E v \in {5, 10} : SetInterface(p, [ifc[p] EXCEPT !.hello = v])
DeadInterval(p) == \E v \in {20, 40} : SetInterface(p, [ifc[p] EXCEPT !.dead = v])
NetworkType(p) ==
  \E v \in {"broadcast", "point-to-point"} : SetInterface(p, [ifc[p] EXCEPT !.type = v])
Bandwidth(p) == \E v \in {2, 10} : SetInterface(p, [ifc[p] EXCEPT !.bw = v])

\* ip ospf area starts the process when it does not run.
IpOspfArea(p, i) ==
  /\ \E a \in {s.area : s \in Statements} : ifc' = [ifc EXCEPT ![p].pid = i, ![p].area = a]
  /\ proc' = [proc EXCEPT ![p[1]][i] = IF @.runs THEN @ ELSE NewProcess]
  /\ UNCHANGED <<static, routing>>
NoIpOspfArea(p, i) ==
  ifc[p].pid = i /\ SetInterface(p, [ifc[p] EXCEPT !.pid = 0, !.area = 0])

\* no interface Loopback and default interface leave nothing of the configuration.
ResetInterface(p) == SetInterface(p, NewInterface)

InterfaceCommand(p) ==
  \/ IpAddress(p) \/ NoIpAddress(p)
  \/ IpOspfCost(p) \/ IpOspfPriority(p) \/ HelloInterval(p) \/ DeadInterval(p)
  \/ NetworkType(p) \/ Bandwidth(p)
  \/ \E i \in Pids : IpOspfArea(p, i) \/ NoIpOspfArea(p, i)


-----------------------------------------------------------------------------
(* Configuration: processes.                                                *)

SetProcess(n, i, d) == proc' = [proc EXCEPT ![n][i] = d] /\ UNCHANGED <<ifc, static, routing>>

RouterOspf(n, i) == ~proc[n][i].runs /\ SetProcess(n, i, NewProcess)

\* The interfaces leave the process with it.
NoRouterOspf(n, i) ==
  /\ proc' = [proc EXCEPT ![n][i] = NoProcess]
  /\ ifc' = [p \in L3Ports |-> IF p[1] = n /\ ifc[p].pid = i
                               THEN [ifc[p] EXCEPT !.pid = 0, !.area = 0] ELSE ifc[p]]
  /\ UNCHANGED <<static, routing>>

\* Below router ospf.
Network(n, i) ==
  \E s \in Statements : /\ s \notin ToSet(proc[n][i].nets)
                        /\ SetProcess(n, i, [proc[n][i] EXCEPT !.nets = Append(@, s)])
NoNetwork(n, i) ==
  \E s \in ToSet(proc[n][i].nets) : SetProcess(n, i, [proc[n][i] EXCEPT !.nets = Remove(@, s)])
RouterIdCommand(n, i) ==
  \E r \in RouterIds \cup {None} : SetProcess(n, i, [proc[n][i] EXCEPT !.rid = r])

\* passive-interface default forgets single ones, and its no form the exceptions;
\* a single one adds to whichever list counts.
PassiveDefault(n, i, b) ==
  LET d == proc[n][i]
  IN SetProcess(n, i, IF b THEN [d EXCEPT !.pdefault = TRUE, !.passive = {}]
                      ELSE [d EXCEPT !.pdefault = FALSE, !.active = {}])
PassiveInterface(n, i, p, b) ==
  LET d == proc[n][i]
      With(S, in) == IF in THEN S \cup {p} ELSE S \ {p}
  IN SetProcess(n, i, IF d.pdefault THEN [d EXCEPT !.active = With(@, ~b)]
                      ELSE [d EXCEPT !.passive = With(@, b)])

DefaultInformation(n, i) ==
  \E v \in {"no", "yes", "always"} : SetProcess(n, i, [proc[n][i] EXCEPT !.originate = v])
AutoCost(n, i) == \E v \in {100, 200} : SetProcess(n, i, [proc[n][i] EXCEPT !.ref = v])
MaximumPathsCommand(n, i) == \E v \in {1, 4} : SetProcess(n, i, [proc[n][i] EXCEPT !.paths = v])
ProcessShutdown(n, i) == \E b \in BOOLEAN : SetProcess(n, i, [proc[n][i] EXCEPT !.shut = b])

ProcessCommand(n, i) ==
  \/ Network(n, i) \/ NoNetwork(n, i) \/ RouterIdCommand(n, i)
  \/ \E b \in BOOLEAN : PassiveDefault(n, i, b) \/ \E p \in Of(n) : PassiveInterface(n, i, p, b)
  \/ DefaultInformation(n, i) \/ AutoCost(n, i) \/ MaximumPathsCommand(n, i) \/ ProcessShutdown(n, i)

OspfCommand(n) ==
  \E i \in Pids : RouterOspf(n, i) \/ NoRouterOspf(n, i) \/ (proc[n][i].runs /\ ProcessCommand(n, i))

OspfInit(s) == ifc = s.ifc /\ proc = s.proc /\ static = s.static /\ routing = s.routing

=============================================================================
