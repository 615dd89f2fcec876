------------------------------- MODULE Network -------------------------------
(***************************************************************************)
(* A simulated network: commands change its configuration one at a time,    *)
(* under the lock of the runtime, pings go through what results and leave   *)
(* traces in ARP caches and switches.  A lab is a startup configuration     *)
(* with the interfaces and nodes a student works on.                        *)
(***************************************************************************)
EXTENDS RemoteAccess

CONSTANT
  Labs  \* startup configurations, with the bounds of a run: commands and pings

ASSUME BoundsAssumption == \A l \in Labs : l.bounds \in Nat \X Nat
ASSUME StartupAssumption == \A l \in Labs : l.vty \in [Devices -> StartBlocks] /\ l.accessed \subseteq Routers

VARIABLES
  lab,    \* where the run started, and what it works on
  left,   \* commands and pings that may still come
  last    \* the last ping, with what it left

vars == <<portVars, ospfVars, forwardVars, ntp, accessVars, lab, left, last>>

NoPing == [marks |-> <<>>]

NetworkInit ==
  /\ lab \in Labs
  /\ PortsInit(lab) /\ OspfInit(lab) /\ ForwardingInit(lab) /\ NtpInit(lab)
  /\ AccessInit(lab)
  /\ left = lab.bounds /\ last = NoPing

Init == NetworkInit

-----------------------------------------------------------------------------

\* shutdown of a port of any device, and default interface.
SetShutdown(p) == Shutdown(p) \/ NoShutdown(p)
DefaultDevicePort(p) ==
  /\ ResetInterface(p)
  /\ shut' = IF p \in Loopbacks THEN shut \ {p} ELSE shut \cup {p}
  /\ UNCHANGED <<sec, table>>

\* ARP entries age out.
ArpTimeout(n) == \E e \in {e \in arp : e[1] = n} : arp' = arp \ {e} /\ UNCHANGED <<ospfVars, gateway>>

InterfaceStep ==
  \E p \in {p \in lab.interfaces : p[1] \in Routers} :
    \/ InterfaceCommand(p) /\ UNCHANGED portVars
    \/ DefaultDevicePort(p)
ProcessStep == \E n \in lab.routers : OspfCommand(n) /\ UNCHANGED portVars
RouteStep == \E n \in lab.nodes : (RouteCommand(n) \/ ClearArp(n) \/ ArpTimeout(n)) /\ UNCHANGED portVars
HostStep ==
  \E p \in {p \in lab.interfaces : p[1] \in Hosts} :
    \/ HostIp(p) /\ UNCHANGED <<sec, table>>
    \/ ClearIp(p) /\ UNCHANGED portVars
PortStep ==
  \/ \E q \in lab.secured : PortCommand(q) /\ UNCHANGED ospfVars
  \/ \E p \in lab.shuts : SetShutdown(p) /\ UNCHANGED ospfVars
ClockStep == \E n \in lab.clocks : NtpCommand(n)
AccessStep == \E n \in lab.accessed : AccessCommand(n)

Command ==
  /\ left[1] > 0 /\ left' = [left EXCEPT ![1] = @ - 1]
  /\ \/ /\ UNCHANGED <<ntp, accessVars>>
        /\ \/ (InterfaceStep \/ ProcessStep \/ PortStep) /\ UNCHANGED forwardVars
           \/ RouteStep \/ HostStep
     \/ ClockStep /\ UNCHANGED <<portVars, ospfVars, forwardVars, accessVars>>
     \/ AccessStep /\ UNCHANGED <<portVars, ospfVars, forwardVars, ntp>>
  /\ last' = NoPing /\ UNCHANGED lab

\* ping from an IOS device or a VPCS host, the latter only with an address.
Ping(n, a) ==
  /\ left[2] > 0 /\ left' = [left EXCEPT ![2] = @ - 1]
  /\ n \in Hosts => \E p \in Of(n) : ifc[p].addr # None
  /\ \E N \in {Snapshot(Now)} : \E P \in {Echoes(n, a, N)} :
       /\ sec' = P.c.sec /\ table' = P.c.table /\ arp' = P.arp
       /\ last' = [from |-> n, to |-> a, marks |-> P.marks]
  /\ UNCHANGED <<shut, ospfVars, gateway, ntp, accessVars, lab>>

Next ==
  \/ Command
  \/ \E x \in lab.pings : Ping(x[1], x[2])

Spec == Init /\ [][Next]_vars

-----------------------------------------------------------------------------
(* What holds in every state.                                               *)

InterfaceType ==
  [addr : 0..Space, size : Nat, pid : {0} \cup Pids, area : Nat, cost : Nat, bw : Nat \ {0},
   prio : Nat, hello : Nat, dead : Nat, type : {"broadcast", "point-to-point"}]
ProcessType ==
  [runs : BOOLEAN, rid : 0..Space, nets : Seq(Statements), passive : SUBSET L3Ports,
   pdefault : BOOLEAN, active : SUBSET L3Ports, originate : {"no", "yes", "always"},
   ref : Nat, paths : Nat \ {0}, shut : BOOLEAN]

\* Types of the configuration and of what pings leave behind.
TypeOK ==
  /\ PortsTypeOK /\ shut \subseteq DevicePorts \cup Loopbacks \cup SwitchPorts
  /\ ifc \in [L3Ports -> InterfaceType]
  /\ proc \in [Routers -> [Pids -> ProcessType]]
  /\ static \in [Nodes -> Seq(StaticRoutes)] /\ routing \subseteq Nodes
  /\ gateway \in [Nodes -> 0..Space] /\ arp \subseteq Nodes \X Addresses
  /\ ntp \in [Routers -> [master : Strata \cup {NoStratum}, auth : BOOLEAN, keys : [Keys -> KeyTexts \cup {NoKey}],
                          trusted : SUBSET Keys, servers : SUBSET (Servers \X (Keys \cup {NoKey}))]]
  /\ LinesTypeOK
  /\ ssh \in [Routers -> [domain : BOOLEAN, rsa : KeySizes \cup {NoKeys}, version : {AnyVersion, 1, 2},
                          users : [Users -> Passwords \cup {NoPassword}]]]
  /\ left \in Nat \X Nat

\* What show ip ospf neighbor says at one end of an adjacency it says at the other:
\* both list each other, both take the same routers for DR and BDR, and both call the
\* adjacency FULL or both 2WAY (neighbors, _dr_bdr and _groups compute each router's
\* view for itself).
NeighboursAgree ==
  LET Roles(G) == {<<x.port, Role(x, G)>> : x \in G}
  IN \E O \in {OspfInterfaces(Now)} : \A o \in O :
       \E mine \in {Roles(Group(o, O, Now))} : \A q \in Neighbours(o, O, Now) :
         /\ o \in Neighbours(q, O, Now)
         /\ Roles(Group(q, O, Now)) = mine
         /\ Full(o, q, O, Now) <=> Full(q, o, O, Now)

\* Paths from n over the edges E that visit no router twice, with cost, end and first
\* hop.
Paths(n, E) ==
  LET P[k \in 1..(Cardinality(Routers) - 1)] ==
        IF k = 1 THEN {[seen |-> {n, e[2]}, at |-> e[2], cost |-> e[3], hop |-> <<e[4], e[5]>>] :
                         e \in {e \in E : e[1] = n}}
        ELSE P[k - 1] \cup {[y[1] EXCEPT !.seen = @ \cup {y[2][2]}, !.at = y[2][2], !.cost = @ + y[2][3]] :
                             y \in {y \in P[k - 1] \X E : y[2][1] = y[1].at /\ y[2][2] \notin y[1].seen}}
  IN P[Cardinality(Routers) - 1]

\* A router has an OSPF route to exactly the networks that a path leads to, with the
\* cost of the shortest path in any area and first hops of shortest paths, all of them
\* as far as maximum-paths allows (_spf, routes and _merge_route, against all paths).
RoutesShortest ==
  \E O \in {OspfInterfaces(Now)} : \E E \in {Edges(O, Now)} :
  \A n \in Routers \cap routing :
  \E R \in {{r \in Routes(n, O, E) : r.code = "O"}} :
  \E ways \in {UNION {{<<e.area, p>> : p \in Paths(n, e.edges)} : e \in E}} :
    LET own == {<<o.area, o.net>> : o \in {o \in O : o.port[1] = n}}
        To(net) == UNION {{<<w[2].cost + o.cost, w[2].hop>> :
                             w \in {w \in ways : w[1] = o.area /\ w[2].at = o.port[1]}} :
                            o \in {o \in O : o.net = net /\ <<o.area, net>> \notin own}}
    IN \A net \in {o.net : o \in O} : \E W \in {To(net)} :
         LET best == {w \in W : \A v \in W : w[1] <= v[1]}
         IN IF W = {} THEN \A r \in R : r.net # net
            ELSE \E r \in R : /\ r.net = net /\ {r.metric} = {w[1] : w \in best}
                              /\ r.hops \subseteq {w[2] : w \in best}
                              /\ \/ r.hops = {w[2] : w \in best}
                                 \/ Cardinality(r.hops) >= MaximumPaths(n)

\* Routers that route by OSPF alone, at most one of them announcing a default route,
\* never send a packet in a circle: the distance shrinks from hop to hop, over several
\* areas, costs that differ by end, broken LANs and shutdown processes too.  Where in
\* addition no two segments share addresses, a router's OSPF route leads to the owner,
\* and traceroute ends there and names routers on the way, each of which shows the rest
\* of it when it is asked itself (forward, traceroute).
OspfAlone ==
  /\ \A n \in Nodes : static[n] = <<>>
  /\ Routers \subseteq routing
  /\ \A n \in Routers : Cardinality(Originators(n)) <= 1
WellAddressed(N) ==
  \A p \in N.ends : \A q \in N.ends \ {p} :
    /\ ifc[p].addr # ifc[q].addr
    /\ \/ ~In(ifc[p].addr, NetworkOf(q)) /\ ~In(ifc[q].addr, NetworkOf(p))
       \/ NetworkOf(p) = NetworkOf(q) /\ Joined(p, q, N.c)
RoutedArrives ==
  OspfAlone =>
    \E N \in {Snapshot(Now)} :
    \E F \in {[x \in Nodes \X N.ends |-> Forward(x[1], ifc[x[2]].addr, N)]} :
      LET clean == WellAddressed(N)
      IN \A x \in DOMAIN F :
           LET f == F[x]
               a == ifc[x[2]].addr
               t == Traceroute(f, a)
           IN /\ f.status \notin {"host-unreachable", "ttl-exceeded"}
              /\ clean /\ (\E r \in Lookup(x[1], a, N) : r.code = "O") =>
                   /\ f.status = "delivered" /\ f.at = x[2][1]
                   /\ \E p \in N.ends : p[1] = x[2][1] /\ ifc[p].addr = t[Len(t)].addr
                   /\ \A k \in 1..(Len(t) - 1) : \E p \in N.ends :
                        /\ ifc[p].addr = t[k].addr /\ p[1] # x[1]
                        /\ Traceroute(F[p[1], x[2]], a) = SubSeq(t, k + 1, Len(t))

\* Once an echo of a ping was answered, all later ones are: what a probe teaches never
\* gets into the way of the next.  When the last one was, the network that the ping
\* leaves behind, with ports it may have err-disabled and addresses it taught, lets
\* source and target reach each other.
EchoesArrive ==
  /\ last # NoPing /\ last.marks[Probes] = "!" => \E N \in {Snapshot(Now)} : Reachable(last.from, last.to, N)
  /\ \A k \in DOMAIN last.marks : last.marks[k] = "!" => \A j \in k..Probes : last.marks[j] = "!"

\* Simple paths of usable servers that start at n: the routers on the way, the last one
\* first.
ServerPaths(n, U) ==
  FoldLeft(LAMBDA S, k : S \cup {<<y[2][3]>> \o y[1] :
                                   y \in {y \in S \X U : y[2][1] = Head(y[1]) /\ y[2][3] \notin ToSet(y[1])}},
           {<<n>>}, SetToSeq(Nodes))

\* A synchronized clock has its time from a master: over a way of servers each of which
\* the one before it can reach and trusts as its configuration asks, with the stratum
\* of the master and one more for each, below 16.  The server in use is marked in show
\* ntp associations and nothing else is (_ntp_resolve, ntp_associations; each router
\* resolves for itself, with servers that name each other).
ClocksTraceable ==
  \E N \in {Snapshot(Now)} : \E U \in {Usable(N)} : \E S \in {Sync(U)} :
  \A n \in {n \in Routers : ntp[n].servers # {}} : \A y \in S[n, {}] :
    /\ y.stratum < Unsynchronized /\ ntp[y.root].master # NoStratum
    /\ ntp[n].master = NoStratum =>
         /\ \E w \in ServerPaths(n, U) :
              /\ Head(w) = y.root /\ y.stratum = ntp[y.root].master + Len(w) - 1
              /\ <<n, y.server, w[Len(w) - 1]>> \in U
         /\ {r.at : r \in {r \in NtpAssociations(n, S, N) : r.mark = "*"}} = {y.server}

\* A clock is synchronized when some way of usable servers leads to a master.  When it is
\* not, ntp_diagnose says why, and diagnose of OSPF finds a reason when a router has no
\* FULL neighbour.  (All ways are short enough for the strata.)
DiagnosisComplete ==
  \E N \in {Snapshot(Now)} : \E U \in {Usable(N)} : \E S \in {Sync(U)} :
  LET short == \A n \in Routers : ntp[n].master + Cardinality(Routers) <= Unsynchronized
  IN /\ \A n \in Routers : FullNeighbours(n, N.ospf, N.c) = {} => Diagnose(n, N.ospf, N.c) # {}
     /\ \A n \in {n \in Routers : ntp[n].servers # {}} :
          short => /\ Synchronized(n, S) <=> \E w \in ServerPaths(n, U) : Configured(Head(w)).master # NoStratum
                   /\ ~Synchronized(n, S) => NtpDiagnose(n, S, N) # {}

\* What the grader asks about remote access and what the commands do agree, in labs that
\* are about it: it authenticates over SSH exactly when the command opens a session with
\* these credentials, with Telnet refused no credentials open one, and a session runs on
\* a free line that admits its transport, the line of the login that was checked as long
\* as lines are free (vty_access, vty_authenticate, ssh_authenticate, telnet_allowed,
\* against _ssh, _telnet and _free_vty).  Lines 0 to 4 printed with transport input ssh
\* and login local, however their blocks are split, and keys are enough for SSH.
AccessAgrees ==
  lab.accessed # {} =>
    \E N \in {Snapshot(Now)} :
    LET Typed(n, a, t, u, p, busy) == Opens(n, FromConsole, a, t, AnyVersion, u, p, busy, N)
        Free == [m \in Nodes |-> {}]
        Busy == {Free} \cup {[m \in Nodes |-> Span(b)] : b \in UNION {FirstBlocks(vty[m]) : m \in lab.accessed}}
        LetsIn(s, m, u, p) == \/ s.login = "none"
                              \/ s.login = "local" /\ ssh[m].users[u] = p
                              \/ s.login = "line" /\ s.password = p
        Prepared(m) == /\ ssh[m].rsa # NoKeys
                     /\ \A x \in {<<"input", {"ssh"}>>, <<"login", "local">>} :
                          Covers(Rendered(vty[m]), 0, LastDefault, x[1], x[2])
    IN \A n \in Routers, x \in {x \in N.ends : x[1] \in lab.accessed}, u \in Users, p \in Passwords :
         LET a == ifc[x].addr
         IN /\ SshAuthenticate(n, u, p, a, N) <=> Typed(n, a, "ssh", u, p, Free) # {}
            /\ \A t \in Transports, busy \in Busy : \A s \in Typed(n, a, t, u, p, busy) :
                 /\ s[2] \notin busy[s[1]] /\ t \in At(vty[s[1]], s[2]).input
                 /\ busy = Free => LetsIn(At(vty[s[1]], s[2]), s[1], u, p)
                 /\ t = "telnet" => ~TelnetRefused(n, a, N)
            /\ \A m \in Holder(a, N) \cap Routers :
                 Prepared(m) /\ Reachable(n, a, N) /\ ssh[m].users[u] = p => SshAuthenticate(n, u, p, a, N)

=============================================================================
