----------------------------- MODULE Forwarding -----------------------------
(***************************************************************************)
(* Layer 3: routing tables, the way of a packet through them, ping with     *)
(* what it teaches hosts, routers and switches on its way, and reachability *)
(* as the grader asks for it.  Every node has at most one address for each  *)
(* interface.                                                               *)
(*                                                                          *)
(* L3Engine keeps end points and tables once they are computed and drops    *)
(* them when learning err-disables a port; that cache is the record N of    *)
(* Snapshot, with the ports c it was computed from.                         *)
(***************************************************************************)
EXTENDS Ospf

CONSTANTS
  StaticRoutes,  \* [net, via, out, dist] of ip route commands, out may be NoPort
  Gateways       \* addresses of ip default-gateway

NoPort == <<>>

ASSUME RouteAssumption ==
  /\ StaticRoutes \subseteq [net : Addresses \X (1..Space), via : 0..Space,
                             out : DevicePorts \cup {NoPort}, dist : Nat \ {0}]
  /\ \A s \in StaticRoutes : s.via # None \/ s.out # NoPort
  /\ Gateways \subseteq Addresses

VARIABLES
  gateway,  \* default gateway of each node
  arp       \* <<node, address>> in ARP caches

forwardVars == <<gateway, arp>>

\* First port in the order of nodes and interfaces.
FirstPort(S) == UNION {{p \in T : \A q \in T \ {p} : Before(p, q)} : T \in {S}}


-----------------------------------------------------------------------------
(* Routing tables.                                                          *)

Endpoints(c) == UNION {UpIp(n, c) : n \in Nodes}
NetworkOf(p) == NetOf(ifc[p].addr, ifc[p].size)

\* The interface of n whose network contains a.
Connected(n, a, ends) ==
  LET Nearest(M) == {p \in M : \A q \in M : ifc[p].size <= ifc[q].size}
  IN FirstPort(UNION {Nearest(M) : M \in {{p \in ends : p[1] = n /\ In(a, NetworkOf(p))}}})

Longest(R) == {r \in R : \A q \in R : r.net[2] <= q.net[2]}
FirstHop(r) == CHOOSE h \in r.hops : \A g \in r.hops \ {h} : HopBefore(h, g)

\* The interface a static next hop goes out: its own, the connected one, or that of
\* the OSPF route to it.
Egress(n, s, R, ends) ==
  IF s.out # NoPort THEN {s.out}
  ELSE LET near == Connected(n, s.via, ends)
       IN IF near # {} THEN near
          ELSE {FirstHop(r)[2] : r \in Longest({r \in R : In(s.via, r.net)})}

Candidates(n, R, ends) ==
  LET C == {[code |-> "C", net |-> NetworkOf(p), dist |-> 0, metric |-> 0, hops |-> {<<None, p>>}] :
              p \in {p \in ends : p[1] = n}}
      S == UNION {{[code |-> "S", net |-> s.net, dist |-> s.dist, metric |-> 0, hops |-> {<<s.via, out>>}] :
                     out \in Egress(n, s, R, ends)} : s \in ToSet(static[n])}
      O == {[code |-> r.code, net |-> r.net, dist |-> 110, metric |-> r.metric, hops |-> r.hops] : r \in R}
      G == {[code |-> "S*", net |-> Everything, dist |-> 1, metric |-> 0, hops |-> {<<gateway[n], p>>}] :
              p \in Connected(n, gateway[n], ends)}
  IN C \cup IF n \in routing THEN S \cup O ELSE IF gateway[n] # None THEN G ELSE {}

\* Of each prefix the least distance, then metric; the hops of equals are merged.
Better(q, r) == q.dist < r.dist \/ (q.dist = r.dist /\ q.metric < r.metric)
InstallBest(K) ==
  LET best == {r \in K : \A q \in K : q.net = r.net => ~Better(q, r)}
      Hops(net) == FirstHops(UNION {r.hops : r \in {r \in best : r.net = net}}, 4)
  IN {[code |-> (CHOOSE r \in best : r.net = net).code, net |-> net,
       metric |-> (CHOOSE r \in best : r.net = net).metric, hops |-> Hops(net)] :
        net \in {r.net : r \in best}}

RoutingTable(n, O, E, ends) ==
  The({InstallBest(K) : K \in UNION {{Candidates(n, R, ends)} : R \in {Routes(n, O, E)}}})

View(c, O, E, ends) ==
  [c |-> c, ends |-> ends, ospf |-> O, tables |-> {<<n, RoutingTable(n, O, E, ends)>> : n \in Nodes}]
Snapshot(c) ==
  The({The({View(c, O, E, ends) : E \in {Edges(O, c)}}) : O \in {OspfInterfaces(c)}, ends \in {Endpoints(c)}})
Table(n, N) == (CHOOSE t \in N.tables : t[1] = n)[2]

Lookup(n, a, N) == Longest({r \in Table(n, N) : In(a, r.net)})


-----------------------------------------------------------------------------
(* Forwarding.                                                              *)

Owns(n, a, N) == \E p \in N.ends : p[1] = n /\ ifc[p].addr = a

\* Who answers for a on the segment of p.
Owner(p, a, N) ==
  FirstPort({q \in N.ends : /\ ifc[q].addr = a
                            /\ q = p \/ Joined(p, q, N.c)})

\* Where n sends a packet for a: interface and the address it asks for there.
Routed(a, R) == {<<IF h[1] = None THEN a ELSE h[1], h[2]>> : h \in {FirstHop(r) : r \in R}}
NextHop(n, a, N) ==
  UNION {IF near # {} THEN {<<a, p>> : p \in near} ELSE Routed(a, Lookup(n, a, N)) :
           near \in {Connected(n, a, N.ends)}}

\* The way of a packet w goes on over interface h[2], to the port q of the node asked
\* by address h[1].  The way has the nodes that it comes to with these addresses.
Leg(w, h, q) == [w EXCEPT !.legs = Append(@, <<h[2], q>>)]
Come(w, h, q, near) ==
  [Leg(w, h, q) EXCEPT !.at = q[1],
                       !.way = IF near \/ q[1] # w.from THEN Append(@, <<q[1], h[1]>>) ELSE @]

\* A connected destination is the last node, one that is met again with the packet ends it.
Via(w, h, q, near) ==
  IF near THEN [Come(w, h, q, near) EXCEPT !.status = "delivered"]
  ELSE IF w.at \in w.seen THEN [Leg(w, h, q) EXCEPT !.status = "host-unreachable"]
  ELSE [Come(w, h, q, near) EXCEPT !.seen = @ \cup {w.at}]

Onward(w, out, owner, near) ==
  IF out = {} THEN [w EXCEPT !.status = "no-route"]
  ELSE IF owner = {} THEN [w EXCEPT !.status = "arp-failure"]
  ELSE The({Via(w, h, q, near) : h \in out, q \in owner})

Asked(out, N) == UNION {Owner(h[2], h[1], N) : h \in out}
IsNear(n, a, N) == Connected(n, a, N.ends) # {}
Hop(w, N) ==
  IF w.status # "going" THEN w
  ELSE IF Owns(w.at, w.to, N) THEN [w EXCEPT !.status = "delivered"]
  ELSE The({The({Onward(w, out, owner, near) : owner \in {Asked(out, N)}}) :
              out \in {NextHop(w.at, w.to, N)}, near \in {IsNear(w.at, w.to, N)}})

Sent(n, a) == [from |-> n, to |-> a, at |-> n, legs |-> <<>>, way |-> <<>>, seen |-> {}, status |-> "going"]
Forward(n, a, N) ==
  LET w == FoldLeft(LAMBDA v, k : The({Hop(w, N) : w \in {v}}), Sent(n, a), [k \in 1..(Cardinality(Nodes) + 2) |-> k])
  IN [w EXCEPT !.status = IF @ = "going" THEN "ttl-exceeded" ELSE @]

\* What traceroute prints of a way f to a: the addresses asked on the way, and a sign
\* when that was all.  A way ends long before the 30 hops after which it gives up.
Traceroute(f, a) ==
  LET sign == CASE f.status = "delivered" -> "ok" [] f.status = "no-route" -> "N" [] OTHER -> "H"
  IN IF f.way = <<>> THEN <<[addr |-> IF f.status = "delivered" THEN a ELSE None, sign |-> sign]>>
     ELSE [k \in DOMAIN f.way |-> [addr |-> f.way[k][2], sign |-> IF k = Len(f.way) THEN sign ELSE "ok"]]

\* The address a node sends from, none if it has no way to a.
SourceAddress(n, a, N) ==
  IF Owns(n, a, N) THEN a
  ELSE LET own == {p \in N.ends : p[1] = n}
           Chosen(out) == IF out = {} THEN None
                          ELSE IF \E p \in out : ifc[p].addr # None THEN ifc[The(out)].addr
                          ELSE IF own = {} THEN None ELSE ifc[First(own)].addr
       IN The({Chosen(out) : out \in {{h[2] : h \in NextHop(n, a, N)}}})

FirstAsked(n, a, N) == IF Owns(n, a, N) THEN {} ELSE {h[1] : h \in NextHop(n, a, N)}


-----------------------------------------------------------------------------
(* Reachability, and ping.                                                  *)

\* An echo and its reply would arrive, as far as port security lets each pass.
Reachable(n, a, N) ==
  \E f \in {Forward(n, a, N)} :
    /\ f.status = "delivered" /\ Admits(N.c, f.legs)
    /\ \/ f.at = n
       \/ \E s \in {SourceAddress(n, a, N)} \ {None} : \E r \in {Forward(f.at, s, N)} :
            r.status = "delivered" /\ Admits(N.c, r.legs)

\* Both ends of a leg come to know the other's address.
Taught(legs) ==
  UNION {{<<l[1][1], ifc[l[2]].addr>>, <<l[2][1], ifc[l[1]].addr>>} : l \in ToSet(legs)}
    \ {<<n, None>> : n \in Nodes}

\* The cache that is kept: later probes go by end points and tables from before.
TeachStale(P, legs) ==
  The({[P EXCEPT !.arp = @ \cup Taught(legs), !.dropped = r.out # "forwarded",
                 !.c = [sec |-> r.sec, table |-> r.table]] : r \in {LearnLegs(P.c, legs)}})

\* _learn_legs: switches learn too, and an err-disabled port outdates the cache.
Teach(P, legs) ==
  The({[P EXCEPT !.arp = @ \cup Taught(legs), !.dropped = r.out # "forwarded",
                 !.c = [sec |-> r.sec, table |-> r.table],
                 !.N = IF r.out = "errdisabled" THEN Snapshot([sec |-> r.sec, table |-> r.table]) ELSE @] :
         r \in {LearnLegs(P.c, legs)}})

Mark(P, m) == [P EXCEPT !.marks = Append(@, m)]

\* The way of an echo and that of its reply, which is the same when the echo stays here.
BothWaysOf(f, home, src, N) == [there |-> f, home |-> home, back |-> IF home THEN f ELSE Forward(f.at, src, N)]
EchoWays(n, a, src, N) ==
  The({The({BothWaysOf(f, home, src, N) : home \in {f.at = n \/ src = None}}) : f \in {Forward(n, a, N)}})

\* One echo: without a way it is U, without an answer a dot; IOS loses the first one
\* while it resolves the first hop.
Answered(P, w, resolving) == IF resolving \/ P.dropped \/ w.home THEN P ELSE Teach(P, w.back.legs)
Shown(P, resolving) == Mark(P, IF resolving \/ P.dropped THEN "." ELSE "!")
Echo(P, w, resolving) ==
  IF w.there.status = "no-route" THEN Mark(P, "U")
  ELSE IF {w.there.status, w.back.status} # {"delivered"} THEN Mark(P, ".")
  ELSE The({The({Shown(B, resolving) : B \in {Answered(T, w, resolving)}}) : T \in {Teach(P, w.there.legs)}})
Probe(P, n, a, src) ==
  The({Echo(Q, w, P.resolving) : w \in {EchoWays(n, a, src, P.N)}, Q \in {[P EXCEPT !.resolving = FALSE]}})

Probes == 5

Ready(n, a, N) ==
  [N |-> N, c |-> Now, arp |-> arp, marks |-> <<>>, dropped |-> FALSE,
   resolving |-> n \in Routers /\ \E b \in FirstAsked(n, a, N) : <<n, b>> \notin arp]
Echoes(n, a, N) ==
  The({FoldLeft(LAMBDA Q, k : The({Probe(P, n, a, src) : P \in {Q}}), Ready(n, a, N), [k \in 1..Probes |-> k]) :
         src \in {SourceAddress(n, a, N)}})


-----------------------------------------------------------------------------
(* Configuration.                                                           *)

SetStatic(n, s) == static' = [static EXCEPT ![n] = s] /\ UNCHANGED <<ifc, proc, routing, gateway, arp>>
SameRoute(r, s) == r.net = s.net /\ r.via = s.via /\ r.out = s.out

\* ip route with the key of an existing one changes that one's distance.
IpRoute(n, s) ==
  SetStatic(n, IF \E k \in DOMAIN static[n] : SameRoute(static[n][k], s)
               THEN [k \in DOMAIN static[n] |-> IF SameRoute(static[n][k], s) THEN s ELSE static[n][k]]
               ELSE Append(static[n], s))
NoIpRoute(n, s) == SetStatic(n, SelectSeq(static[n], LAMBDA r : ~SameRoute(r, s)))

IpRouting(n, b) ==
  /\ routing' = IF b THEN routing \cup {n} ELSE routing \ {n}
  /\ UNCHANGED <<ifc, proc, static, gateway, arp>>
DefaultGateway(n, g) == gateway' = [gateway EXCEPT ![n] = g] /\ UNCHANGED <<ospfVars, arp>>

ClearArp(n) == arp' = {e \in arp : e[1] # n} /\ UNCHANGED <<ospfVars, gateway>>

RouteCommand(n) ==
  \/ \E s \in {s \in StaticRoutes : s.out \in {NoPort} \cup Of(n)} : (IpRoute(n, s) \/ NoIpRoute(n, s))
  \/ \E b \in BOOLEAN : IpRouting(n, b)
  \/ \E g \in Gateways \cup {None} : DefaultGateway(n, g)

\* VPCS: ip <address> <gateway>, and clear ip.  The interface comes up with it.
HostIp(p) ==
  /\ \E x \in Plan, g \in Gateways \cup {None} :
       /\ x[1] = p
       /\ ifc' = [ifc EXCEPT ![p].addr = x[2], ![p].size = x[3]]
       /\ gateway' = [gateway EXCEPT ![p[1]] = g]
  /\ shut' = shut \ {p}
  /\ UNCHANGED <<proc, static, routing, arp>>
ClearIp(p) ==
  /\ ifc' = [ifc EXCEPT ![p].addr = None, ![p].size = 1]
  /\ gateway' = [gateway EXCEPT ![p[1]] = None]
  /\ UNCHANGED <<proc, static, routing, arp>>

ForwardingInit(s) == gateway = s.gateway /\ arp = {}

=============================================================================
