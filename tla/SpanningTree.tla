---------------------------- MODULE SpanningTree ----------------------------
(***************************************************************************)
(* PVST+ for one VLAN: L2Fabric._stp_vlan computes root, root ports and    *)
(* roles of all switches of a lab at once, by Dijkstra's algorithm with a  *)
(* heap that keeps outdated entries.  The runtime lock is held all the     *)
(* while and the result is kept until the fabric changes, so the fabric is *)
(* chosen once and for all in Init.                                        *)
(*                                                                         *)
(* A port is <<bridge, port number>>: a physical port or a Port-channel in *)
(* use.  Which ports carry the VLAN (line state, trunk or access mode,     *)
(* allowed VLANs) is an input.  A bridge id is its priority and MAC, a     *)
(* number no two switches share; port priorities are all the default.      *)
(***************************************************************************)
EXTENDS Integers, FiniteSets

CONSTANTS
  Bridges,  \* the switches of the lab
  Ports,    \* their logical switch ports
  Peer,     \* the far end of each port's cable, or NoPort
  NoPort,   \* "no port", not in Ports
  Fabrics   \* configurations (FabricType)

ASSUME PortsAssumption ==
  /\ IsFiniteSet(Ports) /\ Ports \subseteq Bridges \X Nat
  /\ NoPort \notin Ports

\* Cables have two ends, on different switches.
ASSUME PeerAssumption ==
  /\ Peer \in [Ports -> Ports \cup {NoPort}]
  /\ \A p \in Ports : Peer[p] # NoPort => Peer[Peer[p]] = p /\ Peer[p][1] # p[1]

FabricType ==
  [bridges : SUBSET Bridges,          \* switches that have the VLAN
   carries : SUBSET Ports,            \* ports that carry it
   cost    : [Ports -> Nat \ {0}],    \* _port_cost
   id      : [Bridges -> Nat]]        \* _bridge_id

ASSUME FabricsAssumption ==
  \A f \in Fabrics :
    /\ f \in FabricType
    /\ IsFiniteSet(f.bridges)
    /\ \A p \in f.carries : p[1] \in f.bridges
    /\ \A a, b \in Bridges : f.id[a] = f.id[b] => a = b

VARIABLES
  fabric,     \* the configuration
  comps,      \* the connected components of the fabric
  done,       \* those whose roles are assigned
  comp,       \* the component being computed, {} between two
  best,       \* best_offer (and dist, its cost) of each bridge, or NoOffer
  rootPort,   \* root_port of each bridge, or NoPort
  finalized,  \* bridges that left the heap
  todo,       \* ports of the bridge just popped that are still to be relaxed
  heap,       \* <<cost, bridge id, bridge>> entries
  role        \* role of each port, "none" before it is assigned

vars == <<fabric, comps, done, comp, best, rootPort, finalized, todo, heap, role>>

NoOffer == [cost |-> -1, id |-> 0, from |-> 0, to |-> 0]

\* Ports of cables that carry the VLAN at both ends.
Internal == {p \in fabric.carries : Peer[p] \in fabric.carries}
InternalPorts(b) == {p \in Internal : p[1] = b}
Neighbour(p) == Peer[p][1]

\* The connected component of b: what every set shares that contains b and
\* that no cable leaves.
Closed(S) == \A p \in Internal : p[1] \in S => Neighbour(p) \in S
Component(b) ==
  LET Enclosing == {S \in SUBSET fabric.bridges : b \in S /\ Closed(S)}
  IN {x \in fabric.bridges : \A S \in Enclosing : x \in S}

Root(C) == CHOOSE r \in C : \A b \in C : fabric.id[r] <= fabric.id[b]

\* Offers compare as Python tuples do.
Before(o, q) ==
  \/ o.cost < q.cost
  \/ o.cost = q.cost /\ o.id < q.id
  \/ o.cost = q.cost /\ o.id = q.id /\ o.from < q.from
  \/ o.cost = q.cost /\ o.id = q.id /\ o.from = q.from /\ o.to < q.to

\* What the bridge at port p offers to the bridge at its far end.
OfferFrom(p) ==
  [cost |-> best[p[1]].cost + fabric.cost[Peer[p]], id |-> fabric.id[p[1]],
   from |-> p[2], to |-> Peer[p][2]]

\* (dist, bridge id) of a is less than that of b.
Closer(a, b) ==
  \/ best[a].cost < best[b].cost
  \/ best[a].cost = best[b].cost /\ fabric.id[a] < fabric.id[b]

-----------------------------------------------------------------------------

Init ==
  /\ fabric \in Fabrics
  /\ comps = {Component(b) : b \in fabric.bridges}
  /\ done = {} /\ comp = {} /\ finalized = {} /\ todo = {} /\ heap = {}
  /\ best = [b \in Bridges |-> NoOffer]
  /\ rootPort = [b \in Bridges |-> NoPort]
  /\ role = [p \in Ports |-> "none"]

\* The components are found before the first of them is computed.
StartComponent(C) ==
  LET r == Root(C)
  IN /\ comp = {} /\ C \in comps \ done
     /\ comp' = C
     /\ best' = [best EXCEPT ![r] = [cost |-> 0, id |-> fabric.id[r], from |-> 0, to |-> 0]]
     /\ heap' = {<<0, fabric.id[r], r>>}
     /\ UNCHANGED <<fabric, comps, done, rootPort, finalized, todo, role>>

\* e is the entry heappop returns.
IsLeast(e) == \A d \in heap : e[1] < d[1] \/ (e[1] = d[1] /\ e[2] <= d[2])

Pop(e) ==
  /\ todo = {} /\ IsLeast(e)
  /\ heap' = heap \ {e}
  /\ finalized' = finalized \cup {e[3]}
  /\ todo' = IF e[3] \in finalized THEN {} ELSE InternalPorts(e[3])
  /\ UNCHANGED <<fabric, comps, done, comp, best, rootPort, role>>

\* Mutant: the cost of the sending port is added.
RelaxSenderCost(p) ==
  LET Y == Neighbour(p)
      o == [OfferFrom(p) EXCEPT !.cost = best[p[1]].cost + fabric.cost[p]]
  IN /\ todo' = todo \ {p}
     /\ IF Y \notin finalized /\ (best[Y] = NoOffer \/ Before(o, best[Y]))
        THEN /\ best' = [best EXCEPT ![Y] = o]
             /\ rootPort' = [rootPort EXCEPT ![Y] = Peer[p]]
             /\ heap' = heap \cup {<<o.cost, fabric.id[Y], Y>>}
        ELSE UNCHANGED <<best, rootPort, heap>>
     /\ UNCHANGED <<fabric, comps, done, comp, finalized, role>>

Relax(p) ==
  LET Y == Neighbour(p)
      o == OfferFrom(p)
  IN /\ todo' = todo \ {p}
     /\ IF Y \notin finalized /\ (best[Y] = NoOffer \/ Before(o, best[Y]))
        THEN /\ best' = [best EXCEPT ![Y] = o]
             /\ rootPort' = [rootPort EXCEPT ![Y] = Peer[p]]
             /\ heap' = heap \cup {<<o.cost, fabric.id[Y], Y>>}
        ELSE UNCHANGED <<best, rootPort, heap>>
     /\ UNCHANGED <<fabric, comps, done, comp, finalized, role>>

\* Mutant: at equal distance both ends are designated.
RoleOfTiesForwarding(p) ==
  IF p[1] = Root(comp) \/ p \notin Internal THEN "Desg"
  ELSE IF rootPort[p[1]] = p THEN "Root"
  ELSE IF best[p[1]].cost <= best[Neighbour(p)].cost THEN "Desg" ELSE "Altn"

\* Mutant: at equal distance neither end is designated.
RoleOfTiesBlocking(p) ==
  IF p[1] = Root(comp) \/ p \notin Internal THEN "Desg"
  ELSE IF rootPort[p[1]] = p THEN "Root"
  ELSE IF best[p[1]].cost < best[Neighbour(p)].cost THEN "Desg" ELSE "Altn"

RoleOf(p) ==
  IF p[1] = Root(comp) \/ p \notin Internal THEN "Desg"
  ELSE IF rootPort[p[1]] = p THEN "Root"
  ELSE IF Closer(p[1], Neighbour(p)) THEN "Desg" ELSE "Altn"

AssignRoles ==
  /\ comp # {} /\ todo = {} /\ heap = {}
  /\ role' = [p \in Ports |->
                IF p \in fabric.carries /\ p[1] \in comp THEN RoleOf(p) ELSE role[p]]
  /\ done' = done \cup {comp}
  /\ comp' = {}
  /\ UNCHANGED <<fabric, comps, best, rootPort, finalized, todo, heap>>

Next ==
  \/ \E C \in comps : StartComponent(C)
  \/ \E e \in heap : Pop(e)
  \/ \E p \in todo : Relax(p)
  \/ AssignRoles

Spec == Init /\ [][Next]_vars

-----------------------------------------------------------------------------
(* Properties.                                                             *)

OfferType == [cost : Nat, id : Nat, from : Nat, to : Nat]
Roles == {"Root", "Desg", "Altn"}

\* Types; only cables that carry the VLAN at both ends are relaxed.
TypeOK ==
  /\ fabric \in Fabrics
  /\ comps \subseteq SUBSET fabric.bridges /\ done \subseteq comps
  /\ comp \in (comps \ done) \cup {{}}
  /\ best \in [Bridges -> OfferType \cup {NoOffer}]
  /\ rootPort \in [Bridges -> Ports \cup {NoPort}]
  /\ finalized \subseteq fabric.bridges /\ todo \subseteq Internal
  /\ heap \subseteq Nat \X Nat \X fabric.bridges
  /\ role \in [Ports -> Roles \cup {"none"}]

\* The end of a cable that forwards onto it for its segment.
Designated(p) == role[p] = "Desg"
Forwards(p) == role[p] \in {"Root", "Desg"}

\* Every cable whose roles are known has exactly one designated end; no cable is
\* blocked at both ends and none is designated at both, also between bridges
\* that are equally far from the root.
OneDesignated ==
  \A C \in done : \A p \in Internal : p[1] \in C => (Designated(p) <=> ~Designated(Peer[p]))

\* What a bridge settled on is the best of what its neighbours finally offer, as
\* IEEE 802.1D has it: least root path cost, then sender, then ports, although
\* they are popped one after the other and a popped bridge takes no offers.
BestOffer ==
  \A C \in done : \A b \in C :
    \/ rootPort[b] = NoPort /\ b = Root(C)
    \/ /\ rootPort[b] \in InternalPorts(b)
       /\ best[b] = OfferFrom(Peer[rootPort[b]])
       /\ \A p \in InternalPorts(b) \ {rootPort[b]} : Before(best[b], OfferFrom(Peer[p]))

\* Forwarding cables connect all bridges of a component without a loop.
ForwardingCables(C) == {{p, Peer[p]} : p \in {q \in Internal : q[1] \in C /\ Forwards(q) /\ Forwards(Peer[q])}}
Connected(C) ==
  \A S \in SUBSET C :
    S # {} /\ S # C =>
      \E p \in Internal : /\ p[1] \in S /\ Neighbour(p) \in C \ S
                          /\ Forwards(p) /\ Forwards(Peer[p])
SpansComponent ==
  \A C \in done :
    Connected(C) /\ Cardinality(ForwardingCables(C)) = Cardinality(C) - 1

-----------------------------------------------------------------------------
(* The inductive invariant behind OneDesignated and BestOffer.             *)

Started == done \cup ({comp} \ {{}})

\* A component is not empty, no cable leaves it, and it lies in every set of
\* bridges that it meets and that no cable leaves.
ComponentsKnown ==
  \A C \in comps :
    /\ C # {} /\ C \subseteq fabric.bridges /\ Closed(C)
    /\ \A S \in SUBSET fabric.bridges : Closed(S) /\ S \cap C # {} => C \subseteq S

\* A bridge has an offer through its root port, which leads to a popped bridge;
\* only the roots, at distance 0, have one without.
OffersKnown ==
  /\ \A b \in fabric.bridges : best[b] = NoOffer => rootPort[b] = NoPort
  /\ \A C \in Started : rootPort[Root(C)] = NoPort /\ best[Root(C)].cost = 0
  /\ \A b \in fabric.bridges : best[b] # NoOffer =>
       \E C \in Started :
         /\ b \in C
         /\ \/ rootPort[b] = NoPort /\ b = Root(C)
            \/ /\ rootPort[b] \in InternalPorts(b)
               /\ Neighbour(rootPort[b]) \in finalized
               /\ best[b] = OfferFrom(Peer[rootPort[b]])

\* The heap holds the current entry of every bridge that waits, and besides it
\* only greater, outdated ones.
HeapKnown ==
  /\ comp = {} => heap = {} /\ todo = {}
  /\ \A e \in heap : /\ e[3] \in comp /\ e[2] = fabric.id[e[3]]
                     /\ best[e[3]] # NoOffer /\ best[e[3]].cost <= e[1]
  /\ \A b \in comp \ finalized :
       best[b] # NoOffer => <<best[b].cost, fabric.id[b], b>> \in heap

\* Popped bridges are nearer than waiting ones, and the last popped is the
\* farthest of them.
PoppedInOrder ==
  /\ \A b \in finalized : best[b] # NoOffer
  /\ \A b \in finalized \cap comp, e \in heap : best[b].cost <= e[1]
  /\ \A p \in todo :
       /\ p[1] \in finalized \cap comp
       /\ \A b \in finalized \cap comp : best[b].cost <= best[p[1]].cost

\* What popped bridges offer was looked at by their neighbours.
Relaxed ==
  \A p \in Internal \ todo : p[1] \in finalized =>
    best[Neighbour(p)] # NoOffer /\ ~Before(OfferFrom(p), best[Neighbour(p)])

\* A component is done when all its bridges were popped and its roles follow.
DoneKnown ==
  \A C \in done :
    /\ C \subseteq finalized
    /\ \A p \in fabric.carries : p[1] \in C =>
         role[p] = (IF p[1] = Root(C) \/ p \notin Internal THEN "Desg"
                    ELSE IF rootPort[p[1]] = p THEN "Root"
                    ELSE IF Closer(p[1], Neighbour(p)) THEN "Desg" ELSE "Altn")

IInv ==
  /\ TypeOK /\ ComponentsKnown /\ OffersKnown /\ HeapKnown
  /\ PoppedInOrder /\ Relaxed /\ DoneKnown

=============================================================================
