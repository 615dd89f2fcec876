------------------------------ MODULE Switching ------------------------------
(***************************************************************************)
(* The Layer-2 fabric of a lab (L2Fabric): which switch ports are up, which *)
(* bundle into a Port-channel, which operate as trunks, which VLANs they    *)
(* forward, and so which devices share a broadcast domain.  All of it is    *)
(* derived from the interface configuration; a configuration command        *)
(* changes that, and the port-security violation of a frame err-disables a  *)
(* port.  Both run under runtime.lock and make the next query compute the   *)
(* fabric anew, so the state is the configuration and the fabric is defined *)
(* over it.                                                                 *)
(*                                                                          *)
(* An interface is <<switch, number>>: a physical port, or Port-channel g   *)
(* with number 64 + g, as in _iol_port_number.  Port numbers order as names *)
(* do.  A Port-channel that does not exist has no members, its line is down *)
(* and its configuration that of a new one.  B is always the set of bundled *)
(* members, which the code computes once per fabric.                        *)
(*                                                                          *)
(* Spanning tree: bridge ids are the switch numbers and costs the default;  *)
(* SpanningTree models the algorithm, here is what it computes.             *)
(***************************************************************************)
EXTENDS Naturals, FiniteSets

CONSTANTS
  Switches,      \* numbers, in the order of bridge ids
  Ports,         \* physical ports
  Devices,       \* hosts and routers: each stands for one of their cabled interfaces
  Peer,          \* what the cable of each port leads to: a port or a device
  Named,         \* of the ports of each cable, the one the lab file names first
  Attached,      \* <<endpoint, tag>> pairs of each device: its addressable
                 \* interfaces, those of its subinterfaces with their tag
  Groups,        \* channel-group numbers
  Vlans,         \* VLAN ids, 1 among them
  Configurable,  \* interfaces that users configure while the lab runs
  Startups,      \* startup configurations
  MaxCommands    \* bound on commands and violations

NoTag == 0
Po(s, g) == <<s, 64 + g>>
PortChannels == {Po(s, g) : s \in Switches, g \in Groups}
Interfaces == Ports \cup PortChannels

ASSUME PortsAssumption ==
  /\ Switches \subseteq Nat /\ Ports \subseteq Switches \X (1..64)
  /\ Groups \subseteq Nat \ {0} /\ Vlans \subseteq Nat \ {NoTag} /\ 1 \in Vlans
  /\ Devices \cap Interfaces = {}
ASSUME PeerAssumption ==
  /\ Peer \in [Ports -> Ports \cup Devices]
  /\ \A p \in Ports : Peer[p] \in Ports => Peer[Peer[p]] = p /\ Peer[p][1] # p[1]
  /\ \A p \in Ports : Peer[p] \in Ports => p \in Named \/ Peer[p] \in Named
  /\ Named \subseteq Ports /\ Configurable \subseteq Interfaces /\ MaxCommands \in Nat

ASSUME FiniteAssumption == IsFiniteSet(Switches) /\ IsFiniteSet(Vlans)

\* An endpoint is named by the device it is on, an interface has one cable.
Endpoints == UNION {Attached[d] : d \in Devices}

ASSUME DevicesAssumption ==
  /\ \A p, q \in Ports : Peer[p] \in Devices /\ Peer[p] = Peer[q] => p = q
  /\ \A d, e \in Devices : Attached[d] \cap Attached[e] # {} => d = e
  /\ IsFiniteSet(Endpoints) /\ \A x \in Endpoints : x[1] \notin Switches

Lacp == {"active", "passive"}
Pagp == {"desirable", "auto"}

InterfaceType ==
  [shut : BOOLEAN, routed : BOOLEAN, mode : {"access", "trunk", "auto", "desirable"},
   vlan : Vlans, native : Vlans, allowed : SUBSET Vlans, noneg : BOOLEAN,
   group : Groups \cup {0}, chan : Lacp \cup Pagp \cup {"on"},
   portfast : {"on", "off", "default"}, guard : {"on", "off", "default"}]

\* ensure_interface on a switch.
NewInterface ==
  [shut |-> FALSE, routed |-> FALSE, mode |-> "access", vlan |-> 1, native |-> 1,
   allowed |-> Vlans, noneg |-> FALSE, group |-> 0, chan |-> "on",
   portfast |-> "default", guard |-> "default"]

ASSUME StartupsAssumption ==
  Startups \subseteq [cfg : [Interfaces -> InterfaceType], edge : SUBSET Switches,
                      vlans : [Switches -> {V \in SUBSET Vlans : 1 \in V}]]

VARIABLES
  cfg,       \* configuration of each interface
  vlans,     \* VLANs of each switch
  edge,      \* switches with spanning-tree portfast default
  guarded,   \* switches with spanning-tree portfast bpduguard default
  violated,  \* ports err-disabled by port security
  commands   \* commands and violations so far

vars == <<cfg, vlans, edge, guarded, violated, commands>>

-----------------------------------------------------------------------------
(* Line state.                                                             *)

\* A channel member has the switchport configuration of its Port-channel.
Governing(p) == IF cfg[p].group = 0 THEN p ELSE Po(p[1], cfg[p].group)
Gov(p) == cfg[Governing(p)]

CableUp(p) == ~cfg[p].shut /\ (Peer[p] \in Ports => ~cfg[Peer[p]].shut)

\* DTP: does p, facing q, become a trunk?
NegotiatesTrunk(p, q) ==
  \/ Gov(p).mode = "trunk"
  \/ /\ Gov(p).mode \in {"auto", "desirable"}
     /\ q \in Interfaces
     /\ ~Gov(q).noneg
     /\ Gov(q).mode \in {"trunk", "desirable"} \/ (Gov(p).mode = "desirable" /\ Gov(q).mode = "auto")

\* Only a port outside a channel follows the default, and the far end of such a
\* port bundles with nothing: the code's detour through EtherChannel ends there.
PortfastEnabled(p) ==
  \/ cfg[p].portfast = "on"
  \/ /\ cfg[p].portfast = "default" /\ p[1] \in edge
     /\ cfg[p].group = 0 /\ ~cfg[p].routed
     /\ ~NegotiatesTrunk(p, Peer[p])

\* An edge port with BPDU guard that faces a switch.
BpduGuarded(p) ==
  /\ cfg[p].guard = "on" \/ (cfg[p].guard = "default" /\ p[1] \in guarded)
  /\ PortfastEnabled(p)
  /\ Peer[p] \in Ports
  /\ CableUp(p)

ErrDisabled(p) == p \in violated \/ BpduGuarded(p)

\* Mutant: the far end's err-disable is not noticed.
PhysUpOneSided(p) == CableUp(p) /\ ~ErrDisabled(p)

PhysUp(p) ==
  /\ CableUp(p) /\ ~ErrDisabled(p)
  /\ Peer[p] \in Ports => ~ErrDisabled(Peer[p])

-----------------------------------------------------------------------------
(* EtherChannel.                                                           *)

Members(s, g) == {p \in Ports : p[1] = s /\ cfg[p].group = g}

ModesBundle(m, n) ==
  \/ {m, n} \subseteq Lacp /\ "active" \in {m, n}
  \/ {m, n} \subseteq Pagp /\ "desirable" \in {m, n}
  \/ m = "on" /\ n = "on"

\* _po_mode_key: what both Port-channels must have in common.
PoModeKey(p) ==
  IF Gov(p).routed THEN <<"l3">>
  ELSE IF Gov(p).mode = "trunk" THEN <<"trunk">> ELSE <<"access", Gov(p).vlan>>

Candidate(p) ==
  /\ cfg[p].group # 0 /\ PhysUp(p)
  /\ Peer[p] \in Ports /\ cfg[Peer[p]].group # 0
  /\ ModesBundle(cfg[p].chan, cfg[Peer[p]].chan)
  /\ PoModeKey(p) = PoModeKey(Peer[p])

Partner(p) == Governing(Peer[p])
Before(p, q) == p[1] < q[1] \/ (p[1] = q[1] /\ p[2] < q[2])

Candidates(s, g) == {p \in Members(s, g) : Candidate(p)}
Votes(S, x) == Cardinality({p \in S : Partner(p) = x})

\* A member bundles when it leads to the group most of the candidates lead to,
\* the first of these if there are several.
Bundled(p) ==
  /\ Candidate(p)
  /\ LET S == Candidates(p[1], cfg[p].group)
     IN \A x \in {Partner(q) : q \in S} :
          \/ Votes(S, x) < Votes(S, Partner(p))
          \/ Votes(S, x) = Votes(S, Partner(p)) /\ ~Before(x, Partner(p))

Bundles == {p \in Ports : Bundled(p)}

\* Suspended: a member whose protocol came to no agreement.
Suspended(p, B) == cfg[p].group # 0 /\ p \notin B /\ cfg[p].chan # "on"

MembersOf(po) == {p \in Ports : p[1] = po[1] /\ cfg[p].group # 0 /\ Governing(p) = po}

LineUp(p, B) ==
  IF p \in Ports THEN PhysUp(p) /\ ~Suspended(p, B)
  ELSE ~cfg[p].shut /\ MembersOf(p) \cap B # {}

Logical(p, B) == IF p \in B THEN Governing(p) ELSE p

First(S) == CHOOSE p \in S : \A q \in S : ~Before(q, p)

\* The far end, with bundled members collapsed: a Port-channel asks its first.
DtpPeer(p, B) ==
  LET q == Peer[IF p \in Ports THEN p ELSE First(MembersOf(p) \cap B)]
  IN IF q \in Ports THEN Logical(q, B) ELSE q

-----------------------------------------------------------------------------
(* VLANs and spanning tree.                                                *)

Trunking(p, B) == NegotiatesTrunk(p, DtpPeer(p, B))

Carries(p, v, B) ==
  /\ LineUp(p, B) /\ ~Gov(p).routed
  /\ IF Trunking(p, B) THEN v \in vlans[p[1]] \cap Gov(p).allowed ELSE v = Gov(p).vlan

\* Logical ports of the switches that have v.
Carrying(v, B) == {p \in Interfaces \ B : v \in vlans[p[1]] /\ Carries(p, v, B)}

\* Cables between two of them, in both directions.
Edges(C, B) ==
  LET Seen == {<<p, DtpPeer(p, B)>> : p \in C}
  IN {e \in Seen \cup {<<e[2], e[1]>> : e \in Seen} : e[1] \in C /\ e[2] \in C}

\* What is reached from S along the pairs R.
Reach(S, R) ==
  LET Grown[k \in 0..Cardinality(R)] ==
        IF k = 0 THEN S
        ELSE LET X == Grown[k - 1] IN X \cup {r[2] : r \in {r \in R : r[1] \in X}}
  IN Grown[Cardinality(R)]

Least(S) == CHOOSE x \in S : \A y \in S : x <= y
PortCost(p, B) == IF p \in Ports THEN 100 ELSE 100 \div Cardinality(MembersOf(p) \cap B)

\* Distance of each switch from the root of its component: Walks are the costs
\* of the walks from the roots, as <<switch, cost>>.
Distance(E, B) ==
  LET R == {<<e[1][1], e[2][1]>> : e \in E}
      Walks[k \in 0..Cardinality(Switches)] ==
        IF k = 0 THEN {<<s, 0>> : s \in {s \in Switches : s = Least(Reach({s}, R))}}
        ELSE LET W == Walks[k - 1]
             IN W \cup {<<x[2][2][1], x[1][2] + PortCost(x[2][2], B)>> :
                          x \in {x \in W \X E : x[2][1][1] = x[1][1]}}
      All == Walks[Cardinality(Switches) - 1]
  IN [s \in Switches |-> Least({w[2] : w \in {w \in All : w[1] = s}})]

\* What a port of s is offered through the cable e.
Offer(e, d, B) == <<d[e[1][1]] + PortCost(e[2], B), e[1][1], e[1][2], e[2][2]>>
Better(o, q) == \E i \in 1..4 : o[i] < q[i] /\ \A j \in 1..(i - 1) : o[j] = q[j]

RootPort(p, E, d, B) ==
  \E e \in E : e[2] = p /\ \A f \in E : f[2][1] = p[1] => ~Better(Offer(f, d, B), Offer(e, d, B))

Forwards(p, C, E, d, B) ==
  \/ d[p[1]] = 0
  \/ DtpPeer(p, B) \notin C
  \/ RootPort(p, E, d, B)
  \/ LET q == DtpPeer(p, B) IN d[p[1]] < d[q[1]] \/ (d[p[1]] = d[q[1]] /\ p[1] < q[1])

\* <<port, VLAN>> pairs that forward.
Forwarding(B) ==
  UNION {LET C == Carrying(v, B)
             E == Edges(C, B)
             d == Distance(E, B)
         IN {<<p, v>> : p \in {p \in C : Forwards(p, C, E, d, B)}} : v \in Vlans}


-----------------------------------------------------------------------------
(* Broadcast domains.  Frames have a tag or none; a trunk sends its native  *)
(* VLAN without.                                                            *)

\* What p sends: <<VLAN, tag>> pairs.
Sends(p, F, B) ==
  {<<v, IF Trunking(p, B) /\ v # Gov(p).native THEN v ELSE NoTag>> :
     v \in {v \in Vlans : <<p, v>> \in F}}

\* Mutant: the tag decides, whether or not the port forwards the VLAN.
ReceivedInBlocked(p, tag, F, B) ==
  {v \in Vlans : IF Trunking(p, B) THEN v = (IF tag = NoTag THEN Gov(p).native ELSE tag)
                 ELSE tag = NoTag /\ v = Gov(p).vlan}

\* Mutant: an untagged frame is received in VLAN 1.
ReceivedInDefault(p, tag, F, B) ==
  {x[1] : x \in {x \in Sends(p, F, B) : tag = x[2] \/ (tag = NoTag /\ x[1] = 1)}}

\* The VLAN in which p receives a frame with this tag, if any.
ReceivedIn(p, tag, F, B) ==
  {x[1] : x \in {x \in Sends(p, F, B) : tag = x[2] \/ (tag = x[1] /\ x[2] = NoTag)}}

\* <<port, VLAN>> pairs that a cable joins, from the end the lab file names first.
CableJoins(F, B) ==
  UNION {LET a == Logical(p, B)
             b == Logical(Peer[p], B)
         IN UNION {{<<<<a, x[1]>>, <<b, v>>>> : v \in ReceivedIn(b, x[2], F, B)} : x \in Sends(a, F, B)}
         : p \in {p \in Named : Peer[p] \in Ports}}

\* The same for the endpoints of the devices.
DeviceJoins(F, B) ==
  UNION {LET a == Logical(p, B)
         IN UNION {{<<<<a, v>>, x>> : v \in ReceivedIn(a, x[2], F, B)} : x \in Attached[Peer[p]]}
         : p \in {p \in Ports : Peer[p] \in Devices}}

\* As pairs of <<switch, VLAN>> and <<endpoint, tag>> tokens, in both directions.
Graph(F, B) ==
  LET Forth == {<<<<j[1][1][1], j[1][2]>>, <<j[2][1][1], j[2][2]>>>> : j \in CableJoins(F, B)}
                 \cup {<<<<j[1][1][1], j[1][2]>>, j[2]>> : j \in DeviceJoins(F, B)}
  IN Forth \cup {<<j[2], j[1]>> : j \in Forth}

Segment(t, G) == Reach({t}, G)

-----------------------------------------------------------------------------
Init ==
  /\ \E s \in Startups : cfg = s.cfg /\ vlans = s.vlans /\ edge = s.edge
  /\ guarded = {} /\ violated = {}
  /\ commands = 0

Step == commands < MaxCommands /\ commands' = commands + 1
Configurables == {i[1] : i \in Configurable}

\* One command on an interface.
Set(i, new) ==
  /\ Step
  /\ i \in Configurable
  /\ cfg' = [cfg EXCEPT ![i] = new]
  /\ UNCHANGED <<vlans, edge, guarded, violated>>

\* switchport mode
SwitchportMode(i, mode) == Set(i, [cfg[i] EXCEPT !.mode = mode, !.routed = FALSE])

NoSwitchportMode(i) == Set(i, [cfg[i] EXCEPT !.mode = "access"])

\* [no] switchport; "no" forgets the mode, and a port without one is dynamic auto.
Switchport(i) == Set(i, [cfg[i] EXCEPT !.routed = FALSE])
NoSwitchport(i) == Set(i, [cfg[i] EXCEPT !.routed = TRUE, !.mode = "auto"])

\* switchport access vlan, which creates the VLAN (no VTP clients).
AccessVlan(i, v) ==
  /\ Step
  /\ i \in Configurable
  /\ cfg' = [cfg EXCEPT ![i].vlan = v]
  /\ vlans' = [vlans EXCEPT ![i[1]] = @ \cup {v}]
  /\ UNCHANGED <<edge, guarded, violated>>

TrunkNative(i, v) == Set(i, [cfg[i] EXCEPT !.native = v])
TrunkAllowed(i, V) == Set(i, [cfg[i] EXCEPT !.allowed = V])
Nonegotiate(i, b) == Set(i, [cfg[i] EXCEPT !.noneg = b])

ChannelGroup(p, g, mode) == p \in Ports /\ Set(p, [cfg[p] EXCEPT !.group = g, !.chan = mode])
NoChannelGroup(p) == p \in Ports /\ Set(p, [cfg[p] EXCEPT !.group = 0, !.chan = "on"])

\* no interface Port-channel, which frees its members.
NoInterface(po) ==
  /\ Step
  /\ po \in PortChannels \cap Configurable
  /\ cfg' = [i \in Interfaces |->
               IF i = po THEN NewInterface
               ELSE IF i \in MembersOf(po) THEN [cfg[i] EXCEPT !.group = 0, !.chan = "on"]
               ELSE cfg[i]]
  /\ UNCHANGED <<vlans, edge, guarded, violated>>

\* default interface, which replaces the interface: its violation is forgotten too.
DefaultInterface(i) ==
  /\ Step
  /\ i \in Configurable
  /\ cfg' = [cfg EXCEPT ![i] = NewInterface]
  /\ violated' = violated \ {i}
  /\ UNCHANGED <<vlans, edge, guarded>>

Portfast(i, f) == Set(i, [cfg[i] EXCEPT !.portfast = f])
Bpduguard(i, f) == Set(i, [cfg[i] EXCEPT !.guard = f])

\* spanning-tree portfast [bpduguard] default, and no form
PortfastDefault(s, on) ==
  /\ Step
  /\ s \in Configurables
  /\ edge' = IF on THEN edge \cup {s} ELSE edge \ {s}
  /\ UNCHANGED <<cfg, vlans, guarded, violated>>

BpduguardDefault(s, on) ==
  /\ Step
  /\ s \in Configurables
  /\ guarded' = IF on THEN guarded \cup {s} ELSE guarded \ {s}
  /\ UNCHANGED <<cfg, vlans, edge, violated>>

\* shutdown clears an err-disable; no shutdown does not.
Shutdown(i) ==
  /\ Step
  /\ i \in Configurable
  /\ cfg' = [cfg EXCEPT ![i].shut = TRUE]
  /\ violated' = violated \ {i}
  /\ UNCHANGED <<vlans, edge, guarded>>

NoShutdown(i) == Set(i, [cfg[i] EXCEPT !.shut = FALSE])

AddVlan(s, v) ==
  /\ Step
  /\ s \in Configurables
  /\ vlans' = [vlans EXCEPT ![s] = @ \cup {v}]
  /\ UNCHANGED <<cfg, edge, guarded, violated>>

\* no vlan; access ports keep the VLAN and stay down for it.
NoVlan(s, v) ==
  /\ Step
  /\ s \in Configurables
  /\ v # 1
  /\ vlans' = [vlans EXCEPT ![s] = @ \ {v}]
  /\ UNCHANGED <<cfg, edge, guarded, violated>>

\* A frame violates the port security of p (_secure_admit): any port that is up
\* may have one; a bundled member's frames come in by the Port-channel.
Violation(p) ==
  /\ Step
  /\ p \in (Configurable \cap Ports) \ Bundles
  /\ LineUp(p, Bundles)
  /\ violated' = violated \cup {p}
  /\ UNCHANGED <<cfg, vlans, edge, guarded>>

Next ==
  \/ \E i \in Configurable :
       \/ \E mode \in {"access", "trunk", "auto", "desirable"} : SwitchportMode(i, mode)
       \/ NoSwitchportMode(i)
       \/ Switchport(i)
       \/ NoSwitchport(i)
       \/ \E v \in Vlans : AccessVlan(i, v) \/ TrunkNative(i, v)
       \/ \E V \in SUBSET Vlans : TrunkAllowed(i, V)
       \/ \E b \in BOOLEAN : Nonegotiate(i, b)
       \/ \E g \in Groups, mode \in Lacp \cup Pagp \cup {"on"} : ChannelGroup(i, g, mode)
       \/ NoChannelGroup(i)
       \/ NoInterface(i)
       \/ DefaultInterface(i)
       \/ \E f \in {"on", "off"} : Portfast(i, f) \/ Bpduguard(i, f)
       \/ Shutdown(i)
       \/ NoShutdown(i)
       \/ Violation(i)
  \/ \E s \in Configurables :
       \/ \E on \in BOOLEAN : PortfastDefault(s, on) \/ BpduguardDefault(s, on)
       \/ \E v \in Vlans : AddVlan(s, v) \/ NoVlan(s, v)

Spec == Init /\ [][Next]_vars

-----------------------------------------------------------------------------
(* Properties.                                                             *)

\* Every command leaves a configuration, and VLAN 1 on every switch.
TypeOK ==
  /\ cfg \in [Interfaces -> InterfaceType]
  /\ vlans \in [Switches -> SUBSET Vlans]
  /\ \A s \in Switches : 1 \in vlans[s]
  /\ edge \subseteq Switches /\ guarded \subseteq Switches
  /\ violated \subseteq Ports
  /\ commands \in 0..MaxCommands

\* The candidates of each Port-channel lead to the same Port-channel.
Parallel ==
  \A p, q \in Ports :
    (Candidate(p) /\ Candidate(q) /\ Governing(p) = Governing(q)) => Partner(p) = Partner(q)

\* The two ends of a cable, where Port-channels are cabled in parallel, agree
\* whether it is part of one (_compute_etherchannels works on each end alone):
\* a member that bundles at one end only would send into a port that drops.
BundledAtBothEnds ==
  Parallel => \A p \in Ports : Bundled(p) => Peer[p] \in Ports /\ Bundled(Peer[p])

\* The cables between two switches, as the <<logical port, logical port>> of
\* each end, that are up at both ends and carry VLANs.
LiveCables(B) ==
  {c \in {<<Logical(p, B), Logical(Peer[p], B)>> : p \in {p \in Ports : Peer[p] \in Ports}} :
     LineUp(c[1], B) /\ LineUp(c[2], B) /\ ~Gov(c[1]).routed /\ ~Gov(c[2]).routed}

\* Both ends of every cable are configured alike: each is the DTP peer of the
\* other, both are trunks with one native VLAN or access ports of one VLAN.
Alike(B) ==
  \A c \in LiveCables(B) :
    /\ DtpPeer(c[1], B) = c[2]
    /\ Trunking(c[1], B) = Trunking(c[2], B)
    /\ IF Trunking(c[1], B) THEN Gov(c[1]).native = Gov(c[2]).native
       ELSE Gov(c[1]).vlan = Gov(c[2]).vlan

\* Cables on which v can pass: access ports of v, trunks that allow v at both ends.
Passing(v, B) ==
  {c \in LiveCables(B) :
     \A p \in {c[1], c[2]} :
       v \in vlans[p[1]] /\ IF Trunking(p, B) THEN v \in Gov(p).allowed ELSE v = Gov(p).vlan}

\* Where cables are configured alike, the switches in a segment of VLAN v are
\* those that cables on which v can pass connect, in VLAN v and no other, and a
\* tagged subinterface is in no VLAN but its own: blocked ports, bundles and
\* native VLANs neither cut a VLAN nor leak one (_build_segments).
SegmentsAreVlans ==
  LET B == Bundles
      G == Graph(Forwarding(B), B)
  IN Alike(B) =>
       \A s \in Switches : \A v \in vlans[s] :
         LET S == Segment(<<s, v>>, G)
         IN /\ S \cap (Switches \X Vlans)
                = {<<r, v>> : r \in Reach({s}, {<<c[1][1], c[2][1]>> : c \in Passing(v, B)})}
            /\ \A d \in Devices : \A x \in Attached[d] \cap S : x[2] \in {NoTag, v}

\* Where cables are configured alike, frames cannot go round, not even from one
\* VLAN to another: no cable joins two switch VLANs that the others join.
LoopFree ==
  LET B == Bundles
      J == {{j[1], j[2]} : j \in CableJoins(Forwarding(B), B)}
      Token(x) == <<x[1][1], x[2]>>
      Pairs(K) == UNION {{<<Token(x), Token(y)>> : x \in j, y \in j} : j \in K}
  IN Alike(B) => \A j \in J : \A x, y \in j :
       x # y => Token(y) \notin Reach({Token(x)}, Pairs(J \ {j}))

=============================================================================
