----------------------------- MODULE DhcpLeases -----------------------------
(***************************************************************************)
(* DHCP in a running lab.  Every configuration change ends in              *)
(* mark_changed, which re-leases all DHCP hosts at once                    *)
(* (NetworkEngine.recompute_dhcp): bindings that are no longer valid are   *)
(* dropped, every DHCP address is taken from its host, and the hosts are   *)
(* served one after the other, lease holders first.  It all runs under     *)
(* runtime.lock, so a command and its recompute are one step.              *)
(*                                                                         *)
(* Hosts are natural numbers in name order, addresses natural numbers in   *)
(* allocation order.  Each pool is the only pool of its server, so the     *)
(* server's excluded addresses are the pool's.  A client id is the host's  *)
(* MAC and as unique as its name.  The expiry time of a binding moves with *)
(* its start and is not kept apart; nothing calls expire_bindings.         *)
(***************************************************************************)
EXTENDS Integers, FiniteSets, Sequences

CONSTANTS
  Hosts,          \* the VPCS hosts, in name order
  Pools,          \* the DHCP pools of the lab
  Segments,       \* broadcast domains a host may be in
  Offers,         \* the pools _select_server tries for a segment, in order
  Networks,       \* the networks each pool may be given
  Gateway,        \* default-router of each pool, or NoAddress
  StaticChoices,  \* addresses a user may configure by hand
  ExcludeChoices, \* excluded-address ranges a user may configure
  NoPool,         \* "no server answers", not a pool
  MaxTime         \* bound on the simulated clock

NoAddress == 0
NoTime == -1

ASSUME HostsAssumption == Hosts \subseteq Nat /\ IsFiniteSet(Hosts)
ASSUME OffersAssumption == Offers \in [Segments -> Seq(Pools)]
ASSUME NetworksAssumption ==
  \A p \in Pools : Networks[p] # {} /\ \A n \in Networks[p] : n \subseteq Nat \ {NoAddress}
ASSUME NoPoolAssumption == NoPool \notin Pools
ASSUME TimeAssumption == MaxTime \in Nat
ASSUME StaticAssumption == StaticChoices \subseteq Nat \ {NoAddress}

VARIABLES
  now,       \* the simulated clock
  config,    \* the configuration DHCP depends on (ConfigType below)
  bindings,  \* pool.bindings of every server
  leased,    \* the DHCP address of each host's interface, or NoAddress
  since      \* dhcp_client.leased_at of each host, or NoTime

vars == <<now, config, bindings, leased, since>>

Addresses == (UNION UNION {Networks[p] : p \in Pools}) \cup StaticChoices

ConfigType ==
  [dhcp     : SUBSET Hosts,                              \* dhcp_enabled
   manual   : [Hosts -> StaticChoices \cup {NoAddress}], \* a host's static address
   infra    : SUBSET StaticChoices,                      \* router and switch addresses
   segment  : [Hosts -> Segments],                       \* broadcast domain of a host
   serving  : SUBSET Pools,   \* service on, giaddr in the network, and the
                              \* server's interface or a helper reachable
   net      : [Pools -> SUBSET Addresses],
   excluded : [Pools -> ExcludeChoices \cup {{}}]]

-----------------------------------------------------------------------------

StaticInUse(c) == c.infra \cup ({c.manual[h] : h \in Hosts} \ {NoAddress})

Of(h, B) == {b \in B : b.client = h}
Newest(B) == CHOOSE b \in B : \A o \in B : o.at <= b.at
Least(S) == CHOOSE a \in S : \A o \in S : a <= o

\* _select_server: the first pool on the segment's list that answers.
Selected(c, h) ==
  LET list      == Offers[c.segment[h]]
      answering == {i \in DOMAIN list : list[i] \in c.serving}
  IN IF answering = {} THEN NoPool ELSE list[Least(answering)]

\* The binding survives: its host still uses DHCP and its address is in the
\* pool's network, not excluded and not used statically.
Valid(c, b) ==
  /\ b.client \in c.dhcp
  /\ b.address \in c.net[b.pool] \ c.excluded[b.pool]
  /\ b.address \notin StaticInUse(c)

\* Mutant: only the pool's own bindings count as used.
FreeInPool(c, p, B) ==
  c.net[p] \ (c.excluded[p] \cup {Gateway[p]} \cup StaticInUse(c)
                \cup {b.address : b \in {o \in B : o.pool = p}})

\* What dhcp_request may offer from pool p to a new client.
Free(c, p, B) ==
  c.net[p] \ (c.excluded[p] \cup {Gateway[p]} \cup StaticInUse(c)
                \cup {b.address : b \in B})

(* dhcp_request for host h with the bindings B, and the removal of the     *)
(* host's other bindings: the bindings afterwards.  A host that still has  *)
(* a binding in the pool gets the same address and, unless it ran a new    *)
(* DORA, keeps its lease times.                                            *)

\* Mutant: a host that cannot be served keeps the binding it had.
ServeKeepingOld(c, B, h, renewing) ==
  LET p    == Selected(c, h)
      mine == {b \in Of(h, B) : b.pool = p}
      free == IF p = NoPool THEN {} ELSE Free(c, p, B)
  IN IF mine = {} /\ free = {} THEN B
     ELSE LET a == IF mine # {} THEN Newest(mine).address ELSE Least(free)
              t == IF mine # {} /\ h \notin renewing THEN Newest(mine).at ELSE now
          IN (B \ Of(h, B)) \cup {[pool |-> p, address |-> a, client |-> h, at |-> t]}

\* Mutant: the existing binding is not looked up.
ServeAfresh(c, B, h, renewing) ==
  LET p    == Selected(c, h)
      free == IF p = NoPool THEN {} ELSE Free(c, p, B)
      rest == B \ Of(h, B)
  IN IF free = {} THEN rest
     ELSE rest \cup {[pool |-> p, address |-> Least(free), client |-> h, at |-> now]}

Serve(c, B, h, renewing) ==
  LET p    == Selected(c, h)
      mine == {b \in Of(h, B) : b.pool = p}
      free == IF p = NoPool THEN {} ELSE Free(c, p, B)
      rest == B \ Of(h, B)
  IN IF mine = {} /\ free = {} THEN rest
     ELSE LET a == IF mine # {} THEN Newest(mine).address ELSE Least(free)
              t == IF mine # {} /\ h \notin renewing THEN Newest(mine).at ELSE now
          IN rest \cup {[pool |-> p, address |-> a, client |-> h, at |-> t]}

\* Mutant: hosts are served in name order.
ServedBeforeByName(kept, g, h) == g < h

\* Lease holders first, the oldest lease first, then by name.
ServedBefore(kept, g, h) ==
  LET Rank(n) == IF Of(n, kept) = {} THEN MaxTime + 1 ELSE Newest(Of(n, kept)).at
  IN Rank(g) < Rank(h) \/ (Rank(g) = Rank(h) /\ g < h)

LastServed(kept, S) == CHOOSE h \in S : \A g \in S \ {h} : ServedBefore(kept, g, h)

\* The bindings when the hosts of S have been served, one after the other.
Served(c, kept, renewing) ==
  LET after[S \in SUBSET c.dhcp] ==
        IF S = {} THEN kept
        ELSE Serve(c, after[S \ {LastServed(kept, S)}], LastServed(kept, S), renewing)
  IN after

\* recompute_dhcp in configuration c, from the bindings B and the client
\* states the command left.
Recompute(c, B, client) ==
  LET valid    == {b \in B : Valid(c, b)}
      kept     == {Newest(Of(b.client, valid)) : b \in valid}
      renewing == {h \in c.dhcp : client[h] = NoTime}
      after    == Served(c, kept, renewing)[c.dhcp]
      Has(h)   == Of(h, after) # {}
  IN /\ bindings' = after
     /\ leased' = [h \in Hosts |-> IF Has(h) THEN Newest(Of(h, after)).address ELSE NoAddress]
     /\ since' = [h \in Hosts |-> IF Has(h) THEN Newest(Of(h, after)).at ELSE client[h]]

\* A command sets the configuration and calls mark_changed.
MarkChanged(c, client) ==
  /\ config' = c
  /\ Recompute(c, bindings, client)
  /\ UNCHANGED now

-----------------------------------------------------------------------------

Init ==
  /\ now = 0
  /\ config \in {c \in ConfigType :
       /\ c.dhcp = {} /\ c.infra = {} /\ c.serving = Pools
       /\ \A h \in Hosts : c.manual[h] = NoAddress
       /\ \A p \in Pools : c.net[p] \in Networks[p] /\ c.excluded[p] = {}}
  /\ bindings = {}
  /\ leased = [h \in Hosts |-> NoAddress]
  /\ since = [h \in Hosts |-> NoTime]

Tick ==
  /\ now < MaxTime
  /\ now' = now + 1
  /\ UNCHANGED <<config, bindings, leased, since>>

(* VPCS commands.                                                          *)

Forget(h) == [since EXCEPT ![h] = NoTime]

\* ip dhcp: a new DORA for this host.
IpDhcp(h) ==
  MarkChanged([config EXCEPT !.dhcp = @ \cup {h}, !.manual[h] = NoAddress], Forget(h))

\* ip dhcp -x
IpDhcpRelease(h) == MarkChanged([config EXCEPT !.dhcp = @ \ {h}], Forget(h))

\* ip A.B.C.D
IpStatic(h, a) ==
  MarkChanged([config EXCEPT !.dhcp = @ \ {h}, !.manual[h] = a], since)

\* clear ip
ClearIp(h) ==
  MarkChanged([config EXCEPT !.dhcp = @ \ {h}, !.manual[h] = NoAddress], since)

(* Configuration of the routers and switches.                              *)

MoveHost(h, g) == MarkChanged([config EXCEPT !.segment[h] = g], since)

\* ip address, or no ip address, on a router or switch interface.
SetInfra(a) ==
  \/ MarkChanged([config EXCEPT !.infra = @ \cup {a}], since)
  \/ MarkChanged([config EXCEPT !.infra = @ \ {a}], since)

\* The server's interface goes up or down, or a helper address is set or removed.
SetServing(p) ==
  \/ MarkChanged([config EXCEPT !.serving = @ \cup {p}], since)
  \/ MarkChanged([config EXCEPT !.serving = @ \ {p}], since)

SetNetwork(p, n) == MarkChanged([config EXCEPT !.net[p] = n], since)

SetExcluded(p, X) == MarkChanged([config EXCEPT !.excluded[p] = X], since)

\* reload of a server, or no ip dhcp pool and the pool configured again: the
\* bindings are gone with the old NodeState or pool.
LoseBindings(p) ==
  /\ Recompute(config, {b \in bindings : b.pool # p}, since)
  /\ UNCHANGED <<now, config>>

\* clear ip dhcp binding: no recompute, the host keeps its address.
ClearBinding(b) ==
  /\ bindings' = bindings \ {b}
  /\ UNCHANGED <<now, config, leased, since>>

VpcsCommand(h) ==
  \/ IpDhcp(h) \/ IpDhcpRelease(h) \/ ClearIp(h)
  \/ \E a \in StaticChoices : IpStatic(h, a)

Configure ==
  \/ \E h \in Hosts, g \in Segments : MoveHost(h, g)
  \/ \E a \in StaticChoices : SetInfra(a)
  \/ \E p \in Pools :
       \/ SetServing(p)
       \/ \E n \in Networks[p] : SetNetwork(p, n)
       \/ \E X \in ExcludeChoices : SetExcluded(p, X)
       \/ LoseBindings(p)

Next ==
  \/ Tick
  \/ \E h \in Hosts : VpcsCommand(h)
  \/ Configure
  \/ \E b \in bindings : ClearBinding(b)

Spec == Init /\ [][Next]_vars

-----------------------------------------------------------------------------
(* Properties.                                                             *)

\* The steps that re-lease the hosts.
Recomputes == now' = now /\ \A b \in bindings : ~ClearBinding(b)

\* Types; a host has at most one address.
TypeOK ==
  /\ now \in 0..MaxTime
  /\ config \in ConfigType
  /\ bindings \subseteq [pool : Pools, address : Addresses, client : Hosts, at : 0..MaxTime]
  /\ leased \in [Hosts -> Addresses \cup {NoAddress}]
  /\ since \in [Hosts -> (0..MaxTime) \cup {NoTime}]
  /\ \A h \in Hosts :
       leased[h] # NoAddress => h \in config.dhcp /\ config.manual[h] = NoAddress

\* No host is leased an address that another host holds, that is configured by
\* hand somewhere or that any server has bound to another client, also when two
\* pools overlap and when a static address is taken after the lease.
NoDuplicateAddress ==
  \A h \in Hosts : leased[h] # NoAddress =>
    /\ leased[h] \notin StaticInUse(config)
    /\ \A g \in Hosts \ {h} : leased[g] # leased[h]
    /\ \A b \in bindings : b.address = leased[h] => b.client = h

\* `show ip dhcp binding` on the servers and `show ip` on the hosts agree: a
\* binding's client uses that address since that time, has no other binding
\* and is served by that pool.
BindingsBacked ==
  \A b \in bindings :
    /\ Selected(config, b.client) = b.pool
    /\ leased[b.client] = b.address
    /\ since[b.client] = b.at
    /\ Of(b.client, bindings) = {b}

\* The automatic retry: after a recompute no DHCP host is without an address
\* while the pool that serves it has one to give.  Two kinds of address have to
\* wait for the next change: one another host still uses after its binding was
\* cleared, and one that was bound in another pool until this recompute.
NoHostStarves ==
  [][Recomputes =>
       \A h \in config'.dhcp : leased'[h] = NoAddress =>
         LET p == Selected(config', h)
         IN \/ p = NoPool
            \/ Free(config', p, bindings') \subseteq
                 {leased'[g] : g \in Hosts} \cup {b.address : b \in {o \in bindings : o.pool # p}}]_vars

\* Leases are sticky: a lease whose host stays on the same pool and whose
\* address stays usable survives every command but those that clear it; no
\* newcomer takes it.  It keeps its times, whatever else is configured and
\* whoever else asks: only `ip dhcp` on its own host starts it anew.
LeasesSticky ==
  [][\A b \in bindings :
       LET kept == {d \in bindings' : d.client = b.client /\ d.pool = b.pool /\ d.address = b.address}
       IN \/ LoseBindings(b.pool)
          \/ /\ \/ Valid(config', b) /\ Selected(config', b.client) = b.pool => kept # {}
                \/ ClearBinding(b)
             /\ (\A d \in kept : d.at = b.at) \/ IpDhcp(b.client)]_vars

=============================================================================
