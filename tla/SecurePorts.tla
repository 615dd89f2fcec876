----------------------------- MODULE SecurePorts -----------------------------
(***************************************************************************)
(* The access side of the Layer-2 fabric: switch ports with port security,  *)
(* the MAC tables of the switches, and what a frame does to both on its     *)
(* way.  The switches form a tree and carry one VLAN; trunks, channels and  *)
(* spanning tree are in Switching.  A port is <<device, number>>; the       *)
(* burned-in MAC of a device port is named by the port.                     *)
(*                                                                          *)
(* The fabric is computed from configuration and tables whenever it is      *)
(* asked for, also in the middle of a ping that err-disables a port, so the *)
(* operators take the ports c they are computed from; the state's own is    *)
(* Now.                                                                     *)
(***************************************************************************)
EXTENDS Naturals, FiniteSets, SequencesExt

CONSTANTS
  DevicePorts,    \* ports of routers and hosts
  SwitchPorts,    \* ports of switches
  Wires,          \* the other end of each cabled port
  Ways,           \* by which switch ports a frame enters the switches between
                  \* two device ports of a LAN, in order
  Macs            \* addresses that can be configured by hand

\* The same as tables.
Cable == Wires @@ <<>>
Enters == Ways @@ <<>>
Cabled == DOMAIN Cable
Modes == {"protect", "restrict", "shutdown"}

ASSUME CablingAssumption ==
  /\ Cable \in [Cabled -> DevicePorts \cup SwitchPorts]
  /\ \A p \in Cabled : Cable[p] \in Cabled /\ Cable[Cable[p]] = p
  /\ DevicePorts \cap SwitchPorts = {} /\ SwitchPorts \subseteq Cabled
  /\ DOMAIN Enters \subseteq DevicePorts \X DevicePorts
  /\ \A pq \in DOMAIN Enters : Enters[pq] \in Seq(SwitchPorts)

\* In a tree a way back takes the same cables, and a way takes those of a detour or less.
ASSUME TreeAssumption ==
  \A pq \in DOMAIN Enters :
    /\ <<pq[2], pq[1]>> \in DOMAIN Enters
    /\ \A x \in ToSet(Enters[<<pq[2], pq[1]>>]) : Cable[x] \in {pq[2]} \cup ToSet(Enters[pq])
    /\ \A qr \in DOMAIN Enters : qr[1] = pq[2] /\ qr[2] # pq[1] =>
         /\ <<pq[1], qr[2]>> \in DOMAIN Enters
         /\ ToSet(Enters[<<pq[1], qr[2]>>]) \subseteq ToSet(Enters[pq]) \cup ToSet(Enters[qr])

VARIABLES
  shut,   \* ports that are administratively down
  sec,    \* port-security configuration and state of each switch port
  table   \* MAC tables: [mac, port, kind], the port says on which switch

portVars == <<shut, sec, table>>

SecurityType ==
  [on : BOOLEAN, max : 1..2, mode : Modes, sticky : BOOLEAN, fixed : SUBSET DevicePorts,
   stuck : SUBSET DevicePorts, err : BOOLEAN]
EntryType == [mac : DevicePorts, port : SwitchPorts, kind : {"plain", "dynamic", "sticky"}]

NewSecurity == [on |-> FALSE, max |-> 1, mode |-> "shutdown", sticky |-> FALSE,
                fixed |-> {}, stuck |-> {}, err |-> FALSE]

Now == [sec |-> sec, table |-> table]

\* The element of a set of one.  The({F(x) : x \in {e}}) is F(e), with e computed once.
The(S) == CHOOSE x \in S : TRUE


-----------------------------------------------------------------------------
(* What is up.                                                              *)

ErrDisabled(p, c) == p \in SwitchPorts /\ c.sec[p].err

\* An uncabled port of a router is up on its own.
PhysUp(p, c) ==
  /\ p \notin shut /\ ~ErrDisabled(p, c)
  /\ p \in Cabled => Cable[p] \notin shut /\ ~ErrDisabled(Cable[p], c)

\* A frame gets from p to q.
Joined(p, q, c) ==
  /\ <<p, q>> \in DOMAIN Enters /\ PhysUp(p, c) /\ PhysUp(q, c)
  /\ \A x \in ToSet(Enters[p, q]) : PhysUp(x, c)


-----------------------------------------------------------------------------
(* Learning.                                                                *)

\* The addresses a secure port passes: configured, sticky and learned.
Secure(q, c) ==
  c.sec[q].fixed \cup c.sec[q].stuck
    \cup {e.mac : e \in {e \in c.table : e.port = q /\ e.kind # "plain"}}

\* Tables are keyed by switch, VLAN and address.
Replace(t, m, q, k) ==
  {e \in t : ~(e.mac = m /\ e.port[1] = q[1])} \cup {[mac |-> m, port |-> q, kind |-> k]}

Passes(q, m, c) == m \in Secure(q, c) \/ Cardinality(Secure(q, c)) < c.sec[q].max

\* A passing address is learned, a violation drops the frame and may err-disable
\* the port, which flushes what it learned but for sticky addresses.
SecureAdmit(q, m, c) ==
  IF Passes(q, m, c)
  THEN LET fresh == m \notin Secure(q, c) /\ c.sec[q].sticky
           stuck == IF fresh THEN c.sec[q].stuck \cup {m} ELSE c.sec[q].stuck
       IN [sec |-> [c.sec EXCEPT ![q].stuck = stuck],
           table |-> Replace(c.table, m, q, IF m \in stuck THEN "sticky" ELSE "dynamic"),
           out |-> "forwarded"]
  ELSE IF c.sec[q].mode # "shutdown" \/ c.sec[q].err
  THEN [sec |-> c.sec, table |-> c.table, out |-> "dropped"]
  ELSE [sec |-> [c.sec EXCEPT ![q].err = TRUE],
        table |-> {e \in c.table : e.port # q \/ e.kind = "sticky"},
        out |-> "errdisabled"]

\* One switch of the frame's path; a dropped frame goes no further.
Learn(c, q, m) ==
  IF c.out # "forwarded" THEN c
  ELSE IF c.sec[q].on THEN SecureAdmit(q, m, c)
  ELSE [c EXCEPT !.table = Replace(@, m, q, "plain")]

\* A frame from p to q: every switch it enters learns p.  One that cannot reach
\* q any more teaches nothing.
Frame(c, p, q) ==
  IF ~Joined(p, q, c) THEN c
  ELSE LET r == FoldLeft(LAMBDA d, x : The({Learn(e, x, p) : e \in {d}}),
                         [sec |-> c.sec, table |-> c.table, out |-> "forwarded"], Enters[p, q])
       IN [r EXCEPT !.out = IF r.out = "errdisabled" \/ (r.out # "forwarded" /\ c.out = "forwarded")
                            THEN r.out ELSE c.out]

\* learn_macs: both directions of each leg, whatever became of the earlier ones;
\* the outcome is the worst of them.
LearnLegs(c, legs) ==
  FoldLeft(LAMBDA d, l : FoldLeft(LAMBDA e, x : The({Frame(f, x[1], x[2]) : f \in {e}}), d, <<l, <<l[2], l[1]>>>>),
           [sec |-> c.sec, table |-> c.table, out |-> "forwarded"], legs)

\* mac_admits: the same question asked without learning.
Admits(c, legs) ==
  \A l \in ToSet(legs) : \A pq \in {l, <<l[2], l[1]>>} :
    Joined(pq[1], pq[2], c) => \A q \in ToSet(Enters[pq]) : c.sec[q].on => Passes(q, pq[1], c)


-----------------------------------------------------------------------------
(* Configuration of a switch port q.                                        *)

SetPort(q, s) == sec' = [sec EXCEPT ![q] = s] /\ UNCHANGED <<shut, table>>

PortSecurity(q, b) == SetPort(q, [sec[q] EXCEPT !.on = b])
Maximum(q, n) == SetPort(q, [sec[q] EXCEPT !.max = n, !.on = TRUE])
NoMaximum(q) == SetPort(q, [sec[q] EXCEPT !.max = 1])
ViolationMode(q, m) == SetPort(q, [sec[q] EXCEPT !.mode = m, !.on = TRUE])
NoViolation(q) == SetPort(q, [sec[q] EXCEPT !.mode = "shutdown"])
FixedMac(q, m) == SetPort(q, [sec[q] EXCEPT !.fixed = @ \cup {m}, !.on = TRUE])
NoFixedMac(q, m) == SetPort(q, [sec[q] EXCEPT !.fixed = @ \ {m}])
StickyMac(q, m) == SetPort(q, [sec[q] EXCEPT !.stuck = @ \cup {m}, !.on = TRUE])
PortSticky(q) == SetPort(q, [sec[q] EXCEPT !.sticky = TRUE, !.on = TRUE])

\* Dynamic secure addresses become sticky, and back.
Sticky(q) ==
  /\ sec' = [sec EXCEPT ![q].sticky = TRUE, ![q].on = TRUE,
                        ![q].stuck = @ \cup {e.mac : e \in {e \in table : e.port = q /\ e.kind = "dynamic"}}]
  /\ table' = {IF e.port = q /\ e.kind = "dynamic" THEN [e EXCEPT !.kind = "sticky"] ELSE e : e \in table}
  /\ UNCHANGED shut

NoSticky(q) ==
  /\ sec' = [sec EXCEPT ![q].sticky = FALSE, ![q].stuck = {}]
  /\ table' = {IF e.port = q /\ e.kind = "sticky" THEN [e EXCEPT !.kind = "dynamic"] ELSE e : e \in table}
  /\ UNCHANGED shut

NoStickyMac(q, m) ==
  /\ sec' = [sec EXCEPT ![q].stuck = @ \ {m}]
  /\ table' = {e \in table : ~(e.port = q /\ e.mac = m)}
  /\ UNCHANGED shut

\* default interface: a new interface, with the table as it was.
DefaultPort(q) == sec' = [sec EXCEPT ![q] = NewSecurity] /\ shut' = shut \ {q} /\ UNCHANGED table

ClearTable(s) ==
  table' = {e \in table : e.port[1] # s \/ e.kind # "plain"} /\ UNCHANGED <<shut, sec>>

\* shutdown recovers an err-disabled port and flushes what it learned.
Shutdown(p) ==
  /\ shut' = shut \cup {p}
  /\ IF ErrDisabled(p, Now)
     THEN /\ sec' = [sec EXCEPT ![p].err = FALSE]
          /\ table' = {e \in table : e.port # p}
     ELSE UNCHANGED <<sec, table>>

NoShutdown(p) == shut' = shut \ {p} /\ UNCHANGED <<sec, table>>

PortCommand(q) ==
  \/ \E b \in BOOLEAN : PortSecurity(q, b)
  \/ \E n \in 1..2 : Maximum(q, n)
  \/ NoMaximum(q)
  \/ \E m \in Modes : ViolationMode(q, m)
  \/ NoViolation(q)
  \/ \E m \in Macs : FixedMac(q, m) \/ NoFixedMac(q, m) \/ StickyMac(q, m) \/ NoStickyMac(q, m)
  \/ PortSticky(q) \/ Sticky(q) \/ NoSticky(q) \/ DefaultPort(q)
  \/ ClearTable(q[1])

PortsInit(s) == shut = s.shut /\ sec = s.sec /\ table = {}

PortsTypeOK ==
  /\ sec \in [SwitchPorts -> SecurityType]
  /\ table \subseteq EntryType

=============================================================================
