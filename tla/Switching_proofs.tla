-------------------------- MODULE Switching_proofs --------------------------
(***************************************************************************)
(* Proofs about Switching, for any cabling and any commands: the types of  *)
(* the configuration, and that the two ends of a cable, each of which      *)
(* decides on its own, agree on bundling and on trunking; and that, where  *)
(* the ends are configured alike, the ports that spanning tree leaves       *)
(* forwarding make no loop in a VLAN and join all that its cables connect. *)
(*                                                                         *)
(* Reach is closed, which is shown by counting the pairs it has used.  Of a *)
(* cable that forwards at both ends the end farther from the root is the   *)
(* root port of its switch, and a switch has one: no other cable leaves     *)
(* what is behind it, so there is no loop (NoLoops).  Every switch but the  *)
(* root has such a cable to a nearer one, so every switch is joined to the  *)
(* root (RootJoined).  A frame is received in the VLAN it was sent in, and  *)
(* an endpoint has a single cable (SegmentWithin).                          *)
(***************************************************************************)
EXTENDS Switching, TLAPS, FiniteSetTheorems, WellFoundedInduction

-----------------------------------------------------------------------------
(* Types.                                                                  *)

LEMMA Configured == Configurable \subseteq Interfaces
  BY PeerAssumption

LEMMA NewTyped == NewInterface \in InterfaceType
  BY PortsAssumption DEF NewInterface, InterfaceType, NoTag

LEMMA SwitchOf == \A i \in Interfaces : i[1] \in Switches
  BY PortsAssumption DEF Interfaces, PortChannels, Po

LEMMA StepTyped == ASSUME TypeOK, Step PROVE commands' \in 0..MaxCommands
  BY PeerAssumption DEF TypeOK, Step

LEMMA SetTyped ==
  ASSUME TypeOK, NEW i, NEW new \in InterfaceType, Set(i, new)
  PROVE  TypeOK'
<1>1. cfg' \in [Interfaces -> InterfaceType]
  BY DEF Set, TypeOK
<1> QED BY <1>1, StepTyped DEF Set, TypeOK

LEMMA TypeInit == Init => TypeOK
  BY StartupsAssumption, PeerAssumption DEF Init, TypeOK

\* Commands that set one field.
LEMMA FieldTyped ==
  ASSUME TypeOK, NEW i \in Configurable
  PROVE  /\ \A x \in {"access", "trunk", "auto", "desirable"} :
              /\ [cfg[i] EXCEPT !.mode = x, !.routed = FALSE] \in InterfaceType
              /\ [cfg[i] EXCEPT !.mode = x] \in InterfaceType
         /\ [cfg[i] EXCEPT !.routed = FALSE] \in InterfaceType
         /\ [cfg[i] EXCEPT !.routed = TRUE, !.mode = "auto"] \in InterfaceType
         /\ \A v \in Vlans : [cfg[i] EXCEPT !.native = v] \in InterfaceType
         /\ \A V \in SUBSET Vlans : [cfg[i] EXCEPT !.allowed = V] \in InterfaceType
         /\ \A b \in BOOLEAN : [cfg[i] EXCEPT !.noneg = b] \in InterfaceType
         /\ \A g \in Groups, c \in Lacp \cup Pagp \cup {"on"} :
              [cfg[i] EXCEPT !.group = g, !.chan = c] \in InterfaceType
         /\ [cfg[i] EXCEPT !.group = 0, !.chan = "on"] \in InterfaceType
         /\ \A f \in {"on", "off"} :
              /\ [cfg[i] EXCEPT !.portfast = f] \in InterfaceType
              /\ [cfg[i] EXCEPT !.guard = f] \in InterfaceType
         /\ [cfg[i] EXCEPT !.shut = FALSE] \in InterfaceType
<1>1. cfg[i] \in InterfaceType
  BY Configured DEF TypeOK
<1>2. \A x \in {"access", "trunk", "auto", "desirable"} :
        /\ [cfg[i] EXCEPT !.mode = x, !.routed = FALSE] \in InterfaceType
        /\ [cfg[i] EXCEPT !.mode = x] \in InterfaceType
  BY <1>1 DEF InterfaceType
<1>3. /\ [cfg[i] EXCEPT !.routed = FALSE] \in InterfaceType
      /\ [cfg[i] EXCEPT !.routed = TRUE, !.mode = "auto"] \in InterfaceType
      /\ [cfg[i] EXCEPT !.shut = FALSE] \in InterfaceType
      /\ [cfg[i] EXCEPT !.group = 0, !.chan = "on"] \in InterfaceType
  BY <1>1 DEF InterfaceType
<1>4. /\ \A v \in Vlans : [cfg[i] EXCEPT !.native = v] \in InterfaceType
      /\ \A V \in SUBSET Vlans : [cfg[i] EXCEPT !.allowed = V] \in InterfaceType
      /\ \A b \in BOOLEAN : [cfg[i] EXCEPT !.noneg = b] \in InterfaceType
  BY <1>1 DEF InterfaceType
<1>5. \A g \in Groups, c \in Lacp \cup Pagp \cup {"on"} :
        [cfg[i] EXCEPT !.group = g, !.chan = c] \in InterfaceType
  BY <1>1 DEF InterfaceType
<1>6. \A f \in {"on", "off"} :
        /\ [cfg[i] EXCEPT !.portfast = f] \in InterfaceType
        /\ [cfg[i] EXCEPT !.guard = f] \in InterfaceType
  BY <1>1 DEF InterfaceType
<1> QED BY <1>2, <1>3, <1>4, <1>5, <1>6

LEMMA TypeInterface == ASSUME TypeOK, NEW i \in Configurable PROVE
  /\ \A v \in Vlans : AccessVlan(i, v) => TypeOK'
  /\ NoInterface(i) => TypeOK'
  /\ DefaultInterface(i) => TypeOK'
  /\ Shutdown(i) => TypeOK'
  /\ Violation(i) => TypeOK'
<1> USE Configured, SwitchOf, StepTyped
<1>1. ASSUME NEW v \in Vlans, AccessVlan(i, v) PROVE TypeOK'
  <2>1. [cfg[i] EXCEPT !.vlan = v] \in InterfaceType
    BY DEF TypeOK, InterfaceType
  <2>2. cfg' \in [Interfaces -> InterfaceType]
    BY <1>1, <2>1 DEF AccessVlan, TypeOK
  <2> QED BY <1>1, <2>2 DEF AccessVlan, TypeOK
<1>2. ASSUME NoInterface(i) PROVE TypeOK'
  <2>1. \A j \in Interfaces : [cfg[j] EXCEPT !.group = 0, !.chan = "on"] \in InterfaceType
    <3> TAKE j \in Interfaces
    <3>1. cfg[j] \in InterfaceType
      BY DEF TypeOK
    <3> QED BY <3>1 DEF InterfaceType
  <2>2. cfg' \in [Interfaces -> InterfaceType]
    BY <1>2, <2>1, NewTyped DEF NoInterface, TypeOK
  <2> QED BY <1>2, <2>2 DEF NoInterface, TypeOK
<1>3. ASSUME DefaultInterface(i) PROVE TypeOK'
  BY <1>3, NewTyped DEF DefaultInterface, TypeOK
<1>4. ASSUME Shutdown(i) PROVE TypeOK'
  <2>1. [cfg[i] EXCEPT !.shut = TRUE] \in InterfaceType
    BY DEF TypeOK, InterfaceType
  <2>2. cfg' \in [Interfaces -> InterfaceType]
    BY <1>4, <2>1 DEF Shutdown, TypeOK
  <2> QED BY <1>4, <2>2 DEF Shutdown, TypeOK
<1>5. ASSUME Violation(i) PROVE TypeOK'
  BY <1>5 DEF Violation, TypeOK
<1> QED BY <1>1, <1>2, <1>3, <1>4, <1>5

LEMMA TypeSwitch == ASSUME TypeOK, NEW s \in Configurables PROVE
  /\ \A on \in BOOLEAN : PortfastDefault(s, on) \/ BpduguardDefault(s, on) => TypeOK'
  /\ \A v \in Vlans : AddVlan(s, v) \/ NoVlan(s, v) => TypeOK'
<1> USE StepTyped
<1>1. s \in Switches
  BY Configured, SwitchOf DEF Configurables
<1>2. ASSUME NEW on \in BOOLEAN, PortfastDefault(s, on) \/ BpduguardDefault(s, on) PROVE TypeOK'
  BY <1>1, <1>2 DEF PortfastDefault, BpduguardDefault, TypeOK
<1>3. ASSUME NEW v \in Vlans, AddVlan(s, v) \/ NoVlan(s, v) PROVE TypeOK'
  BY <1>1, <1>3 DEF AddVlan, NoVlan, TypeOK
<1> QED BY <1>2, <1>3

LEMMA TypeStep == ASSUME TypeOK, [Next]_vars PROVE TypeOK'
<1>1. CASE UNCHANGED vars
  BY <1>1 DEF TypeOK, vars
<1>2. ASSUME NEW i \in Configurable,
             \/ \E mode \in {"access", "trunk", "auto", "desirable"} : SwitchportMode(i, mode)
             \/ NoSwitchportMode(i) \/ Switchport(i) \/ NoSwitchport(i)
             \/ \E v \in Vlans : TrunkNative(i, v)
             \/ \E V \in SUBSET Vlans : TrunkAllowed(i, V)
             \/ \E b \in BOOLEAN : Nonegotiate(i, b)
             \/ \E g \in Groups, mode \in Lacp \cup Pagp \cup {"on"} : ChannelGroup(i, g, mode)
             \/ NoChannelGroup(i)
             \/ \E f \in {"on", "off"} : Portfast(i, f) \/ Bpduguard(i, f)
             \/ NoShutdown(i)
      PROVE  TypeOK'
  <2>1. \E new \in InterfaceType : Set(i, new)
    BY <1>2, FieldTyped DEF SwitchportMode, NoSwitchportMode, Switchport, NoSwitchport, TrunkNative,
       TrunkAllowed, Nonegotiate, ChannelGroup, NoChannelGroup, Portfast, Bpduguard, NoShutdown
  <2> QED BY <2>1, SetTyped
<1> QED BY <1>1, <1>2, TypeInterface, TypeSwitch DEF Next

\* Every command leaves a configuration of every interface, and VLAN 1 on every
\* switch (no vlan 1 is refused).
THEOREM TypeCorrect == Spec => []TypeOK
  BY TypeInit, TypeStep, PTL DEF Spec

-----------------------------------------------------------------------------
(* The two ends of a cable.                                                *)

LEMMA ModesSymmetric == \A m, n : ModesBundle(m, n) <=> ModesBundle(n, m)
  BY DEF ModesBundle

LEMMA PhysUpSymmetric ==
  ASSUME NEW p \in Ports, Peer[p] \in Ports
  PROVE  PhysUp(p) <=> PhysUp(Peer[p])
<1>1. Peer[Peer[p]] = p
  BY PeerAssumption
<1>2. CableUp(p) <=> CableUp(Peer[p])
  BY <1>1 DEF CableUp
<1> QED BY <1>1, <1>2 DEF PhysUp

\* Whether a member could bundle is the same question at both ends.
LEMMA CandidateSymmetric ==
  ASSUME NEW p \in Ports, Candidate(p)
  PROVE  Peer[p] \in Ports /\ Candidate(Peer[p])
<1>1. Peer[p] \in Ports /\ Peer[Peer[p]] = p
  BY PeerAssumption DEF Candidate
<1>2. PhysUp(Peer[p])
  BY <1>1, PhysUpSymmetric DEF Candidate
<1>3. ModesBundle(cfg[Peer[p]].chan, cfg[p].chan)
  BY ModesSymmetric DEF Candidate
<1> QED BY <1>1, <1>2, <1>3 DEF Candidate

LEMMA Numbers ==
  /\ \A s \in Switches : s \in Nat
  /\ \A g \in Groups : g \in Nat
  /\ \A p \in Ports : p[1] \in Switches /\ p[2] \in 1..64
<1>1. Switches \subseteq Nat /\ Groups \subseteq Nat \ {0} /\ Ports \subseteq Switches \X (1..64)
  BY PortsAssumption
<1> QED BY <1>1

LEMMA BeforeIrreflexive ==
  ASSUME TypeOK, NEW p \in Ports
  PROVE  ~Before(Governing(p), Governing(p))
<1>1. p[1] \in Nat /\ p[2] \in Nat
  BY Numbers
<1>2. cfg[p] \in InterfaceType
  BY DEF TypeOK, Interfaces
<1>3. cfg[p].group \in Groups \cup {0}
  BY <1>2 DEF InterfaceType
<1>4. cfg[p].group \in Nat
  BY <1>3, Numbers
<1> QED BY <1>1, <1>4 DEF Before, Governing, Po

\* Where Port-channels are cabled in parallel every candidate bundles.
LEMMA ParallelBundles ==
  ASSUME TypeOK, Parallel, NEW p \in Ports, Candidate(p)
  PROVE  Bundled(p)
<1>1. \A q \in Candidates(p[1], cfg[p].group) : Partner(q) = Partner(p)
  <2> TAKE q \in Candidates(p[1], cfg[p].group)
  <2>1. q \in Ports /\ Candidate(q) /\ q[1] = p[1] /\ cfg[q].group = cfg[p].group
    BY DEF Candidates, Members
  <2>2. Governing(q) = Governing(p)
    BY <2>1 DEF Governing, Candidate
  <2> QED BY <2>1, <2>2 DEF Parallel
<1>2. ~Before(Partner(p), Partner(p))
  BY BeforeIrreflexive DEF Partner, Candidate
<1> QED BY <1>1, <1>2 DEF Bundled

LEMMA BundlingAgrees == ASSUME TypeOK PROVE BundledAtBothEnds
<1> SUFFICES ASSUME Parallel, NEW p \in Ports, Bundled(p)
             PROVE  Peer[p] \in Ports /\ Bundled(Peer[p])
  BY DEF BundledAtBothEnds
<1>1. Peer[p] \in Ports /\ Candidate(Peer[p])
  BY CandidateSymmetric DEF Bundled
<1> QED BY <1>1, ParallelBundles

\* Whatever is configured, a member of a Port-channel cabled in parallel bundles
\* at both ends of its cable or at neither.
THEOREM BundlingCorrect == Spec => []BundledAtBothEnds
  BY TypeCorrect, BundlingAgrees, PTL

\* Two ports that negotiate, neither of them an access port, come to the same
\* result: both are trunks or neither is (_oper_is_trunk).
THEOREM NegotiationAgrees ==
  ASSUME TypeOK, NEW p \in Interfaces, NEW q \in Interfaces,
         Gov(p).mode # "access", Gov(q).mode # "access", ~Gov(p).noneg, ~Gov(q).noneg
  PROVE  NegotiatesTrunk(p, q) <=> NegotiatesTrunk(q, p)
<1>1. Gov(p).mode \in {"trunk", "auto", "desirable"} /\ Gov(q).mode \in {"trunk", "auto", "desirable"}
  <2>1. \A i \in Interfaces : Gov(i) \in InterfaceType
    <3> TAKE i \in Interfaces
    <3>1. cfg[i] \in InterfaceType
      BY DEF TypeOK
    <3>2. Governing(i) \in Interfaces
      BY <3>1, SwitchOf DEF Governing, Interfaces, PortChannels, InterfaceType
    <3> QED BY <3>2 DEF Gov, TypeOK
  <2> QED BY <2>1 DEF InterfaceType
<1> QED BY <1>1 DEF NegotiatesTrunk

-----------------------------------------------------------------------------
(* Numbers and repeated steps.                                             *)

LEMMA LeastNumber ==
  ASSUME NEW T, T \subseteq Nat, T # {}
  PROVE  \E x \in T : \A y \in T : x <= y
<1>1. PICK x \in T : \A y \in T : ~ (<<y, x>> \in OpToRel(<, Nat))
  BY WFMin, NatLessThanWellFounded
<1>2. \A y \in T : ~ (y < x)
  BY <1>1 DEF OpToRel
<1> QED BY <1>2

LEMMA LeastIs ==
  ASSUME NEW T, T \subseteq Nat, T # {}
  PROVE  Least(T) \in T /\ \A y \in T : Least(T) <= y
  BY LeastNumber DEF Least

\* What holds at 0 and from each number to the next, holds up to n.
LEMMA UpTo ==
  ASSUME NEW n \in Nat, NEW P, 0 \in P, \A k \in 0..(n - 1) : k \in P => k + 1 \in P
  PROVE  0..n \subseteq P
<1> DEFINE Bad == {k \in 0..n : k \notin P}
<1> SUFFICES ASSUME Bad # {} PROVE FALSE
  OBVIOUS
<1>0. Bad \subseteq Nat
  OBVIOUS
<1>1. PICK k \in Bad : \A j \in Bad : k <= j
  BY <1>0, LeastNumber
<1>2. k \in 1..n
  BY <1>1
<1>3. k - 1 \in 0..(n - 1) /\ k - 1 \notin Bad /\ (k - 1) + 1 = k
  BY <1>1, <1>2
<1>4. k - 1 \in P
  BY <1>2, <1>3
<1>5. (k - 1) + 1 \in P
  BY <1>3, <1>4
<1> QED BY <1>1, <1>3, <1>5

\* h is what n repetitions of the step f make of S.
Repeats(h, n, f, S, U) ==
  h \in [0..n -> U] /\ h[0] = S /\ \A k \in 1..n : h[k] = f[h[k - 1]]

LEMMA Repeated ==
  ASSUME NEW U, NEW S \in U, NEW f \in [U -> U], NEW n \in Nat
  PROVE  \E h : Repeats(h, n, f, S, U)
<1> DEFINE Good(m, h) == h[0] = S /\ \A k \in 1..m : h[k] = f[h[k - 1]]
           P == {m \in Nat : \E h \in [0..m -> U] : Good(m, h)}
<1>1. 0 \in P
  <2> DEFINE h == [k \in 0..0 |-> S]
  <2>1. h \in [0..0 -> U] /\ Good(0, h)
    OBVIOUS
  <2> QED BY <2>1
<1>2. ASSUME NEW m \in Nat, m \in P PROVE m + 1 \in P
  <2>1. PICK h \in [0..m -> U] : Good(m, h)
    BY <1>2
  <2> DEFINE g == [k \in 0..(m + 1) |-> IF k = m + 1 THEN f[h[m]] ELSE h[k]]
  <2>2. g \in [0..(m + 1) -> U]
    BY <2>1
  <2>3. Good(m + 1, g)
    <3>1. g[0] = S
      BY <2>1
    <3>2. ASSUME NEW k \in 1..(m + 1) PROVE g[k] = f[g[k - 1]]
      <4>1. CASE k = m + 1
        BY <4>1
      <4>2. CASE k # m + 1
        <5>1. k \in 1..m /\ k - 1 \in 0..m /\ k - 1 # m + 1
          BY <4>2
        <5> QED BY <2>1, <5>1
      <4> QED BY <4>1, <4>2
    <3> QED BY <3>1, <3>2
  <2> HIDE DEF g
  <2> QED BY <2>2, <2>3
<1> HIDE DEF P
<1>3. n \in P
  BY <1>1, <1>2, UpTo
<1> QED BY <1>3 DEF P, Repeats

-----------------------------------------------------------------------------
(* Reach.                                                                  *)

Closed(X, R) == \A r \in R : r[1] \in X => r[2] \in X
Onward(X, R) == X \cup {r[2] : r \in {r \in R : r[1] \in X}}

LEMMA ReachGrows ==
  ASSUME NEW S, NEW R, IsFiniteSet(R)
  PROVE  \E g : /\ g[0] = S /\ g[Cardinality(R)] = Reach(S, R)
                /\ \A k \in 1..Cardinality(R) : g[k] = Onward(g[k - 1], R)
<1> DEFINE n == Cardinality(R)
           U == SUBSET (S \cup {r[2] : r \in R})
           Round(h, k) == IF k = 0 THEN S
                         ELSE LET X == h[k - 1] IN X \cup {r[2] : r \in {r \in R : r[1] \in X}}
<1>1. n \in Nat
  BY FS_CardinalityType
<1>2. S \in U
  OBVIOUS
<1>3. PICK f \in [U -> U] : \A X \in U : f[X] = Onward(X, R)
  <2> DEFINE e == [X \in U |-> Onward(X, R)]
  <2>1. e \in [U -> U] /\ \A X \in U : e[X] = Onward(X, R)
    BY DEF Onward
  <2> HIDE DEF e
  <2> QED BY <2>1
<1> HIDE DEF n, U
<1>0. PICK h : Repeats(h, n, f, S, U)
  BY <1>1, <1>2, Repeated
<1>4. h \in [0..n -> U] /\ h[0] = S /\ \A k \in 1..n : h[k] = f[h[k - 1]]
  BY <1>0 DEF Repeats
<1>5. h = [k \in 0..n |-> Round(h, k)]
  <2>1. ASSUME NEW k \in 0..n PROVE h[k] = Round(h, k)
    <3>1. CASE k = 0
      BY <1>4, <3>1
    <3>2. CASE k # 0
      <4>1. k \in 1..n /\ k - 1 \in 0..n
        BY <1>1, <3>2
      <4>2. h[k] = f[h[k - 1]] /\ h[k - 1] \in U
        BY <1>4, <4>1
      <4> QED BY <1>3, <3>2, <4>2 DEF Onward
    <3> QED BY <3>1, <3>2
  <2> HIDE DEF Round
  <2> QED BY <1>4, <2>1
<1> DEFINE g == CHOOSE h_1 : h_1 = [k \in 0..n |-> Round(h_1, k)]
<1>6. g = [k \in 0..n |-> Round(g, k)]
  BY <1>5
<1>7. Reach(S, R) = g[n]
  BY DEF Reach, n
<1> HIDE DEF g
<1>8. g[0] = S
  BY <1>1, <1>6
<1>9. ASSUME NEW k \in 1..n PROVE g[k] = Onward(g[k - 1], R)
  <2>1. k \in 0..n /\ k # 0
    BY <1>1
  <2> QED BY <1>6, <2>1 DEF Onward
<1> QED BY <1>7, <1>8, <1>9 DEF n

\* Nothing else is reached than what every closed set around S has.
LEMMA ReachLeast ==
  ASSUME NEW S, NEW R, IsFiniteSet(R), NEW X, S \subseteq X, Closed(X, R)
  PROVE  Reach(S, R) \subseteq X
<1>1. PICK g : /\ g[0] = S /\ g[Cardinality(R)] = Reach(S, R)
               /\ \A k \in 1..Cardinality(R) : g[k] = Onward(g[k - 1], R)
  BY ReachGrows
<1> DEFINE n == Cardinality(R)
           P == {k \in 0..n : g[k] \subseteq X}
<1>2. n \in Nat
  BY FS_CardinalityType
<1>3. 0 \in P
  BY <1>1, <1>2
<1>4. ASSUME NEW k \in 0..(n - 1), k \in P PROVE k + 1 \in P
  <2>1. k + 1 \in 1..n /\ k + 1 \in 0..n /\ (k + 1) - 1 = k
    BY <1>2
  <2>2. g[k + 1] = Onward(g[k], R)
    BY <1>1, <2>1
  <2>3. g[k] \subseteq X
    BY <1>4
  <2> QED BY <2>1, <2>2, <2>3 DEF Onward, Closed
<1>5. n \in P
  <2> HIDE DEF P, n
  <2> QED BY <1>2, <1>3, <1>4, UpTo
<1> QED BY <1>1, <1>5

\* As many rounds as there are pairs reach everything.
LEMMA ReachClosed ==
  ASSUME NEW S, NEW R, IsFiniteSet(R)
  PROVE  S \subseteq Reach(S, R) /\ Closed(Reach(S, R), R)
<1>1. PICK g : /\ g[0] = S /\ g[Cardinality(R)] = Reach(S, R)
               /\ \A k \in 1..Cardinality(R) : g[k] = Onward(g[k - 1], R)
  BY ReachGrows
<1> DEFINE n == Cardinality(R)
           Q(k) == {r \in R : r[1] \in g[k]}
           P == {k \in 0..n : S \subseteq g[k] /\ (Closed(g[k], R) \/ Cardinality(Q(k)) > k)}
<1>2. n \in Nat
  BY FS_CardinalityType
<1>3. \A k : Q(k) \subseteq R /\ IsFiniteSet(Q(k)) /\ Cardinality(Q(k)) \in Nat /\ Cardinality(Q(k)) <= n
  BY FS_Subset, FS_CardinalityType
<1>4. 0 \in P
  <2>1. ASSUME ~Closed(g[0], R) PROVE Cardinality(Q(0)) > 0
    <3>1. Q(0) # {}
      BY <2>1 DEF Closed
    <3>2. Cardinality(Q(0)) # 0
      <4> HIDE DEF Q
      <4> QED BY <1>3, <3>1, FS_EmptySet
    <3> HIDE DEF Q
    <3> QED BY <1>3, <3>2
  <2> QED BY <1>1, <1>2, <2>1
<1>5. ASSUME NEW k \in 0..(n - 1), k \in P PROVE k + 1 \in P
  <2>1. k + 1 \in 1..n /\ k + 1 \in 0..n /\ (k + 1) - 1 = k
    BY <1>2
  <2>2. g[k + 1] = Onward(g[k], R)
    BY <1>1, <2>1
  <2>3. S \subseteq g[k + 1]
    BY <1>5, <2>2 DEF Onward
  <2>4. ASSUME ~Closed(g[k + 1], R) PROVE Cardinality(Q(k + 1)) > k + 1
    <3>1. ~Closed(g[k], R)
      <4> SUFFICES ASSUME Closed(g[k], R) PROVE FALSE
        OBVIOUS
      <4>1. g[k + 1] = g[k]
        BY <2>2 DEF Onward, Closed
      <4> QED BY <2>4, <4>1
    <3>2. Cardinality(Q(k)) > k
      BY <1>5, <3>1
    <3>3. PICK r \in R : r[1] \in g[k + 1] /\ r[2] \notin g[k + 1]
      BY <2>4 DEF Closed
    <3>4. r \in Q(k + 1) /\ r \notin Q(k) /\ Q(k) \subseteq Q(k + 1)
      BY <2>2, <3>3 DEF Onward
    <3> HIDE DEF Q
    <3>5. Cardinality(Q(k)) <= Cardinality(Q(k + 1)) /\ Cardinality(Q(k)) # Cardinality(Q(k + 1))
      BY <1>3, <3>4, FS_Subset
    <3> QED BY <1>3, <3>2, <3>5
  <2> HIDE DEF Q
  <2> QED BY <2>1, <2>3, <2>4
<1>6. n \in P
  <2> HIDE DEF P, n
  <2> QED BY <1>2, <1>4, <1>5, UpTo
<1>7. ~ (Cardinality(Q(n)) > n)
  <2>1. Cardinality(Q(n)) \in Nat /\ Cardinality(Q(n)) <= n
    BY <1>3
  <2> HIDE DEF Q, n
  <2> QED BY <1>2, <2>1
<1> QED BY <1>1, <1>6, <1>7

\* In a symmetric relation, what is reached from each other reaches the same.
LEMMA ReachTogether ==
  ASSUME NEW R, IsFiniteSet(R), \A r \in R : <<r[2], r[1]>> \in R,
         NEW s, NEW t, t \in Reach({s}, R)
  PROVE  s \in Reach({t}, R) /\ Reach({s}, R) = Reach({t}, R)
<1>1. \A x : x \in Reach({x}, R) /\ Closed(Reach({x}, R), R)
  BY ReachClosed
<1>2. Reach({t}, R) \subseteq Reach({s}, R)
  BY <1>1, ReachLeast
<1>3. s \in Reach({t}, R)
  <2> SUFFICES ASSUME s \notin Reach({t}, R) PROVE FALSE
    OBVIOUS
  <2> DEFINE X == Reach({s}, R) \ Reach({t}, R)
  <2>1. {s} \subseteq X
    BY <1>1
  <2>2. ASSUME NEW r \in R, r[1] \in X PROVE r[2] \in X
    <3>1. r[2] \in Reach({s}, R)
      BY <1>1, <2>2 DEF Closed
    <3>2. r[2] \notin Reach({t}, R)
      <4> SUFFICES ASSUME r[2] \in Reach({t}, R) PROVE FALSE
        OBVIOUS
      <4>1. <<r[2], r[1]>> \in R
        OBVIOUS
      <4>2. <<r[2], r[1]>>[1] = r[2] /\ <<r[2], r[1]>>[2] = r[1]
        OBVIOUS
      <4>3. r[1] \in Reach({t}, R)
        BY <1>1, <4>1, <4>2 DEF Closed
      <4> QED BY <2>2, <4>3
    <3> QED BY <3>1, <3>2
  <2>3. Reach({s}, R) \subseteq X
    <3> HIDE DEF X
    <3> QED BY <2>1, <2>2, ReachLeast DEF Closed
  <2> QED BY <1>1, <2>3
<1>4. Reach({s}, R) \subseteq Reach({t}, R)
  BY <1>1, <1>3, ReachLeast
<1> QED BY <1>2, <1>3, <1>4

-----------------------------------------------------------------------------
(* Distances.                                                              *)

SwitchPairs(E) == {<<e[1][1], e[2][1]>> : e \in E}
Roots(E) == {s \in Switches : s = Least(Reach({s}, SwitchPairs(E)))}

\* Cables between logical ports, in both directions, that cost something.
Cabling(E, B) ==
  /\ \A e \in E : /\ <<e[2], e[1]>> \in E
                  /\ e[1][1] \in Switches /\ e[2][1] \in Switches
                  /\ PortCost(e[2], B) \in Nat \ {0}

WalkedOn(W, E, B) ==
  W \cup {<<x[2][2][1], x[1][2] + PortCost(x[2][2], B)>> : x \in {x \in W \X E : x[2][1][1] = x[1][1]}}

LEMMA PairsFinite ==
  ASSUME NEW E, NEW B, Cabling(E, B)
  PROVE  /\ SwitchPairs(E) \subseteq Switches \X Switches
         /\ IsFiniteSet(SwitchPairs(E))
         /\ \A r \in SwitchPairs(E) : <<r[2], r[1]>> \in SwitchPairs(E)
<1>1. SwitchPairs(E) \subseteq Switches \X Switches
  <2> SUFFICES ASSUME NEW r \in SwitchPairs(E) PROVE r \in Switches \X Switches
    OBVIOUS
  <2>1. PICK e \in E : r = <<e[1][1], e[2][1]>>
    BY DEF SwitchPairs
  <2>2. e[1][1] \in Switches /\ e[2][1] \in Switches
    BY DEF Cabling
  <2> QED BY <2>1, <2>2
<1>2. IsFiniteSet(Switches \X Switches)
  BY FiniteAssumption, FS_Product
<1>3. ASSUME NEW r \in SwitchPairs(E) PROVE <<r[2], r[1]>> \in SwitchPairs(E)
  <2>1. PICK e \in E : r = <<e[1][1], e[2][1]>>
    BY DEF SwitchPairs
  <2>2. <<e[2], e[1]>> \in E
    BY DEF Cabling
  <2>3. <<e[2], e[1]>>[1][1] = r[2] /\ <<e[2], e[1]>>[2][1] = r[1]
    BY <2>1
  <2> QED BY <2>2, <2>3 DEF SwitchPairs
<1> QED BY <1>1, <1>2, <1>3, FS_Subset

\* What a switch reaches has a root, from which it is reached.
LEMMA RootReaches ==
  ASSUME NEW E, NEW B, Cabling(E, B), NEW s \in Switches
  PROVE  \E r \in Roots(E) : s \in Reach({r}, SwitchPairs(E))
<1> DEFINE R == SwitchPairs(E)
           r == Least(Reach({s}, R))
<1>1. R \subseteq Switches \X Switches /\ IsFiniteSet(R) /\ \A x \in R : <<x[2], x[1]>> \in R
  BY PairsFinite
<1> HIDE DEF R
<1>2. Reach({s}, R) \subseteq Switches
  <2>1. Closed(Switches, R)
    BY <1>1 DEF Closed
  <2> QED BY <1>1, <2>1, ReachLeast
<1>3. s \in Reach({s}, R)
  BY <1>1, ReachClosed
<1>4. r \in Reach({s}, R)
  <2>1. Reach({s}, R) \subseteq Nat /\ Reach({s}, R) # {}
    BY <1>2, <1>3, PortsAssumption
  <2> QED BY <2>1, LeastIs
<1> HIDE DEF r
<1>5. s \in Reach({r}, R) /\ Reach({s}, R) = Reach({r}, R)
  BY <1>1, <1>4, ReachTogether
<1>6. r \in Roots(E)
  BY <1>2, <1>4, <1>5 DEF Roots, r, R
<1> QED BY <1>5, <1>6 DEF R

LEMMA RootsSuffice ==
  ASSUME NEW E, NEW B, Cabling(E, B), NEW X, Roots(E) \subseteq X, Closed(X, SwitchPairs(E))
  PROVE  Switches \subseteq X
<1> SUFFICES ASSUME NEW s \in Switches PROVE s \in X
  OBVIOUS
<1>1. PICK r \in Roots(E) : s \in Reach({r}, SwitchPairs(E))
  BY RootReaches
<1>2. Reach({r}, SwitchPairs(E)) \subseteq X
  BY PairsFinite, ReachLeast
<1> QED BY <1>1, <1>2

\* The walks, round by round.
LEMMA WalksAre ==
  ASSUME NEW E, NEW B, Cabling(E, B)
  PROVE  \E g : /\ g[0] = {<<s, 0>> : s \in Roots(E)}
                /\ \A k \in 1..Cardinality(Switches) : g[k] = WalkedOn(g[k - 1], E, B)
                /\ \A k \in 0..Cardinality(Switches) : g[k] \subseteq Switches \X Nat
                /\ Distance(E, B) = [s \in Switches |->
                     Least({w[2] : w \in {w \in g[Cardinality(Switches) - 1] : w[1] = s}})]
<1> DEFINE n == Cardinality(Switches)
           U == SUBSET (Switches \X Nat)
           S == {<<s, 0>> : s \in Roots(E)}
           Round(h, k) ==
             IF k = 0 THEN {<<s, 0>> : s \in {s \in Switches : s = Least(Reach({s}, SwitchPairs(E)))}}
             ELSE LET W == h[k - 1]
                  IN W \cup {<<x[2][2][1], x[1][2] + PortCost(x[2][2], B)>> :
                               x \in {x \in W \X E : x[2][1][1] = x[1][1]}}
<1>1. n \in Nat
  BY FiniteAssumption, FS_CardinalityType
<1>2. S \in U
  <2>1. \A s \in Roots(E) : <<s, 0>> \in Switches \X Nat
    BY DEF Roots
  <2> QED BY <2>1
<1>3. PICK f \in [U -> U] : \A W \in U : f[W] = WalkedOn(W, E, B)
  <2> DEFINE e == [W \in U |-> WalkedOn(W, E, B)]
  <2>1. ASSUME NEW W \in U PROVE WalkedOn(W, E, B) \in U
    <3>1. ASSUME NEW x \in W \X E, x[2][1][1] = x[1][1]
          PROVE  <<x[2][2][1], x[1][2] + PortCost(x[2][2], B)>> \in Switches \X Nat
      <4>1. x[1] \in Switches \X Nat /\ x[2] \in E
        BY <2>1
      <4>2. x[2][2][1] \in Switches /\ PortCost(x[2][2], B) \in Nat
        BY <4>1 DEF Cabling
      <4> QED BY <4>1, <4>2
    <3> QED BY <3>1 DEF WalkedOn
  <2>2. e \in [U -> U] /\ \A X \in U : e[X] = WalkedOn(X, E, B)
    BY <2>1
  <2> HIDE DEF e
  <2> QED BY <2>2
<1> HIDE DEF n, U, S
<1>4. PICK h : Repeats(h, n, f, S, U)
  BY <1>1, <1>2, Repeated
<1>5. h \in [0..n -> U] /\ h[0] = S /\ \A k \in 1..n : h[k] = f[h[k - 1]]
  BY <1>4 DEF Repeats
<1>6. h = [k \in 0..n |-> Round(h, k)]
  <2>1. ASSUME NEW k \in 0..n PROVE h[k] = Round(h, k)
    <3>1. CASE k = 0
      BY <1>5, <3>1 DEF S, Roots
    <3>2. CASE k # 0
      <4>1. k \in 1..n /\ k - 1 \in 0..n
        BY <1>1, <3>2
      <4>2. h[k] = f[h[k - 1]] /\ h[k - 1] \in U
        BY <1>5, <4>1
      <4> QED BY <1>3, <3>2, <4>2 DEF WalkedOn
    <3> QED BY <3>1, <3>2
  <2> HIDE DEF Round
  <2> QED BY <1>5, <2>1
<1> DEFINE g == CHOOSE h_1 : h_1 = [k \in 0..n |-> Round(h_1, k)]
<1>7. g = [k \in 0..n |-> Round(g, k)]
  BY <1>6
<1>8. Distance(E, B) = [s \in Switches |-> Least({w[2] : w \in {w \in g[n - 1] : w[1] = s}})]
  BY DEF Distance, n, SwitchPairs
<1> HIDE DEF g
<1>9. g[0] = S
  BY <1>1, <1>7 DEF S, Roots
<1>10. ASSUME NEW k \in 1..n PROVE g[k] = WalkedOn(g[k - 1], E, B)
  <2>1. k \in 0..n /\ k # 0
    BY <1>1
  <2> QED BY <1>7, <2>1 DEF WalkedOn
<1>11. \A k \in 0..n : g[k] \in U
  <2> DEFINE P == {k \in 0..n : g[k] \in U}
  <2>1. 0 \in P
    BY <1>1, <1>2, <1>9
  <2>2. ASSUME NEW k \in 0..(n - 1), k \in P PROVE k + 1 \in P
    <3>1. k + 1 \in 1..n /\ (k + 1) - 1 = k /\ k + 1 \in 0..n
      BY <1>1
    <3>2. g[k + 1] = WalkedOn(g[k], E, B) /\ g[k] \in U
      BY <1>10, <2>2, <3>1
    <3> QED BY <1>3, <3>1, <3>2
  <2> HIDE DEF P
  <2>3. 0..n \subseteq P
    BY <1>1, <2>1, <2>2, UpTo
  <2> QED BY <2>3 DEF P
<1> QED BY <1>8, <1>9, <1>10, <1>11 DEF n, U, S

\* A switch at no distance is a root; any other has a neighbour that is nearer by no less
\* than the cost of the port to it.
LEMMA DistancesAre ==
  ASSUME NEW E, NEW B, Cabling(E, B), NEW d, d = Distance(E, B)
  PROVE  /\ d \in [Switches -> Nat]
         /\ \A s \in Switches :
              \/ d[s] = 0 /\ s \in Roots(E)
              \/ \E e \in E : e[2][1] = s /\ d[e[1][1]] + PortCost(e[2], B) <= d[s]
<1>1. PICK g : /\ g[0] = {<<s, 0>> : s \in Roots(E)}
               /\ \A k \in 1..Cardinality(Switches) : g[k] = WalkedOn(g[k - 1], E, B)
               /\ \A k \in 0..Cardinality(Switches) : g[k] \subseteq Switches \X Nat
               /\ Distance(E, B) = [s \in Switches |->
                     Least({w[2] : w \in {w \in g[Cardinality(Switches) - 1] : w[1] = s}})]
  BY WalksAre
<1>2. SUFFICES ASSUME NEW s_1 \in Switches
               PROVE  /\ d \in [Switches -> Nat]
                      /\ \A s \in Switches :
                           \/ d[s] = 0 /\ s \in Roots(E)
                           \/ \E e \in E : e[2][1] = s /\ d[e[1][1]] + PortCost(e[2], B) <= d[s]
  <2>1. CASE Switches = {}
    BY <1>1, <2>1
  <2>2. CASE Switches # {}
    BY <1>2, <2>2
  <2> QED BY <2>1, <2>2
<1> DEFINE n == Cardinality(Switches)
           V(k) == {s \in Switches : \E w \in g[k] : w[1] = s}
           P == {k \in 0..(n - 1) :
                   /\ \A w \in g[k] :
                        \/ w[2] = 0 /\ w[1] \in Roots(E)
                        \/ \E e \in E, x \in g[k] : /\ e[2][1] = w[1] /\ e[1][1] = x[1]
                                                    /\ w[2] = x[2] + PortCost(e[2], B)
                   /\ Roots(E) \subseteq V(k)
                   /\ V(k) = Switches \/ Cardinality(V(k)) > k}
<1>3. n \in Nat /\ n - 1 \in Nat
  <2>1. n \in Nat /\ n # 0
    BY <1>2, FiniteAssumption, FS_CardinalityType, FS_EmptySet
  <2> HIDE DEF n
  <2> QED BY <2>1
<1>4. \A k : IsFiniteSet(V(k)) /\ Cardinality(V(k)) \in Nat
  BY FiniteAssumption, FS_Subset, FS_CardinalityType
<1>5. 0 \in P
  <2>1. ASSUME NEW w \in g[0] PROVE w[2] = 0 /\ w[1] \in Roots(E)
    <3>1. PICK r \in Roots(E) : w = <<r, 0>>
      BY <1>1
    <3> QED BY <3>1
  <2>2. Roots(E) \subseteq V(0)
    <3> SUFFICES ASSUME NEW r \in Roots(E) PROVE r \in V(0)
      OBVIOUS
    <3>1. <<r, 0>> \in g[0] /\ r \in Switches
      BY <1>1 DEF Roots
    <3> QED BY <3>1
  <2>3. V(0) # {}
    BY <1>2, <2>2, RootReaches
  <2> HIDE DEF V
  <2>4. Cardinality(V(0)) > 0
    BY <1>4, <2>3, FS_EmptySet
  <2> QED BY <1>3, <2>1, <2>2, <2>4
<1>6. ASSUME NEW k \in 0..((n - 1) - 1), k \in P PROVE k + 1 \in P
  <2>1. k + 1 \in 1..n /\ (k + 1) - 1 = k /\ k + 1 \in 0..(n - 1) /\ k \in 0..n
    BY <1>3
  <2>2. g[k + 1] = WalkedOn(g[k], E, B)
    BY <1>1, <2>1
  <2>3. g[k] \subseteq g[k + 1] /\ g[k] \subseteq Switches \X Nat
    BY <1>1, <2>1, <2>2 DEF WalkedOn
  <2>4. ASSUME NEW w \in g[k + 1]
        PROVE  \/ w[2] = 0 /\ w[1] \in Roots(E)
               \/ \E e \in E, x \in g[k + 1] : /\ e[2][1] = w[1] /\ e[1][1] = x[1]
                                               /\ w[2] = x[2] + PortCost(e[2], B)
    <3>1. CASE w \in g[k]
      BY <1>6, <2>3, <3>1
    <3>2. CASE w \notin g[k]
      <4>1. PICK y \in g[k] \X E : /\ y[2][1][1] = y[1][1]
                                   /\ w = <<y[2][2][1], y[1][2] + PortCost(y[2][2], B)>>
        BY <2>2, <3>2 DEF WalkedOn
      <4>2. y[1] \in g[k + 1] /\ y[2] \in E
        BY <2>3, <4>1
      <4> QED BY <4>1, <4>2
    <3> QED BY <3>1, <3>2
  <2>5. V(k) \subseteq V(k + 1)
    BY <2>3
  <2>6. Roots(E) \subseteq V(k + 1)
    BY <1>6, <2>5
  <2>7. ASSUME V(k + 1) # Switches PROVE Cardinality(V(k + 1)) > k + 1
    <3>1. V(k) # Switches
      BY <2>5, <2>7
    <3>2. ~Closed(V(k), SwitchPairs(E))
      <4>1. V(k) \subseteq Switches /\ Roots(E) \subseteq V(k)
        BY <1>6
      <4> HIDE DEF V
      <4> QED BY <3>1, <4>1, RootsSuffice
    <3>3. PICK r \in SwitchPairs(E) : r[1] \in V(k) /\ r[2] \notin V(k)
      BY <3>2 DEF Closed
    <3>4. PICK e \in E : r = <<e[1][1], e[2][1]>>
      BY DEF SwitchPairs
    <3>5. e[2][1] \in Switches /\ r[2] = e[2][1]
      BY <3>4 DEF Cabling
    <3>6. PICK x \in g[k] : x[1] = e[1][1]
      BY <3>3, <3>4
    <3>7. <<e[2][1], x[2] + PortCost(e[2], B)>> \in g[k + 1]
      <4>1. <<x, e>> \in g[k] \X E /\ <<x, e>>[2][1][1] = <<x, e>>[1][1]
        BY <3>6
      <4> QED BY <2>2, <4>1 DEF WalkedOn
    <3>8. r[2] \in V(k + 1)
      BY <3>5, <3>7
    <3> HIDE DEF V
    <3>9. Cardinality(V(k)) > k
      BY <1>6, <3>1
    <3>10. Cardinality(V(k)) <= Cardinality(V(k + 1)) /\ Cardinality(V(k)) # Cardinality(V(k + 1))
      BY <1>4, <2>5, <3>3, <3>8, FS_Subset
    <3> QED BY <1>4, <3>9, <3>10
  <2> HIDE DEF V
  <2> QED BY <2>1, <2>4, <2>6, <2>7
<1>7. n - 1 \in P
  <2> HIDE DEF P, n
  <2>1. 0..(n - 1) \subseteq P
    BY <1>3, <1>5, <1>6, UpTo
  <2> QED BY <1>3, <2>1
<1> DEFINE W == g[n - 1]
           Costs(s) == {w[2] : w \in {w \in W : w[1] = s}}
<1>8. W \subseteq Switches \X Nat
  <2>1. n - 1 \in 0..n
    BY <1>3
  <2> QED BY <1>1, <2>1
<1>9. V(n - 1) = Switches
  <2>1. V(n - 1) = Switches \/ Cardinality(V(n - 1)) > n - 1
    BY <1>7
  <2>2. V(n - 1) \subseteq Switches
    OBVIOUS
  <2> HIDE DEF V
  <2>3. Cardinality(V(n - 1)) <= n /\ (Cardinality(V(n - 1)) = n => V(n - 1) = Switches)
    BY <2>2, FiniteAssumption, FS_Subset
  <2>4. Cardinality(V(n - 1)) \in Nat
    BY <1>4
  <2> HIDE DEF n
  <2> QED BY <1>3, <2>1, <2>3, <2>4
<1>10. \A w \in W : \/ w[2] = 0 /\ w[1] \in Roots(E)
                    \/ \E e \in E, x \in W : /\ e[2][1] = w[1] /\ e[1][1] = x[1]
                                             /\ w[2] = x[2] + PortCost(e[2], B)
  BY <1>7
<1>11. \A s \in Switches : \E w \in W : w[1] = s
  BY <1>9
<1>12. \A s \in Switches : d[s] = Least(Costs(s))
  BY <1>1
<1>13. d = [s \in Switches |-> Least(Costs(s))]
  BY <1>1
<1> HIDE DEF W, n, V, P
<1>14. ASSUME NEW s \in Switches
       PROVE  /\ d[s] \in Nat
              /\ \E w \in W : w[1] = s /\ w[2] = d[s]
              /\ \A w \in W : w[1] = s => d[s] <= w[2]
  <2>1. Costs(s) \subseteq Nat /\ Costs(s) # {}
    BY <1>8, <1>11
  <2>2. Least(Costs(s)) \in Costs(s) /\ \A y \in Costs(s) : Least(Costs(s)) <= y
    <3> HIDE DEF Costs
    <3> QED BY <2>1, LeastIs
  <2> QED BY <1>12, <2>1, <2>2
<1>15. d \in [Switches -> Nat]
  BY <1>13, <1>14
<1>16. ASSUME NEW s \in Switches
       PROVE  \/ d[s] = 0 /\ s \in Roots(E)
              \/ \E e \in E : e[2][1] = s /\ d[e[1][1]] + PortCost(e[2], B) <= d[s]
  <2>1. PICK w \in W : w[1] = s /\ w[2] = d[s]
    BY <1>14
  <2>2. CASE w[2] = 0 /\ w[1] \in Roots(E)
    BY <2>1, <2>2
  <2>3. CASE \E e \in E, x \in W : /\ e[2][1] = w[1] /\ e[1][1] = x[1]
                                   /\ w[2] = x[2] + PortCost(e[2], B)
    <3>1. PICK e \in E, x \in W : /\ e[2][1] = w[1] /\ e[1][1] = x[1]
                                  /\ w[2] = x[2] + PortCost(e[2], B)
      BY <2>3
    <3>2. x \in Switches \X Nat /\ PortCost(e[2], B) \in Nat
      BY <1>8 DEF Cabling
    <3>3. d[x[1]] <= x[2] /\ d[x[1]] \in Nat
      BY <1>14, <3>2
    <3> QED BY <2>1, <3>1, <3>2, <3>3
  <2> QED BY <1>10, <2>2, <2>3
<1> QED BY <1>15, <1>16

\* Of two neighbours one at most is a root.
LEMMA NeighboursNotRoots ==
  ASSUME NEW E, NEW B, Cabling(E, B), NEW d, d = Distance(E, B),
         NEW e \in E, e[1][1] # e[2][1], d[e[1][1]] = 0
  PROVE  d[e[2][1]] # 0
<1> DEFINE R == SwitchPairs(E)
           s == e[1][1]
           t == e[2][1]
<1>1. IsFiniteSet(R) /\ \A x \in R : <<x[2], x[1]>> \in R
  BY PairsFinite
<1>2. <<s, t>> \in R
  BY DEF SwitchPairs
<1>3. s \in Switches /\ t \in Switches
  BY DEF Cabling
<1>4. ASSUME NEW x \in Switches, d[x] = 0 PROVE x = Least(Reach({x}, R))
  <2>1. d \in [Switches -> Nat]
    BY DistancesAre
  <2>2. ASSUME NEW f \in E, f[2][1] = x PROVE ~ (d[f[1][1]] + PortCost(f[2], B) <= d[x])
    <3>1. d[f[1][1]] \in Nat /\ PortCost(f[2], B) \in Nat \ {0}
      BY <2>1 DEF Cabling
    <3> QED BY <1>4, <3>1
  <2>3. x \in Roots(E)
    BY <2>2, DistancesAre
  <2> QED BY <2>3 DEF Roots
<1>5. t \in Reach({s}, R)
  <2>1. <<s, t>>[1] = s /\ <<s, t>>[2] = t
    OBVIOUS
  <2> HIDE DEF R, s, t
  <2>2. s \in Reach({s}, R) /\ Closed(Reach({s}, R), R)
    BY <1>1, ReachClosed
  <2> QED BY <1>2, <2>1, <2>2 DEF Closed
<1>6. Reach({s}, R) = Reach({t}, R)
  <2> HIDE DEF R, s, t
  <2> QED BY <1>1, <1>5, ReachTogether
<1> QED BY <1>3, <1>4, <1>6

-----------------------------------------------------------------------------
(* Logical ports.                                                          *)

LEMMA InterfacesAre ==
  \A i \in Interfaces : /\ i = <<i[1], i[2]>> /\ i[1] \in Switches /\ i[2] \in Nat
                        /\ i \in Ports <=> i[2] <= 64
<1> TAKE i \in Interfaces
<1>1. CASE i \in Ports
  <2>1. i \in Switches \X (1..64)
    BY <1>1, PortsAssumption
  <2> QED BY <1>1, <2>1
<1>2. CASE i \notin Ports
  <2>1. PICK s \in Switches, g \in Groups : i = <<s, 64 + g>>
    BY <1>2 DEF Interfaces, PortChannels, Po
  <2>2. g \in Nat \ {0}
    BY PortsAssumption
  <2> QED BY <1>2, <2>1, <2>2
<1> QED BY <1>1, <1>2

LEMMA BundlesAre ==
  ASSUME TypeOK, NEW p \in Bundles
  PROVE  /\ p \in Ports /\ Peer[p] \in Ports /\ cfg[p].group # 0
         /\ Governing(p) \in Interfaces /\ Governing(p) \notin Ports /\ Governing(p)[1] = p[1]
<1>1. p \in Ports /\ Peer[p] \in Ports /\ cfg[p].group # 0
  BY DEF Bundles, Bundled, Candidate
<1>2. cfg[p] \in InterfaceType
  BY <1>1 DEF TypeOK, Interfaces
<1>3. cfg[p].group \in Groups
  BY <1>1, <1>2 DEF InterfaceType
<1>4. Governing(p) = <<p[1], 64 + cfg[p].group>>
  BY <1>1 DEF Governing, Po
<1>5. p[1] \in Switches
  BY <1>1, Numbers
<1>6. Governing(p) \in Interfaces
  BY <1>3, <1>4, <1>5 DEF Interfaces, PortChannels, Po
<1>7. cfg[p].group \in Nat \ {0}
  BY <1>3, PortsAssumption
<1>8. Governing(p)[2] = 64 + cfg[p].group /\ Governing(p)[1] = p[1]
  BY <1>4
<1>9. ~ (Governing(p)[2] <= 64)
  BY <1>7, <1>8
<1> QED BY <1>1, <1>6, <1>8, <1>9, InterfacesAre

LEMMA LogicalIs ==
  ASSUME TypeOK, NEW p \in Ports
  PROVE  /\ Logical(p, Bundles) \in Interfaces \ Bundles
         /\ Logical(p, Bundles)[1] = p[1]
<1>1. CASE p \in Bundles
  BY <1>1, BundlesAre DEF Logical
<1>2. CASE p \notin Bundles
  BY <1>2 DEF Logical, Interfaces
<1> QED BY <1>1, <1>2

LEMMA FirstIs ==
  ASSUME NEW S, S # {}, S \subseteq Ports, NEW s, \A p \in S : p[1] = s
  PROVE  First(S) \in S
<1> DEFINE T == {p[2] : p \in S}
<1>1. \A p \in S : p[2] \in Nat /\ p[1] \in Nat
  BY Numbers
<1>2. T \subseteq Nat /\ T # {}
  BY <1>1
<1>3. PICK k \in T : \A j \in T : k <= j
  <2> HIDE DEF T
  <2> QED BY <1>2, LeastNumber
<1>4. PICK p \in S : p[2] = k
  BY <1>3
<1>5. \A q \in S : ~Before(q, p)
  BY <1>1, <1>3, <1>4 DEF Before
<1> QED BY <1>5 DEF First

\* The port that a logical port asks for its far end.
Front(p, B) == IF p \in Ports THEN p ELSE First(MembersOf(p) \cap B)

LEMMA FrontIs ==
  ASSUME TypeOK, NEW p \in Interfaces \ Bundles, LineUp(p, Bundles)
  PROVE  /\ Front(p, Bundles) \in Ports /\ Logical(Front(p, Bundles), Bundles) = p
         /\ Front(p, Bundles)[1] = p[1]
<1>1. CASE p \in Ports
  BY <1>1 DEF Front, Logical
<1>2. CASE p \notin Ports
  <2> DEFINE S == MembersOf(p) \cap Bundles
  <2>1. S # {} /\ S \subseteq Ports /\ \A q \in S : q[1] = p[1]
    BY <1>2 DEF LineUp, MembersOf
  <2> HIDE DEF S
  <2>2. First(S) \in S
    BY <2>1, FirstIs
  <2>3. First(S) \in MembersOf(p) \cap Bundles
    BY <2>2 DEF S
  <2> QED BY <1>2, <2>1, <2>2, <2>3 DEF Front, MembersOf, Logical, S
<1> QED BY <1>1, <1>2

LEMMA DtpPeerIs ==
  ASSUME TypeOK, NEW p \in Interfaces \ Bundles, LineUp(p, Bundles), DtpPeer(p, Bundles) \in Interfaces
  PROVE  /\ Peer[Front(p, Bundles)] \in Ports
         /\ DtpPeer(p, Bundles) = Logical(Peer[Front(p, Bundles)], Bundles)
         /\ DtpPeer(p, Bundles) \in Interfaces \ Bundles
         /\ DtpPeer(p, Bundles)[1] # p[1]
<1> DEFINE m == Front(p, Bundles)
<1>1. m \in Ports /\ m[1] = p[1]
  BY FrontIs
<1>2. DtpPeer(p, Bundles) = IF Peer[m] \in Ports THEN Logical(Peer[m], Bundles) ELSE Peer[m]
  BY DEF DtpPeer, Front
<1> HIDE DEF m
<1>3. Peer[m] \in Ports
  <2>1. Peer[m] \in Ports \cup Devices
    BY <1>1, PeerAssumption
  <2> QED BY <1>2, <2>1, PortsAssumption
<1>4. Peer[m][1] # m[1]
  BY <1>1, <1>3, PeerAssumption
<1> QED BY <1>1, <1>2, <1>3, <1>4, LogicalIs DEF m

LEMMA LiveBack ==
  ASSUME NEW B, NEW p, NEW q, <<p, q>> \in LiveCables(B)
  PROVE  <<q, p>> \in LiveCables(B)
<1>1. PICK x \in Ports : /\ Peer[x] \in Ports
                         /\ <<p, q>> = <<Logical(x, B), Logical(Peer[x], B)>>
  BY DEF LiveCables
<1>2. LineUp(p, B) /\ LineUp(q, B) /\ ~Gov(p).routed /\ ~Gov(q).routed
  <2>1. <<p, q>>[1] = p /\ <<p, q>>[2] = q
    OBVIOUS
  <2> QED BY <2>1 DEF LiveCables
<1>3. Peer[Peer[x]] = x
  BY <1>1, PeerAssumption
<1>4. <<q, p>> = <<Logical(Peer[x], B), Logical(Peer[Peer[x]], B)>>
  BY <1>1, <1>3
<1>5. <<q, p>>[1] = q /\ <<q, p>>[2] = p
  OBVIOUS
<1> QED BY <1>1, <1>2, <1>3, <1>4, <1>5 DEF LiveCables

\* A logical port of a VLAN that faces another is on a live cable.
LEMMA LiveBetween ==
  ASSUME TypeOK, NEW p \in Interfaces \ Bundles, NEW q, q = DtpPeer(p, Bundles), q \in Interfaces,
         LineUp(p, Bundles), LineUp(q, Bundles), ~Gov(p).routed, ~Gov(q).routed
  PROVE  <<p, q>> \in LiveCables(Bundles)
<1> DEFINE m == Front(p, Bundles)
<1>1. m \in Ports /\ Logical(m, Bundles) = p
  BY FrontIs
<1>2. Peer[m] \in Ports /\ q = Logical(Peer[m], Bundles)
  BY DtpPeerIs
<1>3. <<p, q>>[1] = p /\ <<p, q>>[2] = q
  OBVIOUS
<1> HIDE DEF m
<1> QED BY <1>1, <1>2, <1>3 DEF LiveCables

LEMMA AlikeIs ==
  ASSUME NEW B, Alike(B), NEW p, NEW q, <<p, q>> \in LiveCables(B)
  PROVE  /\ DtpPeer(p, B) = q /\ DtpPeer(q, B) = p
         /\ Trunking(p, B) = Trunking(q, B)
         /\ IF Trunking(p, B) THEN Gov(p).native = Gov(q).native ELSE Gov(p).vlan = Gov(q).vlan
<1>1. <<q, p>> \in LiveCables(B)
  BY LiveBack
<1>2. <<p, q>>[1] = p /\ <<p, q>>[2] = q /\ <<q, p>>[1] = q /\ <<q, p>>[2] = p
  OBVIOUS
<1> QED BY <1>1, <1>2 DEF Alike

LEMMA Divides == \A c \in 1..64 : 100 \div c \in Nat \ {0}
  OBVIOUS

LEMMA CostPositive ==
  ASSUME NEW B, NEW p \in Interfaces, LineUp(p, B)
  PROVE  PortCost(p, B) \in Nat \ {0}
<1>1. CASE p \in Ports
  BY <1>1 DEF PortCost
<1>2. CASE p \notin Ports
  <2> DEFINE S == MembersOf(p) \cap B
             f == [x \in S |-> x[2]]
  <2>1. S # {} /\ \A x \in S : x \in Ports /\ x[1] = p[1]
    BY <1>2 DEF LineUp, MembersOf
  <2>2. \A x \in S : x \in Interfaces /\ x[2] \in 1..64
    BY <2>1, Numbers DEF Interfaces
  <2>3. \A x, y \in S : x[2] = y[2] => x = y
    BY <2>1, <2>2, InterfacesAre
  <2> HIDE DEF S
  <2>4. f \in Injection(S, 1..64)
    BY <2>2, <2>3 DEF Injection, IsInjective
  <2>5. IsFiniteSet(1..64) /\ Cardinality(1..64) = 64
    <3>1. /\ IsFiniteSet(1..64)
          /\ Cardinality(1..64) = IF 1 > 64 THEN 0 ELSE 64 - 1 + 1
      <4>1. 1 \in Int /\ 64 \in Int
        OBVIOUS
      <4> QED BY <4>1, FS_Interval, Zenon
    <3> QED BY <3>1
  <2> HIDE DEF f
  <2>6. IsFiniteSet(S) /\ Cardinality(S) <= 64
    BY <2>4, <2>5, FS_Injection
  <2>7. Cardinality(S) \in Nat /\ Cardinality(S) # 0
    BY <2>1, <2>6, FS_CardinalityType, FS_EmptySet
  <2>8. Cardinality(S) \in 1..64
    BY <2>6, <2>7
  <2>9. PortCost(p, B) = 100 \div Cardinality(S)
    BY <1>2 DEF PortCost, S
  <2> QED BY <2>8, <2>9, Divides
<1> QED BY <1>1, <1>2

-----------------------------------------------------------------------------
(* Where cables are configured alike.                                      *)

LEMMA CarryingIs ==
  ASSUME NEW B, NEW v, NEW p \in Carrying(v, B)
  PROVE  /\ p \in Interfaces /\ p \notin B /\ LineUp(p, B) /\ ~Gov(p).routed /\ v \in vlans[p[1]]
         /\ IF Trunking(p, B) THEN v \in Gov(p).allowed ELSE v = Gov(p).vlan
  BY DEF Carrying, Carries

LEMMA EdgeIs ==
  ASSUME TypeOK, Alike(Bundles), NEW v, NEW e \in Edges(Carrying(v, Bundles), Bundles)
  PROVE  /\ e = <<e[1], e[2]>> /\ e[1] \in Carrying(v, Bundles) /\ e[2] \in Carrying(v, Bundles)
         /\ <<e[2], e[1]>> \in Edges(Carrying(v, Bundles), Bundles)
         /\ DtpPeer(e[1], Bundles) = e[2] /\ DtpPeer(e[2], Bundles) = e[1]
         /\ e[1][1] # e[2][1]
<1> DEFINE C == Carrying(v, Bundles)
           Seen == {<<p, DtpPeer(p, Bundles)>> : p \in C}
           Back == {<<f[2], f[1]>> : f \in Seen}
<1>1. Edges(C, Bundles) = {f \in Seen \cup Back : f[1] \in C /\ f[2] \in C}
  BY DEF Edges
<1>2. e \in Seen \cup Back /\ e[1] \in C /\ e[2] \in C
  BY <1>1
<1>3. ASSUME NEW p \in C, DtpPeer(p, Bundles) \in C
      PROVE  DtpPeer(DtpPeer(p, Bundles), Bundles) = p /\ DtpPeer(p, Bundles)[1] # p[1]
  <2>1. <<p, DtpPeer(p, Bundles)>> \in LiveCables(Bundles)
    BY <1>3, CarryingIs, LiveBetween
  <2>2. DtpPeer(p, Bundles)[1] # p[1]
    BY <1>3, CarryingIs, DtpPeerIs
  <2> QED BY <2>1, <2>2, AlikeIs
<1>4. ASSUME NEW p \in C, DtpPeer(p, Bundles) \in C
      PROVE  /\ <<p, DtpPeer(p, Bundles)>> \in Edges(C, Bundles)
             /\ <<DtpPeer(p, Bundles), p>> \in Edges(C, Bundles)
  <2>1. <<p, DtpPeer(p, Bundles)>> \in Seen
    OBVIOUS
  <2>2. /\ <<p, DtpPeer(p, Bundles)>>[1] = p /\ <<p, DtpPeer(p, Bundles)>>[2] = DtpPeer(p, Bundles)
        /\ <<DtpPeer(p, Bundles), p>>[2] = p /\ <<DtpPeer(p, Bundles), p>>[1] = DtpPeer(p, Bundles)
    OBVIOUS
  <2>3. <<DtpPeer(p, Bundles), p>> \in Back
    BY <2>1, <2>2
  <2> HIDE DEF C, Seen, Back
  <2> QED BY <1>1, <1>4, <2>1, <2>2, <2>3
<1>5. CASE e \in Seen
  <2>1. PICK p \in C : e = <<p, DtpPeer(p, Bundles)>>
    BY <1>5
  <2>2. e[1] = p /\ e[2] = DtpPeer(p, Bundles)
    BY <2>1
  <2> HIDE DEF C, Seen, Back
  <2> QED BY <1>2, <1>3, <1>4, <2>1, <2>2 DEF C
<1>6. CASE e \in Back
  <2>1. PICK p \in C : e = <<DtpPeer(p, Bundles), p>>
    BY <1>6
  <2>2. e[2] = p /\ e[1] = DtpPeer(p, Bundles)
    BY <2>1
  <2> HIDE DEF C, Seen, Back
  <2> QED BY <1>2, <1>3, <1>4, <2>1, <2>2 DEF C
<1> QED BY <1>2, <1>5, <1>6

LEMMA EdgeFrom ==
  ASSUME NEW B, NEW v, NEW p \in Carrying(v, B), DtpPeer(p, B) \in Carrying(v, B)
  PROVE  <<p, DtpPeer(p, B)>> \in Edges(Carrying(v, B), B)
<1> DEFINE C == Carrying(v, B)
           Seen == {<<x, DtpPeer(x, B)>> : x \in C}
<1>1. <<p, DtpPeer(p, B)>> \in Seen
  OBVIOUS
<1>2. <<p, DtpPeer(p, B)>>[1] = p /\ <<p, DtpPeer(p, B)>>[2] = DtpPeer(p, B)
  OBVIOUS
<1> QED BY <1>1, <1>2 DEF Edges

VlanEdges(v) == Edges(Carrying(v, Bundles), Bundles)
Distances(v) == Distance(VlanEdges(v), Bundles)

LEMMA VlanCabling ==
  ASSUME TypeOK, Alike(Bundles), NEW v
  PROVE  Cabling(VlanEdges(v), Bundles)
<1> SUFFICES ASSUME NEW e \in VlanEdges(v)
             PROVE  /\ <<e[2], e[1]>> \in VlanEdges(v)
                    /\ e[1][1] \in Switches /\ e[2][1] \in Switches
                    /\ PortCost(e[2], Bundles) \in Nat \ {0}
  BY DEF Cabling
<1>1. e[1] \in Carrying(v, Bundles) /\ e[2] \in Carrying(v, Bundles) /\ <<e[2], e[1]>> \in VlanEdges(v)
  BY EdgeIs DEF VlanEdges
<1> QED BY <1>1, CarryingIs, SwitchOf, CostPositive

\* The ends of a join, and that both forward.
LEMMA ForwardingIs ==
  ASSUME NEW p, NEW v, <<p, v>> \in Forwarding(Bundles)
  PROVE  /\ v \in Vlans /\ p \in Carrying(v, Bundles)
         /\ Forwards(p, Carrying(v, Bundles), VlanEdges(v), Distances(v), Bundles)
<1>1. PICK w \in Vlans :
        \E x \in Carrying(w, Bundles) :
          /\ <<p, v>> = <<x, w>>
          /\ Forwards(x, Carrying(w, Bundles), VlanEdges(w), Distances(w), Bundles)
  BY DEF Forwarding, VlanEdges, Distances
<1>2. p \in Carrying(v, Bundles) /\ v = w
  BY <1>1
<1> QED BY <1>1, <1>2

Joins(a, b, v) ==
  /\ v \in Vlans /\ <<a, b>> \in VlanEdges(v) /\ <<b, a>> \in VlanEdges(v)
  /\ Forwards(a, Carrying(v, Bundles), VlanEdges(v), Distances(v), Bundles)
  /\ Forwards(b, Carrying(v, Bundles), VlanEdges(v), Distances(v), Bundles)

LEMMA JoinIs ==
  ASSUME TypeOK, Alike(Bundles), NEW k \in CableJoins(Forwarding(Bundles), Bundles)
  PROVE  \E a, b, v : k = <<<<a, v>>, <<b, v>>>> /\ Joins(a, b, v)
<1> DEFINE B == Bundles
           F == Forwarding(B)
<1>1. PICK p \in Named : /\ Peer[p] \in Ports
                         /\ \E x \in Sends(Logical(p, B), F, B) :
                              \E w \in ReceivedIn(Logical(Peer[p], B), x[2], F, B) :
                                k = <<<<Logical(p, B), x[1]>>, <<Logical(Peer[p], B), w>>>>
  BY DEF CableJoins
<1> DEFINE a == Logical(p, B)
           b == Logical(Peer[p], B)
<1>2. PICK x \in Sends(a, F, B) : \E w \in ReceivedIn(b, x[2], F, B) : k = <<<<a, x[1]>>, <<b, w>>>>
  BY <1>1
<1>3. PICK w \in ReceivedIn(b, x[2], F, B) : k = <<<<a, x[1]>>, <<b, w>>>>
  BY <1>2
<1>4. PICK y \in Sends(b, F, B) : w = y[1] /\ (x[2] = y[2] \/ (x[2] = y[1] /\ y[2] = NoTag))
  BY <1>3 DEF ReceivedIn
<1>5. p \in Ports
  BY PeerAssumption
<1> HIDE DEF a, b, F
<1>6. PICK u \in Vlans : /\ <<a, u>> \in F
                         /\ x = <<u, IF Trunking(a, B) /\ u # Gov(a).native THEN u ELSE NoTag>>
  BY DEF Sends
<1>7. PICK v \in Vlans : /\ <<b, v>> \in F
                         /\ y = <<v, IF Trunking(b, B) /\ v # Gov(b).native THEN v ELSE NoTag>>
  BY DEF Sends
<1>8. /\ a \in Carrying(u, B) /\ b \in Carrying(v, B)
      /\ Forwards(a, Carrying(u, B), VlanEdges(u), Distances(u), B)
      /\ Forwards(b, Carrying(v, B), VlanEdges(v), Distances(v), B)
  BY <1>6, <1>7, ForwardingIs DEF F
<1>9. <<a, b>> \in LiveCables(B)
  <2>1. LineUp(a, B) /\ LineUp(b, B) /\ ~Gov(a).routed /\ ~Gov(b).routed
    BY <1>8, CarryingIs
  <2>2. <<a, b>>[1] = a /\ <<a, b>>[2] = b
    OBVIOUS
  <2> QED BY <1>1, <1>5, <2>1, <2>2 DEF LiveCables, a, b
<1>10. /\ DtpPeer(a, B) = b /\ DtpPeer(b, B) = a /\ Trunking(a, B) = Trunking(b, B)
       /\ IF Trunking(a, B) THEN Gov(a).native = Gov(b).native ELSE Gov(a).vlan = Gov(b).vlan
  BY <1>9, AlikeIs
<1>11. u = v
  <2>1. u # NoTag /\ v # NoTag
    BY PortsAssumption
  <2>2. CASE Trunking(a, B)
    <3>1. x[1] = u /\ y[1] = v
      BY <1>6, <1>7
    <3>2. x[2] = (IF u # Gov(a).native THEN u ELSE NoTag) /\ y[2] = (IF v # Gov(a).native THEN v ELSE NoTag)
      BY <1>6, <1>7, <1>10, <2>2
    <3> QED BY <1>4, <2>1, <3>1, <3>2
  <2>3. CASE ~Trunking(a, B)
    <3>1. u = Gov(a).vlan
      BY <1>8, <2>3, CarryingIs
    <3>2. v = Gov(b).vlan
      BY <1>8, <1>10, <2>3, CarryingIs
    <3> QED BY <1>10, <2>3, <3>1, <3>2
  <2> QED BY <2>2, <2>3
<1>12. k = <<<<a, u>>, <<b, u>>>>
  BY <1>3, <1>4, <1>6, <1>7, <1>11
<1>13. <<a, b>> \in VlanEdges(u) /\ <<b, a>> \in VlanEdges(u)
  <2>1. <<a, b>> \in VlanEdges(u)
    BY <1>8, <1>10, <1>11, EdgeFrom DEF VlanEdges
  <2>2. <<b, a>> \in VlanEdges(u)
    BY <1>8, <1>10, <1>11, EdgeFrom DEF VlanEdges
  <2> QED BY <2>1, <2>2
<1> QED BY <1>8, <1>11, <1>12, <1>13 DEF Joins

\* A switch has one root port.
LEMMA OneRootPort ==
  ASSUME TypeOK, Alike(Bundles), NEW v, NEW p, NEW q, p[1] = q[1],
         RootPort(p, VlanEdges(v), Distances(v), Bundles), RootPort(q, VlanEdges(v), Distances(v), Bundles)
  PROVE  p = q
<1> DEFINE E == VlanEdges(v)
           d == Distances(v)
           B == Bundles
<1>1. PICK e \in E : e[2] = p /\ \A f \in E : f[2][1] = p[1] => ~Better(Offer(f, d, B), Offer(e, d, B))
  BY DEF RootPort
<1>2. PICK f \in E : f[2] = q /\ \A g \in E : g[2][1] = q[1] => ~Better(Offer(g, d, B), Offer(f, d, B))
  BY DEF RootPort
<1>3. ~Better(Offer(f, d, B), Offer(e, d, B)) /\ ~Better(Offer(e, d, B), Offer(f, d, B))
  BY <1>1, <1>2
<1>4. ASSUME NEW g \in E
      PROVE  /\ g[2] \in Interfaces /\ \A i \in 1..4 : Offer(g, d, B)[i] \in Nat
             /\ Offer(g, d, B)[4] = g[2][2]
  <2>1. g[1] \in Interfaces /\ g[2] \in Interfaces /\ LineUp(g[2], B)
    BY EdgeIs, CarryingIs DEF VlanEdges
  <2>2. d \in [Switches -> Nat]
    BY VlanCabling, DistancesAre DEF Distances
  <2>3. d[g[1][1]] \in Nat /\ PortCost(g[2], B) \in Nat /\ g[1][1] \in Nat /\ g[1][2] \in Nat /\ g[2][2] \in Nat
    BY <2>1, <2>2, InterfacesAre, Numbers, CostPositive
  <2> HIDE DEF d, B
  <2> QED BY <2>1, <2>3 DEF Offer
<1>5. ASSUME NEW o, NEW r, \A i \in 1..4 : o[i] \in Nat /\ r[i] \in Nat, ~Better(o, r), ~Better(r, o)
      PROVE  o[4] = r[4]
  <2>1. o[1] = r[1]
    BY <1>5 DEF Better
  <2>2. o[2] = r[2]
    BY <1>5, <2>1 DEF Better
  <2>3. o[3] = r[3]
    BY <1>5, <2>1, <2>2 DEF Better
  <2> QED BY <1>5, <2>1, <2>2, <2>3 DEF Better
<1>6. Offer(f, d, B)[4] = Offer(e, d, B)[4]
  <2> HIDE DEF d, B, E
  <2> QED BY <1>3, <1>4, <1>5
<1>7. p \in Interfaces /\ q \in Interfaces /\ p[2] = q[2]
  BY <1>1, <1>2, <1>4, <1>6
<1> QED BY <1>7, InterfacesAre

-----------------------------------------------------------------------------
(* No loops.                                                               *)

Nearer(s, t, v) ==
  Distances(v)[s] < Distances(v)[t] \/ (Distances(v)[s] = Distances(v)[t] /\ s < t)

LEMMA JoinsAre ==
  ASSUME TypeOK, Alike(Bundles), NEW a, NEW b, NEW v, Joins(a, b, v)
  PROVE  /\ Joins(b, a, v)
         /\ a \in Carrying(v, Bundles) /\ b \in Carrying(v, Bundles)
         /\ a[1] \in Switches /\ b[1] \in Switches /\ a[1] # b[1]
         /\ DtpPeer(a, Bundles) = b /\ DtpPeer(b, Bundles) = a
<1>1. <<a, b>> \in VlanEdges(v) /\ <<a, b>>[1] = a /\ <<a, b>>[2] = b
  BY DEF Joins
<1>2. /\ a \in Carrying(v, Bundles) /\ b \in Carrying(v, Bundles) /\ a[1] # b[1]
      /\ DtpPeer(a, Bundles) = b /\ DtpPeer(b, Bundles) = a
  BY <1>1, EdgeIs DEF VlanEdges
<1>3. a[1] \in Switches /\ b[1] \in Switches
  BY <1>2, CarryingIs, SwitchOf
<1> QED BY <1>2, <1>3 DEF Joins

LEMMA NearerIs ==
  ASSUME TypeOK, Alike(Bundles), NEW v
  PROVE  /\ Distances(v) \in [Switches -> Nat]
         /\ \A r, s \in Switches : r # s => Nearer(r, s, v) \/ Nearer(s, r, v)
         /\ \A r \in Switches : ~Nearer(r, r, v)
         /\ \A r, s, t \in Switches : Nearer(r, s, v) /\ Nearer(s, t, v) => Nearer(r, t, v)
<1>1. Distances(v) \in [Switches -> Nat]
  BY VlanCabling, DistancesAre DEF Distances
<1>2. \A s \in Switches : s \in Nat /\ Distances(v)[s] \in Nat
  BY <1>1, Numbers
<1> QED BY <1>1, <1>2 DEF Nearer

\* Of a cable that forwards at both ends the farther end is a root port.
LEMMA FartherIsRootPort ==
  ASSUME TypeOK, Alike(Bundles), NEW a, NEW b, NEW v, Joins(a, b, v), Nearer(a[1], b[1], v)
  PROVE  RootPort(b, VlanEdges(v), Distances(v), Bundles)
<1> DEFINE d == Distances(v)
<1>1. /\ a \in Carrying(v, Bundles) /\ a[1] # b[1] /\ DtpPeer(b, Bundles) = a
      /\ a[1] \in Nat /\ b[1] \in Nat /\ d[a[1]] \in Nat /\ d[b[1]] \in Nat
  BY JoinsAre, NearerIs, Numbers
<1>2. ~ (d[b[1]] < d[a[1]] \/ (d[b[1]] = d[a[1]] /\ b[1] < a[1]))
  BY <1>1 DEF Nearer
<1>3. d[b[1]] # 0
  <2> SUFFICES ASSUME d[b[1]] = 0 PROVE FALSE
    OBVIOUS
  <2>1. d[a[1]] = 0
    BY <1>1, <1>2
  <2>2. <<a, b>> \in VlanEdges(v) /\ <<a, b>>[1] = a /\ <<a, b>>[2] = b
    BY DEF Joins
  <2>3. Cabling(VlanEdges(v), Bundles)
    BY VlanCabling
  <2> QED BY <1>1, <2>1, <2>2, <2>3, NeighboursNotRoots DEF Distances
<1>4. Forwards(b, Carrying(v, Bundles), VlanEdges(v), d, Bundles)
  BY DEF Joins
<1> HIDE DEF d
<1>5. RootPort(b, VlanEdges(v), d, Bundles)
  BY <1>1, <1>2, <1>3, <1>4 DEF Forwards
<1> QED BY <1>5 DEF d

\* The switches behind the farther end of a cable that forwards: no other cable leaves them.
LEMMA Behind ==
  ASSUME TypeOK, Alike(Bundles), NEW a, NEW b, NEW v, Joins(a, b, v), Nearer(a[1], b[1], v)
  PROVE  \E T \in SUBSET Switches :
           /\ b[1] \in T /\ a[1] \notin T
           /\ \A x, y : Joins(x, y, v) /\ {x, y} # {a, b} /\ x[1] \in T => y[1] \in T
<1> DEFINE s == a[1]
           t == b[1]
           Child(r, q) == \E x, y : Joins(x, y, v) /\ x[1] = r /\ y[1] = q /\ Nearer(r, q, v)
           Inductive(X) == t \in X /\ \A r \in X, q \in Switches : Child(r, q) => q \in X
           T == {q \in Switches : \A X \in SUBSET Switches : Inductive(X) => q \in X}
<1>1. s \in Switches /\ t \in Switches
  BY JoinsAre
<1>2. Inductive(T)
  <2> HIDE DEF Child
  <2>1. t \in T
    BY <1>1
  <2>2. ASSUME NEW r \in T, NEW q \in Switches, Child(r, q) PROVE q \in T
    BY <2>2
  <2> QED BY <2>1, <2>2
<1>3. \A X \in SUBSET Switches : Inductive(X) => T \subseteq X
  OBVIOUS
<1>4. T \subseteq Switches
  OBVIOUS
<1> HIDE DEF T
<1>5. s \notin T
  <2> DEFINE X == {q \in Switches : q = t \/ Nearer(t, q, v)}
  <2>1. Inductive(X)
    <3>1. ASSUME NEW r \in X, NEW q \in Switches, Child(r, q) PROVE q \in X
      <4>1. Nearer(r, q, v)
        BY <3>1
      <4> QED BY <1>1, <4>1, NearerIs
    <3> HIDE DEF Child
    <3> QED BY <1>1, <3>1
  <2>2. s \notin X
    BY <1>1, NearerIs
  <2>3. X \in SUBSET Switches
    OBVIOUS
  <2> HIDE DEF X, Inductive
  <2> QED BY <1>3, <2>1, <2>2, <2>3
<1>6. \A q \in T : q = t \/ \E r \in T : Child(r, q)
  <2> DEFINE X == {q \in T : q = t \/ \E r \in T : Child(r, q)}
  <2>1. Inductive(X)
    <3> HIDE DEF Child
    <3>1. t \in X
      BY <1>2
    <3>2. ASSUME NEW r \in X, NEW q \in Switches, Child(r, q) PROVE q \in X
      BY <1>2, <3>2
    <3> QED BY <3>1, <3>2
  <2>2. X \in SUBSET Switches
    BY <1>4
  <2>3. T \subseteq X
    <3> HIDE DEF X, Inductive
    <3> QED BY <1>3, <2>1, <2>2
  <2> QED BY <2>3
<1>7. ASSUME NEW x, NEW y, Joins(x, y, v), {x, y} # {a, b}, x[1] \in T PROVE y[1] \in T
  <2>1. /\ Joins(y, x, v) /\ x[1] \in Switches /\ y[1] \in Switches /\ x[1] # y[1]
        /\ DtpPeer(x, Bundles) = y
    BY <1>7, JoinsAre
  <2>2. CASE Nearer(x[1], y[1], v)
    <3>1. Child(x[1], y[1])
      BY <1>7, <2>2
    <3> HIDE DEF Child
    <3> QED BY <1>2, <1>7, <2>1, <3>1
  <2>3. CASE Nearer(y[1], x[1], v)
    <3>1. RootPort(x, VlanEdges(v), Distances(v), Bundles)
      BY <2>1, <2>3, FartherIsRootPort
    <3>2. CASE x[1] = t
      <4>1. RootPort(b, VlanEdges(v), Distances(v), Bundles)
        BY FartherIsRootPort
      <4>2. x = b
        BY <3>1, <3>2, <4>1, OneRootPort
      <4>3. y = a
        BY <2>1, <4>2, JoinsAre
      <4> QED BY <1>7, <4>2, <4>3
    <3>3. CASE x[1] # t
      <4>1. PICK r \in T : Child(r, x[1])
        BY <1>6, <1>7, <3>3
      <4>2. PICK c, e : Joins(c, e, v) /\ c[1] = r /\ e[1] = x[1] /\ Nearer(r, x[1], v)
        BY <4>1
      <4>3. RootPort(e, VlanEdges(v), Distances(v), Bundles)
        BY <4>2, FartherIsRootPort
      <4>4. e = x
        BY <3>1, <4>2, <4>3, OneRootPort
      <4>5. c = y
        BY <2>1, <4>2, <4>4, JoinsAre
      <4> QED BY <4>1, <4>2, <4>5
    <3> QED BY <3>2, <3>3
  <2> QED BY <2>1, <2>2, <2>3, NearerIs
<1> QED BY <1>2, <1>4, <1>5, <1>7

LEMMA NoLoops == ASSUME TypeOK PROVE LoopFree
<1> DEFINE B == Bundles
           J == {{k[1], k[2]} : k \in CableJoins(Forwarding(B), B)}
           Token(x) == <<x[1][1], x[2]>>
           Pairs(K) == UNION {{<<Token(x), Token(y)>> : x \in i, y \in i} : i \in K}
<1>0. LoopFree = (Alike(B) => \A j \in J : \A x, y \in j :
                    x # y => Token(y) \notin Reach({Token(x)}, Pairs(J \ {j})))
  BY DEF LoopFree
<1> HIDE DEF J, Pairs, Token
<1> SUFFICES ASSUME Alike(B), NEW j \in J, NEW x \in j, NEW y \in j, x # y
             PROVE  Token(y) \notin Reach({Token(x)}, Pairs(J \ {j}))
  BY <1>0
<1> USE DEF J, Pairs, Token
<1>1. ASSUME NEW i \in J
      PROVE  \E a, b, v : i = {<<a, v>>, <<b, v>>} /\ Joins(a, b, v)
  <2>1. PICK k \in CableJoins(Forwarding(B), B) : i = {k[1], k[2]}
    OBVIOUS
  <2>2. PICK a, b, v : k = <<<<a, v>>, <<b, v>>>> /\ Joins(a, b, v)
    BY JoinIs
  <2>3. k[1] = <<a, v>> /\ k[2] = <<b, v>>
    BY <2>2
  <2> QED BY <2>1, <2>2, <2>3
<1>2. PICK a, b, v : j = {<<a, v>>, <<b, v>>} /\ Joins(a, b, v) /\ Nearer(a[1], b[1], v)
  <2>1. PICK a, b, v : j = {<<a, v>>, <<b, v>>} /\ Joins(a, b, v)
    BY <1>1
  <2>2. /\ Joins(b, a, v) /\ j = {<<b, v>>, <<a, v>>}
        /\ (Nearer(a[1], b[1], v) \/ Nearer(b[1], a[1], v))
    BY <2>1, JoinsAre, NearerIs
  <2> QED BY <2>1, <2>2
<1> DEFINE R == Pairs(J \ {j})
           All == Switches \X Vlans
<1> HIDE DEF J
<1>3. PICK T \in SUBSET Switches :
           /\ b[1] \in T /\ a[1] \notin T
           /\ \A c, e : Joins(c, e, v) /\ {c, e} # {a, b} /\ c[1] \in T => e[1] \in T
  BY <1>2, Behind
<1> DEFINE In == {<<r, v>> : r \in T}
<1>4. ASSUME NEW r \in R PROVE r[1] \in All /\ r[2] \in All /\ r = <<r[1], r[2]>> /\ (r[1] \in In <=> r[2] \in In)
  <2>1. PICK i \in J \ {j} : \E p, q \in i : r = <<Token(p), Token(q)>>
    OBVIOUS
  <2>2. PICK p \in i, q \in i : r = <<Token(p), Token(q)>>
    BY <2>1
  <2>3. PICK c, e, w : i = {<<c, w>>, <<e, w>>} /\ Joins(c, e, w)
    BY <1>1
  <2>4. c[1] \in Switches /\ e[1] \in Switches /\ w \in Vlans /\ Joins(e, c, w)
    BY <2>3, JoinsAre DEF Joins
  <2>5. /\ r[1] \in {<<c[1], w>>, <<e[1], w>>} /\ r[2] \in {<<c[1], w>>, <<e[1], w>>}
        /\ r = <<r[1], r[2]>>
    BY <2>2, <2>3
  <2>6. <<c[1], w>> \in In <=> <<e[1], w>> \in In
    <3>1. CASE w # v
      BY <3>1
    <3>2. CASE w = v
      <4>1. {c, e} # {a, b}
        <5> SUFFICES ASSUME {c, e} = {a, b} PROVE FALSE
          OBVIOUS
        <5>1. (c = a /\ e = b) \/ (c = b /\ e = a)
          BY <1>2, JoinsAre
        <5> QED BY <1>2, <2>1, <2>3, <3>2, <5>1
      <4>2. {e, c} # {a, b}
        BY <4>1
      <4>3. c[1] \in T <=> e[1] \in T
        BY <1>3, <2>3, <2>4, <3>2, <4>1, <4>2
      <4>4. \A z : <<z, v>> \in In <=> z \in T
        OBVIOUS
      <4> QED BY <3>2, <4>3, <4>4
    <3> QED BY <3>1, <3>2
  <2>7. <<c[1], w>> \in All /\ <<e[1], w>> \in All
    BY <2>4
  <2> HIDE DEF In, All
  <2> QED BY <2>5, <2>6, <2>7
<1>5. IsFiniteSet(R)
  <2>1. IsFiniteSet(All \X All)
    BY FiniteAssumption, FS_Product
  <2>2. R \subseteq All \X All
    <3> HIDE DEF R, All
    <3> QED BY <1>4
  <2> HIDE DEF R, All
  <2> QED BY <2>1, <2>2, FS_Subset
<1>6. <<b[1], v>> \in In /\ <<a[1], v>> \notin In /\ <<a[1], v>> \in All
  BY <1>2, <1>3, JoinsAre DEF Joins
<1>7. Closed(In, R) /\ Closed(All \ In, R)
  <2> HIDE DEF R, In, All
  <2> QED BY <1>4 DEF Closed
<1>8. \/ Token(x) = <<a[1], v>> /\ Token(y) = <<b[1], v>>
      \/ Token(x) = <<b[1], v>> /\ Token(y) = <<a[1], v>>
  BY <1>2
<1> HIDE DEF R, In, All, Token, Pairs
<1>9. CASE Token(x) = <<a[1], v>> /\ Token(y) = <<b[1], v>>
  <2>1. Reach({Token(x)}, R) \subseteq All \ In
    <3>1. {Token(x)} \subseteq All \ In
      BY <1>6, <1>9
    <3> QED BY <1>5, <1>7, <3>1, ReachLeast
  <2> QED BY <1>6, <1>9, <2>1 DEF R
<1>10. CASE Token(x) = <<b[1], v>> /\ Token(y) = <<a[1], v>>
  <2>1. Reach({Token(x)}, R) \subseteq In
    <3>1. {Token(x)} \subseteq In
      BY <1>6, <1>10
    <3> QED BY <1>5, <1>7, <3>1, ReachLeast
  <2> QED BY <1>6, <1>10, <2>1 DEF R
<1> QED BY <1>8, <1>9, <1>10

-----------------------------------------------------------------------------
(* Segments.                                                               *)

\* Of the offers through the cables F there is a best one.
LEMMA BestExists ==
  ASSUME NEW F, F # {}, NEW d, NEW B, \A f \in F : \A i \in 1..4 : Offer(f, d, B)[i] \in Nat
  PROVE  \E e \in F : \A f \in F : ~Better(Offer(f, d, B), Offer(e, d, B))
<1> DEFINE o(f) == Offer(f, d, B)
           N1 == {o(f)[1] : f \in F}
<1>0. \A f \in F : o(f)[1] \in Nat /\ o(f)[2] \in Nat /\ o(f)[3] \in Nat /\ o(f)[4] \in Nat
  <2> HIDE DEF o
  <2>1. 1 \in 1..4 /\ 2 \in 1..4 /\ 3 \in 1..4 /\ 4 \in 1..4
    OBVIOUS
  <2> QED BY <2>1 DEF o
<1> HIDE DEF o
<1>1. PICK n1 \in N1 : \A k \in N1 : n1 <= k
  <2>1. N1 \subseteq Nat /\ N1 # {}
    BY <1>0
  <2> HIDE DEF N1
  <2> QED BY <2>1, LeastNumber
<1> DEFINE F1 == {f \in F : o(f)[1] = n1}
           N2 == {o(f)[2] : f \in F1}
<1>2. PICK n2 \in N2 : \A k \in N2 : n2 <= k
  <2>1. N2 \subseteq Nat /\ N2 # {}
    BY <1>0, <1>1
  <2> HIDE DEF N2
  <2> QED BY <2>1, LeastNumber
<1> DEFINE F2 == {f \in F1 : o(f)[2] = n2}
           N3 == {o(f)[3] : f \in F2}
<1>3. PICK n3 \in N3 : \A k \in N3 : n3 <= k
  <2>1. N3 \subseteq Nat /\ N3 # {}
    BY <1>0, <1>2
  <2> HIDE DEF N3
  <2> QED BY <2>1, LeastNumber
<1> DEFINE F3 == {f \in F2 : o(f)[3] = n3}
           N4 == {o(f)[4] : f \in F3}
<1>4. PICK n4 \in N4 : \A k \in N4 : n4 <= k
  <2>1. N4 \subseteq Nat /\ N4 # {}
    BY <1>0, <1>3
  <2> HIDE DEF N4
  <2> QED BY <2>1, LeastNumber
<1>5. PICK e \in F3 : o(e)[4] = n4
  BY <1>4
<1>6. e \in F /\ o(e)[1] = n1 /\ o(e)[2] = n2 /\ o(e)[3] = n3
  BY <1>5
<1>7. \A f \in F : /\ n1 <= o(f)[1]
                   /\ o(f)[1] = n1 => n2 <= o(f)[2]
                   /\ o(f)[1] = n1 /\ o(f)[2] = n2 => n3 <= o(f)[3]
                   /\ o(f)[1] = n1 /\ o(f)[2] = n2 /\ o(f)[3] = n3 => n4 <= o(f)[4]
  BY <1>1, <1>2, <1>3, <1>4
<1>8. n1 \in Nat /\ n2 \in Nat /\ n3 \in Nat /\ n4 \in Nat /\ o(e)[4] = n4
  BY <1>0, <1>5, <1>6
<1> HIDE DEF N1, N2, N3, N4, F1, F2, F3
<1>9. ASSUME NEW f \in F, NEW i \in 1..4, o(f)[i] < o(e)[i], \A j \in 1..(i - 1) : o(f)[j] = o(e)[j]
      PROVE  FALSE
  <2>0. o(f)[1] \in Nat /\ o(f)[2] \in Nat /\ o(f)[3] \in Nat /\ o(f)[4] \in Nat
    BY <1>0
  <2>1. CASE i = 1
    <3>1. o(f)[1] < n1
      BY <1>6, <1>9, <2>1
    <3> QED BY <1>7, <1>8, <2>0, <3>1
  <2>2. CASE i = 2
    <3>1. 1 \in 1..(i - 1)
      BY <2>2
    <3>2. o(f)[1] = n1 /\ o(f)[2] < n2
      BY <1>6, <1>9, <2>2, <3>1
    <3> QED BY <1>7, <1>8, <2>0, <3>2
  <2>3. CASE i = 3
    <3>1. 1 \in 1..(i - 1) /\ 2 \in 1..(i - 1)
      BY <2>3
    <3>2. o(f)[1] = n1 /\ o(f)[2] = n2 /\ o(f)[3] < n3
      BY <1>6, <1>9, <2>3, <3>1
    <3> QED BY <1>7, <1>8, <2>0, <3>2
  <2>4. CASE i = 4
    <3>1. 1 \in 1..(i - 1) /\ 2 \in 1..(i - 1) /\ 3 \in 1..(i - 1)
      BY <2>4
    <3>2. o(f)[1] = n1 /\ o(f)[2] = n2 /\ o(f)[3] = n3 /\ o(f)[4] < n4
      BY <1>6, <1>8, <1>9, <2>4, <3>1
    <3> QED BY <1>7, <1>8, <2>0, <3>2
  <2> QED BY <2>1, <2>2, <2>3, <2>4
<1> QED BY <1>6, <1>9 DEF Better, o

LEMMA OffersTyped ==
  ASSUME TypeOK, Alike(Bundles), NEW v, NEW e \in VlanEdges(v)
  PROVE  /\ \A i \in 1..4 : Offer(e, Distances(v), Bundles)[i] \in Nat
         /\ Offer(e, Distances(v), Bundles)[1] = Distances(v)[e[1][1]] + PortCost(e[2], Bundles)
         /\ Offer(e, Distances(v), Bundles)[4] = e[2][2]
<1> DEFINE d == Distances(v)
           B == Bundles
<1>1. e[1] \in Interfaces /\ e[2] \in Interfaces /\ LineUp(e[2], B)
  <2>1. e \in Edges(Carrying(v, Bundles), Bundles)
    BY DEF VlanEdges
  <2>2. e[1] \in Carrying(v, Bundles) /\ e[2] \in Carrying(v, Bundles)
    BY <2>1, EdgeIs
  <2> QED BY <2>2, CarryingIs
<1>2. d \in [Switches -> Nat]
  BY VlanCabling, DistancesAre DEF Distances
<1>3. d[e[1][1]] \in Nat /\ PortCost(e[2], B) \in Nat /\ e[1][1] \in Nat /\ e[1][2] \in Nat /\ e[2][2] \in Nat
  BY <1>1, <1>2, InterfacesAre, Numbers, CostPositive
<1>4. Offer(e, d, B) = <<d[e[1][1]] + PortCost(e[2], B), e[1][1], e[1][2], e[2][2]>>
  BY DEF Offer
<1> HIDE DEF d, B
<1>5. /\ \A i \in 1..4 : Offer(e, d, B)[i] \in Nat
      /\ Offer(e, d, B)[1] = d[e[1][1]] + PortCost(e[2], B)
      /\ Offer(e, d, B)[4] = e[2][2]
  BY <1>3, <1>4
<1> QED BY <1>5 DEF d, B

\* Every switch but the root has a cable to a nearer one that forwards at both ends.
LEMMA WayToRoot ==
  ASSUME TypeOK, Alike(Bundles), NEW v \in Vlans, NEW u \in Switches, u \notin Roots(VlanEdges(v))
  PROVE  \E a, b : Joins(a, b, v) /\ b[1] = u /\ Distances(v)[a[1]] < Distances(v)[u]
<1> DEFINE E == VlanEdges(v)
           d == Distances(v)
           B == Bundles
           F == {f \in E : f[2][1] = u}
<1>1. Cabling(E, B) /\ d = Distance(E, B) /\ d \in [Switches -> Nat]
  BY VlanCabling, DistancesAre DEF Distances
<1>2. PICK g \in E : g[2][1] = u /\ d[g[1][1]] + PortCost(g[2], B) <= d[u]
  <2> HIDE DEF E, d, B
  <2> QED BY <1>1, DistancesAre DEF E
<1>3. PICK e \in F : \A f \in F : ~Better(Offer(f, d, B), Offer(e, d, B))
  <2>1. F # {} /\ \A f \in F : \A i \in 1..4 : Offer(f, d, B)[i] \in Nat
    BY <1>2, OffersTyped
  <2> HIDE DEF F, d, B
  <2> QED BY <2>1, BestExists
<1>4. e \in E /\ e[2][1] = u
  OBVIOUS
<1>5. RootPort(e[2], E, d, B)
  <2> HIDE DEF E, d, B
  <2> QED BY <1>3, <1>4 DEF RootPort
<1>6. Offer(e, d, B)[1] <= Offer(g, d, B)[1]
  <2>1. Offer(e, d, B)[1] \in Nat /\ Offer(g, d, B)[1] \in Nat
    <3>1. 1 \in 1..4
      OBVIOUS
    <3> HIDE DEF d, B
    <3> QED BY <1>2, <1>4, <3>1, OffersTyped DEF d, B
  <2>2. ~Better(Offer(g, d, B), Offer(e, d, B))
    BY <1>2, <1>3
  <2> HIDE DEF d, B
  <2>3. ~ (Offer(g, d, B)[1] < Offer(e, d, B)[1])
    <3>1. 1 \in 1..4 /\ \A j \in 1..(1 - 1) : Offer(g, d, B)[j] = Offer(e, d, B)[j]
      OBVIOUS
    <3> QED BY <2>2, <3>1 DEF Better
  <2> QED BY <2>1, <2>3
<1>7. d[e[1][1]] + PortCost(e[2], B) <= d[g[1][1]] + PortCost(g[2], B)
  BY <1>2, <1>4, <1>6, OffersTyped
<1>8. d[e[1][1]] < d[u]
  <2>1. /\ d[e[1][1]] \in Nat /\ d[g[1][1]] \in Nat /\ d[u] \in Nat
        /\ PortCost(e[2], B) \in Nat \ {0} /\ PortCost(g[2], B) \in Nat \ {0}
    <3> HIDE DEF E, d, B
    <3> QED BY <1>1, <1>2, <1>4 DEF Cabling
  <2> HIDE DEF E, d, B
  <2> QED BY <1>2, <1>7, <2>1
<1>9. /\ e = <<e[1], e[2]>> /\ <<e[2], e[1]>> \in E /\ e[1] \in Carrying(v, B) /\ e[2] \in Carrying(v, B)
      /\ DtpPeer(e[1], B) = e[2]
  BY <1>4, EdgeIs DEF VlanEdges
<1>10. Forwards(e[1], Carrying(v, B), E, d, B)
  <2> HIDE DEF E, d, B
  <2> QED BY <1>4, <1>8, <1>9 DEF Forwards
<1>11. Forwards(e[2], Carrying(v, B), E, d, B)
  <2> HIDE DEF E, d, B
  <2> QED BY <1>5 DEF Forwards
<1>12. Joins(e[1], e[2], v)
  BY <1>4, <1>9, <1>10, <1>11 DEF Joins
<1> QED BY <1>4, <1>8, <1>12

\* What a port sends in a VLAN.
Tagged(a, v) == <<v, IF Trunking(a, Bundles) /\ v # Gov(a).native THEN v ELSE NoTag>>

LEMMA SendsIs ==
  ASSUME NEW a, NEW v, v \in Vlans, <<a, v>> \in Forwarding(Bundles)
  PROVE  Tagged(a, v) \in Sends(a, Forwarding(Bundles), Bundles)
  BY DEF Sends, Tagged

LEMMA ForwardingHas ==
  ASSUME NEW a, NEW v \in Vlans, a \in Carrying(v, Bundles),
         Forwards(a, Carrying(v, Bundles), VlanEdges(v), Distances(v), Bundles)
  PROVE  <<a, v>> \in Forwarding(Bundles)
<1> DEFINE At(w) == {<<p, w>> : p \in {p \in Carrying(w, Bundles) :
                       Forwards(p, Carrying(w, Bundles), VlanEdges(w), Distances(w), Bundles)}}
<1>1. <<a, v>> \in At(v)
  OBVIOUS
<1>2. Forwarding(Bundles) = UNION {At(w) : w \in Vlans}
  BY DEF Forwarding, VlanEdges, Distances
<1> HIDE DEF At
<1> QED BY <1>1, <1>2

\* A cable that forwards at both ends joins the two switches.
LEMMA JoinsJoin ==
  ASSUME TypeOK, Alike(Bundles), NEW a, NEW b, NEW v, Joins(a, b, v)
  PROVE  \/ <<<<a, v>>, <<b, v>>>> \in CableJoins(Forwarding(Bundles), Bundles)
         \/ <<<<b, v>>, <<a, v>>>> \in CableJoins(Forwarding(Bundles), Bundles)
<1> DEFINE B == Bundles
           F == Forwarding(B)
           m == Front(a, B)
<1>1. /\ a \in Carrying(v, B) /\ b \in Carrying(v, B) /\ v \in Vlans
      /\ DtpPeer(a, B) = b /\ DtpPeer(b, B) = a
  BY JoinsAre DEF Joins
<1>2. /\ a \in Interfaces \ B /\ LineUp(a, B) /\ b \in Interfaces \ B /\ LineUp(b, B)
      /\ ~Gov(a).routed /\ ~Gov(b).routed
  BY <1>1, CarryingIs
<1>3. m \in Ports /\ Logical(m, B) = a
  BY <1>2, FrontIs
<1>4. Peer[m] \in Ports /\ Logical(Peer[m], B) = b
  BY <1>1, <1>2, DtpPeerIs
<1> HIDE DEF m, F
<1>5. Peer[Peer[m]] = m
  BY <1>3, <1>4, PeerAssumption
<1>6. <<a, v>> \in F /\ <<b, v>> \in F
  BY <1>1, ForwardingHas DEF Joins, F
<1>7. Tagged(a, v) = Tagged(b, v)
  <2>1. <<a, b>> \in LiveCables(B)
    BY <1>1, <1>2, LiveBetween
  <2>2. /\ Trunking(a, B) = Trunking(b, B)
        /\ IF Trunking(a, B) THEN Gov(a).native = Gov(b).native ELSE Gov(a).vlan = Gov(b).vlan
    BY <2>1, AlikeIs
  <2> QED BY <2>2 DEF Tagged
<1>8. Tagged(a, v) \in Sends(a, F, B) /\ Tagged(a, v) \in Sends(b, F, B) /\ Tagged(a, v)[1] = v
  <2>1. Tagged(a, v) \in Sends(a, F, B) /\ Tagged(b, v) \in Sends(b, F, B)
    BY <1>1, <1>6, SendsIs DEF F
  <2>2. Tagged(a, v)[1] = v
    BY DEF Tagged
  <2> QED BY <1>7, <2>1, <2>2
<1>9. ASSUME NEW p, NEW q, Tagged(a, v) \in Sends(p, F, B), Tagged(a, v) \in Sends(q, F, B),
             NEW n \in Named, Peer[n] \in Ports, p = Logical(n, B), q = Logical(Peer[n], B)
      PROVE  <<<<p, v>>, <<q, v>>>> \in CableJoins(F, B)
  <2>1. v \in ReceivedIn(q, Tagged(a, v)[2], F, B)
    <3>1. Tagged(a, v) \in {x \in Sends(q, F, B) :
                              Tagged(a, v)[2] = x[2] \/ (Tagged(a, v)[2] = x[1] /\ x[2] = NoTag)}
      BY <1>9
    <3> QED BY <1>8, <3>1 DEF ReceivedIn
  <2> DEFINE Over(x) == {<<<<p, x[1]>>, <<q, w>>>> : w \in ReceivedIn(q, x[2], F, B)}
             Of(k) == UNION {{<<<<Logical(k, B), x[1]>>, <<Logical(Peer[k], B), w>>>> :
                                w \in ReceivedIn(Logical(Peer[k], B), x[2], F, B)} : x \in Sends(Logical(k, B), F, B)}
  <2>2. <<<<p, v>>, <<q, v>>>> \in Over(Tagged(a, v))
    BY <1>8, <2>1
  <2>3. <<<<p, v>>, <<q, v>>>> \in UNION {Over(x) : x \in Sends(p, F, B)}
    <3> HIDE DEF Over
    <3> QED BY <1>9, <2>2
  <2>4. <<<<p, v>>, <<q, v>>>> \in Of(n)
    BY <1>9, <2>3
  <2>5. CableJoins(F, B) = UNION {Of(k) : k \in {k \in Named : Peer[k] \in Ports}}
    BY DEF CableJoins
  <2> HIDE DEF Of
  <2> QED BY <1>9, <2>4, <2>5
<1>10. m \in Named \/ Peer[m] \in Named
  BY <1>3, <1>4, PeerAssumption
<1>11. CASE m \in Named
  BY <1>3, <1>4, <1>8, <1>9, <1>11 DEF F
<1>12. CASE Peer[m] \in Named
  BY <1>3, <1>4, <1>5, <1>8, <1>9, <1>12 DEF F
<1> QED BY <1>10, <1>11, <1>12

TheGraph == Graph(Forwarding(Bundles), Bundles)

\* p takes what the endpoint x of its device sends into w.
Leaf(p, x, w) ==
  /\ p \in Ports /\ Peer[p] \in Devices /\ x \in Attached[Peer[p]]
  /\ w \in ReceivedIn(p, x[2], Forwarding(Bundles), Bundles)

\* A frame with one tag is received in one VLAN.
LEMMA ReceivedOnce ==
  ASSUME NEW p, NEW tag, NEW w \in ReceivedIn(p, tag, Forwarding(Bundles), Bundles)
  PROVE  /\ w \in Vlans /\ tag \in {NoTag, w}
         /\ \A u \in ReceivedIn(p, tag, Forwarding(Bundles), Bundles) : u = w
<1> DEFINE B == Bundles
           F == Forwarding(B)
<1>1. ASSUME NEW u \in ReceivedIn(p, tag, F, B)
      PROVE  /\ u \in Vlans
             /\ IF tag # NoTag THEN u = tag
                ELSE u = IF Trunking(p, B) THEN Gov(p).native ELSE Gov(p).vlan
  <2>1. PICK y \in Sends(p, F, B) : u = y[1] /\ (tag = y[2] \/ (tag = y[1] /\ y[2] = NoTag))
    BY DEF ReceivedIn
  <2>2. PICK v \in Vlans : <<p, v>> \in F /\ y = Tagged(p, v)
    BY DEF Sends, Tagged
  <2>3. p \in Carrying(v, B)
    BY <2>2, ForwardingIs
  <2>4. ~Trunking(p, B) => v = Gov(p).vlan
    BY <2>3, CarryingIs
  <2>5. v # NoTag
    BY PortsAssumption
  <2>6. y[1] = v /\ y[2] = IF Trunking(p, B) /\ v # Gov(p).native THEN v ELSE NoTag
    BY <2>2 DEF Tagged
  <2> QED BY <2>1, <2>4, <2>5, <2>6
<1> HIDE DEF F, B
<1>2. w \in ReceivedIn(p, tag, F, B)
  BY DEF F, B
<1>3. w \in Vlans /\ tag \in {NoTag, w} /\ \A u \in ReceivedIn(p, tag, F, B) : u = w
  BY <1>1, <1>2
<1> QED BY <1>3 DEF F, B

LEMMA LeafIs ==
  ASSUME TypeOK, NEW p, NEW x, NEW w, Leaf(p, x, w)
  PROVE  /\ p[1] \in Switches /\ w \in Vlans /\ x \in Endpoints /\ x[2] \in {NoTag, w}
         /\ Logical(p, Bundles) = p
         /\ \A q, u : Leaf(q, x, u) => q = p /\ u = w
<1>1. p \in Ports /\ Peer[p] \in Devices /\ x \in Attached[Peer[p]]
  BY DEF Leaf
<1>2. p[1] \in Switches
  BY <1>1, Numbers
<1>3. w \in Vlans /\ x[2] \in {NoTag, w}
  BY ReceivedOnce DEF Leaf
<1>4. x \in Endpoints
  BY <1>1 DEF Endpoints
<1>5. Logical(p, Bundles) = p
  <2>1. Peer[p] \notin Ports
    BY <1>1, PortsAssumption DEF Interfaces
  <2>2. p \notin Bundles
    BY <2>1, BundlesAre
  <2> QED BY <2>2 DEF Logical
<1>6. ASSUME NEW q, NEW u, Leaf(q, x, u) PROVE q = p /\ u = w
  <2>1. q \in Ports /\ Peer[q] \in Devices /\ x \in Attached[Peer[q]]
    BY <1>6 DEF Leaf
  <2>2. Peer[q] = Peer[p]
    BY <1>1, <2>1, DevicesAssumption
  <2>3. q = p
    BY <1>1, <2>1, <2>2, DevicesAssumption
  <2> QED BY <1>6, <2>3, ReceivedOnce DEF Leaf
<1> QED BY <1>2, <1>3, <1>4, <1>5, <1>6

LEMMA DeviceJoinIs ==
  ASSUME TypeOK, NEW j \in DeviceJoins(Forwarding(Bundles), Bundles)
  PROVE  \E p, x, w : Leaf(p, x, w) /\ j = <<<<p, w>>, x>>
<1> DEFINE B == Bundles
           F == Forwarding(B)
<1>1. PICK p \in Ports : /\ Peer[p] \in Devices
                         /\ \E x \in Attached[Peer[p]] :
                              \E w \in ReceivedIn(Logical(p, B), x[2], F, B) : j = <<<<Logical(p, B), w>>, x>>
  BY DEF DeviceJoins
<1>2. Logical(p, B) = p
  <2>1. Peer[p] \notin Ports
    BY <1>1, PortsAssumption DEF Interfaces
  <2>2. p \notin Bundles
    BY <2>1, BundlesAre
  <2> QED BY <2>2 DEF Logical
<1>3. PICK x \in Attached[Peer[p]] : \E w \in ReceivedIn(p, x[2], F, B) : j = <<<<p, w>>, x>>
  BY <1>1, <1>2
<1> HIDE DEF F, B
<1>4. PICK w \in ReceivedIn(p, x[2], F, B) : j = <<<<p, w>>, x>>
  BY <1>3
<1>5. Leaf(p, x, w)
  BY <1>1, <1>3, <1>4 DEF Leaf, F, B
<1> QED BY <1>4, <1>5

\* What the graph has: switches joined in a VLAN, and endpoints at their only port.
LEMMA GraphIs ==
  ASSUME TypeOK, Alike(Bundles), NEW g \in TheGraph
  PROVE  \/ \E a, b, v : Joins(a, b, v) /\ g = <<<<a[1], v>>, <<b[1], v>>>>
         \/ \E p, x, w : Leaf(p, x, w) /\ g \in {<<<<p[1], w>>, x>>, <<x, <<p[1], w>>>>}
<1> DEFINE B == Bundles
           F == Forwarding(B)
           Cabled == {<<<<j[1][1][1], j[1][2]>>, <<j[2][1][1], j[2][2]>>>> : j \in CableJoins(F, B)}
           Connected == {<<<<j[1][1][1], j[1][2]>>, j[2]>> : j \in DeviceJoins(F, B)}
<1>1. TheGraph = Cabled \cup Connected \cup {<<f[2], f[1]>> : f \in Cabled \cup Connected}
  BY DEF TheGraph, Graph
<1>2. ASSUME NEW f \in Cabled
      PROVE  \E a, b, v : Joins(a, b, v) /\ f = <<<<a[1], v>>, <<b[1], v>>>>
  <2>1. PICK j \in CableJoins(F, B) : f = <<<<j[1][1][1], j[1][2]>>, <<j[2][1][1], j[2][2]>>>>
    BY <1>2
  <2>2. PICK a, b, v : j = <<<<a, v>>, <<b, v>>>> /\ Joins(a, b, v)
    BY JoinIs
  <2>3. j[1] = <<a, v>> /\ j[2] = <<b, v>>
    BY <2>2
  <2>4. f = <<<<a[1], v>>, <<b[1], v>>>>
    BY <2>1, <2>3
  <2> QED BY <2>2, <2>4
<1>3. ASSUME NEW f \in Connected
      PROVE  \E p, x, w : Leaf(p, x, w) /\ f = <<<<p[1], w>>, x>>
  <2>1. PICK j \in DeviceJoins(F, B) : f = <<<<j[1][1][1], j[1][2]>>, j[2]>>
    BY <1>3
  <2>2. PICK p, x, w : Leaf(p, x, w) /\ j = <<<<p, w>>, x>>
    BY DeviceJoinIs
  <2>3. j[1] = <<p, w>> /\ j[2] = x
    BY <2>2
  <2>4. f = <<<<p[1], w>>, x>>
    BY <2>1, <2>3
  <2> QED BY <2>2, <2>4
<1> HIDE DEF Cabled, Connected
<1>4. PICK f \in Cabled \cup Connected : g = f \/ g = <<f[2], f[1]>>
  BY <1>1
<1>5. CASE f \in Cabled
  <2>1. PICK a, b, v : Joins(a, b, v) /\ f = <<<<a[1], v>>, <<b[1], v>>>>
    BY <1>2, <1>5
  <2>2. <<f[2], f[1]>> = <<<<b[1], v>>, <<a[1], v>>>> /\ Joins(b, a, v)
    BY <2>1, JoinsAre
  <2> QED BY <1>4, <2>1, <2>2
<1>6. CASE f \in Connected
  <2>1. PICK p, x, w : Leaf(p, x, w) /\ f = <<<<p[1], w>>, x>>
    BY <1>3, <1>6
  <2>2. <<f[2], f[1]>> = <<x, <<p[1], w>>>>
    BY <2>1
  <2> QED BY <1>4, <2>1, <2>2
<1> QED BY <1>4, <1>5, <1>6

LEMMA GraphHas ==
  ASSUME TypeOK, Alike(Bundles), NEW a, NEW b, NEW v, Joins(a, b, v)
  PROVE  <<<<a[1], v>>, <<b[1], v>>>> \in TheGraph
<1> DEFINE F == Forwarding(Bundles)
           Cabled == {<<<<j[1][1][1], j[1][2]>>, <<j[2][1][1], j[2][2]>>>> : j \in CableJoins(F, Bundles)}
<1>1. Cabled \subseteq TheGraph /\ \A f \in Cabled : <<f[2], f[1]>> \in TheGraph
  BY DEF TheGraph, Graph
<1>2. ASSUME NEW p, NEW q, <<<<p, v>>, <<q, v>>>> \in CableJoins(F, Bundles)
      PROVE  <<<<p[1], v>>, <<q[1], v>>>> \in Cabled
  <2> DEFINE j == <<<<p, v>>, <<q, v>>>>
  <2>1. j[1][1][1] = p[1] /\ j[1][2] = v /\ j[2][1][1] = q[1] /\ j[2][2] = v
    OBVIOUS
  <2>2. j \in CableJoins(F, Bundles)
    BY <1>2
  <2> HIDE DEF j
  <2> QED BY <2>1, <2>2
<1> HIDE DEF Cabled, F
<1>3. CASE <<<<a, v>>, <<b, v>>>> \in CableJoins(F, Bundles)
  BY <1>1, <1>2, <1>3
<1>4. CASE <<<<b, v>>, <<a, v>>>> \in CableJoins(F, Bundles)
  <2>1. <<<<b[1], v>>, <<a[1], v>>>> \in Cabled
    BY <1>2, <1>4
  <2>2. <<<<b[1], v>>, <<a[1], v>>>>[1] = <<b[1], v>> /\ <<<<b[1], v>>, <<a[1], v>>>>[2] = <<a[1], v>>
    OBVIOUS
  <2> QED BY <1>1, <2>1, <2>2
<1> QED BY <1>3, <1>4, JoinsJoin DEF F

LEMMA GraphFinite ==
  ASSUME TypeOK, Alike(Bundles)
  PROVE  IsFiniteSet(TheGraph) /\ \A g \in TheGraph : <<g[2], g[1]>> \in TheGraph
<1> DEFINE All == (Switches \X Vlans) \cup Endpoints
<1>1. TheGraph \subseteq All \X All
  <2> SUFFICES ASSUME NEW g \in TheGraph PROVE g \in All \X All
    OBVIOUS
  <2>1. CASE \E a, b, v : Joins(a, b, v) /\ g = <<<<a[1], v>>, <<b[1], v>>>>
    <3>1. PICK a, b, v : Joins(a, b, v) /\ g = <<<<a[1], v>>, <<b[1], v>>>>
      BY <2>1
    <3>2. a[1] \in Switches /\ b[1] \in Switches /\ v \in Vlans
      BY <3>1, JoinsAre DEF Joins
    <3> QED BY <3>1, <3>2
  <2>2. CASE \E p, x, w : Leaf(p, x, w) /\ g \in {<<<<p[1], w>>, x>>, <<x, <<p[1], w>>>>}
    <3>1. PICK p, x, w : Leaf(p, x, w) /\ g \in {<<<<p[1], w>>, x>>, <<x, <<p[1], w>>>>}
      BY <2>2
    <3>2. p[1] \in Switches /\ w \in Vlans /\ x \in Endpoints
      BY <3>1, LeafIs
    <3>3. <<p[1], w>> \in All /\ x \in All
      BY <3>2
    <3> HIDE DEF All
    <3> QED BY <3>1, <3>3
  <2> QED BY <2>1, <2>2, GraphIs
<1>2. IsFiniteSet(All \X All)
  BY FiniteAssumption, DevicesAssumption, FS_Product, FS_Union
<1>3. IsFiniteSet(TheGraph)
  <2> HIDE DEF All
  <2> QED BY <1>1, <1>2, FS_Subset
<1>4. \A g \in TheGraph : <<g[2], g[1]>> \in TheGraph
  <2> DEFINE F == Forwarding(Bundles)
             Forth == {<<<<j[1][1][1], j[1][2]>>, <<j[2][1][1], j[2][2]>>>> : j \in CableJoins(F, Bundles)}
                        \cup {<<<<j[1][1][1], j[1][2]>>, j[2]>> : j \in DeviceJoins(F, Bundles)}
  <2>1. TheGraph = Forth \cup {<<f[2], f[1]>> : f \in Forth}
    BY DEF TheGraph, Graph
  <2>2. \A f \in Forth : f = <<f[1], f[2]>>
    OBVIOUS
  <2> HIDE DEF Forth
  <2>3. ASSUME NEW f \in Forth PROVE <<<<f[2], f[1]>>[2], <<f[2], f[1]>>[1]>> = f
    BY <2>2
  <2> QED BY <2>1, <2>2, <2>3
<1> QED BY <1>3, <1>4

PassingPairs(v) == {<<c[1][1], c[2][1]>> : c \in Passing(v, Bundles)}

LEMMA PassingIs ==
  ASSUME TypeOK, Alike(Bundles), NEW v, NEW c \in Passing(v, Bundles)
  PROVE  c = <<c[1], c[2]>> /\ <<c[1], c[2]>> \in VlanEdges(v)
<1> DEFINE B == Bundles
           p == c[1]
           q == c[2]
<1>1. /\ c \in LiveCables(B)
      /\ v \in vlans[p[1]] /\ IF Trunking(p, B) THEN v \in Gov(p).allowed ELSE v = Gov(p).vlan
      /\ v \in vlans[q[1]] /\ IF Trunking(q, B) THEN v \in Gov(q).allowed ELSE v = Gov(q).vlan
  BY DEF Passing
<1>2. PICK x \in Ports : Peer[x] \in Ports /\ c = <<Logical(x, B), Logical(Peer[x], B)>>
  BY <1>1 DEF LiveCables
<1>3. c = <<p, q>> /\ p \in Interfaces \ B /\ q \in Interfaces \ B
  BY <1>2, LogicalIs
<1>4. LineUp(p, B) /\ LineUp(q, B) /\ ~Gov(p).routed /\ ~Gov(q).routed
  BY <1>1 DEF LiveCables
<1> HIDE DEF p, q
<1>5. p \in Carrying(v, B) /\ q \in Carrying(v, B)
  BY <1>1, <1>3, <1>4 DEF Carrying, Carries
<1>6. DtpPeer(p, B) = q
  <2>1. <<p, q>> \in LiveCables(B)
    BY <1>1, <1>3
  <2> QED BY <2>1, AlikeIs
<1>7. <<p, q>> \in VlanEdges(v)
  BY <1>5, <1>6, EdgeFrom DEF VlanEdges
<1> QED BY <1>3, <1>7 DEF p, q

LEMMA JoinsPass ==
  ASSUME TypeOK, Alike(Bundles), NEW a, NEW b, NEW v, Joins(a, b, v)
  PROVE  <<a[1], b[1]>> \in PassingPairs(v)
<1> DEFINE B == Bundles
<1>1. /\ a \in Carrying(v, B) /\ b \in Carrying(v, B) /\ DtpPeer(a, B) = b
  BY JoinsAre
<1>2. /\ a \in Interfaces \ B /\ LineUp(a, B) /\ b \in Interfaces \ B /\ LineUp(b, B)
      /\ ~Gov(a).routed /\ ~Gov(b).routed /\ v \in vlans[a[1]] /\ v \in vlans[b[1]]
      /\ IF Trunking(a, B) THEN v \in Gov(a).allowed ELSE v = Gov(a).vlan
      /\ IF Trunking(b, B) THEN v \in Gov(b).allowed ELSE v = Gov(b).vlan
  BY <1>1, CarryingIs
<1>3. <<a, b>> \in LiveCables(B)
  BY <1>1, <1>2, LiveBetween
<1>4. <<a, b>>[1] = a /\ <<a, b>>[2] = b
  OBVIOUS
<1>5. <<a, b>> \in Passing(v, B)
  BY <1>2, <1>3, <1>4 DEF Passing
<1> QED BY <1>4, <1>5 DEF PassingPairs

LEMMA PassingFinite ==
  ASSUME TypeOK, Alike(Bundles), NEW v
  PROVE  IsFiniteSet(PassingPairs(v)) /\ PassingPairs(v) \subseteq SwitchPairs(VlanEdges(v))
<1>1. PassingPairs(v) \subseteq SwitchPairs(VlanEdges(v))
  <2> SUFFICES ASSUME NEW c \in Passing(v, Bundles)
               PROVE  <<c[1][1], c[2][1]>> \in SwitchPairs(VlanEdges(v))
    BY DEF PassingPairs
  <2>1. c = <<c[1], c[2]>> /\ <<c[1], c[2]>> \in VlanEdges(v)
    BY PassingIs
  <2>2. c \in VlanEdges(v)
    BY <2>1
  <2> QED BY <2>2 DEF SwitchPairs
<1>2. IsFiniteSet(SwitchPairs(VlanEdges(v)))
  BY VlanCabling, PairsFinite
<1> QED BY <1>1, <1>2, FS_Subset

\* A segment does not leave its VLAN, nor the switches that cables of the VLAN connect.
LEMMA SegmentWithin ==
  ASSUME TypeOK, Alike(Bundles), NEW s \in Switches, NEW v,
         NEW t \in Reach({<<s, v>>}, TheGraph)
  PROVE  \/ \E r \in Reach({s}, PassingPairs(v)) : t = <<r, v>>
         \/ t \in Endpoints /\ \E p : Leaf(p, t, v)
<1> DEFINE G == TheGraph
           Q == Reach({s}, PassingPairs(v))
           Far == {x \in Endpoints : \E p : p[1] \in Q /\ Leaf(p, x, v)}
           Z == {<<r, v>> : r \in Q} \cup Far
<1>1. s \in Q /\ Closed(Q, PassingPairs(v)) /\ Q \subseteq Switches
  <2>1. s \in Q /\ Closed(Q, PassingPairs(v))
    BY PassingFinite, ReachClosed
  <2>2. Closed(Switches, PassingPairs(v))
    <3>1. SwitchPairs(VlanEdges(v)) \subseteq Switches \X Switches
      BY VlanCabling, PairsFinite
    <3> QED BY <3>1, PassingFinite DEF Closed
  <2> QED BY <2>1, <2>2, PassingFinite, ReachLeast
<1> HIDE DEF Q
<1>2. \A x \in Endpoints : x \notin Switches \X Vlans /\ \A w : \A r \in Switches : x # <<r, w>>
  <2>1. \A x \in Endpoints : x[1] \notin Switches
    BY DevicesAssumption
  <2> QED BY <2>1
<1>3. ASSUME NEW r, NEW w, <<r, w>> \in Z, r \in Switches PROVE r \in Q /\ w = v
  BY <1>2, <1>3
<1>4. ASSUME NEW x \in Endpoints, x \in Z PROVE x \in Far
  <2>1. \A r \in Q : x # <<r, v>>
    BY <1>1, <1>2
  <2> QED BY <1>4, <2>1
<1>5. ASSUME NEW g \in G, g[1] \in Z PROVE g[2] \in Z
  <2>1. CASE \E a, b, w : Joins(a, b, w) /\ g = <<<<a[1], w>>, <<b[1], w>>>>
    <3>1. PICK a, b, w : Joins(a, b, w) /\ g = <<<<a[1], w>>, <<b[1], w>>>>
      BY <2>1
    <3>2. g[1] = <<a[1], w>> /\ g[2] = <<b[1], w>> /\ a[1] \in Switches
      BY <3>1, JoinsAre
    <3> HIDE DEF Z
    <3>3. a[1] \in Q /\ w = v
      BY <1>3, <1>5, <3>2
    <3>4. <<a[1], b[1]>> \in PassingPairs(v) /\ <<a[1], b[1]>>[1] = a[1] /\ <<a[1], b[1]>>[2] = b[1]
      BY <3>1, <3>3, JoinsPass
    <3>5. b[1] \in Q
      BY <1>1, <3>3, <3>4 DEF Closed
    <3> QED BY <3>2, <3>3, <3>5 DEF Z
  <2>2. CASE \E p, x, w : Leaf(p, x, w) /\ g \in {<<<<p[1], w>>, x>>, <<x, <<p[1], w>>>>}
    <3>1. PICK p, x, w : Leaf(p, x, w) /\ g \in {<<<<p[1], w>>, x>>, <<x, <<p[1], w>>>>}
      BY <2>2
    <3>2. p[1] \in Switches /\ x \in Endpoints /\ \A q, u : Leaf(q, x, u) => q = p /\ u = w
      BY <3>1, LeafIs
    <3> HIDE DEF Z
    <3>3. CASE g = <<<<p[1], w>>, x>>
      <4>1. g[1] = <<p[1], w>> /\ g[2] = x
        BY <3>3
      <4>2. p[1] \in Q /\ w = v
        BY <1>3, <1>5, <3>2, <4>1
      <4>3. x \in Far
        BY <3>1, <3>2, <4>2
      <4> QED BY <4>1, <4>3 DEF Z
    <3>4. CASE g = <<x, <<p[1], w>>>>
      <4>1. g[1] = x /\ g[2] = <<p[1], w>>
        BY <3>4
      <4>2. x \in Far
        BY <1>4, <1>5, <3>2, <4>1
      <4>3. PICK q : q[1] \in Q /\ Leaf(q, x, v)
        BY <4>2
      <4>4. q = p /\ v = w
        BY <3>2, <4>3
      <4> QED BY <4>1, <4>3, <4>4 DEF Z
    <3> QED BY <3>1, <3>3, <3>4
  <2> QED BY <2>1, <2>2, GraphIs
<1>6. Reach({<<s, v>>}, G) \subseteq Z
  <2>1. {<<s, v>>} \subseteq Z
    BY <1>1
  <2>2. Closed(Z, G)
    <3> HIDE DEF Z, G
    <3> QED BY <1>5 DEF Closed
  <2> HIDE DEF Z
  <2> QED BY <2>1, <2>2, GraphFinite, ReachLeast
<1> QED BY <1>6 DEF Q

\* Every switch is in a segment with the root of what it is connected to.
LEMMA RootJoined ==
  ASSUME TypeOK, Alike(Bundles), NEW v \in Vlans, NEW u \in Switches
  PROVE  \E r \in Roots(VlanEdges(v)) : /\ u \in Reach({r}, SwitchPairs(VlanEdges(v)))
                                        /\ <<u, v>> \in Reach({<<r, v>>}, TheGraph)
<1> DEFINE E == VlanEdges(v)
           R == SwitchPairs(E)
           G == TheGraph
           d == Distances(v)
           Good(w) == \E r \in Roots(E) : w \in Reach({r}, R) /\ <<w, v>> \in Reach({<<r, v>>}, G)
           Bad == {d[w] : w \in {w \in Switches : ~Good(w)}}
<1>1. IsFiniteSet(R) /\ IsFiniteSet(G)
  BY VlanCabling, PairsFinite, GraphFinite
<1>2. \A S, T : S \subseteq Reach(S, R) /\ Closed(Reach(S, R), R) /\ T \subseteq Reach(T, G) /\ Closed(Reach(T, G), G)
  <2> HIDE DEF R, G
  <2> QED BY <1>1, ReachClosed
<1>3. \A w \in Switches : d[w] \in Nat
  BY NearerIs
<1> HIDE DEF E, R, G, d
<1> SUFFICES ASSUME Bad # {} PROVE FALSE
  <2> HIDE DEF Good
  <2>1. Good(u)
    OBVIOUS
  <2> QED BY <2>1 DEF Good, E, R, G
<1>4. PICK k \in Bad : \A j \in Bad : k <= j
  <2>1. Bad \subseteq Nat
    BY <1>3
  <2> HIDE DEF Bad
  <2> QED BY <2>1, LeastNumber
<1>5. PICK w \in Switches : ~Good(w) /\ k = d[w]
  <2> HIDE DEF Good
  <2> QED OBVIOUS
<1>6. w \notin Roots(E)
  <2> SUFFICES ASSUME w \in Roots(E) PROVE FALSE
    OBVIOUS
  <2>1. w \in Reach({w}, R) /\ <<w, v>> \in Reach({<<w, v>>}, G)
    BY <1>2
  <2> QED BY <1>5, <2>1
<1>7. PICK a, b : Joins(a, b, v) /\ b[1] = w /\ d[a[1]] < d[w]
  BY <1>6, WayToRoot DEF E, d
<1>8. a[1] \in Switches
  BY <1>7, JoinsAre
<1>9. Good(a[1])
  <2> SUFFICES ASSUME ~Good(a[1]) PROVE FALSE
    OBVIOUS
  <2> HIDE DEF Good
  <2>1. d[a[1]] \in Bad
    BY <1>8
  <2> HIDE DEF Bad
  <2>2. k <= d[a[1]] /\ d[a[1]] \in Nat /\ d[w] \in Nat
    BY <1>3, <1>4, <1>8, <2>1
  <2> QED BY <1>5, <1>7, <2>2
<1>10. PICK r \in Roots(E) : a[1] \in Reach({r}, R) /\ <<a[1], v>> \in Reach({<<r, v>>}, G)
  BY <1>9
<1>11. <<a[1], w>> \in R
  <2>1. <<a, b>> \in E /\ <<a, b>>[1] = a /\ <<a, b>>[2] = b
    BY <1>7 DEF Joins, E
  <2> QED BY <1>7, <2>1 DEF R, SwitchPairs
<1>12. <<<<a[1], v>>, <<w, v>>>> \in G
  BY <1>7, GraphHas DEF G
<1>13. w \in Reach({r}, R)
  <2>1. <<a[1], w>>[1] = a[1] /\ <<a[1], w>>[2] = w
    OBVIOUS
  <2> QED BY <1>2, <1>10, <1>11, <2>1 DEF Closed
<1>14. <<w, v>> \in Reach({<<r, v>>}, G)
  <2>1. <<<<a[1], v>>, <<w, v>>>>[1] = <<a[1], v>> /\ <<<<a[1], v>>, <<w, v>>>>[2] = <<w, v>>
    OBVIOUS
  <2> QED BY <1>2, <1>10, <1>12, <2>1 DEF Closed
<1> QED BY <1>5, <1>13, <1>14

\* Cables that a VLAN can pass do not leave a segment of it.
LEMMA SegmentSpans ==
  ASSUME TypeOK, Alike(Bundles), NEW s \in Switches, NEW v \in Vlans,
         NEW r \in Reach({s}, PassingPairs(v))
  PROVE  r \in Switches /\ <<r, v>> \in Reach({<<s, v>>}, TheGraph)
<1> DEFINE R == SwitchPairs(VlanEdges(v))
           G == TheGraph
           X == {u \in Switches : <<u, v>> \in Reach({<<s, v>>}, G)}
<1>1. /\ IsFiniteSet(R) /\ R \subseteq Switches \X Switches /\ \A x \in R : <<x[2], x[1]>> \in R
      /\ IsFiniteSet(G) /\ \A g \in G : <<g[2], g[1]>> \in G
  BY VlanCabling, PairsFinite, GraphFinite
<1>2. PassingPairs(v) \subseteq R /\ IsFiniteSet(PassingPairs(v))
  BY PassingFinite
<1>3. \A u \in Switches : \E q \in Roots(VlanEdges(v)) : u \in Reach({q}, R) /\ <<u, v>> \in Reach({<<q, v>>}, G)
  BY RootJoined
<1>4. \A q \in Roots(VlanEdges(v)) : q = Least(Reach({q}, R))
  BY DEF Roots
<1> HIDE DEF R, G
<1>5. \A x, y : y \in Reach({x}, R) => Reach({x}, R) = Reach({y}, R)
  BY <1>1, ReachTogether
<1>6. \A x, y : y \in Reach({x}, G) => Reach({x}, G) = Reach({y}, G)
  BY <1>1, ReachTogether
<1>7. ASSUME NEW c \in PassingPairs(v), c[1] \in X PROVE c[2] \in X
  <2>1. c \in R /\ c[1] \in Switches /\ c[2] \in Switches
    BY <1>1, <1>2
  <2>2. c[2] \in Reach({c[1]}, R)
    <3>1. c[1] \in Reach({c[1]}, R) /\ Closed(Reach({c[1]}, R), R)
      BY <1>1, ReachClosed
    <3> QED BY <2>1, <3>1 DEF Closed
  <2>3. Reach({c[2]}, R) = Reach({c[1]}, R)
    BY <1>5, <2>2
  <2>4. PICK p \in Roots(VlanEdges(v)) : c[1] \in Reach({p}, R) /\ <<c[1], v>> \in Reach({<<p, v>>}, G)
    BY <1>3, <2>1
  <2>5. PICK q \in Roots(VlanEdges(v)) : c[2] \in Reach({q}, R) /\ <<c[2], v>> \in Reach({<<q, v>>}, G)
    BY <1>3, <2>1
  <2>6. Reach({p}, R) = Reach({c[1]}, R) /\ Reach({q}, R) = Reach({c[2]}, R)
    BY <1>5, <2>4, <2>5
  <2>7. p = q
    BY <1>4, <2>3, <2>6
  <2>8. Reach({<<p, v>>}, G) = Reach({<<c[1], v>>}, G)
    BY <1>6, <2>4
  <2>9. Reach({<<s, v>>}, G) = Reach({<<c[1], v>>}, G)
    BY <1>6, <1>7
  <2> QED BY <2>1, <2>5, <2>7, <2>8, <2>9
<1>8. Reach({s}, PassingPairs(v)) \subseteq X
  <2>1. <<s, v>> \in Reach({<<s, v>>}, G)
    BY <1>1, ReachClosed
  <2>2. {s} \subseteq X
    BY <2>1
  <2>3. Closed(X, PassingPairs(v))
    <3> HIDE DEF X
    <3> QED BY <1>7 DEF Closed
  <2> HIDE DEF X
  <2> QED BY <1>2, <2>2, <2>3, ReachLeast
<1> QED BY <1>8 DEF G

LEMMA SegmentsCorrect == ASSUME TypeOK PROVE SegmentsAreVlans
<1> DEFINE B == Bundles
           S(s, v) == Reach({<<s, v>>}, TheGraph)
<1>1. SegmentsAreVlans =
        (Alike(B) => \A s \in Switches : \A v \in vlans[s] :
           /\ S(s, v) \cap (Switches \X Vlans) = {<<r, v>> : r \in Reach({s}, PassingPairs(v))}
           /\ \A d \in Devices : \A x \in Attached[d] \cap S(s, v) : x[2] \in {NoTag, v})
  BY DEF SegmentsAreVlans, Segment, TheGraph, PassingPairs
<1> HIDE DEF S
<1> SUFFICES ASSUME Alike(B), NEW s \in Switches, NEW v \in vlans[s]
             PROVE  /\ S(s, v) \cap (Switches \X Vlans) = {<<r, v>> : r \in Reach({s}, PassingPairs(v))}
                    /\ \A d \in Devices : \A x \in Attached[d] \cap S(s, v) : x[2] \in {NoTag, v}
  BY <1>1
<1>2. v \in Vlans
  BY DEF TypeOK
<1>3. \A x \in Endpoints : x[1] \notin Switches
  BY DevicesAssumption
<1>4. ASSUME NEW t \in S(s, v), t \in Switches \X Vlans
      PROVE  \E r \in Reach({s}, PassingPairs(v)) : t = <<r, v>>
  <2>1. t \notin Endpoints
    BY <1>3, <1>4
  <2> QED BY <1>4, <2>1, SegmentWithin DEF S
<1>5. ASSUME NEW r \in Reach({s}, PassingPairs(v)) PROVE <<r, v>> \in S(s, v) \cap (Switches \X Vlans)
  BY <1>2, SegmentSpans DEF S
<1>6. ASSUME NEW d \in Devices, NEW x \in Attached[d] \cap S(s, v) PROVE x[2] \in {NoTag, v}
  <2>1. x \in Endpoints
    BY DEF Endpoints
  <2>2. CASE \E r \in Reach({s}, PassingPairs(v)) : x = <<r, v>>
    BY <2>2
  <2>3. CASE \E p : Leaf(p, x, v)
    BY <2>3, LeafIs
  <2> QED BY <2>2, <2>3, SegmentWithin DEF S
<1> QED BY <1>4, <1>5, <1>6

\* Whatever is configured and cabled: where the ends of the cables are configured alike, no
\* cable joins two switch VLANs that the others join, be it from one VLAN to another
\* (_stp_vlan and the ports it leaves forwarding, _build_segments).
THEOREM LoopFreeHolds == Spec => []LoopFree
  BY TypeCorrect, NoLoops, PTL

\* Whatever is configured and cabled: where the ends of the cables are configured alike, a
\* segment is one VLAN on all the switches that its cables connect, and an endpoint in it
\* has the tag of that VLAN or none (_build_segments).
THEOREM SegmentsAreVlansHolds == Spec => []SegmentsAreVlans
  BY TypeCorrect, SegmentsCorrect, PTL

=============================================================================
