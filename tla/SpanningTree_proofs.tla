------------------------- MODULE SpanningTree_proofs -------------------------
(***************************************************************************)
(* Proofs about SpanningTree, for any switches, cables, costs and bridge   *)
(* ids: types, the inductive invariant IInv, one designated end per cable, *)
(* the best offer at every bridge, and that the cables left are a tree.    *)
(***************************************************************************)
EXTENDS SpanningTree, TLAPS, WellFoundedInduction, FunctionTheorems, FiniteSetTheorems

USE PortsAssumption, PeerAssumption

-----------------------------------------------------------------------------
(* Facts about a fabric.                                                   *)

LEMMA FabricTyped ==
  ASSUME NEW f \in Fabrics
  PROVE  /\ f.bridges \subseteq Bridges /\ f.carries \subseteq Ports
         /\ f.cost \in [Ports -> Nat \ {0}] /\ f.id \in [Bridges -> Nat]
         /\ \A p \in f.carries : p[1] \in f.bridges
         /\ \A a, b \in Bridges : f.id[a] = f.id[b] => a = b
  BY FabricsAssumption DEF FabricType

LEMMA PortTyped ==
  ASSUME NEW p \in Ports PROVE p[1] \in Bridges /\ p[2] \in Nat /\ p = <<p[1], p[2]>>
  OBVIOUS

LEMMA Cables ==
  ASSUME fabric \in Fabrics, NEW p \in Internal
  PROVE  /\ p \in Ports /\ p \in fabric.carries /\ p[1] \in fabric.bridges
         /\ Peer[p] \in Internal /\ Peer[Peer[p]] = p
         /\ Neighbour(p) \in fabric.bridges /\ Neighbour(p) # p[1]
         /\ Neighbour(Peer[p]) = p[1]
<1>1. p \in Ports /\ p \in fabric.carries /\ Peer[p] \in fabric.carries /\ Peer[p] \in Ports
  BY FabricTyped DEF Internal
<1>2. Peer[Peer[p]] = p /\ Peer[p][1] # p[1]
  BY <1>1
<1> QED BY <1>1, <1>2, FabricTyped DEF Internal, Neighbour

\* A nonempty set of bridges has a root, and no bridge of the set is before it.
LEMMA RootExists ==
  ASSUME fabric \in Fabrics, NEW C, C \subseteq fabric.bridges, C # {}
  PROVE  Root(C) \in C /\ \A b \in C : fabric.id[Root(C)] <= fabric.id[b]
<1> DEFINE T == {fabric.id[b] : b \in C}
<1>1. T \subseteq Nat /\ T # {}
  BY FabricTyped
<1>2. PICK x \in T : \A y \in T : ~ (<<y, x>> \in OpToRel(<, Nat))
  <2> HIDE DEF T
  <2> QED BY <1>1, WFMin, NatLessThanWellFounded
<1>3. \A y \in T : x <= y
  <2> SUFFICES ASSUME NEW y \in T PROVE x <= y
    OBVIOUS
  <2> HIDE DEF T
  <2>1. ~ (y < x)
    BY <1>1, <1>2 DEF OpToRel
  <2>2. x \in Nat /\ y \in Nat
    BY <1>1
  <2> QED BY <2>1, <2>2
<1>4. \E r \in C : \A b \in C : fabric.id[r] <= fabric.id[b]
  BY <1>3
<1> QED BY <1>4 DEF Root

\* Offers are totally ordered.
LEMMA BeforeOrder ==
  ASSUME NEW o \in OfferType, NEW q \in OfferType
  PROVE  /\ ~Before(o, o)
         /\ o = q \/ Before(o, q) \/ Before(q, o)
         /\ ~(Before(o, q) /\ Before(q, o))
         /\ \A r \in OfferType : ~Before(o, q) /\ Before(r, q) => ~Before(o, r)
         /\ o.cost < q.cost => Before(o, q)
<1>1. /\ o.cost \in Nat /\ o.id \in Nat /\ o.from \in Nat /\ o.to \in Nat
      /\ q.cost \in Nat /\ q.id \in Nat /\ q.from \in Nat /\ q.to \in Nat
      /\ o = [cost |-> o.cost, id |-> o.id, from |-> o.from, to |-> o.to]
      /\ q = [cost |-> q.cost, id |-> q.id, from |-> q.from, to |-> q.to]
  BY DEF OfferType
<1>2. o.cost = q.cost /\ o.id = q.id /\ o.from = q.from /\ o.to = q.to => o = q
  BY <1>1
<1>3. ASSUME NEW r \in OfferType, ~Before(o, q), Before(r, q) PROVE ~Before(o, r)
  <2>1. r.cost \in Nat /\ r.id \in Nat /\ r.from \in Nat /\ r.to \in Nat
    BY DEF OfferType
  <2> QED BY <1>1, <1>3, <2>1 DEF Before
<1> QED BY <1>1, <1>2, <1>3 DEF Before

\* The definitions that depend on the fabric only.
LEMMA SameFabric ==
  ASSUME fabric' = fabric
  PROVE  /\ Internal' = Internal
         /\ \A b : InternalPorts(b)' = InternalPorts(b)
         /\ \A C : Root(C)' = Root(C)
         /\ \A S : Closed(S)' <=> Closed(S)
  BY DEF Internal, InternalPorts, Root, Closed, Neighbour

\* A bridge that has an offer makes offers that cost more.
LEMMA OfferTyped ==
  ASSUME TypeOK, NEW p \in Internal, best[p[1]] # NoOffer
  PROVE  /\ OfferFrom(p) \in OfferType /\ OfferFrom(p) # NoOffer
         /\ best[p[1]].cost \in Nat
         /\ best[p[1]].cost < OfferFrom(p).cost
<1>1. /\ p \in Ports /\ Peer[p] \in Ports /\ p[1] \in Bridges /\ p[2] \in Nat /\ Peer[p][2] \in Nat
  BY Cables, PortTyped DEF TypeOK
<1>2. best[p[1]] \in OfferType
  BY <1>1 DEF TypeOK
<1>3. best[p[1]].cost \in Nat
  BY <1>2 DEF OfferType
<1>4. fabric.cost[Peer[p]] \in Nat \ {0} /\ fabric.id[p[1]] \in Nat
  BY <1>1, FabricTyped DEF TypeOK
<1> QED BY <1>1, <1>3, <1>4 DEF OfferFrom, OfferType, NoOffer

-----------------------------------------------------------------------------
(* Initial states.                                                         *)

LEMMA ClosedComplement ==
  ASSUME fabric \in Fabrics, NEW S \in SUBSET fabric.bridges, Closed(S)
  PROVE  Closed(fabric.bridges \ S)
<1> SUFFICES ASSUME NEW p \in Internal, p[1] \in fabric.bridges \ S
             PROVE  Neighbour(p) \in fabric.bridges \ S
  BY DEF Closed
<1>1. Peer[p] \in Internal /\ Neighbour(Peer[p]) = p[1] /\ Neighbour(p) \in fabric.bridges
  BY Cables
<1>2. Peer[p][1] \notin S
  BY <1>1 DEF Closed
<1> QED BY <1>1, <1>2 DEF Neighbour

LEMMA ComponentFacts ==
  ASSUME fabric \in Fabrics, NEW b \in fabric.bridges
  PROVE  /\ b \in Component(b) /\ Component(b) \subseteq fabric.bridges
         /\ Closed(Component(b))
         /\ \A S \in SUBSET fabric.bridges :
              Closed(S) /\ S \cap Component(b) # {} => Component(b) \subseteq S
<1>1. b \in Component(b) /\ Component(b) \subseteq fabric.bridges
  BY DEF Component
<1>2. \A S \in SUBSET fabric.bridges : b \in S /\ Closed(S) => Component(b) \subseteq S
  BY DEF Component
<1>3. Closed(Component(b))
  <2> SUFFICES ASSUME NEW p \in Internal, p[1] \in Component(b),
                      NEW S \in SUBSET fabric.bridges, b \in S, Closed(S)
               PROVE  Neighbour(p) \in S
    BY Cables DEF Closed, Component
  <2> QED BY <1>2 DEF Closed
<1>4. ASSUME NEW S \in SUBSET fabric.bridges, Closed(S), S \cap Component(b) # {}
      PROVE  Component(b) \subseteq S
  <2>1. CASE b \in S
    BY <1>2, <1>4, <2>1
  <2>2. CASE b \notin S
    <3>1. Component(b) \subseteq fabric.bridges \ S
      BY <1>2, <1>4, <2>2, ClosedComplement
    <3> QED BY <1>4, <3>1
  <2> QED BY <2>1, <2>2
<1> QED BY <1>1, <1>3, <1>4

LEMMA InductiveInit == Init => IInv
<1> SUFFICES ASSUME Init PROVE IInv
  OBVIOUS
<1>1. TypeOK
  BY ComponentFacts DEF Init, TypeOK, Internal
<1>2. ComponentsKnown
  BY ComponentFacts DEF Init, ComponentsKnown
<1>3. OffersKnown
  BY FabricTyped DEF Init, OffersKnown, Started, NoOffer
<1>4. HeapKnown /\ PoppedInOrder /\ Relaxed /\ DoneKnown
  BY DEF Init, HeapKnown, PoppedInOrder, Relaxed, DoneKnown
<1> QED BY <1>1, <1>2, <1>3, <1>4 DEF IInv

-----------------------------------------------------------------------------
(* Steps.                                                                  *)

LEMMA TypeNext == ASSUME IInv, [Next]_vars PROVE TypeOK'
<1> USE DEF IInv
<1>1. CASE UNCHANGED vars
  BY <1>1, SameFabric DEF TypeOK, vars
<1>2. ASSUME NEW C \in comps, StartComponent(C) PROVE TypeOK'
  <2>1. C # {} /\ C \subseteq fabric.bridges /\ fabric' = fabric
    BY <1>2 DEF ComponentsKnown, StartComponent
  <2>2. Root(C) \in fabric.bridges /\ Root(C) \in Bridges /\ fabric.id[Root(C)] \in Nat
    BY <2>1, RootExists, FabricTyped DEF TypeOK
  <2>3. best' \in [Bridges -> OfferType \cup {NoOffer}]
    BY <1>2, <2>2 DEF StartComponent, TypeOK, OfferType
  <2> QED BY <1>2, <2>1, <2>2, <2>3, SameFabric DEF StartComponent, TypeOK
<1>3. ASSUME NEW e \in heap, Pop(e) PROVE TypeOK'
  BY <1>3, SameFabric DEF Pop, TypeOK, InternalPorts
<1>4. ASSUME NEW p \in todo, Relax(p) PROVE TypeOK'
  <2>1. p \in Internal /\ best[p[1]] # NoOffer /\ fabric' = fabric
    BY <1>4 DEF TypeOK, PoppedInOrder, Relax
  <2>2. /\ OfferFrom(p) \in OfferType /\ OfferFrom(p).cost \in Nat
        /\ Neighbour(p) \in fabric.bridges /\ Neighbour(p) \in Bridges
        /\ Peer[p] \in Ports /\ fabric.id[Neighbour(p)] \in Nat
    BY <2>1, OfferTyped, Cables, FabricTyped DEF TypeOK, OfferType
  <2>3. best' \in [Bridges -> OfferType \cup {NoOffer}]
    BY <1>4, <2>2 DEF Relax, TypeOK
  <2>4. rootPort' \in [Bridges -> Ports \cup {NoPort}]
    BY <1>4, <2>2 DEF Relax, TypeOK
  <2>5. heap' \subseteq Nat \X Nat \X fabric.bridges
    BY <1>4, <2>2 DEF Relax, TypeOK
  <2> QED BY <1>4, <2>1, <2>3, <2>4, <2>5, SameFabric DEF Relax, TypeOK
<1>5. CASE AssignRoles
  BY <1>5, SameFabric DEF AssignRoles, TypeOK, RoleOf, Roles
<1> QED BY <1>1, <1>2, <1>3, <1>4, <1>5 DEF Next

\* Components that share a bridge are the same.
LEMMA ComponentsDisjoint ==
  ASSUME ComponentsKnown, NEW C \in comps, NEW D \in comps, C \cap D # {}
  PROVE  C = D
<1>1. C \subseteq fabric.bridges /\ Closed(C) /\ D \subseteq fabric.bridges /\ Closed(D)
  BY DEF ComponentsKnown
<1>2. D \in SUBSET fabric.bridges /\ C \in SUBSET fabric.bridges /\ D \cap C # {}
  BY <1>1
<1>3. C \subseteq D
  BY <1>1, <1>2 DEF ComponentsKnown
<1>4. D \subseteq C
  BY <1>1, <1>2 DEF ComponentsKnown
<1> QED BY <1>3, <1>4

LEMMA RootsKnown ==
  ASSUME TypeOK, ComponentsKnown, NEW C \in comps
  PROVE  Root(C) \in C /\ Root(C) \in fabric.bridges /\ Root(C) \in Bridges
<1>1. fabric \in Fabrics /\ C \subseteq fabric.bridges /\ C # {}
  BY DEF TypeOK, ComponentsKnown
<1> QED BY <1>1, RootExists, FabricTyped

\* A step that leaves offers, root ports and components alone.
LEMMA OffersFrame ==
  ASSUME OffersKnown, fabric' = fabric, best' = best, rootPort' = rootPort,
         Started' = Started, finalized \subseteq finalized'
  PROVE  OffersKnown'
<1>1. /\ \A C : Root(C)' = Root(C)
      /\ \A b : InternalPorts(b)' = InternalPorts(b)
      /\ \A p : OfferFrom(p)' = OfferFrom(p)
  BY SameFabric DEF OfferFrom
<1> QED BY <1>1 DEF OffersKnown, Neighbour

LEMMA ComponentsFrame ==
  ASSUME ComponentsKnown, fabric' = fabric, comps' = comps PROVE ComponentsKnown'
  BY SameFabric DEF ComponentsKnown

LEMMA RelaxedFrame ==
  ASSUME Relaxed, fabric' = fabric, best' = best, finalized' = finalized, todo' = todo
  PROVE  Relaxed'
<1>1. Internal' = Internal /\ \A p : OfferFrom(p)' = OfferFrom(p)
  BY SameFabric DEF OfferFrom
<1> QED BY <1>1 DEF Relaxed, Neighbour

LEMMA DoneFrame ==
  ASSUME DoneKnown, fabric' = fabric, best' = best, rootPort' = rootPort, done' = done,
         role' = role, finalized \subseteq finalized'
  PROVE  DoneKnown'
<1>1. Internal' = Internal /\ \A C : Root(C)' = Root(C)
  BY SameFabric
<1>2. \A a, b : Closer(a, b)' <=> Closer(a, b)
  BY DEF Closer
<1> QED BY <1>1, <1>2 DEF DoneKnown, Neighbour

LEMMA InvStutter == ASSUME IInv, UNCHANGED vars PROVE IInv'
<1> USE DEF IInv, vars
<1>1. TypeOK'
  BY TypeNext
<1>2. ComponentsKnown' /\ OffersKnown' /\ Relaxed' /\ DoneKnown'
  BY ComponentsFrame, OffersFrame, RelaxedFrame, DoneFrame DEF Started
<1>3. HeapKnown' /\ PoppedInOrder'
  BY DEF HeapKnown, PoppedInOrder
<1> QED BY <1>1, <1>2, <1>3

LEMMA InvPop == ASSUME IInv, NEW e \in heap, Pop(e) PROVE IInv'
<1> USE DEF IInv
<1> DEFINE X == e[3]
<1>1. TypeOK'
  BY TypeNext DEF Next
<1>2. /\ todo = {} /\ IsLeast(e) /\ heap' = heap \ {e} /\ finalized' = finalized \cup {X}
      /\ todo' = (IF X \in finalized THEN {} ELSE InternalPorts(X))
      /\ fabric' = fabric /\ comps' = comps /\ done' = done /\ comp' = comp
      /\ best' = best /\ rootPort' = rootPort /\ role' = role
  BY DEF Pop
<1>3. ComponentsKnown' /\ OffersKnown' /\ DoneKnown'
  BY <1>2, ComponentsFrame, OffersFrame, DoneFrame DEF Started
<1>4. /\ comp # {} /\ X \in comp /\ e[2] = fabric.id[X] /\ best[X] # NoOffer /\ best[X].cost <= e[1]
  BY DEF HeapKnown
<1>5. /\ \A b \in Bridges : best[b] # NoOffer => best[b].cost \in Nat
      /\ \A d \in heap : d[1] \in Nat /\ d[2] \in Nat /\ d[3] \in Bridges
      /\ comp \subseteq Bridges /\ finalized \subseteq Bridges
  BY FabricTyped DEF TypeOK, OfferType
<1>6. X \notin finalized => e[1] = best[X].cost
  <2> SUFFICES ASSUME X \notin finalized PROVE e[1] = best[X].cost
    OBVIOUS
  <2>1. <<best[X].cost, fabric.id[X], X>> \in heap
    BY <1>4 DEF HeapKnown
  <2>2. e[1] <= best[X].cost
    BY <1>2, <1>5, <2>1 DEF IsLeast
  <2> QED BY <1>4, <1>5, <2>2
<1>7. HeapKnown'
  <2>1. \A b \in comp \ finalized' :
          best[b] # NoOffer => <<best[b].cost, fabric.id[b], b>> \in heap'
    BY <1>2 DEF HeapKnown
  <2> QED BY <1>2, <1>4, <2>1 DEF HeapKnown
<1>8. \A b \in finalized \cap comp : best[b].cost <= e[1]
  BY DEF PoppedInOrder
<1>9. PoppedInOrder'
  <2>1. \A b \in finalized' : best[b] # NoOffer
    BY <1>2, <1>4 DEF PoppedInOrder
  <2>2. \A b \in finalized' \cap comp, d \in heap' : best[b].cost <= d[1]
    <3> SUFFICES ASSUME NEW b \in finalized' \cap comp, NEW d \in heap' PROVE best[b].cost <= d[1]
      OBVIOUS
    <3>1. CASE b \in finalized
      BY <1>2, <3>1 DEF PoppedInOrder
    <3>2. CASE b = X
      <4>1. d \in heap /\ d[1] \in Nat /\ e[1] \in Nat /\ X \in Bridges
        BY <1>2, <1>5
      <4>2. e[1] <= d[1]
        BY <1>2, <4>1 DEF IsLeast
      <4>3. best[X].cost \in Nat /\ best[X].cost <= e[1]
        BY <1>4, <1>5, <4>1
      <4>4. best[X].cost <= d[1]
        BY <4>1, <4>2, <4>3
      <4> QED BY <3>2, <4>4
    <3> QED BY <1>2, <3>1, <3>2
  <2>3. \A p \in todo' :
          /\ p[1] \in finalized' \cap comp
          /\ \A b \in finalized' \cap comp : best[b].cost <= best[p[1]].cost
    <3> SUFFICES ASSUME NEW p \in todo', X \notin finalized, p[1] = X,
                        NEW b \in finalized' \cap comp
                 PROVE  best[b].cost <= best[X].cost
      BY <1>2, <1>4 DEF InternalPorts
    <3> QED BY <1>2, <1>4, <1>5, <1>6, <1>8
  <2> QED BY <1>2, <2>1, <2>2, <2>3 DEF PoppedInOrder
<1>10. Relaxed'
  <2>1. Internal' = Internal /\ \A p : OfferFrom(p)' = OfferFrom(p)
    BY <1>2, SameFabric DEF OfferFrom
  <2>2. ASSUME NEW p \in Internal \ todo', p[1] \in finalized'
        PROVE  best[Neighbour(p)] # NoOffer /\ ~Before(OfferFrom(p), best[Neighbour(p)])
    <3>1. p[1] \in finalized
      BY <1>2, <2>2 DEF InternalPorts
    <3> QED BY <1>2, <3>1 DEF Relaxed
  <2> QED BY <1>2, <2>1, <2>2 DEF Relaxed, Neighbour
<1> QED BY <1>1, <1>3, <1>7, <1>9, <1>10

\* What holds of every component that is started: it is one of the components,
\* and no other shares a bridge with it.
LEMMA StartedFacts ==
  ASSUME IInv, NEW C \in Started
  PROVE  /\ C \in comps /\ C \subseteq fabric.bridges /\ Closed(C)
         /\ Root(C) \in C /\ Root(C) \in fabric.bridges /\ Root(C) \in Bridges
         /\ \A D \in comps : C \cap D # {} => C = D
<1>1. C \in comps /\ TypeOK /\ ComponentsKnown
  BY DEF IInv, TypeOK, Started
<1>2. C \subseteq fabric.bridges /\ Closed(C)
  BY <1>1 DEF ComponentsKnown
<1>3. \A D \in comps : C \cap D # {} => C = D
  BY <1>1, ComponentsDisjoint
<1> QED BY <1>1, <1>2, <1>3, RootsKnown

\* No bridge of a component that is not started has an offer.
LEMMA Untouched ==
  ASSUME IInv, NEW C \in comps, C \notin Started, NEW b \in C
  PROVE  b \in fabric.bridges /\ best[b] = NoOffer /\ b \notin finalized
<1>1. b \in fabric.bridges
  BY DEF IInv, ComponentsKnown
<1>2. \A D \in Started : b \notin D
  BY StartedFacts
<1>3. best[b] = NoOffer
  BY <1>1, <1>2 DEF IInv, OffersKnown
<1> QED BY <1>1, <1>3 DEF IInv, PoppedInOrder

LEMMA InvStart == ASSUME IInv, NEW C \in comps, StartComponent(C) PROVE IInv'
<1> USE DEF IInv
<1> DEFINE r == Root(C)
<1>1. TypeOK'
  BY TypeNext DEF Next
<1>2. /\ comp = {} /\ C \notin done /\ comp' = C
      /\ best' = [best EXCEPT ![r] = [cost |-> 0, id |-> fabric.id[r], from |-> 0, to |-> 0]]
      /\ heap' = {<<0, fabric.id[r], r>>}
      /\ fabric' = fabric /\ comps' = comps /\ done' = done /\ rootPort' = rootPort
      /\ finalized' = finalized /\ todo' = todo /\ role' = role
  BY DEF StartComponent
<1>3. ComponentsKnown'
  BY <1>2, ComponentsFrame
<1>4. /\ C # {} /\ C \subseteq fabric.bridges /\ todo = {} /\ fabric.bridges \subseteq Bridges
      /\ Started = done /\ Started' = done \cup {C} /\ C \notin Started
  BY <1>2, FabricTyped DEF ComponentsKnown, HeapKnown, Started, TypeOK
<1>5. r \in C /\ r \in fabric.bridges /\ r \in Bridges
  BY RootsKnown
<1>6. \A b \in C : best[b] = NoOffer /\ b \notin finalized
  BY <1>4, Untouched
<1>7. /\ best'[r] # NoOffer /\ best'[r].cost = 0
      /\ \A b \in Bridges \ {r} : best'[b] = best[b]
  BY <1>2, <1>5 DEF TypeOK, NoOffer
<1>8. /\ Internal' = Internal /\ \A b : InternalPorts(b)' = InternalPorts(b)
      /\ \A D : Root(D)' = Root(D)
      /\ \A q : best'[q[1]] = best[q[1]] => OfferFrom(q)' = OfferFrom(q)
  BY <1>2, SameFabric DEF OfferFrom
<1>9. \A D \in done : Closed(D) /\ Root(D) \in Bridges /\ r \notin D /\ Root(D) # r /\ D \subseteq Bridges
  BY <1>4, <1>5, StartedFacts
<1> HIDE DEF r
<1>10. OffersKnown'
  <2>1. \A b \in fabric.bridges : best'[b] = NoOffer => rootPort[b] = NoPort
    BY <1>4, <1>7 DEF OffersKnown
  <2>2. \A D \in Started' : rootPort[Root(D)] = NoPort /\ best'[Root(D)].cost = 0
    <3>1. rootPort[r] = NoPort
      BY <1>5, <1>6 DEF OffersKnown
    <3> QED BY <1>4, <1>7, <1>9, <3>1 DEF OffersKnown, r
  <2>3. ASSUME NEW b \in fabric.bridges, best'[b] # NoOffer
        PROVE  \E D \in Started' :
                 /\ b \in D
                 /\ \/ rootPort[b] = NoPort /\ b = Root(D)
                    \/ /\ rootPort[b] \in InternalPorts(b)
                       /\ Neighbour(rootPort[b]) \in finalized
                       /\ best'[b] = OfferFrom(Peer[rootPort[b]])'
    <3>1. CASE b = r
      BY <1>4, <1>5, <2>2, <3>1 DEF r
    <3>2. CASE b # r
      <4>1. best'[b] = best[b] /\ b \in Bridges
        BY <1>4, <1>7, <3>2
      <4>2. PICK D \in Started :
              /\ b \in D
              /\ \/ rootPort[b] = NoPort /\ b = Root(D)
                 \/ /\ rootPort[b] \in InternalPorts(b)
                    /\ Neighbour(rootPort[b]) \in finalized
                    /\ best[b] = OfferFrom(Peer[rootPort[b]])
        BY <2>3, <4>1 DEF OffersKnown
      <4>3. ASSUME Neighbour(rootPort[b]) \in finalized
            PROVE  OfferFrom(Peer[rootPort[b]])' = OfferFrom(Peer[rootPort[b]])
        <5>1. Peer[rootPort[b]][1] # r /\ Peer[rootPort[b]][1] \in Bridges
          BY <1>4, <1>5, <1>6, <4>3 DEF Neighbour, TypeOK
        <5> QED BY <1>2, <1>7, <5>1 DEF OfferFrom
      <4> QED BY <1>4, <4>1, <4>2, <4>3
    <3> QED BY <3>1, <3>2
  <2> QED BY <1>2, <1>8, <2>1, <2>2, <2>3 DEF OffersKnown, Neighbour
<1>11. HeapKnown'
  BY <1>2, <1>4, <1>5, <1>6, <1>7 DEF HeapKnown
<1>12. PoppedInOrder'
  BY <1>2, <1>4, <1>5, <1>6, <1>7 DEF PoppedInOrder
<1>13. Relaxed'
  <2>1. ASSUME NEW p \in Internal, p[1] \in finalized
        PROVE  /\ best'[Neighbour(p)] # NoOffer /\ OfferFrom(p)' = OfferFrom(p)
               /\ best'[Neighbour(p)] = best[Neighbour(p)]
               /\ ~Before(OfferFrom(p), best[Neighbour(p)])
    <3>1. best[Neighbour(p)] # NoOffer /\ ~Before(OfferFrom(p), best[Neighbour(p)])
      BY <1>4, <2>1 DEF Relaxed
    <3>2. Neighbour(p) \in Bridges /\ p[1] \in Bridges
      BY <1>4, Cables DEF TypeOK
    <3>3. Neighbour(p) # r /\ p[1] # r
      BY <1>5, <1>6, <2>1, <3>1
    <3> QED BY <1>7, <1>8, <3>1, <3>2, <3>3
  <2> QED BY <1>2, <1>8, <2>1 DEF Relaxed, Neighbour
<1>14. DoneKnown'
  <2>1. ASSUME NEW D \in done, NEW p \in fabric.carries, p[1] \in D, p \in Internal
        PROVE  Closer(p[1], Neighbour(p))' <=> Closer(p[1], Neighbour(p))
    <3>1. p[1] \in D /\ Neighbour(p) \in D
      BY <1>9, <2>1 DEF Closed
    <3>2. best'[p[1]] = best[p[1]] /\ best'[Neighbour(p)] = best[Neighbour(p)]
      BY <1>7, <1>9, <3>1
    <3> QED BY <1>2, <3>2 DEF Closer, Neighbour
  <2> QED BY <1>2, <1>8, <2>1 DEF DoneKnown, Neighbour
<1> QED BY <1>1, <1>3, <1>10, <1>11, <1>12, <1>13, <1>14

\* A relaxed port whose offer is not taken.
LEMMA InvRelaxRefused ==
  ASSUME IInv, NEW p \in todo, Relax(p), UNCHANGED <<best, rootPort, heap>>,
         Neighbour(p) \in finalized \/ best[Neighbour(p)] # NoOffer,
         Neighbour(p) \in finalized \/ ~Before(OfferFrom(p), best[Neighbour(p)])
  PROVE  IInv'
<1> USE DEF IInv
<1> DEFINE Y == Neighbour(p)
           X == p[1]
<1>1. TypeOK'
  BY TypeNext DEF Next
<1>2. /\ todo' = todo \ {p} /\ best' = best /\ rootPort' = rootPort /\ heap' = heap
      /\ fabric' = fabric /\ comps' = comps /\ done' = done /\ comp' = comp
      /\ finalized' = finalized /\ role' = role
  BY DEF Relax
<1>3. ComponentsKnown' /\ OffersKnown' /\ DoneKnown'
  BY <1>2, ComponentsFrame, OffersFrame, DoneFrame DEF Started
<1>4. HeapKnown' /\ PoppedInOrder'
  BY <1>2 DEF HeapKnown, PoppedInOrder
<1>5. p \in Internal /\ X \in finalized \cap comp /\ best[X] # NoOffer /\ comp \in Started
  BY DEF TypeOK, PoppedInOrder, HeapKnown, Started
<1>6. Y \in comp /\ Y \in Bridges
  BY <1>5, StartedFacts, Cables, FabricTyped DEF Closed, TypeOK
<1>7. best[Y] # NoOffer /\ ~Before(OfferFrom(p), best[Y])
  <2>1. CASE Y \in finalized
    <3>1. best[Y] # NoOffer /\ best[Y].cost <= best[X].cost
      BY <1>6, <2>1 DEF PoppedInOrder
    <3>2. best[Y] \in OfferType /\ best[Y].cost \in Nat
      BY <1>6, <3>1 DEF TypeOK, OfferType
    <3>3. OfferFrom(p) \in OfferType /\ best[X].cost \in Nat /\ best[X].cost < OfferFrom(p).cost
      BY <1>5, OfferTyped
    <3>4. OfferFrom(p).cost \in Nat
      BY <3>3 DEF OfferType
    <3>5. best[Y].cost < OfferFrom(p).cost
      BY <3>1, <3>2, <3>3, <3>4
    <3> QED BY <3>1, <3>2, <3>3, <3>5, BeforeOrder
  <2>2. CASE Y \notin finalized
    BY <2>2
  <2> QED BY <2>1, <2>2
<1>8. Relaxed'
  <2>1. Internal' = Internal /\ \A q : OfferFrom(q)' = OfferFrom(q)
    BY <1>2, SameFabric DEF OfferFrom
  <2>2. ASSUME NEW q \in Internal \ todo', q[1] \in finalized
        PROVE  best[Neighbour(q)] # NoOffer /\ ~Before(OfferFrom(q), best[Neighbour(q)])
    <3>1. CASE q = p
      BY <1>7, <3>1
    <3>2. CASE q # p
      BY <1>2, <2>2, <3>2 DEF Relaxed
    <3> QED BY <3>1, <3>2
  <2>3. finalized' = finalized /\ best' = best
    BY <1>2
  <2> QED BY <2>1, <2>2, <2>3 DEF Relaxed, Neighbour
<1> QED BY <1>1, <1>3, <1>4, <1>8

\* A relaxed port whose offer is taken: the far end was not popped and is not a
\* root, because a root is at distance 0.
LEMMA InvRelaxTaken ==
  ASSUME IInv, NEW p \in todo, Relax(p), Neighbour(p) \notin finalized,
         best[Neighbour(p)] = NoOffer \/ Before(OfferFrom(p), best[Neighbour(p)])
  PROVE  IInv'
<1> USE DEF IInv
<1> DEFINE Y == Neighbour(p)
           X == p[1]
           o == OfferFrom(p)
<1>1. TypeOK'
  BY TypeNext DEF Next
<1>2. /\ todo' = todo \ {p} /\ best' = [best EXCEPT ![Y] = o]
      /\ rootPort' = [rootPort EXCEPT ![Y] = Peer[p]]
      /\ heap' = heap \cup {<<o.cost, fabric.id[Y], Y>>}
      /\ fabric' = fabric /\ comps' = comps /\ done' = done /\ comp' = comp
      /\ finalized' = finalized /\ role' = role
  BY DEF Relax
<1>3. ComponentsKnown' /\ Started' = Started
  BY <1>2, ComponentsFrame DEF Started
<1>4. /\ p \in Internal /\ X \in finalized /\ X \in comp /\ best[X] # NoOffer
      /\ comp # {} /\ comp \in Started /\ fabric.bridges \subseteq Bridges
      /\ finalized \subseteq Bridges /\ comp \subseteq Bridges
  BY FabricTyped DEF TypeOK, PoppedInOrder, HeapKnown, Started
<1>5. /\ Y \in comp /\ Y \in fabric.bridges /\ Y \in Bridges /\ Y \notin finalized /\ Y # X
      /\ Peer[p] \in InternalPorts(Y) /\ Peer[Peer[p]] = p /\ Neighbour(Peer[p]) = X
  BY <1>4, StartedFacts, Cables DEF Closed, TypeOK, InternalPorts, Neighbour
<1>6. o \in OfferType /\ o # NoOffer /\ o.cost \in Nat /\ best[X].cost \in Nat /\ best[X].cost < o.cost
  BY <1>4, OfferTyped DEF OfferType
<1>7. /\ best'[Y] = o /\ rootPort'[Y] = Peer[p]
      /\ \A b \in Bridges \ {Y} : best'[b] = best[b] /\ rootPort'[b] = rootPort[b]
  BY <1>2, <1>5 DEF TypeOK
<1>8. /\ Internal' = Internal /\ \A b : InternalPorts(b)' = InternalPorts(b)
      /\ \A D : Root(D)' = Root(D)
  BY <1>2, SameFabric
<1>9. \A q : best'[q[1]] = best[q[1]] => OfferFrom(q)' = OfferFrom(q)
  BY <1>2 DEF OfferFrom
<1>10. best[Y] # NoOffer => best[Y] \in OfferType /\ best[Y].cost \in Nat /\ o.cost <= best[Y].cost
  <2> SUFFICES ASSUME best[Y] # NoOffer
               PROVE  best[Y] \in OfferType /\ best[Y].cost \in Nat /\ o.cost <= best[Y].cost
    OBVIOUS
  <2>1. best[Y] \in OfferType /\ best[Y].cost \in Nat
    BY <1>5 DEF TypeOK, OfferType
  <2> QED BY <1>6, <2>1 DEF Before
<1> HIDE DEF Y, X, o
<1>11. OffersKnown'
  <2>1. \A b \in fabric.bridges : best'[b] = NoOffer => rootPort'[b] = NoPort
    BY <1>4, <1>6, <1>7 DEF OffersKnown
  <2>2. \A C \in Started : rootPort'[Root(C)] = NoPort /\ best'[Root(C)].cost = 0
    <3> SUFFICES ASSUME NEW C \in Started
                 PROVE  rootPort'[Root(C)] = NoPort /\ best'[Root(C)].cost = 0
      OBVIOUS
    <3>1. Root(C) \in Bridges /\ rootPort[Root(C)] = NoPort /\ best[Root(C)].cost = 0
      BY StartedFacts DEF OffersKnown
    <3>2. best[Root(C)] # NoOffer
      BY <3>1 DEF NoOffer
    <3>3. Root(C) # Y
      BY <1>6, <1>10, <3>1, <3>2
    <3> QED BY <1>7, <3>1, <3>3
  <2>3. ASSUME NEW b \in fabric.bridges, best'[b] # NoOffer
        PROVE  \E C \in Started :
                 /\ b \in C
                 /\ \/ rootPort'[b] = NoPort /\ b = Root(C)
                    \/ /\ rootPort'[b] \in InternalPorts(b)
                       /\ Neighbour(rootPort'[b]) \in finalized
                       /\ best'[b] = OfferFrom(Peer[rootPort[b]])'
    <3>1. CASE b = Y
      <4>1. rootPort'[b] = Peer[p] /\ Peer[rootPort'[b]] = p
        BY <1>5, <1>7, <3>1
      <4>2. best'[p[1]] = best[p[1]]
        BY <1>4, <1>5, <1>7 DEF X
      <4>3. OfferFrom(Peer[rootPort[b]])' = o
        BY <1>2, <4>1, <4>2 DEF OfferFrom, o
      <4> QED BY <1>4, <1>5, <1>7, <3>1, <4>1, <4>3
    <3>2. CASE b # Y
      <4>1. best'[b] = best[b] /\ rootPort'[b] = rootPort[b] /\ b \in Bridges
        BY <1>4, <1>7, <3>2
      <4>2. PICK C \in Started :
              /\ b \in C
              /\ \/ rootPort[b] = NoPort /\ b = Root(C)
                 \/ /\ rootPort[b] \in InternalPorts(b)
                    /\ Neighbour(rootPort[b]) \in finalized
                    /\ best[b] = OfferFrom(Peer[rootPort[b]])
        BY <2>3, <4>1 DEF OffersKnown
      <4>3. ASSUME Neighbour(rootPort[b]) \in finalized
            PROVE  OfferFrom(Peer[rootPort[b]])' = OfferFrom(Peer[rootPort[b]])
        <5>1. Peer[rootPort[b]][1] # Y /\ Peer[rootPort[b]][1] \in Bridges
          BY <1>4, <1>5, <4>3 DEF Neighbour
        <5>2. best'[Peer[rootPort[b]][1]] = best[Peer[rootPort[b]][1]]
          BY <1>7, <5>1
        <5>3. Peer[rootPort'[b]] = Peer[rootPort[b]] /\ fabric' = fabric
          BY <1>2, <4>1
        <5> QED BY <5>2, <5>3 DEF OfferFrom
      <4> QED BY <4>1, <4>2, <4>3
    <3> QED BY <3>1, <3>2
  <2> QED BY <1>2, <1>3, <1>8, <2>1, <2>2, <2>3 DEF OffersKnown, Neighbour
<1>12. HeapKnown'
  <2>1. ASSUME NEW e \in heap'
        PROVE  /\ e[3] \in comp /\ e[2] = fabric.id[e[3]]
               /\ best'[e[3]] # NoOffer /\ best'[e[3]].cost <= e[1]
    <3>1. CASE e \in heap /\ e[3] # Y
      BY <1>4, <1>7, <3>1 DEF HeapKnown
    <3>2. CASE e \in heap /\ e[3] = Y
      <4>1. /\ e[3] \in comp /\ e[2] = fabric.id[e[3]] /\ e[1] \in Nat
            /\ best[Y] # NoOffer /\ best[Y].cost <= e[1]
        BY <3>2 DEF HeapKnown, TypeOK
      <4> QED BY <1>6, <1>7, <1>10, <3>2, <4>1
    <3>3. CASE e = <<o.cost, fabric.id[Y], Y>>
      BY <1>5, <1>6, <1>7, <3>3
    <3> QED BY <1>2, <3>1, <3>2, <3>3
  <2>2. \A b \in comp \ finalized :
          best'[b] # NoOffer => <<best'[b].cost, fabric.id[b], b>> \in heap'
    BY <1>2, <1>4, <1>7 DEF HeapKnown
  <2> QED BY <1>2, <1>4, <2>1, <2>2 DEF HeapKnown
<1>13. PoppedInOrder'
  <2>1. \A b \in finalized : b # Y /\ best'[b] = best[b] /\ best[b] # NoOffer
    BY <1>4, <1>5, <1>7 DEF PoppedInOrder
  <2>2. \A b \in finalized \cap comp : best[b].cost <= best[X].cost /\ best[b].cost \in Nat
    BY <1>4, <2>1 DEF PoppedInOrder, X, TypeOK, OfferType
  <2>3. \A b \in finalized \cap comp, e \in heap' : best'[b].cost <= e[1]
    BY <1>2, <1>6, <2>1, <2>2 DEF PoppedInOrder
  <2> QED BY <1>2, <2>1, <2>3 DEF PoppedInOrder
<1>14. Relaxed'
  <2>1. ASSUME NEW q \in Internal \ todo', q[1] \in finalized
        PROVE  /\ OfferFrom(q)' = OfferFrom(q)
               /\ best'[Neighbour(q)] # NoOffer
               /\ ~Before(OfferFrom(q), best'[Neighbour(q)])
    <3>1. OfferFrom(q)' = OfferFrom(q) /\ best[q[1]] # NoOffer
      BY <1>4, <1>5, <1>7, <1>9, <2>1 DEF PoppedInOrder
    <3>2. OfferFrom(q) \in OfferType
      BY <2>1, <3>1, OfferTyped
    <3>3. Neighbour(q) \in Bridges
      BY <1>4, Cables DEF TypeOK
    <3>4. CASE q = p
      BY <1>6, <1>7, <3>1, <3>4, BeforeOrder DEF Y, o
    <3>5. CASE q # p
      <4>1. best[Neighbour(q)] # NoOffer /\ ~Before(OfferFrom(q), best[Neighbour(q)])
        BY <1>2, <2>1, <3>5 DEF Relaxed
      <4>2. CASE Neighbour(q) = Y
        <5>1. best[Y] \in OfferType /\ Before(o, best[Y])
          BY <1>10, <4>1, <4>2 DEF Y, o
        <5>2. ~Before(OfferFrom(q), o)
          BY <1>6, <3>2, <4>1, <4>2, <5>1, BeforeOrder
        <5> QED BY <1>6, <1>7, <3>1, <4>2, <5>2
      <4>3. CASE Neighbour(q) # Y
        BY <1>7, <3>1, <3>3, <4>1, <4>3
      <4> QED BY <4>2, <4>3
    <3> QED BY <3>4, <3>5
  <2>2. finalized' = finalized /\ Internal' = Internal
    BY <1>2, <1>8
  <2> QED BY <2>1, <2>2 DEF Relaxed, Neighbour
<1>15. DoneKnown'
  <2>1. ASSUME NEW C \in done, NEW q \in fabric.carries, q[1] \in C
        PROVE  /\ rootPort'[q[1]] = rootPort[q[1]]
               /\ q \in Internal => (Closer(q[1], Neighbour(q))' <=> Closer(q[1], Neighbour(q)))
    <3>1. C \subseteq finalized /\ C \in Started
      BY DEF DoneKnown, Started
    <3>2. q[1] \in Bridges /\ q[1] # Y
      BY <1>4, <1>5, <2>1, <3>1
    <3>3. q \in Internal => Neighbour(q) \in Bridges /\ Neighbour(q) # Y
      BY <1>4, <1>5, <2>1, <3>1, StartedFacts DEF Closed
    <3> QED BY <1>2, <1>7, <3>2, <3>3 DEF Closer, Neighbour
  <2> QED BY <1>2, <1>8, <2>1 DEF DoneKnown, Neighbour
<1> QED BY <1>1, <1>3, <1>11, <1>12, <1>13, <1>14, <1>15

LEMMA InvRelax == ASSUME IInv, NEW p \in todo, Relax(p) PROVE IInv'
<1>1. CASE Neighbour(p) \notin finalized
           /\ (best[Neighbour(p)] = NoOffer \/ Before(OfferFrom(p), best[Neighbour(p)]))
  BY <1>1, InvRelaxTaken
<1>2. CASE ~(Neighbour(p) \notin finalized
           /\ (best[Neighbour(p)] = NoOffer \/ Before(OfferFrom(p), best[Neighbour(p)])))
  <2>1. UNCHANGED <<best, rootPort, heap>>
    BY <1>2 DEF Relax
  <2> QED BY <1>2, <2>1, InvRelaxRefused
<1> QED BY <1>1, <1>2

\* When the heap is empty every bridge of the component was popped: the popped
\* ones are its root and, with a bridge, all its neighbours.
LEMMA InvAssign == ASSUME IInv, AssignRoles PROVE IInv'
<1> USE DEF IInv
<1>1. TypeOK'
  BY TypeNext DEF Next
<1>2. /\ comp # {} /\ todo = {} /\ heap = {} /\ done' = done \cup {comp} /\ comp' = {}
      /\ role' = [p \in Ports |->
                    IF p \in fabric.carries /\ p[1] \in comp THEN RoleOf(p) ELSE role[p]]
      /\ fabric' = fabric /\ comps' = comps /\ best' = best /\ rootPort' = rootPort
      /\ finalized' = finalized /\ todo' = todo /\ heap' = heap
  BY DEF AssignRoles
<1>3. ComponentsKnown' /\ OffersKnown' /\ Relaxed'
  BY <1>2, ComponentsFrame, OffersFrame, RelaxedFrame DEF Started
<1>4. HeapKnown' /\ PoppedInOrder'
  BY <1>2 DEF HeapKnown, PoppedInOrder
<1>5. comp \in Started /\ comp \in comps
  BY <1>2 DEF Started, TypeOK
<1>6. comp \subseteq finalized
  <2> DEFINE S == finalized \cap comp
  <2>1. Root(comp) \in S
    <3>1. Root(comp) \in comp /\ best[Root(comp)].cost = 0
      BY <1>5, StartedFacts DEF OffersKnown
    <3>2. best[Root(comp)] # NoOffer
      BY <3>1 DEF NoOffer
    <3> QED BY <1>2, <3>1, <3>2 DEF HeapKnown
  <2>2. Closed(S)
    <3> SUFFICES ASSUME NEW p \in Internal, p[1] \in S PROVE Neighbour(p) \in S
      BY DEF Closed
    <3>1. Neighbour(p) \in comp
      BY <1>5, StartedFacts DEF Closed
    <3>2. best[Neighbour(p)] # NoOffer
      BY <1>2 DEF Relaxed
    <3> QED BY <1>2, <3>1, <3>2 DEF HeapKnown
  <2>3. S \in SUBSET fabric.bridges /\ S \cap comp # {}
    BY <2>1 DEF TypeOK
  <2> QED BY <1>5, <2>2, <2>3 DEF ComponentsKnown
<1>7. DoneKnown'
  <2>1. /\ Internal' = Internal /\ \A C : Root(C)' = Root(C)
        /\ \A a, b : Closer(a, b)' <=> Closer(a, b)
    BY <1>2, SameFabric DEF Closer
  <2>2. ASSUME NEW C \in done \cup {comp}, NEW p \in fabric.carries, p[1] \in C
        PROVE  role'[p] = (IF p[1] = Root(C) \/ p \notin Internal THEN "Desg"
                           ELSE IF rootPort[p[1]] = p THEN "Root"
                           ELSE IF Closer(p[1], Neighbour(p)) THEN "Desg" ELSE "Altn")
    <3>1. p \in Ports
      BY FabricTyped DEF TypeOK
    <3>2. CASE C = comp
      BY <1>2, <2>2, <3>1, <3>2 DEF RoleOf
    <3>3. CASE C \in done
      <4>1. C \in Started /\ C # comp
        BY <1>2, <3>3 DEF Started, TypeOK
      <4>2. p[1] \notin comp
        BY <1>5, <2>2, <4>1, StartedFacts
      <4> QED BY <1>2, <2>2, <3>1, <3>3, <4>2 DEF DoneKnown
    <3> QED BY <3>2, <3>3
  <2>3. \A C \in done \cup {comp} : C \subseteq finalized
    BY <1>6 DEF DoneKnown
  <2>4. done' = done \cup {comp} /\ finalized' = finalized /\ rootPort' = rootPort /\ fabric' = fabric
    BY <1>2
  <2> QED BY <2>1, <2>2, <2>3, <2>4 DEF DoneKnown, Neighbour
<1> QED BY <1>1, <1>3, <1>4, <1>7

LEMMA InductiveNext == IInv /\ [Next]_vars => IInv'
<1> SUFFICES ASSUME IInv, [Next]_vars PROVE IInv'
  OBVIOUS
<1> QED BY InvStutter, InvStart, InvPop, InvRelax, InvAssign DEF Next

-----------------------------------------------------------------------------
(* Theorems.                                                               *)

\* IInv holds in every state: components, offers, heap and popped bridges are
\* related as the loop over the heap leaves them.
THEOREM InductiveInvariant == Spec => []IInv
BY InductiveInit, InductiveNext, PTL DEF Spec

\* Every variable has its type, and only cables that carry the VLAN at both ends
\* are relaxed.
THEOREM TypeCorrect == Spec => []TypeOK
<1>1. IInv => TypeOK
  BY DEF IInv
<1> QED BY <1>1, InductiveInvariant, PTL

\* A cable of a done component, and the four ways its ends were given roles.
LEMMA CableOfDone ==
  ASSUME IInv, NEW C \in done, NEW p \in Internal, p[1] \in C
  PROVE  /\ Peer[p] \in Internal /\ Peer[Peer[p]] = p /\ Peer[p] # NoPort /\ p # NoPort
         /\ Neighbour(p) \in C /\ Neighbour(p) = Peer[p][1] /\ Neighbour(Peer[p]) = p[1]
         /\ Neighbour(p) # p[1]
         /\ p[1] \in Bridges /\ Neighbour(p) \in Bridges
         /\ best[p[1]] \in OfferType /\ best[p[1]].cost \in Nat /\ fabric.id[p[1]] \in Nat
         /\ role[p] = (IF p[1] = Root(C) THEN "Desg"
                       ELSE IF rootPort[p[1]] = p THEN "Root"
                       ELSE IF Closer(p[1], Neighbour(p)) THEN "Desg" ELSE "Altn")
<1>1. C \in Started /\ fabric \in Fabrics
  BY DEF IInv, TypeOK, Started
<1>2. /\ Peer[p] \in Internal /\ Peer[Peer[p]] = p /\ Neighbour(p) # p[1]
      /\ Neighbour(Peer[p]) = p[1] /\ p \in Ports /\ Peer[p] \in Ports
      /\ p[1] \in Bridges /\ Neighbour(p) \in Bridges /\ p \in fabric.carries
  BY <1>1, Cables, FabricTyped
<1>3. Neighbour(p) \in C
  BY <1>1, StartedFacts DEF Closed
<1>4. best[p[1]] \in OfferType /\ best[p[1]].cost \in Nat /\ fabric.id[p[1]] \in Nat
  <2>1. best[p[1]] # NoOffer
    BY DEF IInv, DoneKnown, PoppedInOrder
  <2> QED BY <1>1, <1>2, <2>1, FabricTyped DEF IInv, TypeOK, OfferType
<1>5. role[p] = (IF p[1] = Root(C) THEN "Desg"
                 ELSE IF rootPort[p[1]] = p THEN "Root"
                 ELSE IF Closer(p[1], Neighbour(p)) THEN "Desg" ELSE "Altn")
  BY <1>2 DEF IInv, DoneKnown
<1> QED BY <1>2, <1>3, <1>4, <1>5 DEF Neighbour

\* A bridge of a done component other than its root has a root port; the bridge at
\* the port's far end is closer, and its own root port is another one.
LEMMA RootPortOfDone ==
  ASSUME IInv, NEW C \in done, NEW b \in C, b # Root(C)
  PROVE  /\ rootPort[b] \in InternalPorts(b) /\ rootPort[b] \in Internal /\ rootPort[b][1] = b
         /\ best[b] = OfferFrom(Peer[rootPort[b]])
         /\ best[Neighbour(rootPort[b])].cost < best[b].cost
<1>1. C \in Started /\ C \in comps
  BY DEF IInv, TypeOK, Started
<1>2. b \in fabric.bridges /\ best[b] # NoOffer
  BY <1>1, StartedFacts DEF IInv, DoneKnown, PoppedInOrder
<1>3. PICK D \in Started :
        /\ b \in D
        /\ \/ rootPort[b] = NoPort /\ b = Root(D)
           \/ /\ rootPort[b] \in InternalPorts(b)
              /\ Neighbour(rootPort[b]) \in finalized
              /\ best[b] = OfferFrom(Peer[rootPort[b]])
  BY <1>2 DEF IInv, OffersKnown
<1>4. D = C
  BY <1>1, <1>3, StartedFacts
<1>5. /\ rootPort[b] \in InternalPorts(b) /\ Neighbour(rootPort[b]) \in finalized
      /\ best[b] = OfferFrom(Peer[rootPort[b]])
  BY <1>3, <1>4
<1>6. rootPort[b] \in Internal /\ rootPort[b][1] = b
  BY <1>5 DEF InternalPorts
<1>7. /\ Peer[rootPort[b]] \in Internal /\ Peer[rootPort[b]][1] = Neighbour(rootPort[b])
      /\ TypeOK
  BY <1>6, Cables DEF IInv, TypeOK, Neighbour
<1>8. best[Neighbour(rootPort[b])].cost < best[b].cost
  BY <1>5, <1>7, OfferTyped DEF IInv, PoppedInOrder
<1> QED BY <1>5, <1>6, <1>8

\* The root is closer than every other bridge.
LEMMA RootCloser ==
  ASSUME IInv, NEW C \in done, NEW b \in C, b # Root(C)
  PROVE  Closer(Root(C), b)
<1>1. C \in Started /\ TypeOK /\ C \subseteq finalized
  BY DEF IInv, TypeOK, Started, DoneKnown
<1>2. Root(C) \in Bridges /\ C \subseteq fabric.bridges /\ Root(C) \in C
  BY <1>1, StartedFacts
<1>3. fabric.bridges \subseteq Bridges /\ fabric.id \in [Bridges -> Nat]
      /\ \A x, y \in Bridges : fabric.id[x] = fabric.id[y] => x = y
  BY <1>1, FabricTyped DEF TypeOK
<1>4. fabric.id[Root(C)] <= fabric.id[b] /\ b \in Bridges
  BY <1>1, <1>2, <1>3, RootExists DEF TypeOK
<1>5. fabric.id[Root(C)] < fabric.id[b]
  BY <1>2, <1>3, <1>4
<1>6. best[b] # NoOffer /\ best[b] \in OfferType \cup {NoOffer}
  BY <1>1, <1>4 DEF IInv, PoppedInOrder, TypeOK
<1>7. best[b].cost \in Nat
  BY <1>6 DEF OfferType
<1>8. best[Root(C)].cost = 0
  BY <1>1 DEF IInv, OffersKnown
<1> QED BY <1>5, <1>7, <1>8 DEF Closer

\* The root designates all its ports, the far end of a root port is closer than its
\* owner, and otherwise one end is closer because ids differ.
LEMMA OneEndDesignated ==
  ASSUME IInv
  PROVE  OneDesignated
<1> SUFFICES ASSUME NEW C \in done, NEW p \in Internal, p[1] \in C
             PROVE  role[p] = "Desg" <=> role[Peer[p]] # "Desg"
  BY DEF OneDesignated, Designated
<1> DEFINE a == p[1]
           b == Neighbour(p)
           q == Peer[p]
<1>1. /\ q \in Internal /\ Peer[q] = p /\ a \in C /\ b \in C /\ q[1] = b /\ Neighbour(q) = a
      /\ a # b /\ a \in Bridges /\ b \in Bridges
      /\ best[a].cost \in Nat /\ fabric.id[a] \in Nat
  BY CableOfDone
<1>2. best[b].cost \in Nat /\ fabric.id[b] \in Nat /\ fabric.id[a] # fabric.id[b]
  <2>1. best[b].cost \in Nat /\ fabric.id[b] \in Nat
    BY <1>1, CableOfDone
  <2> QED BY <1>1, <2>1, FabricTyped DEF IInv, TypeOK
<1>3. role[p] = (IF a = Root(C) THEN "Desg" ELSE IF rootPort[a] = p THEN "Root"
                 ELSE IF Closer(a, b) THEN "Desg" ELSE "Altn")
  BY CableOfDone
<1>4. role[q] = (IF b = Root(C) THEN "Desg" ELSE IF rootPort[b] = q THEN "Root"
                 ELSE IF Closer(b, a) THEN "Desg" ELSE "Altn")
  BY <1>1, CableOfDone
<1>5. Closer(a, b) <=> ~Closer(b, a)
  BY <1>1, <1>2 DEF Closer
<1>6. a # Root(C) /\ rootPort[a] = p => Closer(b, a)
  BY <1>1, <1>2, RootPortOfDone DEF Closer
<1>7. b # Root(C) /\ rootPort[b] = q => Closer(a, b)
  BY <1>1, <1>2, RootPortOfDone DEF Closer
<1>8. /\ b = Root(C) => Closer(b, a)
      /\ a = Root(C) => Closer(a, b)
  BY <1>1, RootCloser
<1> QED BY <1>1, <1>3, <1>4, <1>5, <1>6, <1>7, <1>8

\* Every cable of a done component has exactly one designated end
\* (l2.py:1209-1228).
THEOREM OneDesignatedHolds == Spec => []OneDesignated
BY OneEndDesignated, InductiveInvariant, PTL

\* At the end every bridge but the root has the strictly best of what its
\* neighbours offer (l2.py:1186-1197), although a popped bridge takes no offers:
\* those that come later were looked at, or come from farther away.
THEOREM BestOfferHolds == Spec => []BestOffer
<1>1. ASSUME IInv PROVE BestOffer
  <2> SUFFICES ASSUME NEW C \in done, NEW b \in C
               PROVE  \/ rootPort[b] = NoPort /\ b = Root(C)
                      \/ /\ rootPort[b] \in InternalPorts(b)
                         /\ best[b] = OfferFrom(Peer[rootPort[b]])
                         /\ \A p \in InternalPorts(b) \ {rootPort[b]} :
                              Before(best[b], OfferFrom(Peer[p]))
    BY DEF BestOffer
  <2>1. CASE b = Root(C)
    BY <1>1, <2>1 DEF IInv, OffersKnown, Started
  <2>2. CASE b # Root(C)
    <3> DEFINE r == rootPort[b]
    <3>1. r \in InternalPorts(b) /\ r \in Internal /\ r[1] = b /\ best[b] = OfferFrom(Peer[r])
      BY <1>1, <2>2, RootPortOfDone
    <3>2. ASSUME NEW p \in InternalPorts(b) \ {r} PROVE Before(best[b], OfferFrom(Peer[p]))
      <4>1. p \in Internal /\ p[1] = b /\ p # r
        BY <3>2 DEF InternalPorts
      <4>2. /\ Peer[p] \in Internal /\ Peer[Peer[p]] = p /\ Neighbour(Peer[p]) = b
            /\ Peer[p][1] \in C /\ Peer[Peer[r]] = r /\ best[b] \in OfferType
        BY <1>1, <3>1, <4>1, CableOfDone DEF Neighbour
      <4>3. Peer[p][1] \in finalized /\ todo \cap {Peer[p]} = {}
        <5>1. Peer[p][1] \in finalized
          BY <1>1, <4>2 DEF IInv, DoneKnown
        <5>2. Peer[p] \notin todo
          <6> SUFFICES ASSUME Peer[p] \in todo PROVE FALSE
            OBVIOUS
          <6>1. Peer[p][1] \in comp /\ comp \in comps \ done /\ comp # {}
            BY <1>1 DEF IInv, PoppedInOrder, TypeOK
          <6>2. C \in Started
            BY DEF Started
          <6> QED BY <1>1, <4>2, <6>1, <6>2, StartedFacts
        <5> QED BY <5>1, <5>2
      <4>4. ~Before(OfferFrom(Peer[p]), best[b])
        BY <1>1, <4>2, <4>3 DEF IInv, Relaxed
      <4>5. OfferFrom(Peer[p]) \in OfferType
        BY <1>1, <4>2, <4>3, OfferTyped DEF IInv, PoppedInOrder
      <4>6. OfferFrom(Peer[p]) # best[b]
        <5>1. p[2] # r[2]
          <6>1. p \in Ports /\ r \in Ports
            BY <1>1, <3>1, <4>1, Cables DEF IInv, TypeOK
          <6> QED BY <3>1, <4>1, <6>1, PortTyped
        <5>2. OfferFrom(Peer[p]).to = p[2] /\ best[b].to = r[2]
          BY <3>1, <4>2 DEF OfferFrom
        <5> QED BY <5>1, <5>2
      <4> QED BY <4>2, <4>4, <4>5, <4>6, BeforeOrder
    <3> QED BY <3>1, <3>2
  <2> QED BY <2>1, <2>2
<1> QED BY <1>1, InductiveInvariant, PTL

\* Of some bridges with offers one is nearest to the root.
LEMMA NearestExists ==
  ASSUME IInv, NEW C \in done, NEW S, S \subseteq C, S # {}
  PROVE  \E b \in S : \A x \in S : ~(best[x].cost < best[b].cost)
<1> DEFINE T == {best[b].cost : b \in S}
<1>1. ASSUME NEW b \in S PROVE best[b].cost \in Nat
  <2>1. b \in fabric.bridges /\ best[b] # NoOffer
    BY DEF IInv, DoneKnown, PoppedInOrder, TypeOK
  <2>2. best[b] \in OfferType
    BY <2>1, FabricTyped DEF IInv, TypeOK
  <2> QED BY <2>2 DEF OfferType
<1>2. T \subseteq Nat /\ T # {}
  BY <1>1
<1>3. PICK x \in T : \A y \in T : ~ (<<y, x>> \in OpToRel(<, Nat))
  <2> HIDE DEF T
  <2> QED BY <1>2, WFMin, NatLessThanWellFounded
<1>4. \A y \in T : ~ (y < x)
  BY <1>2, <1>3 DEF OpToRel
<1> QED BY <1>4

\* The root port of a bridge and the designated port it leads to both forward.
LEMMA RootPortForwards ==
  ASSUME IInv, NEW C \in done, NEW b \in C, b # Root(C)
  PROVE  LET r == rootPort[b]
         IN /\ r \in Internal /\ r[1] = b /\ role[r] = "Root" /\ role[Peer[r]] = "Desg"
            /\ Peer[r] \in Internal /\ Peer[Peer[r]] = r
            /\ Peer[r][1] = Neighbour(r) /\ Neighbour(Peer[r]) = b
            /\ Neighbour(r) \in C /\ best[Neighbour(r)].cost < best[b].cost
<1> DEFINE r == rootPort[b]
<1>1. r \in Internal /\ r[1] = b /\ best[Neighbour(r)].cost < best[b].cost
  BY RootPortOfDone
<1>2. /\ Peer[r] \in Internal /\ Peer[Peer[r]] = r /\ Neighbour(r) \in C
      /\ Neighbour(r) = Peer[r][1] /\ Neighbour(Peer[r]) = b
      /\ role[r] = "Root"
  BY <1>1, CableOfDone
<1>3. role[Peer[r]] = "Desg"
  BY <1>1, <1>2, OneEndDesignated DEF OneDesignated, Designated
<1> QED BY <1>1, <1>2, <1>3

\* The bridges of a component that are cut off from the others by cables that do not
\* forward would have a nearest one, whose root port forwards.
LEMMA ConnectedDone ==
  ASSUME IInv, NEW C \in done
  PROVE  Connected(C)
<1> SUFFICES ASSUME NEW S \in SUBSET C, S # {}, S # C
             PROVE  \E p \in Internal : /\ p[1] \in S /\ Neighbour(p) \in C \ S
                                        /\ Forwards(p) /\ Forwards(Peer[p])
  BY DEF Connected
<1>1. ASSUME NEW X \in SUBSET C, X # {}, Root(C) \notin X
      PROVE  \E r \in Internal : /\ r[1] \in X /\ Neighbour(r) \in C \ X
                                 /\ Peer[r] \in Internal /\ Peer[Peer[r]] = r
                                 /\ Peer[r][1] = Neighbour(r) /\ Neighbour(Peer[r]) = r[1]
                                 /\ Forwards(r) /\ Forwards(Peer[r])
  <2>1. PICK b \in X : \A x \in X : ~(best[x].cost < best[b].cost)
    BY <1>1, NearestExists
  <2>2. b \in C /\ b # Root(C)
    BY <1>1
  <2> QED BY <2>1, <2>2, RootPortForwards DEF Forwards
<1>2. CASE Root(C) \notin S
  BY <1>1, <1>2
<1>3. CASE Root(C) \in S
  <2>1. PICK r \in Internal : /\ r[1] \in C \ S /\ Neighbour(r) \in C \ (C \ S)
                              /\ Peer[r] \in Internal /\ Peer[Peer[r]] = r
                              /\ Peer[r][1] = Neighbour(r) /\ Neighbour(Peer[r]) = r[1]
                              /\ Forwards(r) /\ Forwards(Peer[r])
    BY <1>1, <1>3
  <2> QED BY <2>1
<1> QED BY <1>2, <1>3

\* Each bridge but the root is at the lower end of one forwarding cable, and each
\* forwarding cable is of this kind.
LEMMA CablesCounted ==
  ASSUME IInv, NEW C \in done
  PROVE  Cardinality(ForwardingCables(C)) = Cardinality(C) - 1
<1> DEFINE Up(b) == {rootPort[b], Peer[rootPort[b]]}
           D == C \ {Root(C)}
           f == [b \in D |-> Up(b)]
<1>1. IsFiniteSet(C) /\ Root(C) \in C
  <2>1. C \in Started /\ C \subseteq fabric.bridges /\ fabric \in Fabrics
    BY DEF Started, IInv, TypeOK
  <2>2. IsFiniteSet(fabric.bridges)
    BY <2>1, FabricsAssumption
  <2> QED BY <2>1, <2>2, FS_Subset, StartedFacts
<1>2. IsFiniteSet(D) /\ Cardinality(D) = Cardinality(C) - 1
  BY <1>1, FS_RemoveElement
<1>3. ASSUME NEW b \in D PROVE Up(b) \in ForwardingCables(C)
  BY <1>3, RootPortForwards DEF ForwardingCables, Forwards
<1>4. ASSUME NEW a \in D, NEW b \in D, Up(a) = Up(b) PROVE a = b
  <2>1. /\ rootPort[a][1] = a /\ role[rootPort[a]] = "Root" /\ role[Peer[rootPort[a]]] = "Desg"
        /\ rootPort[b][1] = b /\ role[rootPort[b]] = "Root" /\ role[Peer[rootPort[b]]] = "Desg"
    BY RootPortForwards
  <2>2. rootPort[a] \in Up(b)
    BY <1>4
  <2>3. rootPort[a] = rootPort[b]
    BY <2>1, <2>2
  <2> QED BY <2>1, <2>3
<1>5. ASSUME NEW p \in Internal, p[1] \in C, Forwards(p), role[p] # "Desg"
      PROVE  p[1] \in D /\ Up(p[1]) = {p, Peer[p]}
  <2>1. role[p] = (IF p[1] = Root(C) THEN "Desg"
                   ELSE IF rootPort[p[1]] = p THEN "Root"
                   ELSE IF Closer(p[1], Neighbour(p)) THEN "Desg" ELSE "Altn")
    BY <1>5, CableOfDone
  <2>2. role[p] = "Root"
    BY <1>5 DEF Forwards
  <2>3. p[1] # Root(C) /\ rootPort[p[1]] = p
    BY <2>1, <2>2
  <2> QED BY <1>5, <2>3
<1>6. ASSUME NEW c \in ForwardingCables(C) PROVE \E b \in D : Up(b) = c
  <2>1. PICK q \in Internal : /\ q[1] \in C /\ Forwards(q) /\ Forwards(Peer[q]) /\ c = {q, Peer[q]}
    BY DEF ForwardingCables
  <2>2. /\ Peer[q] \in Internal /\ Peer[Peer[q]] = q /\ Neighbour(q) \in C
        /\ Neighbour(q) = Peer[q][1]
    BY <2>1, CableOfDone
  <2>3. role[q] = "Desg" <=> role[Peer[q]] # "Desg"
    BY <2>1, OneEndDesignated DEF OneDesignated, Designated
  <2>4. CASE role[q] # "Desg"
    BY <1>5, <2>1, <2>4
  <2>5. CASE role[Peer[q]] # "Desg"
    BY <1>5, <2>1, <2>2, <2>5
  <2> QED BY <2>3, <2>4, <2>5
<1> HIDE DEF Up, D
<1>7. f \in Bijection(D, ForwardingCables(C))
  <2>1. f \in [D -> ForwardingCables(C)]
    BY <1>3
  <2>2. \A a, b \in D : f[a] = f[b] => a = b
    BY <1>4
  <2>3. \A c \in ForwardingCables(C) : \E b \in D : f[b] = c
    BY <1>6
  <2> HIDE DEF f
  <2> QED BY <2>1, <2>2, <2>3, Fun_IsBij
<1>8. ExistsBijection(D, ForwardingCables(C))
  BY <1>7 DEF ExistsBijection
<1> QED BY <1>2, <1>8, FS_Bijection

\* The ports that forward make a spanning tree of every component
\* (l2.py:1209-1228): nothing is cut off, and no frame can go round.
THEOREM SpansComponentHolds == Spec => []SpansComponent
<1>1. IInv => SpansComponent
  BY ConnectedDone, CablesCounted DEF SpansComponent
<1> QED BY <1>1, InductiveInvariant, PTL

=============================================================================
