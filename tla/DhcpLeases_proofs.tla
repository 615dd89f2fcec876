-------------------------- MODULE DhcpLeases_proofs --------------------------
(***************************************************************************)
(* What recompute_dhcp guarantees, for any hosts, pools, networks and      *)
(* configurations.  The argument is about the loop over the hosts: after   *)
(* each of them (LoopInv) the bindings are valid and their addresses       *)
(* distinct, each client has at most one, those of the hosts already       *)
(* served are in the pool that serves them, and no lease that may stay is  *)
(* lost.                                                                   *)
(***************************************************************************)
EXTENDS DhcpLeases, TLAPS, FiniteSetTheorems, WellFoundedInduction

-----------------------------------------------------------------------------
(* Numbers and sets.                                                       *)

\* A set of naturals has a least element.
LEMMA LeastNatural ==
  ASSUME NEW T, T \subseteq Nat, T # {}
  PROVE  \E x \in T : \A y \in T : x <= y
<1>1. PICK x \in T : \A y \in T : ~ (<<y, x>> \in OpToRel(<, Nat))
  BY WFMin, NatLessThanWellFounded
<1>2. \A y \in T : ~ (y < x)
  BY <1>1 DEF OpToRel
<1> QED BY <1>2

LEMMA LeastIs ==
  ASSUME NEW T, T \subseteq Nat, T # {}
  PROVE  Least(T) \in T
BY LeastNatural DEF Least

\* The newest of one binding.
LEMMA NewestOfOne ==
  ASSUME NEW b, b.at \in Int
  PROVE  Newest({b}) = b
<1>1. \E x \in {b} : \A o \in {b} : o.at <= x.at
  OBVIOUS
<1> QED BY <1>1 DEF Newest

-----------------------------------------------------------------------------
(* The order of service.                                                   *)

Binding == [pool : Pools, address : Addresses, client : Hosts, at : 0..MaxTime]

OnePerClient(B) == \A b, o \in B : b.client = o.client => b = o

LEMMA OfOne ==
  ASSUME NEW B, OnePerClient(B), NEW b \in B
  PROVE  Of(b.client, B) = {b}
BY DEF Of, OnePerClient

\* Two hosts are served in some order, and three in one.
LEMMA OrderTotal ==
  ASSUME NEW B, B \subseteq Binding, OnePerClient(B),
         NEW g \in Hosts, NEW h \in Hosts, NEW k \in Hosts
  PROVE  /\ g # h => ServedBefore(B, g, h) \/ ServedBefore(B, h, g)
         /\ ServedBefore(B, g, h) /\ ServedBefore(B, h, k) => ServedBefore(B, g, k)
<1> DEFINE Rank(n) == IF Of(n, B) = {} THEN MaxTime + 1 ELSE Newest(Of(n, B)).at
<1>1. ASSUME NEW n \in Hosts PROVE Rank(n) \in Int
  <2>1. CASE Of(n, B) = {}
    BY <2>1, TimeAssumption
  <2>2. CASE Of(n, B) # {}
    <3>1. PICK b \in B : b.client = n
      BY <2>2 DEF Of
    <3>2. b.at \in Int
      BY TimeAssumption DEF Binding
    <3>3. Newest(Of(n, B)) = b
      BY <3>1, <3>2, OfOne, NewestOfOne
    <3> QED BY <2>2, <3>2, <3>3
  <2> QED BY <2>1, <2>2
<1>2. \A m, n \in Hosts : ServedBefore(B, m, n) <=> Rank(m) < Rank(n) \/ (Rank(m) = Rank(n) /\ m < n)
  BY DEF ServedBefore
<1>3. g \in Int /\ h \in Int /\ k \in Int
  BY HostsAssumption
<1>4. Rank(g) \in Int /\ Rank(h) \in Int /\ Rank(k) \in Int
  BY <1>1
<1> HIDE DEF Rank
<1> QED BY <1>2, <1>3, <1>4

\* Of any hosts one is the last to be served.
LEMMA LastExists ==
  ASSUME NEW B, B \subseteq Binding, OnePerClient(B),
         NEW S, S \subseteq Hosts, S # {}
  PROVE  LastServed(B, S) \in S
<1> DEFINE Last(T) == \E h \in T : \A g \in T \ {h} : ServedBefore(B, g, h)
           Bad == {n \in Nat : \E T \in SUBSET Hosts : T # {} /\ Cardinality(T) = n /\ ~Last(T)}
<1>0. \A T \in SUBSET Hosts : IsFiniteSet(T) /\ Cardinality(T) \in Nat
  BY HostsAssumption, FS_Subset, FS_CardinalityType
<1>1. Bad = {}
  <2> SUFFICES ASSUME Bad # {} PROVE FALSE
    OBVIOUS
  <2>1. PICK n \in Bad : \A m \in Bad : n <= m
    BY LeastNatural
  <2>2. PICK T \in SUBSET Hosts : T # {} /\ Cardinality(T) = n /\ ~Last(T)
    BY <2>1
  <2>3. PICK x \in T : TRUE
    BY <2>2
  <2> DEFINE U == T \ {x}
  <2>4. IsFiniteSet(U) /\ Cardinality(U) = n - 1
    BY <1>0, <2>2, <2>3, FS_RemoveElement
  <2>5. U # {}
    <3>1. ASSUME U = {} PROVE Last(T)
      BY <3>1
    <3> QED BY <2>2, <3>1
  <2>6. Last(U)
    <3>1. U \in SUBSET Hosts /\ Cardinality(U) \in Nat
      BY <1>0, <2>2
    <3>2. Cardinality(U) \notin Bad
      BY <2>1, <2>4, <3>1
    <3> QED BY <2>5, <3>1, <3>2
  <2>7. PICK m \in U : \A g \in U \ {m} : ServedBefore(B, g, m)
    BY <2>6
  <2>8. x \in Hosts /\ m \in Hosts /\ x # m /\ U \subseteq Hosts
    BY <2>2, <2>3, <2>7
  <2>9. CASE ServedBefore(B, x, m)
    <3>1. \A g \in T \ {m} : ServedBefore(B, g, m)
      BY <2>7, <2>9
    <3> QED BY <2>2, <2>7, <3>1
  <2>10. CASE ServedBefore(B, m, x)
    <3>1. ASSUME NEW g \in T \ {x} PROVE ServedBefore(B, g, x)
      <4>1. g = m \/ ServedBefore(B, g, m)
        BY <2>7
      <4>2. g \in Hosts
        BY <2>2
      <4> QED BY <2>8, <2>10, <4>1, <4>2, OrderTotal
    <3> QED BY <2>2, <2>3, <3>1
  <2> QED BY <2>8, <2>9, <2>10, OrderTotal
<1>2. Last(S)
  BY <1>0, <1>1
<1> QED BY <1>2 DEF LastServed

-----------------------------------------------------------------------------
(* The loop over the hosts.                                                *)

\* Served is what its recursion says.
LEMMA ServedIs ==
  ASSUME NEW c, c.dhcp \subseteq Hosts,
         NEW B, B \subseteq Binding, OnePerClient(B), NEW R
  PROVE  /\ Served(c, B, R)[{}] = B
         /\ \A S \in SUBSET c.dhcp : S # {} =>
              Served(c, B, R)[S] =
                Serve(c, Served(c, B, R)[S \ {LastServed(B, S)}], LastServed(B, S), R)
<1> DEFINE D == SUBSET c.dhcp
           Step(f, S) == IF S = {} THEN B
                         ELSE Serve(c, f[S \ {LastServed(B, S)}], LastServed(B, S), R)
           Upto(n) == {S \in D : Cardinality(S) <= n}
           Partial(f, n) == f = [S \in Upto(n) |-> Step(f, S)]
           Bad == {n \in Nat : ~ \E f : Partial(f, n)}
<1>1. ASSUME NEW S \in D PROVE IsFiniteSet(S) /\ Cardinality(S) \in Nat
  BY <1>1, HostsAssumption, FS_Subset, FS_CardinalityType
<1>2. ASSUME NEW S \in D, S # {}
      PROVE  /\ S \ {LastServed(B, S)} \in D
             /\ Cardinality(S \ {LastServed(B, S)}) = Cardinality(S) - 1
  BY <1>1, <1>2, LastExists, FS_RemoveElement
<1>3. ASSUME NEW n \in Nat, NEW f, Partial(f, n), NEW g,
             g = [S \in Upto(n + 1) |-> Step(f, S)]
      PROVE  Partial(g, n + 1)
  <2>1. ASSUME NEW S \in Upto(n) PROVE g[S] = f[S]
    <3>1. S \in Upto(n + 1)
      BY <1>1
    <3>2. f[S] = Step(f, S)
      BY <1>3
    <3> QED BY <1>3, <3>1, <3>2
  <2>2. ASSUME NEW S \in Upto(n + 1) PROVE Step(f, S) = Step(g, S)
    <3>1. CASE S = {}
      BY <3>1
    <3>2. CASE S # {}
      <4>1. S \ {LastServed(B, S)} \in Upto(n)
        BY <1>1, <1>2, <3>2
      <4>2. g[S \ {LastServed(B, S)}] = f[S \ {LastServed(B, S)}]
        BY <2>1, <4>1
      <4> QED BY <4>2
    <3> QED BY <3>1, <3>2
  <2> QED BY <1>3, <2>2
<1>4. \E f : Partial(f, 0)
  <2> DEFINE f == [S \in Upto(0) |-> B]
  <2>1. \A S \in Upto(0) : S = {}
    BY <1>1, FS_EmptySet
  <2>2. Partial(f, 0)
    BY <2>1
  <2> QED BY <2>2
<1>5. ASSUME NEW n \in Nat, NEW f, Partial(f, n) PROVE \E g : Partial(g, n + 1)
  <2> DEFINE g == [S \in Upto(n + 1) |-> Step(f, S)]
  <2>1. Partial(g, n + 1)
    <3>1. g = [S \in Upto(n + 1) |-> Step(f, S)]
      OBVIOUS
    <3> HIDE DEF g, Partial
    <3> QED BY <1>3, <1>5, <3>1
  <2> HIDE DEF g, Partial
  <2> QED BY <2>1
<1>6. ASSUME NEW n \in Nat PROVE \E f : Partial(f, n)
  <2> HIDE DEF Partial
  <2> SUFFICES ASSUME Bad # {} PROVE FALSE
    OBVIOUS
  <2>1. PICK m \in Bad : \A k \in Bad : m <= k
    BY LeastNatural
  <2>2. m # 0
    BY <1>4, <2>1
  <2>3. m - 1 \in Nat /\ (m - 1) + 1 = m /\ ~ (m <= m - 1)
    BY <2>1, <2>2
  <2>4. PICK f : Partial(f, m - 1)
    BY <2>1, <2>3
  <2>5. \E g : Partial(g, (m - 1) + 1)
    BY <1>5, <2>3, <2>4
  <2> QED BY <2>1, <2>3, <2>5
<1>7. c.dhcp \in D /\ Cardinality(c.dhcp) \in Nat
  BY <1>1
<1>8. Upto(Cardinality(c.dhcp)) = D
  <2>1. ASSUME NEW S \in D PROVE Cardinality(S) <= Cardinality(c.dhcp)
    BY <1>1, <1>7, HostsAssumption, FS_Subset
  <2> QED BY <2>1
<1>9. \E f : f = [S \in D |-> Step(f, S)]
  <2>1. PICK f : Partial(f, Cardinality(c.dhcp))
    BY <1>6, <1>7
  <2>2. f = [S \in Upto(Cardinality(c.dhcp)) |-> Step(f, S)]
    BY <2>1
  <2> HIDE DEF Step, Upto
  <2> QED BY <1>8, <2>2
<1> DEFINE after == CHOOSE f : f = [S \in D |-> Step(f, S)]
<1>10. after = [S \in D |-> Step(after, S)]
  BY <1>9
<1>11. Served(c, B, R) = after
  BY DEF Served
<1>12. {} \in D
  OBVIOUS
<1> HIDE DEF after
<1> QED BY <1>10, <1>11, <1>12

LEMMA ServedOne ==
  ASSUME NEW c, c.dhcp \subseteq Hosts,
         NEW B, B \subseteq Binding, OnePerClient(B), NEW R,
         NEW S, S \subseteq c.dhcp, S # {}
  PROVE  Served(c, B, R)[S] =
           Serve(c, Served(c, B, R)[S \ {LastServed(B, S)}], LastServed(B, S), R)
BY ServedIs

-----------------------------------------------------------------------------
(* One host is served.                                                     *)

SameLease(d, b) == d.pool = b.pool /\ d.address = b.address /\ d.client = b.client

\* Bindings B after the hosts S, from the kept bindings K; R renew.
LoopInv(c, K, R, S, B) ==
  /\ B \subseteq Binding
  /\ OnePerClient(B)
  /\ \A b, o \in B : b.address = o.address => b.client = o.client
  /\ \A b \in B : Valid(c, b)
  /\ \A b \in B : b.client \in S => Selected(c, b.client) = b.pool
  /\ \A b \in K : Selected(c, b.client) = b.pool =>
       \E d \in B : SameLease(d, b) /\ (b.client \notin R => d.at = b.at)

LEMMA SelectedType ==
  ASSUME NEW c \in ConfigType, NEW h \in Hosts
  PROVE  Selected(c, h) \in Pools \cup {NoPool}
<1> DEFINE list == Offers[c.segment[h]]
           answering == {i \in DOMAIN list : list[i] \in c.serving}
<1>1. list \in Seq(Pools)
  BY OffersAssumption DEF ConfigType
<1>2. answering \subseteq Nat
  BY <1>1
<1>3. CASE answering = {}
  BY <1>3 DEF Selected
<1>4. CASE answering # {}
  <2>1. Least(answering) \in answering
    BY <1>2, <1>4, LeastIs
  <2>2. list[Least(answering)] \in Pools
    <3>1. \A i \in DOMAIN list : list[i] \in Pools
      BY <1>1
    <3> QED BY <2>1, <3>1
  <2>3. Selected(c, h) = list[Least(answering)]
    BY <1>4 DEF Selected
  <2> QED BY <2>2, <2>3
<1> QED BY <1>3, <1>4

LEMMA AddressType == Addresses \subseteq Nat \ {NoAddress}
BY NetworksAssumption, StaticAssumption DEF Addresses

\* A host that is served gets the binding n; what it had goes.
LEMMA ReplaceStep ==
  ASSUME NEW c \in ConfigType, NEW K, NEW R, NEW S, NEW B, LoopInv(c, K, R, S, B),
         NEW h \in c.dhcp, NEW n \in Binding,
         n.client = h, Valid(c, n), Selected(c, h) = n.pool,
         \A o \in B : o.client # h => o.address # n.address,
         \A d \in B : d.client = h /\ d.pool = n.pool =>
           d.address = n.address /\ (h \notin R => n.at = d.at)
  PROVE  LoopInv(c, K, R, S \cup {h}, (B \ Of(h, B)) \cup {n})
<1> DEFINE A == (B \ Of(h, B)) \cup {n}
<1>1. \A b \in A : b = n \/ (b \in B /\ b.client # h)
  BY DEF Of
<1>2. A \subseteq Binding
  BY <1>1 DEF LoopInv
<1>3. OnePerClient(A)
  BY <1>1 DEF LoopInv, OnePerClient
<1>4. \A b, o \in A : b.address = o.address => b.client = o.client
  BY <1>1 DEF LoopInv
<1>5. \A b \in A : Valid(c, b)
  BY <1>1 DEF LoopInv
<1>6. \A b \in A : b.client \in S \cup {h} => Selected(c, b.client) = b.pool
  BY <1>1 DEF LoopInv
<1>7. ASSUME NEW b \in K, Selected(c, b.client) = b.pool
      PROVE  \E d \in A : SameLease(d, b) /\ (b.client \notin R => d.at = b.at)
  <2>1. PICK d \in B : SameLease(d, b) /\ (b.client \notin R => d.at = b.at)
    BY <1>7 DEF LoopInv
  <2>2. CASE b.client = h
    <3>1. d.client = h /\ d.pool = n.pool
      BY <1>7, <2>1, <2>2 DEF SameLease
    <3>2. SameLease(n, b) /\ (b.client \notin R => n.at = b.at)
      BY <2>1, <2>2, <3>1 DEF SameLease
    <3> QED BY <3>2
  <2>3. CASE b.client # h
    <3>1. d \in A
      BY <2>1, <2>3 DEF SameLease, Of
    <3> QED BY <2>1, <3>1
  <2> QED BY <2>2, <2>3
<1> HIDE DEF A
<1>8. LoopInv(c, K, R, S \cup {h}, A)
  BY <1>2, <1>3, <1>4, <1>5, <1>6, <1>7 DEF LoopInv
<1> QED BY <1>8 DEF A

\* dhcp_request keeps what the loop maintains.
LEMMA ServeStep ==
  ASSUME NEW c \in ConfigType, now \in 0..MaxTime,
         NEW K, NEW R, NEW S, NEW B, LoopInv(c, K, R, S, B), NEW h \in c.dhcp
  PROVE  LoopInv(c, K, R, S \cup {h}, Serve(c, B, h, R))
<1> DEFINE p    == Selected(c, h)
           mine == {b \in Of(h, B) : b.pool = p}
           free == IF p = NoPool THEN {} ELSE Free(c, p, B)
<1>1. h \in Hosts /\ p \in Pools \cup {NoPool}
  BY SelectedType DEF ConfigType
<1>2. CASE mine # {}
  <2>1. PICK b \in B : b.client = h /\ b.pool = p
    BY <1>2 DEF Of
  <2>2. b \in Binding /\ b.at \in Int
    BY TimeAssumption DEF LoopInv, Binding
  <2>3. Of(h, B) = {b}
    BY <2>1, OfOne DEF LoopInv
  <2>4. mine = {b}
    BY <2>1, <2>3
  <2>5. Newest(mine) = b
    BY <2>2, <2>4, NewestOfOne
  <2> DEFINE n == [pool |-> p, address |-> b.address, client |-> h,
                   at |-> IF h \notin R THEN b.at ELSE now]
  <2>6. Serve(c, B, h, R) = (B \ Of(h, B)) \cup {n}
    BY <1>2, <2>5 DEF Serve
  <2>7. n \in Binding /\ n.client = h /\ n.pool = p /\ n.address = b.address
    BY <1>1, <2>1, <2>2 DEF Binding
  <2>8. Valid(c, n)
    BY <2>1, <2>7 DEF LoopInv, Valid
  <2>9. \A o \in B : o.client # h => o.address # n.address
    BY <2>1, <2>7 DEF LoopInv
  <2>10. \A d \in B : d.client = h /\ d.pool = n.pool =>
           d.address = n.address /\ (h \notin R => n.at = d.at)
    BY <2>1 DEF LoopInv, OnePerClient
  <2> HIDE DEF n
  <2>11. LoopInv(c, K, R, S \cup {h}, (B \ Of(h, B)) \cup {n})
    BY <2>7, <2>8, <2>9, <2>10, ReplaceStep
  <2> QED BY <2>6, <2>11
<1>3. CASE mine = {} /\ free # {}
  <2>1. p \in Pools /\ free = Free(c, p, B)
    BY <1>1, <1>3
  <2>2. free \subseteq Addresses
    BY <2>1 DEF Free, ConfigType
  <2>3. Least(free) \in free
    BY <1>3, <2>2, AddressType, LeastIs
  <2> DEFINE n == [pool |-> p, address |-> Least(free), client |-> h, at |-> now]
  <2>4. Serve(c, B, h, R) = (B \ Of(h, B)) \cup {n}
    BY <1>3 DEF Serve
  <2>5. n \in Binding /\ n.client = h /\ n.pool = p /\ n.address = Least(free)
    BY <1>1, <2>1, <2>2, <2>3 DEF Binding
  <2>6. Valid(c, n)
    BY <2>1, <2>3, <2>5 DEF Free, Valid
  <2>7. \A o \in B : o.address # n.address
    BY <2>1, <2>3, <2>5 DEF Free
  <2>8. \A d \in B : ~ (d.client = h /\ d.pool = n.pool)
    BY <1>3, <2>5 DEF Of
  <2> HIDE DEF n
  <2>9. LoopInv(c, K, R, S \cup {h}, (B \ Of(h, B)) \cup {n})
    BY <2>5, <2>6, <2>7, <2>8, ReplaceStep
  <2> QED BY <2>4, <2>9
<1>4. CASE mine = {} /\ free = {}
  <2> DEFINE A == B \ Of(h, B)
  <2>1. Serve(c, B, h, R) = A
    BY <1>4 DEF Serve
  <2>2. \A b \in A : b \in B /\ b.client # h
    BY DEF Of
  <2>3. ASSUME NEW b \in K, Selected(c, b.client) = b.pool
        PROVE  \E d \in A : SameLease(d, b) /\ (b.client \notin R => d.at = b.at)
    <3>1. PICK d \in B : SameLease(d, b) /\ (b.client \notin R => d.at = b.at)
      BY <2>3 DEF LoopInv
    <3>2. d.client # h
      <4>1. ASSUME d.client = h PROVE FALSE
        <5>1. d \in mine
          BY <2>3, <3>1, <4>1 DEF SameLease, Of
        <5> QED BY <1>4, <5>1
      <4> QED BY <4>1
    <3> QED BY <3>1, <3>2 DEF Of
  <2>4. /\ A \subseteq Binding /\ OnePerClient(A)
        /\ \A b, o \in A : b.address = o.address => b.client = o.client
        /\ \A b \in A : Valid(c, b)
        /\ \A b \in A : b.client \in S \cup {h} => Selected(c, b.client) = b.pool
    BY <2>2 DEF LoopInv, OnePerClient
  <2> HIDE DEF A
  <2>5. LoopInv(c, K, R, S \cup {h}, A)
    BY <2>3, <2>4 DEF LoopInv
  <2> QED BY <2>1, <2>5
<1> QED BY <1>2, <1>3, <1>4

-----------------------------------------------------------------------------
(* All hosts are served.                                                   *)

\* After the loop, whatever order the leases put the hosts in.
LEMMA LoopCorrect ==
  ASSUME NEW c \in ConfigType, now \in 0..MaxTime,
         NEW K, NEW R, LoopInv(c, K, R, {}, K)
  PROVE  LoopInv(c, K, R, c.dhcp, Served(c, K, R)[c.dhcp])
<1> DEFINE D == SUBSET c.dhcp
           Good(S) == LoopInv(c, K, R, S, Served(c, K, R)[S])
           Bad == {n \in Nat : \E S \in D : Cardinality(S) = n /\ ~Good(S)}
<1>0. c.dhcp \subseteq Hosts /\ K \subseteq Binding /\ OnePerClient(K)
  BY DEF ConfigType, LoopInv
<1>1. \A S \in D : IsFiniteSet(S) /\ Cardinality(S) \in Nat
  BY <1>0, HostsAssumption, FS_Subset, FS_CardinalityType
<1>2. Good({})
  <2>1. Served(c, K, R)[{}] = K
    BY <1>0, ServedIs
  <2> QED BY <2>1
<1>3. ASSUME NEW S \in D, S # {} PROVE LastServed(K, S) \in S
  BY <1>0, <1>3, LastExists
<1>4. ASSUME NEW S \in D, S # {}, Good(S \ {LastServed(K, S)}) PROVE Good(S)
  <2> DEFINE h == LastServed(K, S)
             B == Served(c, K, R)[S \ {h}]
  <2>1. h \in c.dhcp /\ (S \ {h}) \cup {h} = S
    BY <1>3, <1>4
  <2>2. Served(c, K, R)[S] = Serve(c, B, h, R)
    <3>1. S \subseteq c.dhcp /\ S # {}
      BY <1>4
    <3>2. Served(c, K, R)[S] =
            Serve(c, Served(c, K, R)[S \ {LastServed(K, S)}], LastServed(K, S), R)
      BY <1>0, <3>1, ServedOne
    <3> QED BY <3>2
  <2>3. LoopInv(c, K, R, S \ {h}, B)
    BY <1>4
  <2> HIDE DEF B, h
  <2>4. LoopInv(c, K, R, (S \ {h}) \cup {h}, Serve(c, B, h, R))
    BY <2>1, <2>3, ServeStep
  <2> QED BY <2>1, <2>2, <2>4
<1> HIDE DEF Good
<1>5. Bad = {}
  <2> SUFFICES ASSUME Bad # {} PROVE FALSE
    OBVIOUS
  <2>1. PICK n \in Bad : \A m \in Bad : n <= m
    BY LeastNatural
  <2>2. PICK S \in D : Cardinality(S) = n /\ ~Good(S)
    BY <2>1
  <2>3. S # {}
    BY <1>2, <2>2
  <2> DEFINE U == S \ {LastServed(K, S)}
  <2>4. U \in D /\ Cardinality(U) = n - 1 /\ n \in Nat
    BY <1>1, <1>3, <2>2, <2>3, FS_RemoveElement
  <2>5. Cardinality(U) \in Nat /\ Cardinality(U) \notin Bad
    <3>1. Cardinality(U) \in Nat
      BY <1>1, <2>4
    <3>2. ~ (n <= Cardinality(U))
      BY <2>4, <3>1
    <3> HIDE DEF Bad
    <3> QED BY <2>1, <3>1, <3>2
  <2>6. Good(U)
    BY <2>4, <2>5
  <2> QED BY <1>4, <2>2, <2>3, <2>6
<1>6. c.dhcp \in D /\ Cardinality(c.dhcp) \in Nat
  BY <1>1
<1>7. Good(c.dhcp)
  BY <1>5, <1>6
<1> QED BY <1>7 DEF Good

-----------------------------------------------------------------------------
(* The recompute.                                                          *)

\* Bindings as the loop may find them: of one moment between two commands.
Found(B) ==
  /\ B \subseteq Binding
  /\ OnePerClient(B)
  /\ \A b, o \in B : b.address = o.address => b.client = o.client

ClientType == [Hosts -> (0..MaxTime) \cup {NoTime}]

\* What recompute_dhcp leaves, and what it keeps.
Leased(c, B, client) ==
  /\ LoopInv(c, {b \in B : Valid(c, b)}, {h \in c.dhcp : client[h] = NoTime}, c.dhcp, bindings')
  /\ \A b \in bindings' : leased'[b.client] = b.address /\ since'[b.client] = b.at
  /\ \A h \in Hosts : leased'[h] # NoAddress => \E b \in bindings' : b.client = h
  /\ leased' \in [Hosts -> Addresses \cup {NoAddress}]
  /\ since' \in ClientType

LEMMA RecomputeLeases ==
  ASSUME NEW c \in ConfigType, now \in 0..MaxTime, NEW B, Found(B),
         NEW client \in ClientType, Recompute(c, B, client)
  PROVE  Leased(c, B, client)
<1> DEFINE valid    == {b \in B : Valid(c, b)}
           kept     == {Newest(Of(b.client, valid)) : b \in valid}
           renewing == {h \in c.dhcp : client[h] = NoTime}
           after    == Served(c, kept, renewing)[c.dhcp]
<1>1. valid \subseteq Binding /\ OnePerClient(valid)
  BY DEF Found, OnePerClient
<1>2. \A b \in Binding : b.at \in Int
  BY TimeAssumption DEF Binding
<1>3. kept = valid
  <2>1. \A b \in valid : Newest(Of(b.client, valid)) = b
    BY <1>1, <1>2, OfOne, NewestOfOne
  <2> QED BY <2>1
<1>4. LoopInv(c, valid, renewing, {}, valid)
  BY <1>1 DEF LoopInv, Found, SameLease
<1>5. bindings' = after
  BY DEF Recompute
<1>6. LoopInv(c, valid, renewing, c.dhcp, bindings')
  BY <1>3, <1>4, <1>5, LoopCorrect
<1>7. \A h \in Hosts : leased'[h] = IF Of(h, after) # {} THEN Newest(Of(h, after)).address ELSE NoAddress
  BY DEF Recompute
<1>8. \A h \in Hosts : since'[h] = IF Of(h, after) # {} THEN Newest(Of(h, after)).at ELSE client[h]
  BY DEF Recompute
<1>9. DOMAIN leased' = Hosts /\ DOMAIN since' = Hosts
  BY DEF Recompute
<1>9a. leased' = [h \in Hosts |-> leased'[h]] /\ since' = [h \in Hosts |-> since'[h]]
  BY DEF Recompute
<1> HIDE DEF valid, kept, renewing, after
<1>10. ASSUME NEW b \in bindings' PROVE leased'[b.client] = b.address /\ since'[b.client] = b.at
  <2>1. b \in Binding /\ b.client \in Hosts
    BY <1>6 DEF LoopInv, Binding
  <2>2. Of(b.client, after) = {b}
    BY <1>5, <1>6, OfOne DEF LoopInv
  <2>3. Newest(Of(b.client, after)) = b
    BY <1>2, <2>1, <2>2, NewestOfOne
  <2> QED BY <1>7, <1>8, <2>1, <2>2, <2>3
<1>11. ASSUME NEW h \in Hosts
       PROVE  \/ \E b \in bindings' : b.client = h
              \/ leased'[h] = NoAddress /\ since'[h] = client[h]
  BY <1>5, <1>7, <1>8 DEF Of
<1>12. ASSUME NEW h \in Hosts
       PROVE  leased'[h] \in Addresses \cup {NoAddress} /\ since'[h] \in (0..MaxTime) \cup {NoTime}
  <2>1. CASE \E b \in bindings' : b.client = h
    <3>1. PICK b \in bindings' : b.client = h
      BY <2>1
    <3>2. b.address \in Addresses /\ b.at \in 0..MaxTime
      BY <1>6 DEF LoopInv, Binding
    <3> QED BY <1>10, <3>1, <3>2
  <2>2. CASE leased'[h] = NoAddress /\ since'[h] = client[h]
    BY <2>2 DEF ClientType
  <2> QED BY <1>11, <2>1, <2>2
<1>13. leased' \in [Hosts -> Addresses \cup {NoAddress}] /\ since' \in ClientType
  BY <1>9a, <1>12 DEF ClientType
<1> QED BY <1>6, <1>10, <1>11, <1>13 DEF Leased, valid, renewing

-----------------------------------------------------------------------------
(* The commands.                                                           *)

HandOrDhcp(c) == \A h \in c.dhcp : c.manual[h] = NoAddress

IInv ==
  /\ TypeOK
  /\ NoDuplicateAddress
  /\ BindingsBacked
  /\ HandOrDhcp(config)

\* A step that re-leases the hosts in configuration c, from bindings B and
\* client states that differ from the old ones only for a host with a new DORA.
Command(c, B, client) ==
  /\ c \in ConfigType /\ HandOrDhcp(c) /\ client \in ClientType
  /\ B \subseteq bindings /\ \A b \in bindings \ B : LoseBindings(b.pool)
  /\ \A h \in c.dhcp : client[h] = since[h] \/ IpDhcp(h)
  /\ Recompute(c, B, client)
  /\ config' = c /\ now' = now

LEMMA ConfigureStep ==
  ASSUME IInv, NEW c \in ConfigType, HandOrDhcp(c), MarkChanged(c, since)
  PROVE  Command(c, bindings, since)
BY DEF MarkChanged, Command, IInv, TypeOK, ClientType

LEMMA ForgetStep ==
  ASSUME IInv, NEW c \in ConfigType, HandOrDhcp(c), NEW h \in Hosts,
         h \in c.dhcp => IpDhcp(h), MarkChanged(c, Forget(h))
  PROVE  Command(c, bindings, Forget(h))
<1>1. Forget(h) \in ClientType
  BY DEF Forget, IInv, TypeOK, ClientType
<1>2. \A g \in Hosts : g # h => Forget(h)[g] = since[g]
  BY DEF Forget, IInv, TypeOK
<1>3. c.dhcp \subseteq Hosts
  BY DEF ConfigType
<1> QED BY <1>1, <1>2, <1>3 DEF MarkChanged, Command

\* Every action but the clock and clear ip dhcp binding is such a step.
LEMMA CommandStep ==
  ASSUME IInv, (\E h \in Hosts : VpcsCommand(h)) \/ Configure
  PROVE  \E c, B, client : Command(c, B, client)
<1>0. config \in ConfigType /\ HandOrDhcp(config)
  BY DEF IInv, TypeOK
<1>1. ASSUME NEW h \in Hosts, IpDhcp(h) PROVE \E c, B, client : Command(c, B, client)
  <2> DEFINE c == [config EXCEPT !.dhcp = @ \cup {h}, !.manual[h] = NoAddress]
  <2>1. c \in ConfigType
    BY <1>0 DEF ConfigType
  <2>2. HandOrDhcp(c)
    BY <1>0 DEF ConfigType, HandOrDhcp
  <2>3. MarkChanged(c, Forget(h))
    BY <1>1 DEF IpDhcp
  <2> HIDE DEF c
  <2> QED BY <1>1, <2>1, <2>2, <2>3, ForgetStep
<1>2. ASSUME NEW h \in Hosts, IpDhcpRelease(h) PROVE \E c, B, client : Command(c, B, client)
  <2> DEFINE c == [config EXCEPT !.dhcp = @ \ {h}]
  <2>1. c \in ConfigType /\ h \notin c.dhcp
    BY <1>0 DEF ConfigType
  <2>2. HandOrDhcp(c)
    BY <1>0 DEF ConfigType, HandOrDhcp
  <2>3. MarkChanged(c, Forget(h))
    BY <1>2 DEF IpDhcpRelease
  <2> HIDE DEF c
  <2> QED BY <2>1, <2>2, <2>3, ForgetStep
<1>3. ASSUME NEW h \in Hosts, NEW a \in StaticChoices \cup {NoAddress},
             MarkChanged([config EXCEPT !.dhcp = @ \ {h}, !.manual[h] = a], since)
      PROVE  \E c, B, client : Command(c, B, client)
  <2> DEFINE c == [config EXCEPT !.dhcp = @ \ {h}, !.manual[h] = a]
  <2>1. c \in ConfigType
    BY <1>0 DEF ConfigType
  <2>2. HandOrDhcp(c)
    BY <1>0 DEF ConfigType, HandOrDhcp
  <2>3. MarkChanged(c, since)
    BY <1>3
  <2> HIDE DEF c
  <2> QED BY <2>1, <2>2, <2>3, ConfigureStep
<1>4. ASSUME NEW c \in ConfigType, c.dhcp = config.dhcp, c.manual = config.manual, MarkChanged(c, since)
      PROVE  \E d, B, client : Command(d, B, client)
  <2>1. HandOrDhcp(c)
    BY <1>0, <1>4 DEF HandOrDhcp
  <2> QED BY <1>4, <2>1, ConfigureStep
<1>5. ASSUME NEW h \in Hosts, NEW g \in Segments, MoveHost(h, g)
      PROVE  \E c, B, client : Command(c, B, client)
  <2> DEFINE c == [config EXCEPT !.segment[h] = g]
  <2>1. c \in ConfigType /\ c.dhcp = config.dhcp /\ c.manual = config.manual
    BY <1>0 DEF ConfigType
  <2>2. MarkChanged(c, since)
    BY <1>5 DEF MoveHost
  <2> HIDE DEF c
  <2> QED BY <1>4, <2>1, <2>2
<1>6. ASSUME NEW a \in StaticChoices, SetInfra(a)
      PROVE  \E c, B, client : Command(c, B, client)
  <2> DEFINE c == [config EXCEPT !.infra = @ \cup {a}]
             d == [config EXCEPT !.infra = @ \ {a}]
  <2>1. /\ c \in ConfigType /\ c.dhcp = config.dhcp /\ c.manual = config.manual
        /\ d \in ConfigType /\ d.dhcp = config.dhcp /\ d.manual = config.manual
    BY <1>0 DEF ConfigType
  <2>2. MarkChanged(c, since) \/ MarkChanged(d, since)
    BY <1>6 DEF SetInfra
  <2> HIDE DEF c, d
  <2> QED BY <1>4, <2>1, <2>2
<1>7. ASSUME NEW p \in Pools, SetServing(p)
      PROVE  \E c, B, client : Command(c, B, client)
  <2> DEFINE c == [config EXCEPT !.serving = @ \cup {p}]
             d == [config EXCEPT !.serving = @ \ {p}]
  <2>1. /\ c \in ConfigType /\ c.dhcp = config.dhcp /\ c.manual = config.manual
        /\ d \in ConfigType /\ d.dhcp = config.dhcp /\ d.manual = config.manual
    BY <1>0 DEF ConfigType
  <2>2. MarkChanged(c, since) \/ MarkChanged(d, since)
    BY <1>7 DEF SetServing
  <2> HIDE DEF c, d
  <2> QED BY <1>4, <2>1, <2>2
<1>8. ASSUME NEW p \in Pools, NEW n \in Networks[p], SetNetwork(p, n)
      PROVE  \E c, B, client : Command(c, B, client)
  <2> DEFINE c == [config EXCEPT !.net[p] = n]
  <2>0. n \subseteq Addresses
    BY DEF Addresses
  <2>1. c \in ConfigType /\ c.dhcp = config.dhcp /\ c.manual = config.manual
    BY <1>0, <2>0 DEF ConfigType
  <2>2. MarkChanged(c, since)
    BY <1>8 DEF SetNetwork
  <2> HIDE DEF c
  <2> QED BY <1>4, <2>1, <2>2
<1>9. ASSUME NEW p \in Pools, NEW X \in ExcludeChoices, SetExcluded(p, X)
      PROVE  \E c, B, client : Command(c, B, client)
  <2> DEFINE c == [config EXCEPT !.excluded[p] = X]
  <2>1. c \in ConfigType /\ c.dhcp = config.dhcp /\ c.manual = config.manual
    BY <1>0 DEF ConfigType
  <2>2. MarkChanged(c, since)
    BY <1>9 DEF SetExcluded
  <2> HIDE DEF c
  <2> QED BY <1>4, <2>1, <2>2
<1>10. ASSUME NEW p \in Pools, LoseBindings(p)
       PROVE  \E c, B, client : Command(c, B, client)
  <2>1. Command(config, {b \in bindings : b.pool # p}, since)
    BY <1>0, <1>10 DEF LoseBindings, Command, IInv, TypeOK, ClientType
  <2> QED BY <2>1
<1>11. CASE \E h \in Hosts : VpcsCommand(h)
  BY <1>1, <1>2, <1>3, <1>11 DEF VpcsCommand, IpStatic, ClearIp
<1>12. CASE Configure
  BY <1>5, <1>6, <1>7, <1>8, <1>9, <1>10, <1>12 DEF Configure
<1> QED BY <1>11, <1>12

-----------------------------------------------------------------------------
(* Results.                                                                *)

\* What the invariant says of the bindings is what a recompute starts from.
LEMMA FoundNow ==
  ASSUME IInv, NEW B, B \subseteq bindings
  PROVE  Found(B)
<1>1. bindings \subseteq Binding
  BY DEF IInv, TypeOK, Binding
<1>2. OnePerClient(bindings)
  BY DEF IInv, BindingsBacked, OnePerClient, Of
<1>3. ASSUME NEW b \in bindings, NEW o \in bindings, b.address = o.address
      PROVE  b.client = o.client
  <2>1. b.client \in Hosts /\ leased[b.client] = b.address /\ b.address # NoAddress
    BY <1>1, AddressType DEF IInv, BindingsBacked, Binding
  <2> QED BY <1>3, <2>1 DEF IInv, NoDuplicateAddress
<1> QED BY <1>1, <1>2, <1>3 DEF Found, OnePerClient

\* So every command leaves what recompute_dhcp promises.
LEMMA CommandLeases ==
  ASSUME IInv, NEW c, NEW B, NEW client, Command(c, B, client)
  PROVE  Leased(c, B, client)
<1>1. now \in 0..MaxTime /\ Found(B)
  BY FoundNow DEF Command, IInv, TypeOK
<1> QED BY <1>1, RecomputeLeases DEF Command

LEMMA LeasedInv ==
  ASSUME IInv, NEW c, NEW B, NEW client, Command(c, B, client)
  PROVE  IInv'
<1>0. Leased(c, B, client)
  BY CommandLeases
<1>1. config' = c /\ now' = now /\ c \in ConfigType /\ HandOrDhcp(c)
  BY DEF Command
<1>2. /\ bindings' \subseteq Binding /\ OnePerClient(bindings')
      /\ \A b, o \in bindings' : b.address = o.address => b.client = o.client
      /\ \A b \in bindings' : Valid(c, b) /\ Selected(c, b.client) = b.pool
  BY <1>0 DEF Leased, LoopInv, Valid
<1>3. \A b \in bindings' : leased'[b.client] = b.address /\ since'[b.client] = b.at
  BY <1>0 DEF Leased
<1>4. ASSUME NEW h \in Hosts, leased'[h] # NoAddress
      PROVE  \E b \in bindings' : b.client = h /\ b.address = leased'[h]
  BY <1>0, <1>3, <1>4 DEF Leased
<1>5. TypeOK'
  <2>1. \A h \in Hosts : leased'[h] # NoAddress => h \in c.dhcp /\ c.manual[h] = NoAddress
    BY <1>1, <1>2, <1>4 DEF Valid, HandOrDhcp
  <2>2. now' \in 0..MaxTime
    BY <1>1 DEF IInv, TypeOK
  <2> QED BY <1>0, <1>1, <1>2, <2>1, <2>2 DEF TypeOK, Leased, ClientType, Binding
<1>6. NoDuplicateAddress'
  <2>1. ASSUME NEW h \in Hosts, leased'[h] # NoAddress
        PROVE  /\ leased'[h] \notin StaticInUse(c)
               /\ \A g \in Hosts \ {h} : leased'[g] # leased'[h]
               /\ \A b \in bindings' : b.address = leased'[h] => b.client = h
    <3>1. PICK b \in bindings' : b.client = h /\ b.address = leased'[h]
      BY <1>4, <2>1
    <3>2. leased'[h] \notin StaticInUse(c)
      BY <1>2, <3>1 DEF Valid
    <3>3. \A d \in bindings' : d.address = leased'[h] => d.client = h
      BY <1>2, <3>1
    <3>4. ASSUME NEW g \in Hosts \ {h}, leased'[g] = leased'[h] PROVE FALSE
      <4>1. \E d \in bindings' : d.client = g /\ d.address = leased'[g]
        BY <1>4, <2>1, <3>4
      <4> QED BY <3>3, <3>4, <4>1
    <3> QED BY <3>2, <3>3, <3>4
  <2>2. StaticInUse(config)' = StaticInUse(c)
    BY <1>1 DEF StaticInUse
  <2> QED BY <2>1, <2>2 DEF NoDuplicateAddress
<1>7. BindingsBacked'
  <2>1. ASSUME NEW b \in bindings' PROVE Selected(config, b.client)' = b.pool
    <3>1. Selected(config', b.client) = b.pool
      BY <1>1, <1>2
    <3> QED BY <3>1 DEF Selected
  <2>2. \A b \in bindings' : Of(b.client, bindings') = {b}
    BY <1>2, OfOne
  <2> QED BY <1>3, <2>1, <2>2 DEF BindingsBacked, Of
<1>8. HandOrDhcp(config)'
  BY <1>1 DEF HandOrDhcp
<1> QED BY <1>5, <1>6, <1>7, <1>8 DEF IInv

\* The other steps: time passes, or a binding is cleared.
Idles == UNCHANGED <<config, bindings, leased, since>> /\ now' \in 0..MaxTime

LEMMA OtherSteps ==
  ASSUME IInv, [Next]_vars
  PROVE  \/ \E c, B, client : Command(c, B, client)
         \/ Idles
         \/ \E b \in bindings : ClearBinding(b)
<1>1. CASE Tick
  BY <1>1, TimeAssumption DEF Tick, Idles, IInv, TypeOK
<1>2. CASE UNCHANGED vars
  BY <1>2 DEF vars, Idles, IInv, TypeOK
<1> QED BY <1>1, <1>2, CommandStep DEF Next

\* Everything the next recompute relies on: in every reachable state bindings,
\* hosts and configuration agree.
THEOREM InductiveInvariant == Spec => []IInv
<1>1. Init => IInv
  <2> SUFFICES ASSUME Init PROVE IInv
    OBVIOUS
  <2>1. TypeOK
    BY TimeAssumption DEF Init, TypeOK
  <2> QED BY <2>1 DEF Init, IInv, NoDuplicateAddress, BindingsBacked, HandOrDhcp
<1>2. IInv /\ [Next]_vars => IInv'
  <2> SUFFICES ASSUME IInv, [Next]_vars PROVE IInv'
    OBVIOUS
  <2>1. CASE Idles
    <3>1. TypeOK'
      BY <2>1 DEF Idles, IInv, TypeOK
    <3>2. NoDuplicateAddress'
      BY <2>1 DEF Idles, IInv, NoDuplicateAddress, StaticInUse
    <3>3. \A h : Selected(config, h)' = Selected(config, h)
      BY <2>1 DEF Idles, Selected
    <3>4. BindingsBacked'
      BY <2>1, <3>3 DEF Idles, IInv, BindingsBacked, Of
    <3>5. HandOrDhcp(config)'
      BY <2>1 DEF Idles, IInv, HandOrDhcp
    <3> QED BY <3>1, <3>2, <3>4, <3>5 DEF IInv
  <2>2. ASSUME NEW b \in bindings, ClearBinding(b) PROVE IInv'
    <3>1. TypeOK'
      BY <2>2 DEF ClearBinding, IInv, TypeOK
    <3>2. NoDuplicateAddress' /\ HandOrDhcp(config)'
      BY <2>2 DEF ClearBinding, IInv, NoDuplicateAddress, HandOrDhcp, StaticInUse
    <3>3. \A h : Selected(config, h)' = Selected(config, h)
      BY <2>2 DEF ClearBinding, Selected
    <3>4. ASSUME NEW d \in bindings'
          PROVE  /\ leased'[d.client] = d.address /\ since'[d.client] = d.at
                 /\ Selected(config, d.client) = d.pool
                 /\ Of(d.client, bindings') = {d}
      BY <2>2, <3>4 DEF ClearBinding, IInv, BindingsBacked, Of
    <3>5. BindingsBacked'
      BY <3>3, <3>4 DEF BindingsBacked, Of
    <3> QED BY <3>1, <3>2, <3>5 DEF IInv
  <2> QED BY <2>1, <2>2, OtherSteps, LeasedInv
<1> QED BY <1>1, <1>2, PTL DEF Spec

\* Whatever is configured, moved, renewed or lost in whatever order: no address
\* is leased twice, nor one that is used statically.
THEOREM NoDuplicateAddressHolds == Spec => []NoDuplicateAddress
<1>1. IInv => NoDuplicateAddress
  BY DEF IInv
<1> QED BY <1>1, InductiveInvariant, PTL

\* The servers' bindings are the hosts' leases, in the pool that serves them.
THEOREM BindingsBackedHolds == Spec => []BindingsBacked
<1>1. IInv => BindingsBacked
  BY DEF IInv
<1> QED BY <1>1, InductiveInvariant, PTL

\* A lease that is there after a step and may stay is the one that was there.
StaysSame(b) ==
  LET kept == {d \in bindings' : d.client = b.client /\ d.pool = b.pool /\ d.address = b.address}
  IN \/ LoseBindings(b.pool)
     \/ /\ \/ Valid(config', b) /\ Selected(config', b.client) = b.pool => kept # {}
           \/ ClearBinding(b)
        /\ (\A d \in kept : d.at = b.at) \/ IpDhcp(b.client)

LEMMA CommandKeeps ==
  ASSUME IInv, NEW c, NEW B, NEW client, Command(c, B, client), NEW b \in B
  PROVE  StaysSame(b)
<1> DEFINE K == {o \in B : Valid(c, o)}
           R == {h \in c.dhcp : client[h] = NoTime}
           kept == {d \in bindings' : d.client = b.client /\ d.pool = b.pool /\ d.address = b.address}
<1>1. LoopInv(c, K, R, c.dhcp, bindings')
  BY CommandLeases DEF Leased
<1>2. config' = c
  BY DEF Command
<1>3. ASSUME Valid(c, b), Selected(c, b.client) = b.pool
      PROVE  \E d \in bindings' : SameLease(d, b) /\ (b.client \notin R => d.at = b.at)
  <2>1. b \in K
    BY <1>3
  <2> HIDE DEF K, R
  <2> QED BY <1>1, <1>3, <2>1 DEF LoopInv
<1>4. Valid(c, b) /\ Selected(c, b.client) = b.pool => kept # {}
  BY <1>3 DEF SameLease
<1>5. ASSUME NEW d \in kept, ~ IpDhcp(b.client) PROVE d.at = b.at
  <2>1. d \in bindings' /\ SameLease(d, b)
    BY <1>5 DEF SameLease
  <2>2. Valid(c, d) /\ (d.client \in c.dhcp => Selected(c, d.client) = d.pool)
    BY <1>1, <2>1 DEF LoopInv
  <2>3. Valid(c, b) /\ Selected(c, b.client) = b.pool
    BY <2>1, <2>2 DEF Valid, SameLease
  <2>4. PICK e \in bindings' : SameLease(e, b) /\ (b.client \notin R => e.at = b.at)
    BY <1>3, <2>3
  <2>5. d = e
    BY <1>1, <2>1, <2>4 DEF LoopInv, OnePerClient, SameLease
  <2>6. b.client \notin R
    <3>1. b.client \in c.dhcp
      BY <2>3 DEF Valid
    <3>2. client[b.client] = since[b.client]
      BY <1>5, <3>1 DEF Command
    <3>3. since[b.client] = b.at /\ b.at \in 0..MaxTime
      BY DEF Command, IInv, TypeOK, BindingsBacked
    <3> QED BY <3>2, <3>3, TimeAssumption DEF NoTime
  <2> QED BY <2>4, <2>5, <2>6
<1> HIDE DEF K, R
<1> QED BY <1>2, <1>4, <1>5 DEF StaysSame

\* A lease that stays usable survives every command but those that clear it,
\* with its times, whoever else asks.
THEOREM LeasesStickyHolds == Spec => LeasesSticky
<1>1. ASSUME IInv, [Next]_vars, NEW b \in bindings PROVE StaysSame(b)
  <2>1. ASSUME NEW d \in bindings, d.client = b.client PROVE d = b
    BY <1>1, <2>1 DEF IInv, BindingsBacked, Of
  <2>2. ASSUME NEW c, NEW B, NEW client, Command(c, B, client) PROVE StaysSame(b)
    <3>1. CASE b \in B
      BY <1>1, <2>2, <3>1, CommandKeeps
    <3>2. CASE b \notin B
      BY <1>1, <2>2, <3>2 DEF Command, StaysSame
    <3> QED BY <3>1, <3>2
  <2>3. ASSUME bindings' \subseteq bindings, b \in bindings' \/ ClearBinding(b)
        PROVE  StaysSame(b)
    BY <2>1, <2>3 DEF StaysSame
  <2>4. CASE Idles
    BY <1>1, <2>3, <2>4 DEF Idles
  <2>5. ASSUME NEW o \in bindings, ClearBinding(o) PROVE StaysSame(b)
    <3>1. bindings' = bindings \ {o}
      BY <2>5 DEF ClearBinding
    <3> QED BY <1>1, <2>3, <2>5, <3>1
  <2> QED BY <1>1, <2>2, <2>4, <2>5, OtherSteps
<1>2. IInv /\ [Next]_vars => [\A b \in bindings : StaysSame(b)]_vars
  BY <1>1
<1>3. [][\A b \in bindings : StaysSame(b)]_vars => LeasesSticky
  BY DEF LeasesSticky, StaysSame
<1> QED BY <1>2, <1>3, InductiveInvariant, PTL DEF Spec

=============================================================================
