--------------------------- MODULE MCSpanningTree ---------------------------
(* Four switches, a cable between any two of them and a second one between *)
(* the first two, any subset of which carries the VLAN; one port may have  *)
(* a configured cost, and one cable may carry the VLAN at one end only.    *)
EXTENDS SpanningTree

MCBridges == 1..4
MCCables == {{<<1, 1>>, <<2, 1>>}, {<<1, 2>>, <<2, 2>>}, {<<1, 3>>, <<3, 1>>},
             {<<1, 4>>, <<4, 1>>}, {<<2, 3>>, <<3, 2>>}, {<<2, 4>>, <<4, 2>>},
             {<<3, 3>>, <<4, 3>>}}
MCPorts == UNION MCCables
MCPeer == [p \in MCPorts |-> CHOOSE q \in MCPorts : q # p /\ {p, q} \in MCCables]

DefaultCost == 2
Costs == {[p \in MCPorts |-> DefaultCost]} \cup
         {[[p \in MCPorts |-> DefaultCost] EXCEPT ![q] = c] : q \in MCPorts, c \in {1, 5}}
ByNumber == [b \in MCBridges |-> b]
Reversed == [b \in MCBridges |-> 5 - b]
CarriedAtBothEnds == {UNION S : S \in SUBSET MCCables}
OneEnd == {MCPorts \ {p} : p \in MCPorts}

MCFabrics ==
  [bridges : {MCBridges}, carries : CarriedAtBothEnds, cost : Costs, id : {ByNumber}]
    \cup [bridges : {MCBridges}, carries : CarriedAtBothEnds \cup OneEnd,
          cost : {[p \in MCPorts |-> DefaultCost]}, id : {Reversed}]

=============================================================================
