---------------------------- MODULE MCSwitching ----------------------------
(* Three switches in a triangle with a second cable between the first two, *)
(* a host on each of the others and a router with subinterfaces on the     *)
(* first.  Startups: trunks with the two parallel cables bundled by LACP;  *)
(* negotiated trunks, one cable shut; access ports with portfast as the    *)
(* default, a Port-channel whose cables lead to two, one cable routed.     *)
EXTENDS Switching

CONSTANTS h2, h3, r1, nic2, nic3, sub10, main

MCSwitches == 1..3
MCCables == {{<<1, 1>>, <<2, 1>>}, {<<1, 2>>, <<2, 2>>}, {<<1, 3>>, <<3, 1>>}, {<<2, 3>>, <<3, 2>>}}
MCDevicePorts == {<<1, 5>>, <<2, 5>>, <<3, 5>>}
MCPorts == (UNION MCCables) \cup MCDevicePorts
MCDevices == {h2, h3, r1}
MCPeer == [p \in MCPorts |->
             IF p \in MCDevicePorts THEN (CASE p[1] = 1 -> r1 [] p[1] = 2 -> h2 [] OTHER -> h3)
             ELSE CHOOSE q \in MCPorts : q # p /\ {p, q} \in MCCables]
MCNamed == {<<1, 1>>, <<2, 2>>, <<3, 1>>, <<2, 3>>, <<1, 5>>, <<2, 5>>, <<3, 5>>}
MCAttached == [d \in MCDevices |->
                 CASE d = h2 -> {<<nic2, 0>>} [] d = h3 -> {<<nic3, 0>>} [] OTHER -> {<<main, 0>>, <<sub10, 10>>}]
MCVlans == {1, 10}
MCConfigurable == {<<1, 1>>, <<2, 1>>, <<3, 2>>, <<2, 5>>, <<1, 65>>}

\* Trunks between switches and to the router, hosts in VLAN 10.
Trunks == [i \in MCPorts \cup {<<s, 64 + g>> : s \in MCSwitches, g \in {1, 2}} |->
             IF i \in MCDevicePorts \ {<<1, 5>>} THEN [NewInterface EXCEPT !.vlan = 10]
             ELSE [NewInterface EXCEPT !.mode = "trunk"]]
BundledAs(c, a, b) ==
  [i \in DOMAIN c |-> IF i \in {<<1, 1>>, <<1, 2>>} THEN [c[i] EXCEPT !.group = 1, !.chan = a]
                      ELSE IF i \in {<<2, 1>>, <<2, 2>>} THEN [c[i] EXCEPT !.group = 1, !.chan = b]
                      ELSE c[i]]
Negotiated == [i \in DOMAIN Trunks |->
                 IF Trunks[i].mode = "trunk" /\ i # <<1, 5>>
                 THEN [Trunks[i] EXCEPT !.mode = IF i[1] = 1 THEN "desirable" ELSE "auto", !.native = 10,
                                        !.shut = (i = <<3, 2>>)]
                 ELSE Trunks[i]]
AllVlans == [s \in MCSwitches |-> MCVlans]

Access == [i \in DOMAIN Trunks |->
             LET access == IF i = <<1, 5>> THEN Trunks[i] ELSE [NewInterface EXCEPT !.vlan = 10]
             IN CASE i \in {<<1, 1>>, <<1, 2>>, <<2, 1>>} -> [access EXCEPT !.group = 1, !.chan = "desirable"]
                  [] i = <<2, 2>> -> [access EXCEPT !.group = 2, !.chan = "auto"]
                  [] i = <<3, 2>> -> [access EXCEPT !.routed = TRUE, !.mode = "auto"]
                  [] OTHER -> access]

MCStartups ==
  {[cfg |-> BundledAs(Trunks, "active", "passive"), vlans |-> AllVlans, edge |-> {}],
   [cfg |-> Negotiated, vlans |-> AllVlans, edge |-> {}],
   [cfg |-> Access, vlans |-> [AllVlans EXCEPT ![3] = {1}], edge |-> {3}]}

=============================================================================
