---------------------------- MODULE MCDhcpLeases ----------------------------
(* Two hosts and two pools whose networks may overlap (two servers for one *)
(* subnet); the second pool has one or two addresses, one of them its      *)
(* gateway, so the hosts compete for the last one.                         *)
EXTENDS DhcpLeases, TLC

CONSTANTS p1, p2, g1, g2

MCPools == {p1, p2}
MCSegments == {g1, g2}
\* g1 reaches both servers, g2 only the second.
MCOffers == (g1 :> <<p1, p2>>) @@ (g2 :> <<p2>>)

OverlappingNetworks == (p1 :> {{1, 2}, {2, 3}}) @@ (p2 :> {{2, 3}})
OverlappingGateway == (p1 :> NoAddress) @@ (p2 :> 3)
OverlappingExclude == {{}, {1}}

=============================================================================
