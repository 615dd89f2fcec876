------------------------------ MODULE MCNetwork ------------------------------
(***************************************************************************)
(* Routers 1, 2, 3: cables 1-2 and 2-3, and a LAN with all of them on       *)
(* switches 8 and 9.  Hosts 4 (switch 8) and 5 (switch 9) are on the LAN,   *)
(* host 6 is behind router 3.  Addresses: 0..3 is the cable 1-2, 4..7 the   *)
(* cable 2-3, 8..15 the LAN, 16..19 host 6, 24 and 25 loopbacks.            *)
(***************************************************************************)
EXTENDS Grading

\* <<device, number>>
P(n, k) == <<n, k>>
MCDevicePorts == {<<1,1>>, <<1,2>>, <<2,1>>, <<2,2>>, <<2,3>>, <<3,1>>, <<3,2>>, <<3,3>>, <<4,1>>, <<5,1>>, <<6,1>>}
MCSwitchPorts == {<<8,1>>, <<8,4>>, <<8,9>>, <<9,2>>, <<9,3>>, <<9,5>>, <<9,8>>}
Cables == {<<1,1, 2,1>>, <<2,2, 3,1>>, <<3,3, 6,1>>, <<1,2, 8,1>>, <<2,3, 9,2>>, <<4,1, 8,4>>, <<8,9, 9,8>>,
           <<3,2, 9,3>>, <<5,1, 9,5>>}
BothWays == UNION {{<<P(x[1],x[2]), P(x[3],x[4])>>, <<P(x[3],x[4]), P(x[1],x[2])>>} : x \in Cables}
MCWires == The({[p \in {x[1] : x \in B} |-> (CHOOSE x \in B : x[1] = p)[2]] : B \in {BothWays}})

\* Directly, over one switch, or over the trunk to the other.
MCWays ==
  [x \in {x \in MCDevicePorts \X MCDevicePorts :
            x[1] # x[2] /\ (Cable[x[1]] = x[2] \/ (Cable[x[1]][1] >= 8 /\ Cable[x[2]][1] >= 8))} |->
     LET s == Cable[x[1]]
     IN IF s = x[2] THEN <<>> ELSE IF s[1] = Cable[x[2]][1] THEN <<s>> ELSE <<s, P(17 - s[1], s[1])>>]

MCMacs == {P(4,1), P(1,2)}
MCRouters == {1, 2, 3}
MCHosts == {4, 5, 6}
MCLoopbacks == {<<1, 9>>, <<2, 9>>}
MCPids == {1}
MCSpace == 32
MCPlan == {<<P(1,1), 1, 4>>, <<P(1,2), 9, 8>>, <<P(1,2), 5, 4>>, <<P(3,2), 10, 8>>, <<P(1,9), 24, 1>>,
           <<P(4,1), 12, 8>>, <<P(6,1), 18, 4>>}
Net(b, s, a) == [net |-> <<b, s>>, area |-> a]
MCStatements == {Net(0, 32, 0), Net(0, 4, 0), Net(8, 8, 1)}
MCRouterIds == {25, 30}
MCStaticRoutes == {[net |-> <<0, 32>>, via |-> 2, out |-> NoPort, dist |-> 1],
                   [net |-> <<16, 4>>, via |-> 10, out |-> NoPort, dist |-> 200],
                   [net |-> <<16, 4>>, via |-> 5, out |-> NoPort, dist |-> 1],
                   [net |-> <<16, 4>>, via |-> None, out |-> P(1,1), dist |-> 1]}
MCGateways == {9, 10}
MCServers == {2, 9, 11}
MCRanges == {<<0, 4>>, <<2, 7>>, <<0, 15>>, <<5, 9>>}

-----------------------------------------------------------------------------

With(a, s) == [NewInterface EXCEPT !.addr = a, !.size = s]
FullPlan ==
  (P(1,1) :> With(1, 4)) @@ (P(2,1) :> With(2, 4)) @@ (P(2,2) :> With(5, 4)) @@ (P(3,1) :> With(6, 4))
    @@ (P(1,2) :> With(9, 8)) @@ (P(2,3) :> With(10, 8)) @@ (P(3,2) :> With(11, 8))
    @@ (P(4,1) :> With(12, 8)) @@ (P(5,1) :> With(13, 8))
    @@ (P(3,3) :> With(17, 4)) @@ (P(6,1) :> With(18, 4)) @@ (P(1,9) :> With(24, 1)) @@ (P(2,9) :> With(25, 1))

Running(s) == [NewProcess EXCEPT !.nets = s]
OneProcess(d) == [n \in MCRouters |-> [i \in MCPids |-> d]]
Base ==
  [shut |-> {}, sec |-> [q \in MCSwitchPorts |-> NewSecurity], ifc |-> FullPlan,
   proc |-> OneProcess(Running(<<Net(0, 32, 0)>>)),
   static |-> [n \in MCRouters \cup MCHosts |-> <<>>], routing |-> MCRouters,
   gateway |-> (4 :> 9 @@ 5 :> 10 @@ 6 :> 17 @@ 1 :> None @@ 2 :> None @@ 3 :> None),
   interfaces |-> {}, routers |-> {}, nodes |-> {}, secured |-> {}, shuts |-> {}, pings |-> {},
   ntp |-> [n \in MCRouters |-> NewNtp], clocks |-> {},
   vty |-> [n \in MCRouters |-> DefaultBlocks], ssh |-> [n \in MCRouters |-> NewSsh], accessed |-> {},
   bounds |-> <<2, 0>>, solution |-> <<>>, tasks |-> <<>>, checks |-> {}]

\* One area: the interfaces and the process of router 1.
OneArea == [Base EXCEPT !.interfaces = {P(1,1), P(1,2), P(1,9)}, !.routers = {1}, !.shuts = {P(8,9), P(2,1)}]

\* The LAN in area 1 with router 3 only there, the cables in area 0; the way 1-3 is
\* cheaper than 1-2 and no router may become DR of the LAN but 2.
TwoAreas ==
  [Base EXCEPT !.proc = OneProcess(Running(<<Net(8, 8, 1), Net(0, 32, 0)>>)),
               !.ifc[P(1,1)].cost = 30, !.ifc[P(1,2)].prio = 0, !.ifc[P(3,2)].prio = 0,
               !.interfaces = {P(2,3), P(3,2)}, !.routers = {2}, !.shuts = {P(9,2)}]

\* Port security where frames of several devices pass.
SecuredAt(q, s) == [Base EXCEPT !.sec[q] = s, !.secured = {q}, !.shuts = {q}, !.nodes = {1},
                              !.pings = {<<4, 18>>, <<1, 13>>}, !.bounds = <<1, 2>>]
On == [NewSecurity EXCEPT !.on = TRUE]
Secured == {SecuredAt(P(8,9), On), SecuredAt(P(9,2), [On EXCEPT !.sticky = TRUE, !.max = 2]),
            SecuredAt(P(9,8), [On EXCEPT !.mode = "restrict"])}

\* Static routes, gateways and hosts.
Static ==
  [Base EXCEPT !.interfaces = {P(4,1)}, !.nodes = {1, 4}, !.pings = {<<4, 18>>, <<6, 12>>, <<1, 18>>}, !.bounds = <<2, 1>>]

\* Clocks: router 3 is the master, routers 1 and 2 have it and each other as servers, one
\* of them with authentication.
Peering == (1 :> [NewNtp EXCEPT !.servers = {<<2, 1>>, <<11, 0>>}])
        @@ (2 :> [NewNtp EXCEPT !.servers = {<<9, 0>>, <<11, 1>>}, !.keys[1] = 1, !.trusted = {1}, !.auth = TRUE])
        @@ (3 :> [NewNtp EXCEPT !.master = 8, !.keys[1] = 1, !.trusted = {1}])
ClocksOf(n) == [Base EXCEPT !.ntp = Peering, !.clocks = {n}, !.shuts = {P(8,9)}]
Signed == [Base EXCEPT !.ntp = [Peering EXCEPT ![2].servers = {<<11, 1>>}], !.clocks = {2, 3}]

\* An exercise: routers 1 and 2 are to be addressed, brought up and joined by OSPF.  It
\* starts with four or more of these steps done, or with all but one of them and a timer that
\* differs.
Line(b, key, task) ==
  [node |-> b[1], block |-> b, key |-> key, net |-> <<0, 1>>, pid |-> 1, area |-> 0, task |-> task]
InterfaceLines(p, a, task) ==
  <<Line(p, "interface", task), [Line(p, "ip address", task) EXCEPT !.net = <<a, 4>>], Line(p, "no shutdown", task)>>
OspfTask(n, task) ==
  <<Line(OspfBlock(n), "router ospf", task), [Line(OspfBlock(n), "network", task) EXCEPT !.net = <<0, 4>>]>>
Task(id, points, requires) == [id |-> id, points |-> points, requires |-> requires]

Steps == {"address 1", "address 2", "up 1", "up 2", "ospf 1", "ospf 2"}
Exercise(done, mismatch) ==
  [Base EXCEPT
    !.shut = (IF "up 1" \in done THEN {} ELSE {P(1,1)}) \cup (IF "up 2" \in done THEN {} ELSE {P(2,1)}),
    !.ifc = [p \in DOMAIN FullPlan |->
               IF p = P(1,1) /\ "address 1" \in done THEN With(1, 4)
               ELSE IF p = P(2,1) /\ "address 2" \in done
               THEN IF mismatch THEN [With(2, 4) EXCEPT !.hello = 5] ELSE With(2, 4)
               ELSE NewInterface],
    !.proc = [n \in MCRouters |-> [i \in MCPids |->
                IF (n = 1 /\ "ospf 1" \in done) \/ (n = 2 /\ "ospf 2" \in done)
                THEN Running(<<Net(0, 4, 0)>>)
                ELSE IF n = 1 /\ mismatch THEN Running(<<>>) ELSE NoProcess]],
    !.gateway = [n \in MCRouters \cup MCHosts |-> None],
    !.interfaces = {P(1,1)}, !.routers = {1}, !.shuts = {P(1,1), P(2,1)}, !.bounds = <<1, 0>>,
    !.solution = InterfaceLines(P(1,1), 1, 1) \o InterfaceLines(P(2,1), 2, 2) \o OspfTask(1, 3) \o OspfTask(2, 4),
    !.tasks = <<Task(1, 1, {}), Task(2, 1, {}), Task(3, 1, {}), Task(4, 2, {}), Task(5, 2, {3, 4}), Task(6, 1, {5})>>,
    !.checks = {[node |-> 1, type |-> "ping", target |-> 2, task |-> 5],
                [node |-> 2, type |-> "ping_node", target |-> 1, task |-> 6]}]
Exercises ==
  {Exercise(done, FALSE) : done \in {done \in SUBSET Steps : Cardinality(done) >= 4}}
    \cup {Exercise(Steps \ {s}, TRUE) : s \in Steps}

\* Clocks as an exercise: the master, its key, and the clients; the master is worked on.
NtpLine(n, key, x, task) == [Line(NtpBlock(n), key, task) EXCEPT !.net = x]
TimeExercise ==
  [Signed EXCEPT !.clocks = {3},
    !.solution = <<NtpLine(3, "ntp master", <<8, 0>>, 1), NtpLine(3, "ntp trusted-key", <<1, 0>>, 2),
                   NtpLine(3, "ntp authentication-key", <<1, 1>>, 2), NtpLine(2, "ntp server", <<11, 1>>, 1),
                   NtpLine(2, "ntp authenticate", <<0, 0>>, 3)>>,
    !.tasks = <<Task(1, 1, {}), Task(2, 1, {1}), Task(3, 2, {2})>>,
    !.checks = {[node |-> 2, type |-> "ping", target |-> 11, task |-> 1]}]

\* Remote access: from router 1 to router 2 over their cable.
Block4(f, l, login, input) ==
  [first |-> f, last |-> l, set |-> [NewSettings EXCEPT !.login = login, !.input = input]]
SshReady == [NewSsh EXCEPT !.domain = TRUE, !.rsa = 2048, !.version = 2, !.users[1] = 1]
Access(blocks, s, commands) ==
  [Base EXCEPT !.ifc = [p \in DOMAIN FullPlan |-> IF p \in {P(1,1), P(2,1)} THEN FullPlan[p] ELSE NewInterface],
               !.proc = OneProcess(NoProcess), !.gateway = [n \in MCRouters \cup MCHosts |-> None],
               !.vty[2] = blocks, !.ssh[2] = s, !.accessed = {2}, !.bounds = <<commands, 0>>]
SplitBlocks == {Block4(0, 1, "local", {"ssh"}), Block4(2, 4, "line", {"ssh", "telnet"}),
                Block4(5, 9, "none", {"telnet"}), Block4(10, 15, "none", {"telnet"})}

\* The same as an exercise, with one step missing.
VtyLine(f, l, key, x) == [Line(LineBlock(2, f, l), key, 3) EXCEPT !.net = x]
SshLine(key, x) == [Line(SshBlock(2), key, 2) EXCEPT !.net = x]
SshSteps == {[SshReady EXCEPT !.rsa = NoKeys], [SshReady EXCEPT !.version = AnyVersion], [SshReady EXCEPT !.users[1] = NoPassword]}
AccessExercise(blocks, s) ==
  [Access(blocks, s, 2) EXCEPT
    !.solution = <<SshLine("ip domain-name", <<0, 0>>), SshLine("username", <<1, 1>>), SshLine("ip ssh version", <<2, 0>>),
                   VtyLine(0, 4, "line vty", <<0, 0>>), VtyLine(0, 4, "transport input", <<{"ssh"}>>),
                   VtyLine(0, 4, "login local", <<0, 0>>)>>,
    !.tasks = <<Task(2, 1, {}), Task(3, 1, {}), Task(4, 2, {2, 3})>>,
    !.checks = {[node |-> 1, type |-> "ssh", target |-> 2, task |-> 4, user |-> 1, password |-> 1],
                [node |-> 1, type |-> "telnet_refused", target |-> 2, task |-> 4]}]
AccessLabs ==
  {Access(DefaultBlocks, SshReady, 3), Access(SplitBlocks, SshReady, 2)}
    \cup {AccessExercise({Block4(0, 4, "local", {"ssh"})}, s) : s \in SshSteps}
    \cup {AccessExercise({Block4(0, 4, "line", {"ssh"})}, SshReady),
          AccessExercise({Block4(0, 1, "local", {"ssh"}), Block4(2, 4, "local", {"ssh", "telnet"})}, SshReady)}

MCLabs == {OneArea, TwoAreas, Static} \cup {ClocksOf(n) : n \in MCRouters}
  \cup {Signed, TimeExercise} \cup AccessLabs \cup Secured \cup Exercises
=============================================================================
