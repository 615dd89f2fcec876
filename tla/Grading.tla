------------------------------- MODULE Grading -------------------------------
(***************************************************************************)
(* The grader: what a solution, the state it implies and the checks of a    *)
(* lab ask of the network, to which task each requirement counts, and the   *)
(* score.  grade_lab reads one snapshot and changes nothing, so the report  *)
(* is a function of the state of Network.                                   *)
(*                                                                          *)
(* Beside its startup configuration a lab has here its                      *)
(*   solution  the lines of the solution files in order: [node, block, key, *)
(*             net, pid, area, task]; the block is the interface, or        *)
(*             OspfBlock(node) for router ospf and what is below it, or     *)
(*             NtpBlock(node), SshBlock(node) or LineBlock(node, first,     *)
(*             last), where net holds what follows the key                  *)
(*   tasks     [id, points, requires] in the order of lab.yaml              *)
(*   checks    [node, type, target, task, user, password]                   *)
(* Task 0 is none.  Lines are those of interfaces, OSPF, NTP and remote     *)
(* access, checks ping, ping_node, ssh and telnet_refused.                  *)
(***************************************************************************)
EXTENDS Network

VARIABLE
  report  \* the score of the last report, and what held then

NoTask == 0
NoReport == [held |-> {}, percentage |-> 0]
OspfBlock(n) == <<n, 0>>
NtpBlock(n) == <<n, 0, 0>>
LineBlock(n, f, l) == <<n, f, l, 0>>
SshBlock(n) == <<n, 0, 0, 0, 0>>
TaskIds(l) == {l.tasks[k].id : k \in DOMAIN l.tasks}

ASSUME LabAssumption ==
  \A l \in Labs :
    /\ \A k \in DOMAIN l.solution : l.solution[k].node \in Routers
    /\ \A j, k \in DOMAIN l.solution : j # k =>
         <<l.solution[j].block, l.solution[j].key, l.solution[j].net>>
           # <<l.solution[k].block, l.solution[k].key, l.solution[k].net>>
    /\ \A j, k \in DOMAIN l.tasks : l.tasks[j].id = l.tasks[k].id => j = k
    /\ \A k \in DOMAIN l.tasks : l.tasks[k].id # NoTask /\ l.tasks[k].points \in Nat
    /\ \A x \in l.checks : x.node \in Nodes

Solution == ToSet(lab.solution)
Tasks == ToSet(lab.tasks)


-----------------------------------------------------------------------------
(* Requirements.                                                            *)

\* A network line holds when every interface it covers runs the process in its area,
\* however that was configured.
NetworkSatisfied(l) ==
  LET covered == {p \in Of(l.node) : ifc[p].addr # None /\ In(ifc[p].addr, l.net)}
  IN /\ proc[l.node][l.pid].runs /\ covered # {}
     /\ \A p \in covered : Areas(p, l.pid) = {l.area}

\* A line of a VTY range holds when each printed block over the range has it, a password
\* when each block itself has it (vty_covers, _line_configs).
VtyCovers(l, field, value) == Covers(Rendered(vty[l.node]), l.block[2], l.block[3], field, value)
LineConfigs(l) == {b \in vty[l.node] : Overlaps(b, l.block[2], l.block[3])}
HavePassword(l, p) == LineConfigs(l) # {} /\ \A b \in LineConfigs(l) : b.set.password = p

LineHolds(l) ==
  CASE l.key = "interface" -> l.block \in L3Ports
    [] l.key = "ip address" -> ifc[l.block].addr = l.net[1] /\ ifc[l.block].size = l.net[2]
    [] l.key = "no shutdown" -> l.block \notin shut
    [] l.key = "ip ospf area" -> ifc[l.block].pid = l.pid /\ ifc[l.block].area = l.area
    [] l.key = "router ospf" -> proc[l.node][l.pid].runs
    [] l.key = "network" -> \/ [net |-> l.net, area |-> l.area] \in ToSet(proc[l.node][l.pid].nets)
                            \/ NetworkSatisfied(l)
    [] l.key = "ntp server" -> l.net \in ntp[l.node].servers
    [] l.key = "ntp master" -> ntp[l.node].master = l.net[1]
    [] l.key = "ntp authenticate" -> ntp[l.node].auth
    [] l.key = "ntp trusted-key" -> l.net[1] \in ntp[l.node].trusted
    [] l.key = "ntp authentication-key" -> ntp[l.node].keys[l.net[1]] = l.net[2]
    [] l.key = "line vty" -> l.block[2]..l.block[3] \subseteq LinesOf(vty[l.node])
    [] l.key = "transport input" -> VtyCovers(l, "input", l.net[1])
    [] l.key = "login local" -> VtyCovers(l, "login", "local")
    [] l.key = "password" -> HavePassword(l, l.net[1])
    [] l.key = "ip domain-name" -> ssh[l.node].domain
    [] l.key = "ip ssh version" -> ssh[l.node].version = l.net[1]
    [] l.key = "username" -> ssh[l.node].users[l.net[1]] = l.net[2]

\* Prefixes of solution lines.
Block(b) == [block |-> b, key |-> ""]
NoShutdownLine(p) == [block |-> p, key |-> "no shutdown"]
Matches(l, x) == l.block = x.block /\ x.key \in {"", l.key}

Requirement(n, kind, block, key, task, passed, depends, causes) ==
  [node |-> n, kind |-> kind, block |-> block, key |-> key, task |-> task, passed |-> passed,
   depends |-> depends, causes |-> causes]

LineRequirement(l) ==
  Requirement(l.node, "config", l.block, <<l.key, l.net>>, l.task, LineHolds(l), {}, {})

\* The last line of the solution that implies a state says to which task it belongs.
Implying(S) == {k \in DOMAIN lab.solution : lab.solution[k] \in S}
LastTask(S) == lab.solution[MaxOf(Implying(S))].task

Addressed(n) == {l.block : l \in {l \in Solution : l.node = n /\ l.key = "ip address"}}
Peers(S) == {Cable[p] : p \in S \cap Cabled}

\* An interface that is to have an address is up.  Down by its own shutdown it stays
\* with its task, otherwise it waits for the other end of the cable.
InterfaceRequirement(p) ==
  LET up == Up(p, Now)
      own == ~up /\ p \in shut
      downs == IF up THEN {} ELSE IF own THEN {p} ELSE Peers({p}) \cap shut
  IN Requirement(p[1], "state", p, <<"up">>, LastTask({l \in Solution : l.block = p /\ l.key = "ip address"}),
                 up, IF own THEN {} ELSE {Block(q) : q \in Peers({p})}, {NoShutdownLine(q) : q \in downs})

\* A router that is to run OSPF has a FULL neighbour.
OspfLines(n) == {l \in Solution : l.node = n /\ (l.block = OspfBlock(n) \/ l.key = "ip ospf area")}
OspfRequirement(n, N) ==
  LET peers == Peers(Addressed(n))
      blocks == {Block(OspfBlock(q[1])) : q \in peers}
      full == FullNeighbours(n, N.ospf, N.c) # {}
  IN Requirement(n, "state", OspfBlock(n), <<"full">>, LastTask(OspfLines(n)), full,
                 blocks \cup {Block(q) : q \in peers},
                 IF full THEN {} ELSE blocks \cup {Block(OspfBlock(n))})

\* The clock of a router that is to have an NTP server is synchronized, which waits for
\* the NTP lines of the servers.
NtpLines(n) == {l \in Solution : l.block = NtpBlock(n) /\ l.key = "ntp server"}
AddressOwner(a) == {p[1] : p \in FirstPort({p \in L3Ports : ifc[p].addr = a})}
NtpRequirement(n, N) ==
  Requirement(n, "state", NtpBlock(n), <<"synchronized">>, LastTask(NtpLines(n)), Synchronized(n, Sync(Usable(N))),
              {Block(NtpBlock(m)) : m \in UNION {AddressOwner(l.net[1]) : l \in NtpLines(n)}}, {})

\* A router that is to accept SSH version 2 with local users on lines for nothing else
\* has its keys.
SshMarkers(n) ==
  {l \in Solution : l.node = n /\ \/ l.key = "ip ssh version" /\ l.net[1] = 2
                                  \/ l.key = "login local"
                                  \/ l.key = "transport input" /\ l.net[1] = {"ssh"}}
SshVersionLines(n) == {l \in SshMarkers(n) : l.key = "ip ssh version"}
IsSshServer(n) == {l.key : l \in SshMarkers(n)} = {"ip ssh version", "login local", "transport input"}
RequiredBits == 2048
SshRequirement(n) ==
  Requirement(n, "state", SshBlock(n), <<"keys">>, LastTask(SshVersionLines(n)),
              ssh[n].domain /\ ssh[n].rsa = RequiredBits, {}, {})

\* A ping asks for an address, the others for the addresses of a node.  Telnet has to be
\* refused at the first that can be reached and answers yes or no.
Targets(x, N) == {ifc[p].addr : p \in {p \in N.ends : p[1] = x.target}}
Refuses(x, N) ==
  LET Answers(a) == \E d \in VtyAccess(x.node, a, "telnet", N) : d.code \in {"ok", "refused"}
  IN \E a \in Least({a \in Targets(x, N) : Answers(a)}) : TelnetRefused(x.node, a, N)
CheckHolds(x, N) ==
  CASE x.type = "ping" -> Reachable(x.node, x.target, N)
    [] x.type = "ping_node" -> \E a \in Targets(x, N) : Reachable(x.node, a, N)
    [] x.type = "ssh" -> \E a \in Targets(x, N) : SshAuthenticate(x.node, x.user, x.password, a, N)
    [] x.type = "telnet_refused" -> Refuses(x, N)
CheckRequirement(x, N) ==
  Requirement(x.node, "check", <<x.node, x.target>>, <<x.type>>, x.task, CheckHolds(x, N), {}, {})

Requirements(N) ==
  {LineRequirement(l) : l \in Solution}
    \cup {InterfaceRequirement(p) : p \in UNION {Addressed(n) : n \in Routers}}
    \cup {OspfRequirement(n, N) : n \in {n \in Routers : OspfLines(n) # {}}}
    \cup {NtpRequirement(n, N) : n \in {n \in Routers : NtpLines(n) # {}}}
    \cup {SshRequirement(n) : n \in {n \in Routers : IsSshServer(n)}}
    \cup {CheckRequirement(x, N) : x \in lab.checks}


-----------------------------------------------------------------------------
(* Tasks.                                                                   *)

Position(t) == CHOOSE k \in DOMAIN lab.tasks : lab.tasks[k].id = t
Known == TaskIds(lab)

\* A requirement moves to the latest task among the lines it depends on.
Moved(r) ==
  LET lines == {l \in Solution : l.task \in Known /\ \E x \in r.depends : Matches(l, x)}
      places == {Position(t) : t \in {r.task} \cup {l.task : l \in lines}}
  IN IF r.depends = {} \/ r.task \notin Known THEN r
     ELSE [r EXCEPT !.task = lab.tasks[MaxOf(places)].id]

\* It is dropped for any line that may cause it, failed or not.
KeptAnyCause(R) ==
  LET moved == {Moved(r) : r \in R}
  IN {r \in moved : ~(~r.passed /\ \E l \in Solution : l.task = r.task /\ \E x \in r.causes : Matches(l, x))}

\* It is dropped for a failed line of another task too.
KeptAcrossTasks(R) ==
  LET moved == {Moved(r) : r \in R}
      failed == {l \in Solution : ~LineHolds(l)}
  IN {r \in moved : ~(~r.passed /\ \E l \in failed : \E x \in r.causes : Matches(l, x))}

\* A failure that a failed line of the same task explains is dropped.
Kept(R) ==
  LET moved == {Moved(r) : r \in R}
      failed == {l \in Solution : ~LineHolds(l)}
  IN {r \in moved : ~(~r.passed /\ \E l \in failed : l.task = r.task /\ \E x \in r.causes : Matches(l, x))}

\* Requirements of no task, or of an unknown one, are a task of their own.
Items(t, K) == {r \in K : IF t = NoTask THEN r.task \notin Known ELSE r.task = t}
Graded(K) == {t \in Known \cup {NoTask} : Items(t, K) # {}}
AllPass(t, K) == \A r \in Items(t, K) : r.passed

\* What is required is looked up in the first results.
PassedTasksUnblocked(K) ==
  {t \in Graded(K) : /\ AllPass(t, K)
                     /\ \A d \in Tasks : d.id = t => \A u \in d.requires \cap Graded(K) : AllPass(u, K)}

\* In the order of the lab, a task that requires a failed or blocked one fails too.
PassedTasks(K) ==
  FoldLeft(LAMBDA final, d : IF d.requires \cap Graded(K) \subseteq final THEN final ELSE final \ {d.id},
           {t \in Graded(K) : AllPass(t, K)}, lab.tasks)

Points(t) == IF t = NoTask THEN 1 ELSE lab.tasks[Position(t)].points

\* The report on the requirements R.
Report(R) ==
  LET Total(T) == FoldSet(LAMBDA t, s : s + Points(t), 0, T)
      Cap99(k) == IF k > 99 THEN 99 ELSE k
      Percentage(earned, possible) ==
        IF possible = 0 THEN 0
        ELSE Cap99((100 * earned) \div possible)
      Result(K, tasks) == [tasks |-> tasks, graded |-> Graded(K),
                           percentage |-> IF \A r \in K : r.passed THEN 100
                                          ELSE Percentage(Total(tasks), Total(Graded(K)))]
  IN The({The({Result(K, tasks) : tasks \in {PassedTasks(K)}}) : K \in {Kept(R)}})


Held(R) == {<<r.block, r.key>> : r \in {r \in R : r.passed}}


-----------------------------------------------------------------------------
(* Working on a lab.  A report is asked for before a command.               *)

IsGraded == lab.tasks # <<>>

GradingInit == Init /\ report = NoReport

Grade ==
  /\ IsGraded /\ left[1] > 0
  /\ \E N \in {Snapshot(Now)} : \E R \in {Requirements(N)} :
       report' = [held |-> Held(R), percentage |-> Report(R).percentage]
  /\ UNCHANGED vars

GradingNext == (Next /\ UNCHANGED report) \/ Grade

GradingSpec == GradingInit /\ [][GradingNext]_<<vars, report>>


-----------------------------------------------------------------------------
(* What a report is worth.                                                  *)

\* The report gives 100 percent exactly when every line of the solution, every state it
\* implies and every check holds, although failures are dropped as consequences of
\* others and moved between tasks (grade_lab, _resolve_dependencies).
FullScoreMeansSolved ==
  IsGraded =>
    \E N \in {Snapshot(Now)} : \E R \in {Requirements(N)} :
      Report(R).percentage = 100 <=> \A r \in R : r.passed

\* The tasks a task requires, directly or not.
Needed(t) ==
  FoldLeft(LAMBDA S, k : S \cup UNION {d.requires : d \in {d \in Tasks : d.id \in S}}, {t}, lab.tasks)

\* A task counts only when all that its part of the solution asks for holds and so it is
\* with every task it requires, directly or not: no check earns points that holds in
\* a network whose earlier work is missing (_task_results).
TasksEarned ==
  IsGraded =>
    \E N \in {Snapshot(Now)} : \E R \in {Requirements(N)} : \E now \in {Report(R)} :
    \A t \in now.tasks : \A u \in Needed(t) \cap now.graded :
      /\ u \in now.tasks
      /\ \A l \in Solution : l.task = u => LineHolds(l)
      /\ \A x \in lab.checks : x.task = u => CheckHolds(x, N)

\* What is done after a report and breaks nothing that held then does not cost points,
\* although it may move requirements to other tasks or bring back dropped ones.  (The
\* labs keep every interface, and every router's OSPF, in one task.)
RepairKeepsScore ==
  report # NoReport =>
    \E N \in {Snapshot(Now)} : \E R \in {Requirements(N)} :
      report.held \subseteq Held(R) => Report(R).percentage >= report.percentage

=============================================================================
