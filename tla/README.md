# InstantNodes in TLA+

InstantNodes (the repository's NetSimX) runs networking labs: a FastAPI backend
simulates routers, switches and hosts in memory, a Next.js page shows their
terminals and grades the configuration. These modules model the parts of it that
keep state across requests, commands or messages, and what can go wrong between
two of them. Every module is written from the code; PROJECT.json names the lines
behind each definition (`map`), the runs, one plausible bug per property
(`mutants`), the hazards and the proved theorems.

    tlc -config labs_lifecycle.cfg MCLabSessions.tla     model-check a run
    tlapm LabSessions_proofs.tla                         check the proofs

## 1. The system

| Component | State | Operations | Talks to |
|---|---|---|---|
| Lab session control plane: `routers/sessions.py`, `progress.py`, `grading.py`, `simulator/manager.py`, `db/database.py` | rows of `lab_sessions` and `lab_results`; the manager's runtimes and terminals; each runtime's status and generation | start, stop, status, reset, grade, progress; startup sweep | page (HTTP), terminal stream (attach, remove), SQLite |
| Terminal stream: `routers/terminal.py`, broadcast in `simulator/console.py` | viewers of a console, the event loop's callbacks, a queue and a sender task per WebSocket | attach, output chunk, keystroke, stop, close | manager, consoles, page (WebSocket) |
| Node consoles: `simulator/console.py`, `runtime.py`, `ios/commands/runtime_exec.py` | login state, stack of nested ssh/telnet sessions, VTY lines, syslog queue, the device object each session uses | keystrokes, reload, reset, log delivery | each other, through sessions and logs |
| DHCP: `simulator/network.py`, `services.py` | pools, exclusions, bindings, host addresses and lease times | recompute after every configuration change | L2 segments, CLI, VPCS |
| Lab page: `frontend/src/hooks/useLabSession.js`, `lib/api.js` | session, generation, boot state, tokens, sockets, localStorage | start, stop, reset, grade, restore, poll, connect | backend, other tabs through localStorage |
| Accounts: `services/auth.py`, `routers/auth.py` | users, sign-in sessions, sliding-window limiters, browser cookies | register, login, logout here and everywhere, change password | every route |
| Engine cache: `simulator/engines.py`, `runtime.py` | one bundle of derived state per (config version, oper version, second) | get, invalidate, report of link changes | every show command |
| Layer 2: `simulator/l2.py` | derived: line state, trunks, EtherChannel, spanning tree, segments; kept: MAC tables, secure addresses, err-disable | queries, learn, age | L3, DHCP, NTP |
| Layer 3 and OSPF: `simulator/l3.py`, `ospf.py` | derived: routing tables, DR and BDR, adjacencies, SPF; kept: ARP caches | queries, ping, traceroute | L2 |
| NTP, SSH, syslog services: `simulator/services.py` | none of its own: NTP servers, keys, VTY lines, users and RSA keys are in each device's configuration | resolution over the mesh, VTY access, authentication | L3 |
| Grading engine: `grading_engine.py` | none (a function of a snapshot and the lab file) | grade | runtime snapshot, all of the above |
| IOS and VPCS command lines: `simulator/ios`, `simulator/vpcs` | mode stack, line editor, pager, question, history of a session | keystrokes, commands, log messages | everything above |
| Configuration replay: `config_replay.py`, `ios/render.py` | none | print the running configuration, type it in at startup | command line, grader |
| Password ciphers, lab import, other pages | none that outlives a call | | |

What is hard in this code, and hard to test, is listed with its line under
`hazards` in PROJECT.json. In short: `async` handlers, pool threads and WebSocket
tasks that interleave at locks and transactions; runtimes that die with the
process while rows survive; output that arrives while a browser attaches; commands
that wait for input while other consoles replace the device they talk to; lease
state that survives every reconfiguration; and a page whose requests are lost,
delayed and reordered.

What makes each component correct:

- control plane: one running lab per account, nothing left running that no row
  leads to, stopped means stopped, a result describes the runtime that was graded;
- terminal stream: a browser sees a gapless suffix of the console's output, and is
  told when the lab stops;
- consoles: no session on a device that is gone, no VTY line used twice, logs shown;
- command line: a browser that attaches sees what those that watch see, no page is longer than
  the screen, a line runs in the mode its prompt shows;
- DHCP: no address twice, tables agree, leases survive what does not concern them;
- page: it comes to show what the server has, forgets only what has ended, and never
  waits for nothing;
- accounts: limits that parallel requests exceed by their own number at most, nobody signed out unasked,
  everybody else signed out by a password change;
- layer 2: loop-free forwarding, segments that are VLANs, the same answer at both ends of
  a cable, port security that does not cut off whom it just let in;
- layer 3: neighbours that agree, routes along shortest paths, packets that arrive, a
  diagnosis whenever something does not work;
- services: clocks that follow a master, lines that keep what was typed for them, a
  configuration that prints as it can be typed, and a login that is admitted exactly when
  the grader says so;
- grading: 100 percent exactly when everything holds, tasks that count only when they and
  what they require are done, repairs that never cost points.

## 2. Plan

Done, the most important behaviour first: `LabSessions`, its abstraction `LabLifecycle` and
their proofs; `DhcpLeases`; `NodeConsole` and `TerminalStream`; `LabClient`; `SpanningTree`
and `Switching` with their proofs; `SecurePorts`, `Ospf`, `Forwarding`, `Ntp`,
`LineBlocks`, `RemoteAccess`, composed by `Network`; `Grading` on top of it; the proofs of `LineBlocks`;
`Accounts`; `IosTerminal`; then the proofs of `Accounts`, `NodeConsole`, `TerminalStream` and
`DhcpLeases`, of what terminals and rows know in `LabSessions`, of the connected tree in
`SpanningTree` and of the replayed lines in `LineBlocks`; then of segments and loops in `Switching`; and, for the composed network, that its lines
are those of `LineBlocks`, that neighbours agree, that the grader's questions about
access are answered as the commands answer, and that a full score means what it says (`Network_proofs`);
of the screens and pages of `IosTerminal`, beside those of `TerminalStream` (`Terminals_proofs`);
and of what the lab page knows, beside those of `Accounts` (`Browser_proofs`).

Left: syslog delivery between devices.

## 3. The modules

### The backend and the page

**`LabSessions`** — the backend's control plane. `row` and `results` are the tables
`lab_sessions` and `lab_results`; `registry`, `rt` and `gen` the manager's runtimes with
their status and generation; `loop` is the one `async` handler that runs on the event
loop and where in its body it is; `worker` the thread-pool requests (`GET /api/progress`
is a plain `def`); `viewers`, `ws`, `wsSess` the terminal WebSockets, whose attach and
execute run in threads. A step is what one lock (`manager._lock`, `runtime.lock`) or one
SQLite transaction protects: StartLab, StopRunningLabs, CreateRuntime, InsertRow are the
parts of one `start` request. A transaction may fail at any of them (`DbMayFail`), and
`Crash`/`InitDb` kill and restart the process. Left out: rows without an account (no
handler reaches them) and the stored `generation` column (nothing reads it back).

**`LabLifecycle`** — what the above promises: an attempt is inactive, active, stopped;
at most one active per account; only active ones are graded. `LabSessions` implements it
under `phase <- Phase, grades <- results`; this is checked (`LifecycleSpec`) and proved.

**`Accounts`** — `users` and `sessions` are the tables, `events` the time stamps the four
sliding-window limiters keep in memory, `cookie` what each browser holds, `jobs` the
requests that pool threads work on. The handlers are plain functions: each asks the
limiter, verifies a password for 0.2 s and writes in steps of its own, so a job goes from
`start` over `checked` to its last step while others do the same. A restart empties
limiters and jobs and keeps the tables. Hashing is not modelled, a password is compared as
it is; one client IP stands for all.

**`TerminalStream`** — the way of one console's output to browsers: `out` produced so
far, `viewers`, then per connection the callbacks that the loop has still to run (`ready`), the
queue, the chunks in flight in the sender task, and the `screen`. `base` is where its initial
snapshot ends. The loop runs its callbacks in order; those of different handlers write
different queues, so each handler has a queue of its own. A send may fail at any time
(`SendFails`), which ends sender and handler.

**`LabClient`** — the page. `page` holds the React state, `op`, `poll`, `restore`,
`grade` the requests on their way with their tokens, `late` overtaken requests a server
may still handle, `stored` the localStorage record, `sock` a terminal's socket. The
server is the abstraction LabSessions provides to one account: at most one running
session, stopped is final, reset raises the generation. Choosing another lab is a page
load. One node's socket stands for all; a runtime is ready as soon as it exists, so the
not-ready status never occurs. Overlays and keyboard shortcuts are not modelled.

### A runtime's consoles and leases

**`DhcpLeases`** — `config` holds what commands set (pools, exclusions, static addresses,
which segment a host is in), `bindings` the servers' tables, `leased` and `since` what
each host holds. Every command ends in `mark_changed`, which runs `recompute_dhcp` before
the lock is released, so `MarkChanged` is part of each action. `Recompute` drops what is no
longer valid and serves the hosts one after the other, holders first: `Served` is the loop, a
recursive function over the hosts served so far, in the order `ServedBefore`, with `Serve` as its
body. `clear ip dhcp binding` is the one command that
does not recompute. `expires_at`, `renew`, `release`, `expire_bindings` and
conflicts have no caller and are left out.

**`NodeConsole`** — `inc[n]` counts the device objects a node has had (`reload` and
`reset` replace it), `con[n]` is its console: login state, stack of frames (console, then
nested ssh or telnet sessions, each with the incarnation and the VTY line it uses), the
command that waits for input, and the syslog queue. A keystroke with `_after_input` is
one step under `runtime.lock`. `TerminalMonitor` stands for `terminal monitor` and its
`no` form; idle timeouts, history, line speed and screen bytes are left out.

**`IosTerminal`** — one session of a device: the line discipline (`ios/terminal.py`) and the mode
stack of the shell. The code never looks at the screen: it keeps line, cursor and mode and writes
what should bring the screen there. `tty` is the row of the cursor as those bytes make it, so
that what watching browsers show can be compared with the `Redraw` that one gets which
attaches. A keystroke is an action; a command is a script of the items its generator
yields (output, questions, mode changes, sizes), chosen among those of the mode when the
line is entered, and pumped item by item without interruption, but for `--More--` and questions,
where keys and log messages come in. `torn`, `mixed`, `unseen` and `afterCr` are history:
that the row is not what the code takes it for, that a message went into a row in use, the lines
since the last key, and what the last character was.

### Layer 2

**`SpanningTree`** — the computation of one VLAN's tree (`L2Fabric._stp_vlan`): take a
component, start at its bridge of lowest id, pop the bridge with the best offer from the
heap, relax its neighbours, assign roles. Its inputs are the ports that carry the VLAN
with their costs and ids over symmetric cables. The heap, outdated entries included, is
a set; the per-component maps are one function.

**`Switching`** — the fabric between the interface configuration and the
broadcast domains. `cfg`, `vlans`, `edge`, `guarded` are what commands set, `violated` the
ports a frame err-disabled; everything else is derived, as in the code, which drops the
fabric at every change: line state with BPDU guard (`PhysUp`, `LineUp`), bundling
(`Candidate`, `Bundled`), DTP (`Trunking`), the forwarding ports of each VLAN and the
joins of switch VLANs and devices that `segment_of` queries (`Segment`). The spanning
tree is what `SpanningTree` shows the algorithm to compute, with default costs and
priorities; a command of the `no` form that restores a default is the command with that
value. VTP clients, encapsulation mismatches, SVIs, routed and device-to-device links and
the counting behind a violation are left out; a device's interfaces are up.

**`SecurePorts`** — that counting, and learning: `table` is the MAC table of every switch, `sec`
each port's port-security configuration and state, `shut` what is administratively down. A
frame enters the switches between two devices by the ports `Enters` names; each learns its
source, and a secure port passes it, drops it or goes down (`SecureAdmit`). `Admits` is the
question without learning that `reachable` asks. The LAN is one VLAN without a ring:
which ports forward is `Switching`'s subject.

### The simulated network

Four modules build on each other, each with variables of its own and operators over the rest.
Nothing is exchanged between devices: all is computed from the configuration when a
command asks, so these modules are mostly functions of the state, and what can be wrong is
that two of the computations disagree.

**`Ospf`** — which interfaces run OSPF (`Claims`, `Areas`), groups on a segment, DR and BDR
(`Designated`, `Backup`), `Neighbours` and `Full`, the edges of an area, `Spf` in rounds of equal
distance, `Routes` with equal-cost hops and default routes, and `Diagnose`. Its actions are the
interface and process commands. **`Forwarding`** — routing tables (`Candidates`,
`InstallBest`), `Forward` hop by hop with what it asks for at each, `Traceroute`,
`Reachable`, and a ping of five echoes (`Echoes`), each of which teaches ARP caches and switches
and may take a port down for the next one. `Snapshot` is the engine's cache of one configuration;
`Teach` replaces it where the code does. **`Ntp`** — `Sync` is the recursive resolution over
reachable servers with authentication, `NtpDiagnose` the explanation.
**`LineBlocks`** — VTY lines: `vty` are the blocks, which `line vty` splits at the edges of
its range (`VtyRange`), `open` the line submode of every editor with the blocks it holds;
`typed` and `shared` are history: what the commands gave each line, and which devices were
split under another editor. `Rendered` is the running configuration, `Replayed` what it makes
of other blocks when it is typed in, block by block in the order of lines. **`RemoteAccess`** — `VtyAccess`, `Authenticates` and `FreeVty`: who is let in, where a session
runs; `SshAuthenticate` and `TelnetRefused` are the grader's questions.

**`Network`** composes them: one command or ping at a time, as under the runtime's lock. A
lab (`lab`) is a startup configuration with the interfaces, routers and ports that are worked on, the
pings that are tried and how much of each (`left`). **`Grading`** adds the grader: `Requirements` from
the solution's lines, the states they imply and the checks; `Moved` and `Kept` for
dependencies and consequences between them; `PassedTasks` and `Report`. `report` is what the
last report said, so that a repair can be compared with it.

Addresses are numbers below `Space`, networks `<<base, size>>`, strings model values, keys
and texts small numbers. Interfaces are `<<device, number>>`, ordered as in the files.

The `MC*` modules give the constants of the runs. Operators such as
`StartLabIgnoringGraded` that no action uses are the plausible bugs `mutants` names.

## 4. The runs

| Run | Instance | What it shows |
|---|---|---|
| `labs_lifecycle` | accounts u1 (two attempts) and u2 (one), one progress thread, two generations, failing transactions, crash | OneLabPerAccount, NoLeakedRuntime, GradeMatchesGeneration, LifecycleSpec |
| `labs_terminals` | one account, two attempts, one WebSocket, one thread, no failing transaction, crash | TerminalBacked, RowsCurrent, TerminalsClose |
| `accounts` | one account signed in on two browsers, another address, two threads, three requests, one tick, restarts | ExcessBounded, OthersSignedOut, SignedOutOnRequest |
| `accounts_limit` | the same | LimitKept is violated |
| `client` | three sessions, two of this lab; four acts, two faults | KnowledgeForward, Settles |
| `dhcp` | two hosts, two pools that may overlap, one of which may have a single free address | NoDuplicateAddress, BindingsBacked, LeasesSticky, NoHostStarves |
| `consoles` | two routers, one with a login gate, two VTY lines, sessions three deep; beside them two browsers, three chunks, attach and stop at any moment | SessionsCurrent, VtyLinesExclusive, NothingLost, ChunksArrive |
| `console_synchronous` | the two routers with `logging synchronous` on one of them | LogsShown is violated |
| `terminal` | lines of two characters, two kept lines, pages of two lines or none, questions of every kind, three frames of modes | ScreensAgree, PageFits |
| `spanning_tree` | four switches, any subset of seven cables, one deviating cost, both id orders | OneDesignated, BestOffer, SpansComponent |
| `switching` | three switches, two joined by two cables, two hosts, a router with a tagged subinterface, three startup configurations, two groups, two VLANs, any two commands or violations | BundledAtBothEnds, SegmentsAreVlans, LoopFree |
| `network` | three routers, two switches, three hosts, forty-five startup configurations (below), up to three commands and two pings | NeighboursAgree, DiagnosisComplete, RoutesShortest, RoutedArrives, EchoesArrive, ClocksTraceable, AccessAgrees, LinesAsTyped, LinesRestored, FullScoreMeansSolved, TasksEarned, RepairKeepsScore |

Five more configurations are kept beside these runs. `terminal_modes.cfg` checks IosTerminal's TypeOK,
HistoryReachable and StackShape, which hold, with longer output, more page lengths and a fourth frame.
`client_restore.cfg`, `terminal_enter.cfg`, `terminal_message.cfg` and `terminal_logout.cfg` each state
what a text of the repository says, and TLC finds it violated.

`consoles` checks `NodeConsole` and `TerminalStream` one beside the other. They share no state: which
sessions a console has does not depend on who watches it, nor the way of a chunk on what it says. So
one moves while the other is in its initial state; their interleavings would only multiply the states.

**The labs of `network`.** Routers 1, 2, 3 in a row on two cables and together on a LAN of two
switches, with a host at each switch and one behind router 3: the smallest network with a
broken or whole LAN, two ways of different cost, and a route that needs three hops. Startup
configurations: one area, two areas with costs and priorities that leave segments without
a DR, static routes and gateways, port security on one of three ports with all of its modes,
clocks in which two routers name each other (worked on from each of three sides) and with
signed time, VTY lines in one block and in four. Exercises have a solution, tasks and checks:
routers to be addressed and joined by OSPF, begun in 28 ways (any four or more of six steps
done, or all but one and a mismatch), clocks, and SSH in five ways. Two commands
suffice to disagree with a neighbour in two respects or to break and repair; three are used where
blocks are split, set and split again; two pings, because the first leaves what the second meets.

**Why the other bounds suffice.** In `labs_*` all conflicts are between two attempts of one
account, or an attempt and one thread or socket; the third attempt of another account
shows that accounts do not disturb each other. Two generations distinguish before and
after a reset. `accounts` has limits of one and two tries, which two threads exceed together; three
requests are a sign-in that ends between the check and the write of a password change, and one
more that uses what is left; the one tick ends the window and the first sessions. In `dhcp` hosts compete pairwise for an address and pools for a
host; two addresses in each network give the cases free, last one and exhausted. Two VTY lines
are exhausted by two sessions, and a stack of three frames has a session in the middle of
which the device may vanish. Three chunks give before, during and after an attach. Two characters give a cursor
at the start, in the middle and at the end of a line, and a word with a blank beside it; output
of one line more than a page stops it at its first, a later and its last line, with and without
a piece of a line behind; three frames are the exec, configuration and a submode or a
`do configure terminal`. To keep it small, `ShortLines` allows lines of two characters only
with one line in the history and without pages, which lines do not depend on. Four
switches give rings of three and four, parallel cables and a component split. In
`switching` a wrong segment needs a ring (three switches) or a bundle (two cables) and
disagreement of two ends, which two commands make from startups that agree; which cable of
a kind they hit does not matter, so five interfaces take commands.

**Narrow statements.** Some properties say less than one would like because the code
promises no more.

- `RowsCurrent` needs transactions that succeed: a failed write after a runtime was
  removed leaves a row for the next status request to correct. `NoLeakedRuntime` holds regardless.
- `NoHostStarves` excuses a host whose free address was bound in an overlapping pool until
  this very recompute, or is used after a cleared binding: it is served at the next change.
- `ExcessBounded` says how far limits are exceeded, not that they are kept: `LimitKept`, the promise of
  the docstring, is violated (Findings).
- `SegmentsAreVlans` and `LoopFree` are about cables whose ends are configured alike: with
  different native or access VLANs the code joins the two VLANs, as the frames would, and
  spanning tree, which runs per VLAN, does not see the loop that this can close.
- `BundledAtBothEnds` is about Port-channels cabled in parallel: with crossed cables each
  switch keeps the group most of its own cables lead to, and the other end may choose differently.
- `RoutedArrives` is about routers without static routes and at most one announced default route:
  two routers that announce one with `always` send a packet for it to each other. That it ends
  at the owner, and that traceroutes agree, needs addresses that are not used twice.
- `DiagnosisComplete` and `ClocksTraceable` count strata: the ways of the labs are shorter than 16.
- `LinesAsTyped` is about devices that nobody split under another editor's line submode.
- `RepairKeepsScore` is about labs that keep each interface, and the OSPF of each router, in one
  task.

**Deadlock** is checked except where the system may stop: a page at rest, a
session that was closed, a finished tree, a network or server whose bounded commands and requests are used up. Of a stopped stream, `Over` names the end.

**Fairness.** `LabSessions`: weak fairness of the loop's steps and of pool threads, which
run what they have; strong fairness of a WebSocket's stop and detach, which wait for the
loop while handlers keep taking it: asyncio serves its ready callbacks in order. None for
user requests, failures or crashes. `TerminalStream`: weak fairness of each handler's callbacks, its
sender and its closing, as the loop serves its ready queue in order; none
for output, attach, stop, failing sends or browsers that leave. `LabClient`: weak fairness of the server's handling, replies
and timers; none for clicks, other devices or failures, whose number is bounded. The other
modules state no liveness: their steps are whole commands.

**Type invariants.** Each module has one. Those of `LabSessions`, `Accounts`, `TerminalStream`,
`DhcpLeases`, `SpanningTree`, `Switching`, `LineBlocks` and `IosTerminal` are proved, that of `NodeConsole` as
far as its properties need it; those of the other modules document their state.

**Findings.** Six places where text and code disagree, the first two shown by the runs `console_synchronous`
and `accounts_limit`, the others by the four configurations beside the runs. A held syslog line stays hidden at an idle prompt after a reload closes the nested
session (`console.py:641` against `close_sessions_into`). A limiter lets more than "at most `limit` events"
through in a window: it is asked before the work and told after it, so requests in progress together
all pass with one try left and are all counted (`services/auth.py:202` against `routers/auth.py:49`). A page load that finds a
stored, stopped session does not look for the account's running one (`README.md:13`
against `useLabSession.js:427`). A line feed after Enter and a cursor key is taken for the second
half of that Enter (`terminal.py:86`). A log message at `--More--` is written into that row
(`terminal.py:158`). `do logout` in configuration mode ends it without the message of
`shell.py:39`.

## 5. The proofs

**`LabSessions_proofs`**, for any accounts, sessions, connections, threads and
generations, from four assumptions on the constants (every session has an owner;
`NoSession` is not a session; the bound is a number; `DbMayFail` is Boolean).
`TypeCorrect` first. The safety invariants are not inductive: between two steps a
handler acts on what it read. `IInv` adds what it knows: a registered runtime runs
(`RegisteredRuns`); while a start purges, `todo` and the victim in hand cover every active row
of its account (`PurgeCovers`); what holds at each point of the loop, for instance that a
grade between snapshot and record still names a registered runtime at the generation it
took (`LoopKnows`); the rows a progress thread is about to stop have lost their runtime
for good (`WorkersKnow`); nothing is registered while the process is down
(`DeadIsEmpty`). `InductiveInvariant` proves it step by step; the named results and
`LifecycleImplemented` follow. `TerminalBackedHolds` adds what each point of a WebSocket handler
implies for terminals and viewers (`WsKnows`), and `RowsCurrentHolds`, under `~DbMayFail`,
what rows and results say while a handler is between two of its writes (`RowsKnow`). TLC checked `IInv` on the instances above first. Two of the results
are no run's properties: `StoppedIsFinalHolds`, and `OnlyDeadRowsStoppedHolds`: a row becomes
stopped only when its runtime is not registered, failing transactions or not.

**`SpanningTree_proofs`**, for any finite set of ports, symmetric cables, positive costs and
distinct ids.
`IInv` says: no cable leaves a component and none is smaller (`ComponentsKnown`);
every offer comes through a root port from a popped neighbour (`OffersKnown`); every
waiting bridge has its current entry in the heap, besides which there are only worse ones
(`HeapKnown`); popped bridges are nearer than waiting ones (`PoppedInOrder`) and have
relaxed their neighbours (`Relaxed`); the roles of a finished component follow from its
distances (`DoneKnown`). From it, `OneDesignatedHolds` (each cable of a finished component has
exactly one designated end, ties broken by id and port) and `BestOfferHolds`. `SpansComponentHolds` is
the tree itself: in a set of bridges that leaves some out, one nearest to the root among those left out
has a root port that forwards into it (`NearestExists`, `RootPortForwards`), so the
forwarding cables connect the component (`ConnectedDone`); and root ports and forwarding cables
are in bijection (`CablesCounted`), one for each bridge but the root, so there is no loop.

**`Switching_proofs`**, for any finite sets of switches and VLANs, symmetric cables between different
switches of which the lab file names one end first, groups and any number of commands; a device has one
cable (one with several interfaces is several devices) and endpoints are of one device. `TypeCorrect`, one lemma per kind of command,
then what both ends see alike: the modes that bundle (`ModesSymmetric`), the line
(`PhysUpSymmetric`) and so the candidates (`CandidateSymmetric`); where all candidates of a
group lead to one group the vote is for it (`ParallelBundles`), hence `BundlingCorrect`.
`NegotiationAgrees` is the table of DTP modes for two negotiating ports.

`LoopFreeHolds` and `SegmentsAreVlansHolds` are about what the fabric computes from a typed configuration
(`NoLoops`, `SegmentsCorrect`), so `TypeCorrect` is the invariant they need. `Reach` repeats a
step as often as there are pairs; each round that is not the last uses another pair, so the result is
closed (`ReachClosed`) and least (`ReachLeast`). In the same way each round of walks finds the
distances of more switches, so those of `_stp_vlan` exist (`WalksAre`, `DistancesAre`): a switch at no distance is
a root, any other has a nearer neighbour. Configured alike, the ends of a cable carry the same VLANs and send
what the other takes for the same VLAN (`EdgeIs`, `JoinIs`). Of a cable that forwards at both ends
the end farther from the root is the root port of its switch (`FartherIsRootPort`), and a switch has one
(`OneRootPort`): so no other cable leaves the switches behind it (`Behind`), and there is no loop.
Conversely the root port of a switch leads to a nearer one over a cable that forwards at both ends (`WayToRoot`),
so all switches of a tree are joined to its root (`RootJoined`), by the least distance for which one
were not; frames leave a VLAN neither over these cables nor through a device, which is a leaf of the
graph (`GraphIs`, `SegmentWithin`).

**`Network_proofs`** is about `LineBlocks`, `Network` and `Grading`.

*Lines*, for any devices, editors, numbers of lines and ranges, from
`LineAssumption` alone: the behaviours of `LinesSpec`, any line commands of any number of editors
in any order. `LinesAsTyped` is not inductive: a command sets blocks, and has to reach exactly the
lines of its range. `LinesIInv` adds that blocks are not empty and share no line (`Proper`), and that
on a device nobody disturbed one editor at most is in a submode, whose blocks are those inside
its range with none partly in it (`Alone`, `HoldsRange`). The argument is about `VtyRange`: the pieces
of a cut block share its lines out and keep its settings (`CutPieces`), the runs of missing lines are
apart and around each missing line there is one (`RunsApart`, `RunAround`, which need a least and a
greatest number of a set and get them by well-foundedness), so splitting keeps types, blocks
apart and the settings of every line (`SplitTyped`, `SplitProper`, `SplitSettings`). Then one lemma per
action, `LinesInductive`, and `LinesAsTypedHolds`. `LinesRestoredHolds` is about printing and typing in again.
Printed blocks have the lines and settings of the device and begin at different lines
(`PrintedBlocks`); a printed block sets all that it can, so that retyping it gives its settings to lines
that are new or have them already (`EnteredSettings`, `RetypedBlocks`); and after the blocks up to a line,
lines covered so far are as on the device and the others as new (`ReplayRestores`). What is left
over is right because the default lines are never removed (`DefaultsKeptHolds`, an invariant of
its own), and the grader's question to the printed blocks is that to the lines (`CoversLines`).
`LinesImplemented` carries both to the network: every step of `GradingSpec` is one line command or leaves the
lines alone, and the labs start with line blocks that are apart (`StartupAssumption`), so
`GradingSpec => LinesSpec`; `NetworkLinesTyped` and `NetworkLinesRestored` follow.

*Neighbours*, for any routers, cabling, areas and costs, from `CablingAssumption` and `TreeAssumption`: in a LAN
that is a tree the way back takes the same cables, and a way takes no cable that a detour does
not. So two interfaces hear each other or neither does (`JoinedBack`), a router's neighbours of one area are each
other's (`JoinedOn`), all of them elect among the same group (`OneGroup`), and `NeighboursAgreeHolds`.

*Remote access*: the address leads to one first interface (`OneFirstPort`, `HoldersAre`); a login and a
line are read off blocks that are apart (`SameBlock`, `AtBlock`, from `LinesIInv` by way of
`LinesImplemented`); the free line with the least number is the one of the login if all are free
(`FreeLine`, `FirstFreeLine`). `SessionsSound`, `GraderAgrees` and `PreparedAuthenticates` are the three conjuncts of
`AccessAgrees`.

*Scores*: a requirement that stands for a line of the solution is neither dropped nor moved (`LinesAreKept`), and a failure is dropped only
when a line failed (`NothingHidden`), so the percentage, which is at most 99 otherwise, is 100 only if no
requirement failed (`FullOnlyWhenAllPass`), for every lab.

**`Browser_proofs`** is about the lab page, `LabClient`, and about `Accounts`.

*What the page knows*, for any sessions, acts and failures, from the assumptions of `LabClient`.
`KnowledgeForward` is a property of steps, and what such a step does was settled when the server
answered, acts of other devices and failures ago. `ClientInv` therefore says of each reply what is
still true when it is read: a session it names was created and does not go away (`Created`), one it
says is stopped stays stopped, and its generation lies between the one the page has and the one the
server has (`Answered`, `StatusSays`). The lower bound needs that the page waits for one thing at
a time (`OpKnows`, `PollKnows`, `RestoreKnows`): an operation puts off the poll, a page load puts off
both, and what is put off goes on at the server only as a late request whose reply nobody reads.
Every step of the server is one that `Grows`, and such steps leave all of this true.

*Accounts*, for any addresses, passwords, browsers, limits, windows and any finite pool of
threads, from the assumptions of `Accounts`. `ExcessBounded` is not inductive: a limiter is told after
the password was hashed, by which time others have asked it. `IInv` adds what a request in progress
carries (`JobsKnown`) and, for each limiter and key, that events in the window and requests that passed
and have still to be counted (`Pending`) stay below the limit and the other threads
together (`Headroom`). Windows are kept by dropping a prefix of time stamps
(`Suffix`, `RecentKept`, `RecentAppend`). `OthersSignedOutHolds` and `SignedOutOnRequestHolds` are
about the tables: tokens are never used again, and each delete names its sessions.

**`NodeConsole_proofs`**, for any devices, gates, VTY lines, stack depth and number of replaced devices.
`IInv` adds to the two results what the state of a console implies for its stack, dialog and target
(`Sane`). What waits in syslog queues does not matter, and most steps touch queues of other
consoles, so consoles are compared by everything else (`Like`), and a step is proved by naming the
consoles whose sessions change. The line for a session is the lowest free one at the moment the
dialog ends (`LineHeld`), not the one that was free when it began.

**`Terminals_proofs`** is about the two halves of a terminal, `IosTerminal` and `TerminalStream`.

*Screens and pages*, for any letters, lengths of lines, history, output and pages, depth of modes and rows
wide enough for a line and what is before it, from the assumptions of `IosTerminal`. `ScreensAgree` is not
inductive: what a command prints must end in an empty row before the prompt comes, and the
code does not look. `IInv` adds what the code relies on: after a piece of a line a command prints no
more (`Command`, shown for every script by `ScriptsFine`), so a row in use is the last one
(`InCommand`); at `--More--` the row holds nothing else (`AtMore`); an answer stands behind its question, or
alone when output was pending, or is cut where a log message broke it (`Asking`); and rows that
scrolled by are at most those the pager counted, since the last line of a command that sets
the page length comes after it (`Counted`). `HistoryPrev` and `HistoryNext` stay in the history
(`Navigable`). Rows are compared cell by cell: writing replaces the cells it covers (`PutIs`, `Written`,
`Edited`), so each key of the editor, which writes only what changed and blanks behind it, leaves
the row that printing prompt and line anew would give (`InsertShown`, `EraseShown`, `DeleteShown`,
`KillShown`, `MovesShown`, `ReplaceShown`). `InductiveInvariant` has one lemma per key and per step of the
pump; TLC checked `IInv` on a small instance first. `RedrawIs` leads from it to `ScreensAgreeHolds`;
`PageFitsHolds` is a part of `Counted`.

*The stream*, for any connections and any number `MaxChunks` of chunks. `StreamInv` says where a browser's chunks
are: screen, flight, queue and callbacks in a row (`Whole`) are the consecutive chunks since the attach, with the
sentinel last if the runtime has stopped (`Arrived`, `Follows`), for each stage of handler
and sender (`Stage`). Each step moves a piece of that row (`MoveOne`, `HandedOver`) or appends
to it (`AppendLast`).

**`DhcpLeases_proofs`**, for any finite set of hosts, any pools, networks and offers, with overlaps. The
work is in one step, the recompute, a loop over all hosts. `LoopInv` is its invariant: bindings are valid,
addresses and clients distinct, those of hosts already served are in the pool that serves them, and
no lease that may stay is lost. Served hosts are counted: the order is total (`OrderTotal`), so each set
has a last host (`LastExists`); the recursion computes what it says (`ServedIs`), and `LoopCorrect` is the
induction. `RecomputeLeases` sums it up for the commands, of which `ClearBinding` alone leaves a
host with an address and no binding; the results follow, `LeasesStickyHolds` from the same loop invariant.

**Induction over data.** The prover cannot use the library's induction rules. Where a proof needs
induction over numbers or sizes (the loop over hosts, the replay, runs of lines, time stamps), it takes
the least counterexample, which exists because `<` on the naturals is well-founded, and shows
that there is a smaller one; what a recursive function computes is shown in the same way, from partial
functions that agree with it (`ServedIs`, `ReplayedIs`).

**Only model-checked.** Liveness (TerminalsClose, ChunksArrive, Settles): temporal reasoning
with ENABLED is beyond the prover. `NoHostStarves`: that a free address was free when its host was served
needs the reasons for which every other host was served as it was. `RoutesShortest`, `RoutedArrives`, `EchoesArrive` and `ClocksTraceable` are about recursive operators or
sequences of frames. `DiagnosisComplete`, `TasksEarned` and `RepairKeepsScore` depend on how the labs are made. `HistoryReachable`, `StackShape` and `ConfigExitsLogged` of `IosTerminal` are left to TLC.

## 6. What a reader of the code may not expect

The models keep these; none contradicts a statement of the repository, apart from the six findings.

Routing:

- SPF crosses a segment between any two routers that hear each other, also a pair that stays in
  2WAY because the segment has no DR; a router with `no ip routing` is still crossed.
- `forward` takes a connected network before a longer prefix, and a static route whose next hop
  is found through OSPF still asks for that next hop on the last segment (`arp-failure`).
- Equal routes of several areas share their hops beyond `maximum-paths`.
- traceroute to a loopback shows the address it came in by last.
- Two routers that both announce a default with `always` loop for it.
- `show ip ospf database` lists routers of disconnected parts and one network LSA per segment,
  and the process summary counts neighbours of all processes; both are display.

Switches:

- Whether `reachable` admits the frames of a way is asked frame by frame, so that it may say yes where a
  ping, whose earlier frames teach addresses, violates port security.
- `default interface` and `no ... sticky` on an err-disabled port leave learned entries;
  `default interface` also moves the interface to the end of the file.
- In `show etherchannel` a flag depends on the order of queries, because a port counts as not
  err-disabled while it is being evaluated (`l2.py:443`).

Services:

- Two routers that list each other can each show the other as its reference behind one master;
  `show ntp associations` gives `+` without looking at keys; the first usable server by
  address is taken, whatever its stratum.
- RSA keys are not in the running configuration: a device that reloads has no SSH until they are made
  again.
- A session runs on the first free line that takes its transport, which may be in another block
  than the one whose login was checked, when that block is busy; the block is looked up by name
  after the dialog, so a split during it refuses the login. `AccessAgrees` compares the check and the choice
  of the line in one state of the settings. `access-class` is not enforced.
- Two editors in line submodes of one device split blocks under each other, and commands then miss
  lines or reach others (`core.py:336`). Blocks that differ only in having been configured print apart.

Terminals:

- Ctrl-C at a question whose text ended a line (the text of a multi-line banner), or in whose row a log
  message was written, draws the prompt behind what has been typed of the answer.
- `do configure terminal` in configuration mode puts a second configuration frame on the stack, which
  `exit` leaves one at a time.
- `do disable` in configuration mode leaves privilege 1 there: global commands are refused, but in a
  submode the fallback to the parent mode still runs them as privilege 15.

Grading:

- `requires` is followed in the order of lab.yaml. A failed requirement is dropped when a failed
  line of the same task explains it; with the lines of one interface over several tasks a repair
  can move a requirement and cost points.

Accounts and page:

- Requests in progress together exceed a limiter by one for each other thread (a finding, section 4); a
  sign-in that verified the old password before it changed creates its session afterwards.
- When the write of a reset fails, the row of a graded lab says graded although the lab was reset.
- After a start that timed out in the browser the page shows no session while the lab runs, until it is
  loaded again.
- Replies of `AuthProvider` are applied in the order they come.

## 7. Not modelled

- **Engine cache and report**: the bundle is keyed by a version that every command raises; all
  modules derive what they need anew, which is what the cache promises. Of its staleness inside one
  command, `EchoesArrive` is the part with consequences.
- **Of layer 2**: SVIs, subinterfaces other than the router's tagged one, VTP clients,
  encapsulation mismatches, aging. **Of layer 3**: layer 3 switches, interface counters, addresses from
  DHCP (they are `DhcpLeases`' subject), process-clear timers. **Of services**: syslog delivery
  between devices, logging levels, clocks and time zones, CDP and LLDP.
- **Of grading**: matching single configuration lines by pattern, which is text; checks for features
  that are not modelled (switching, DHCP and syslog); the formatting of reports.
- **Command line**: the command tree and help; commands that only show. Of the terminal: the parsing of
  escape sequences (keys arrive whole), lines longer than the screen, output filters, pauses, a
  command that fails, the exchange of histories between nested sessions (whose commands are
  `NodeConsole`'s), and the host name in the prompt. The commands that change the modelled state are
  actions of the module they act on.
- **Password ciphers, schema and lab import, other pages of the frontend**: values, straight-line SQL and
  presentation.
