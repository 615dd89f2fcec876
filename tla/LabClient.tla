------------------------------ MODULE LabClient ------------------------------
(***************************************************************************)
(* The lab page in the browser (useLabSession) against the backend, over a *)
(* network that delays, loses and reorders.  One account, one lab page;    *)
(* other tabs and devices of the account act on the same server.           *)
(*                                                                         *)
(* Every request has three moments: it is sent, the server handles it, and *)
(* the page handles the reply; the page and the server go on in between.   *)
(* A request that times out may still be handled later.  The page tells a  *)
(* reply that is still wanted by its tokens: operationTokenRef for start,  *)
(* stop, reset and restore, statusPollTokenRef for the status poll.  Here  *)
(* a request whose token was overtaken is moved to `late` (the server may  *)
(* still handle it) or forgotten (a status request changes nothing).       *)
(*                                                                         *)
(* The server is what LabSessions guarantees to a client: at most one      *)
(* session of the account runs, a stopped session stays stopped, a reset   *)
(* raises the generation.  Its nodes are ready as soon as it runs.         *)
(***************************************************************************)
EXTENDS Naturals, FiniteSets

CONSTANTS
  Sessions,       \* sessions the server may create
  Here,           \* those of the lab whose page is open
  NoSession,      \* "no session", not in Sessions
  MaxErrors,      \* MAX_BOOT_STATUS_ERRORS
  MaxActs,        \* bound on clicks, page loads and other devices' acts
  MaxFaults       \* bound on failures of the server and the network

ASSUME HereAssumption == Here \subseteq Sessions
ASSUME NoSessionAssumption == NoSession \notin Sessions
ASSUME BoundsAssumption ==
  MaxErrors \in Nat \ {0} /\ MaxActs \in Nat /\ MaxFaults \in Nat

VARIABLES
  phase,    \* server: "none", "running" or "stopped" for each session
  sgen,     \* server: generation of each session
  page,     \* state and refs of the hook
  op,       \* the start, stop or reset request the page waits for
  late,     \* requests the page does not wait for any more
  poll,     \* the status poll
  restore,  \* the look for a session after a page load
  grade,    \* the grade request
  stored,   \* the session in localStorage
  sock,     \* the terminal WebSocket of the (one) node
  acts,     \* acts so far
  faults    \* failures so far

server == <<phase, sgen>>
clientVars == <<phase, sgen, page, op, late, poll, restore, grade, stored, sock, acts, faults>>

-----------------------------------------------------------------------------
(* Replies.  A generation stands for a reply that names it; 0 for one that *)
(* says the session is stopped.                                            *)

NoReply == [kind |-> "none", id |-> NoSession, gen |-> 0]
Ok(s, g) == [kind |-> "ok", id |-> s, gen |-> g]
Error == [kind |-> "error", id |-> NoSession, gen |-> 0]

NoRequest == [op |-> "none", id |-> NoSession, at |-> "none", reply |-> NoReply, n |-> 0]
NewRequest(name, s) == [op |-> name, id |-> s, at |-> "sent", reply |-> NoReply, n |-> acts]

\* The token moves on: an operation not yet handled by the server is late.
Overtaken(r) == IF r.at = "sent" THEN {[op |-> r.op, id |-> r.id, n |-> r.n]} ELSE {}

PollOff == [at |-> "off", errors |-> 0, reply |-> NoReply]
PollStart == [PollOff EXCEPT !.at = "sent"]
RestoreOff == [at |-> "none", id |-> NoSession, reply |-> NoReply, wanted |-> {}]

BlankPage ==
  [session |-> NoSession, gen |-> 0, ready |-> FALSE, booting |-> FALSE,
   timed |-> FALSE, active |-> FALSE, expected |-> 0,
   grading |-> FALSE, report |-> NoSession]

\* The socket effect depends on the session, its generation and runtimeReady.
SocketEffect(p) ==
  IF <<p.session, p.gen, p.ready>> = <<page.session, page.gen, page.ready>> THEN sock
  ELSE IF p.session # NoSession /\ p.ready THEN "connecting" ELSE "none"

Running == {s \in Sessions : phase[s] = "running"}

ClientInit ==
  /\ phase = [s \in Sessions |-> "none"]
  /\ sgen = [s \in Sessions |-> 0]
  /\ page = BlankPage
  /\ op = NoRequest /\ late = {}
  /\ poll = PollOff /\ restore = RestoreOff /\ grade = NoRequest
  /\ stored = NoSession
  /\ sock = "none"
  /\ acts = 0 /\ faults = 0

Act == acts < MaxActs /\ acts' = acts + 1
Fault == faults < MaxFaults /\ faults' = faults + 1
NoAct == UNCHANGED acts
NoFault == UNCHANGED faults

-----------------------------------------------------------------------------
(* The server: what handling a request may do, and the reply.              *)

Halted == [t \in Sessions |-> IF phase[t] = "running" THEN "stopped" ELSE phase[t]]
HaltedOnly(s) == [t \in Sessions |-> IF t = s THEN Halted[t] ELSE phase[t]]
Outcome(p, g, r) == [phase |-> p, sgen |-> g, reply |-> r]

Handled(r) ==
  CASE r.op = "start" ->
         {Outcome([Halted EXCEPT ![s] = "running"], [sgen EXCEPT ![s] = 1], Ok(s, 1)) :
            s \in {t \in Here : phase[t] = "none"}}
    [] r.op = "stop" -> {Outcome(HaltedOnly(r.id), sgen, Ok(r.id, 0))}
    [] r.op = "reset" ->
         IF phase[r.id] = "running"
         THEN {Outcome(phase, [sgen EXCEPT ![r.id] = @ + 1], Ok(r.id, sgen[r.id] + 1))}
         ELSE {Outcome(phase, sgen, Error)}

\* A request that fails (HTTP 500) may have had part of its effect: the start
\* after the account's labs were stopped, the reset before its UPDATE.
Failed(r) ==
  {Outcome(phase, sgen, Error)} \cup
  (IF r.op = "start" THEN {Outcome(Halted, sgen, Error)}
   ELSE {Outcome(o.phase, o.sgen, Error) : o \in Handled(r)})

Becomes(o) == phase' = o.phase /\ sgen' = o.sgen

StatusOf(s) == Ok(s, IF phase[s] = "running" THEN sgen[s] ELSE 0)

OpHandled ==
  /\ op.at = "sent"
  /\ \/ NoFault /\ \E o \in Handled(op) :
          Becomes(o) /\ op' = [op EXCEPT !.at = "answered", !.reply = o.reply]
     \/ Fault /\ \E o \in Failed(op) :
          Becomes(o) /\ op' = [op EXCEPT !.at = "answered", !.reply = o.reply]
  /\ NoAct /\ UNCHANGED <<page, late, poll, restore, grade, stored, sock>>

LateHandled ==
  /\ \E r \in late :
       /\ late' = late \ {r}
       /\ \E o \in Handled(r) : Becomes(o)
  /\ NoAct /\ NoFault
  /\ UNCHANGED <<page, op, poll, restore, grade, stored, sock>>

PollHandled ==
  /\ poll.at = "sent"
  /\ \/ NoFault /\ poll' = [poll EXCEPT !.at = "answered", !.reply = StatusOf(page.session)]
     \/ Fault /\ poll' = [poll EXCEPT !.at = "answered", !.reply = Error]
  /\ NoAct /\ UNCHANGED <<server, page, op, late, restore, grade, stored, sock>>

\* GET /api/progress names the running session if it is of this lab.
ActiveHere == IF Running \cap Here = {} THEN Ok(NoSession, 0)
              ELSE LET s == CHOOSE t \in Running \cap Here : TRUE IN Ok(s, sgen[s])

RestoreHandled ==
  /\ \/ /\ restore.at = "find"
        /\ \/ NoFault /\ restore' = [restore EXCEPT !.at = "found", !.reply = ActiveHere]
           \/ Fault /\ restore' = [restore EXCEPT !.at = "found", !.reply = Error]
     \/ /\ restore.at = "status"
        /\ \/ NoFault /\ restore' = [restore EXCEPT !.at = "answered", !.reply = StatusOf(restore.id)]
           \/ Fault /\ restore' = [restore EXCEPT !.at = "answered", !.reply = Error]
  /\ NoAct /\ UNCHANGED <<server, page, op, late, poll, grade, stored, sock>>

GradeHandled ==
  /\ grade.at = "sent"
  /\ \/ /\ NoFault
        /\ grade' = [grade EXCEPT !.at = "answered",
                       !.reply = IF phase[grade.id] = "running" THEN Ok(grade.id, 0) ELSE Error]
     \/ Fault /\ grade' = [grade EXCEPT !.at = "answered", !.reply = Error]
  /\ NoAct /\ UNCHANGED <<server, page, op, late, poll, restore, stored, sock>>

\* Bound: a session is left for every start that is still to be handled.
SessionLeft ==
  Cardinality({s \in Here : phase[s] = "none"})
    > Cardinality({r \in late \cup Overtaken(op) : r.op = "start"})

\* The account in another tab of this browser or on another device, and the
\* backend that restarts.  Another tab shares localStorage.
OtherStart(s) ==
  /\ Act /\ NoFault /\ phase[s] = "none" /\ (s \in Here => SessionLeft)
  /\ Becomes(Outcome([Halted EXCEPT ![s] = "running"], [sgen EXCEPT ![s] = 1], NoReply))
  /\ stored' \in {stored, s}
  /\ UNCHANGED <<page, op, late, poll, restore, grade, sock>>

OtherStop(s) ==
  /\ Act /\ NoFault /\ phase[s] = "running"
  /\ Becomes(Outcome(Halted, sgen, NoReply))
  /\ stored' \in {stored} \cup (IF stored = s THEN {NoSession} ELSE {})
  /\ UNCHANGED <<page, op, late, poll, restore, grade, sock>>

OtherReset(s) ==
  /\ Act /\ NoFault /\ phase[s] = "running"
  /\ Becomes(Outcome(phase, [sgen EXCEPT ![s] = @ + 1], NoReply))
  /\ UNCHANGED <<page, op, late, poll, restore, grade, stored, sock>>

ServerRestarts ==
  /\ Fault /\ NoAct
  /\ Becomes(Outcome(Halted, sgen, NoReply))
  /\ sock' = IF sock = "open" THEN "retry" ELSE sock
  /\ UNCHANGED <<page, op, late, poll, restore, grade, stored>>

-----------------------------------------------------------------------------
(* Start, stop and reset.  TopNav disables the buttons while booting, and  *)
(* the grading overlay covers them.                                        *)

Clickable == ~page.booting /\ ~page.grading
\* operationTokenRef and statusPollTokenRef move on.
Operation(name, s) ==
  /\ Act /\ NoFault
  /\ op' = NewRequest(name, s)
  /\ late' = late \cup Overtaken(op)
  /\ restore' = RestoreOff
  /\ poll' = PollOff
  /\ sock' = "none"
  /\ UNCHANGED <<server, grade, stored>>

HandleStart ==
  /\ page.session = NoSession /\ Clickable /\ SessionLeft
  /\ Operation("start", NoSession)
  /\ page' = [page EXCEPT !.booting = TRUE, !.active = TRUE, !.expected = 0, !.ready = FALSE]

HandleStop ==
  /\ page.session # NoSession /\ Clickable
  /\ Operation("stop", page.session)
  /\ page' = [page EXCEPT !.active = FALSE, !.expected = 0, !.ready = FALSE]

HandleReset ==
  /\ page.session # NoSession /\ Clickable
  /\ Operation("reset", page.session)
  /\ page' = [page EXCEPT !.booting = TRUE, !.active = TRUE, !.expected = 0, !.ready = FALSE]

\* clearSessionLocally, and removeStoredSession of the session it clears.
Cleared == [BlankPage EXCEPT !.grading = page.grading]
\* Mutant: whatever is stored is removed.
ForgottenAny(s) == NoSession

Forgotten(s) == IF stored = s THEN NoSession ELSE stored

\* The reply, or the error the page saw instead of one.
StartEnds(reply) ==
  IF reply.kind = "ok"
  THEN /\ page' = [page EXCEPT !.session = reply.id, !.gen = reply.gen, !.timed = FALSE,
                               !.expected = reply.gen]
       /\ stored' = reply.id /\ poll' = PollStart
  ELSE /\ page' = [page EXCEPT !.active = FALSE, !.expected = 0, !.booting = FALSE, !.ready = FALSE]
       /\ UNCHANGED <<stored, poll>>

\* Mutant: a stop that fails does not start the status poll again.
StopEndsUnwatched(reply) ==
  IF reply.kind = "ok"
  THEN page' = Cleared /\ stored' = Forgotten(op.id) /\ poll' = PollOff
  ELSE UNCHANGED <<page, stored, poll>>

StopEnds(reply) ==
  IF reply.kind = "ok"
  THEN page' = Cleared /\ stored' = Forgotten(op.id) /\ poll' = PollOff
  ELSE poll' = PollStart /\ UNCHANGED <<page, stored>>

ResetEnds(reply) ==
  /\ poll' = PollStart
  /\ IF reply.kind = "ok"
     THEN /\ page' = [page EXCEPT !.gen = reply.gen, !.expected = reply.gen, !.report = NoSession]
          /\ stored' = op.id
     ELSE /\ page' = [page EXCEPT !.active = FALSE, !.expected = 0, !.booting = FALSE, !.ready = FALSE]
          /\ UNCHANGED stored

OpEnds(reply) ==
  /\ \/ op.op = "start" /\ StartEnds(reply)
     \/ op.op = "stop" /\ StopEnds(reply)
     \/ op.op = "reset" /\ ResetEnds(reply)
  /\ op' = NoRequest
  /\ sock' = SocketEffect(page')
  /\ NoAct /\ UNCHANGED <<server, restore, grade>>

OpReply == op.at = "answered" /\ OpEnds(op.reply) /\ NoFault /\ UNCHANGED late

\* REQUEST_TIMEOUT_MS or a lost connection: handled or not, nobody knows.
OpTimesOut == op.at # "none" /\ OpEnds(Error) /\ Fault /\ late' = late \cup Overtaken(op)

-----------------------------------------------------------------------------
(* The status poll.                                                        *)

PollTimer ==
  /\ poll.at = "timer"
  /\ poll' = [poll EXCEPT !.at = "sent"]
  /\ NoAct /\ NoFault
  /\ UNCHANGED <<server, page, op, late, restore, grade, stored, sock>>

PollStopped ==
  /\ poll.reply.kind = "ok" /\ poll.reply.gen = 0
  /\ page' = Cleared /\ stored' = Forgotten(page.session)
  /\ op' = NoRequest /\ late' = late \cup Overtaken(op)
  /\ poll' = PollOff /\ restore' = RestoreOff

\* Mutant: a status with a generation the page does not know only makes it ready.
PollRunningOldGeneration ==
  /\ poll.reply.kind = "ok" /\ poll.reply.gen > 0
  /\ page' = IF poll.reply.gen >= page.expected
             THEN [page EXCEPT !.ready = TRUE, !.booting = FALSE,
                               !.active = FALSE, !.expected = 0, !.timed = TRUE]
             ELSE [page EXCEPT !.ready = FALSE]
  /\ poll' = [PollOff EXCEPT !.at = "timer"]
  /\ UNCHANGED <<op, late, restore, stored>>

\* updateGeneration, and markReady unless the page expects a later generation.
PollRunning ==
  LET g       == poll.reply.gen
      matches == g >= page.expected
  IN /\ poll.reply.kind = "ok" /\ g > 0
     /\ page' = IF matches
                THEN [page EXCEPT !.gen = g, !.ready = TRUE, !.booting = FALSE,
                                  !.active = FALSE, !.expected = 0, !.timed = TRUE]
                ELSE [page EXCEPT !.ready = FALSE]
     /\ stored' = IF matches /\ (g # page.gen \/ ~page.timed) THEN page.session ELSE stored
     /\ poll' = [PollOff EXCEPT !.at = "timer"]
     /\ UNCHANGED <<op, late, restore>>

\* An error; booting is given up after MaxErrors of them or at the deadline.
PollError ==
  /\ poll.reply.kind = "error"
  /\ \E deadline \in BOOLEAN :
       page' = IF page.active /\ (deadline \/ poll.errors + 1 >= MaxErrors)
               THEN [page EXCEPT !.active = FALSE, !.expected = 0,
                                 !.ready = FALSE, !.booting = FALSE]
               ELSE page
  /\ poll' = [PollOff EXCEPT !.at = "timer",
                !.errors = IF poll.errors < MaxErrors THEN poll.errors + 1 ELSE MaxErrors]
  /\ UNCHANGED <<op, late, restore, stored>>

PollReply ==
  /\ poll.at = "answered"
  /\ PollStopped \/ PollRunning \/ PollError
  /\ sock' = SocketEffect(page')
  /\ NoAct /\ NoFault
  /\ UNCHANGED <<server, grade>>

-----------------------------------------------------------------------------
(* A page load: the stored session of this lab, or the one the server has. *)

PageLoad ==
  /\ Act /\ NoFault
  /\ restore' = [RestoreOff EXCEPT !.at = IF stored \in Here THEN "status" ELSE "find",
                                   !.id = IF stored \in Here THEN stored ELSE NoSession,
                                   !.wanted = Running \cap Here]
  /\ page' = [BlankPage EXCEPT !.booting = stored \in Here]
  /\ op' = NoRequest /\ late' = late \cup Overtaken(op)
  /\ poll' = PollOff /\ grade' = NoRequest
  /\ sock' = "none"
  /\ UNCHANGED <<server, stored>>

FindReply ==
  /\ restore.at = "found"
  /\ IF restore.reply.id = NoSession
     THEN restore' = RestoreOff /\ UNCHANGED page
     ELSE /\ restore' = [restore EXCEPT !.at = "status", !.id = restore.reply.id]
          /\ page' = [page EXCEPT !.booting = TRUE]
  /\ NoAct /\ NoFault
  /\ UNCHANGED <<server, op, late, poll, grade, stored, sock>>

RestoreStopped ==
  /\ restore.reply.kind = "ok" /\ restore.reply.gen = 0
  /\ page' = [page EXCEPT !.booting = FALSE]
  /\ stored' = Forgotten(restore.id)
  /\ UNCHANGED poll

RestoreRunning ==
  /\ restore.reply.kind = "ok" /\ restore.reply.gen > 0
  /\ page' = [page EXCEPT !.session = restore.id, !.gen = restore.reply.gen,
                          !.ready = TRUE, !.timed = TRUE, !.booting = FALSE]
  /\ stored' = restore.id
  /\ poll' = PollStart

RestoreFails ==
  /\ restore.reply.kind = "error"
  /\ page' = [page EXCEPT !.booting = FALSE, !.ready = FALSE]
  /\ UNCHANGED <<stored, poll>>

RestoreReply ==
  /\ restore.at = "answered"
  /\ RestoreStopped \/ RestoreRunning \/ RestoreFails
  /\ restore' = RestoreOff
  /\ sock' = SocketEffect(page')
  /\ NoAct /\ NoFault
  /\ UNCHANGED <<server, op, late, grade>>

-----------------------------------------------------------------------------
(* Grading: not an operation, its reply is compared with the session.      *)

HandleGrade ==
  /\ Act /\ NoFault
  /\ page.session # NoSession /\ Clickable
  /\ page' = [page EXCEPT !.grading = TRUE]
  /\ grade' = NewRequest("grade", page.session)
  /\ UNCHANGED <<server, op, late, poll, restore, stored, sock>>

\* Mutant: the report is shown whatever session the page has by then.
GradeReplyAny ==
  /\ grade.at = "answered"
  /\ page' = [page EXCEPT !.grading = FALSE,
                !.report = IF grade.reply.kind = "ok" THEN grade.id ELSE @]
  /\ grade' = NoRequest
  /\ NoAct /\ NoFault
  /\ UNCHANGED <<server, op, late, poll, restore, stored, sock>>

GradeReply ==
  /\ grade.at = "answered"
  /\ page' = [page EXCEPT !.grading = FALSE,
                !.report = IF grade.reply.kind = "ok" /\ page.session = grade.id
                           THEN grade.id ELSE @]
  /\ grade' = NoRequest
  /\ NoAct /\ NoFault
  /\ UNCHANGED <<server, op, late, poll, restore, stored, sock>>

-----------------------------------------------------------------------------
(* The terminal WebSocket of a node.                                       *)

SocketStep(from, to) ==
  /\ sock \in from
  /\ sock' = to
  /\ NoAct /\ UNCHANGED <<server, page, op, late, poll, restore, grade, stored>>

\* The handshake; a session that does not run is rejected with 1008, and so is
\* an open terminal when the lab stops: the page does not try again.
SocketOpens ==
  /\ SocketStep({"connecting"}, IF phase[page.session] = "running" THEN "open" ELSE "failed")
  /\ NoFault
SocketStopped ==
  /\ SocketStep({"open"}, "failed")
  /\ phase[page.session] # "running"
  /\ NoFault

SocketLost == Fault /\ SocketStep({"connecting", "open"}, "retry")
SocketRetries == NoFault /\ SocketStep({"retry"}, "connecting")

-----------------------------------------------------------------------------

Terminal == SocketOpens \/ SocketStopped \/ SocketLost \/ SocketRetries
Click == HandleStart \/ HandleStop \/ HandleReset \/ HandleGrade
Others == ServerRestarts \/ \E s \in Sessions : OtherStart(s) \/ OtherStop(s) \/ OtherReset(s)

ClientNext ==
  \/ Click \/ PageLoad \/ Others \/ LateHandled
  \/ OpHandled \/ OpReply \/ OpTimesOut
  \/ PollTimer \/ PollHandled \/ PollReply
  \/ RestoreHandled \/ FindReply \/ RestoreReply
  \/ GradeHandled \/ GradeReply
  \/ Terminal

ClientSpec == ClientInit /\ [][ClientNext]_clientVars

(* The browser delivers replies and fires timers, and the server handles   *)
(* what reaches it; users, other devices, late requests and failures need  *)
(* not happen.                                                             *)
Fairness ==
  /\ WF_clientVars(OpHandled) /\ WF_clientVars(OpReply)
  /\ WF_clientVars(PollTimer) /\ WF_clientVars(PollHandled) /\ WF_clientVars(PollReply)
  /\ WF_clientVars(RestoreHandled) /\ WF_clientVars(FindReply) /\ WF_clientVars(RestoreReply)
  /\ WF_clientVars(GradeHandled) /\ WF_clientVars(GradeReply)
  /\ WF_clientVars(SocketOpens) /\ WF_clientVars(SocketStopped) /\ WF_clientVars(SocketRetries)

FairClientSpec == ClientSpec /\ Fairness

-----------------------------------------------------------------------------
(* Properties.                                                             *)

Some == Sessions \cup {NoSession}
Generations == 0..(MaxActs + 1)
Replies == [kind : {"none", "ok", "error"}, id : Some, gen : Generations]

\* Types, and what goes together on the page: a ready page is not booting, and
\* a terminal needs a ready session.
ClientTypeOK ==
  /\ phase \in [Sessions -> {"none", "running", "stopped"}]
  /\ sgen \in [Sessions -> Generations]
  /\ page \in [session : Some, gen : Generations, ready : BOOLEAN, booting : BOOLEAN,
               timed : BOOLEAN, active : BOOLEAN, expected : Generations,
               grading : BOOLEAN, report : Some]
  /\ op \in [op : {"none", "start", "stop", "reset"}, id : Some,
             at : {"none", "sent", "answered"}, reply : Replies, n : 0..MaxActs]
  /\ late \subseteq [op : {"start", "stop", "reset"}, id : Some, n : 0..MaxActs]
  /\ poll \in [at : {"off", "timer", "sent", "answered"}, errors : 0..MaxErrors, reply : Replies]
  /\ restore \in [at : {"none", "find", "found", "status", "answered"}, id : Some,
                  reply : Replies, wanted : SUBSET Here]
  /\ grade.at # "none" <=> page.grading
  /\ stored \in Some
  /\ sock \in {"none", "connecting", "open", "retry", "failed"}
  /\ page.ready => page.session # NoSession /\ ~page.booting
  /\ sock # "none" <=> page.ready
  /\ acts \in 0..MaxActs /\ faults \in 0..MaxFaults

\* What the page knows only moves forward.  The page and localStorage forget a
\* session only when it has stopped, be it a reply that comes late or a stored
\* session of another tab; without a page load a status reply from before a
\* reset does not bring back its generation; and the report it shows is one of
\* the session it shows, although the lab may have been stopped and started
\* again while it was graded.
KnowledgeForward ==
  [][/\ page.session # NoSession /\ page'.session = NoSession
        => phase[page.session] = "stopped" \/ PageLoad
     /\ stored # NoSession /\ stored' = NoSession => phase'[stored] = "stopped"
     /\ page.session # NoSession /\ page'.session = page.session /\ ~PageLoad
        => page'.gen >= page.gen
     /\ page'.report # NoSession => page'.report = page'.session]_clientVars

\* README.md:13 "each account keeps ... the lab it is running, on any device":
\* a page load that met no error shows this lab if it was running all along.
RunningLabFound ==
  [][restore.at # "none" /\ restore'.at = "none" /\ page'.session = NoSession
       => restore.wanted \cap Running = {} \/ Click \/ PageLoad]_clientVars

\* Once users, devices and failures come to rest, the page settles: it shows no
\* session and waits for none, or a running one with its generation and an open terminal.
Settles ==
  <>[](\/ page.session = NoSession /\ ~page.booting
       \/ /\ page.session # NoSession
          /\ phase[page.session] = "running" /\ page.gen = sgen[page.session]
          /\ page.ready /\ sock = "open")

=============================================================================
