----------------------------- MODULE LabSessions -----------------------------
(***************************************************************************)
(* The control plane of the backend: lab sessions stored in SQLite, the    *)
(* process-wide SimulationManager, the runtimes it owns and the terminal   *)
(* WebSockets attached to them.                                            *)
(*                                                                         *)
(* Three kinds of actors touch this state.                                 *)
(*   - The asyncio event loop.  start, stop, status, reset and grade are   *)
(*     `async def` handlers without an await in their body, so two of them *)
(*     never interleave; `loop` is the one that is running and where it    *)
(*     is.  Threads do run between two of its steps.                       *)
(*   - Thread-pool threads running GET /api/progress (a plain `def`).      *)
(*   - Thread-pool threads running manager.attach and manager.execute for  *)
(*     a WebSocket handler that awaits them.                               *)
(* A step is what one lock (manager._lock, runtime.lock) or one SQLite     *)
(* transaction protects.  Every transaction may fail (sqlite3 errors, busy *)
(* timeout) and the process may be killed and restarted at any step.       *)
(*                                                                         *)
(* A start attempt owns a runtime id (a uuid) and, if its INSERT commits,  *)
(* a row; the two ids correspond one to one, so both are an element of     *)
(* Sessions.  Rows from before accounts existed have no user and no        *)
(* handler can reach them; they are not modelled.                          *)
(***************************************************************************)
EXTENDS Naturals, FiniteSets

CONSTANTS
  Users,         \* accounts
  Sessions,      \* start attempts: runtime id and lab_sessions row id
  Owner,         \* the account that makes each attempt
  Conns,         \* terminal WebSocket connections
  Workers,       \* thread-pool threads that serve GET /api/progress
  NoSession,     \* "no session", not in Sessions
  MaxGeneration, \* bound on runtime.generation
  DbMayFail      \* a SQLite transaction may raise

ASSUME OwnerAssumption == Owner \in [Sessions -> Users]
ASSUME NoSessionAssumption == NoSession \notin Sessions
ASSUME MaxGenerationAssumption == MaxGeneration \in Nat \ {0}
ASSUME DbMayFailAssumption == DbMayFail \in BOOLEAN

VARIABLES
  alive,     \* the backend process is up
  row,       \* lab_sessions.status of each session, "none" before the INSERT
  rt,        \* status of each SimulationRuntime object
  registry,  \* keys of manager._runtimes
  gen,       \* runtime.generation
  results,   \* lab_results rows: the session and the generation graded
  loop,      \* the handler the event loop is running
  worker,    \* the progress request each thread is running
  ws,        \* where each WebSocket handler is
  wsSess,    \* the session a WebSocket handler serves
  terms,     \* keys of manager._terminal_runtimes
  viewers,   \* connections registered in runtime.terminals and the console
  stopSent   \* connections whose sink was given STOP_SENTINEL

dbVars   == <<row, results>>
memVars  == <<rt, registry, gen>>
wsVars   == <<ws, wsSess, terms, viewers, stopSent>>
vars     == <<alive, dbVars, memVars, loop, worker, wsVars>>

-----------------------------------------------------------------------------
(* Status values and the helpers every handler uses.                       *)

ActiveStatus == {"running", "graded"}
Active(s) == row[s] \in ActiveStatus
ActiveRows(u) == {s \in Sessions : Owner[s] = u /\ Active(s)}

\* manager.find(...) is None or its status is not "running".
Live(s) == s \in registry /\ rt[s] = "running"

Attached(s) == {c \in viewers : wsSess[c] = s}

IdleLoop == [op |-> "none", at |-> "idle", cur |-> NoSession,
             victim |-> NoSession, todo |-> {}, snap |-> 0]
LoopIdle == alive /\ loop.at = "idle"
LoopAt(at) == alive /\ loop.at = at

IdleWorker == [at |-> "idle", rows |-> {}, stale |-> {}]

Init ==
  /\ alive = TRUE
  /\ row = [s \in Sessions |-> "none"]
  /\ results = {}
  /\ rt = [s \in Sessions |-> "absent"]
  /\ registry = {}
  /\ gen = [s \in Sessions |-> 0]
  /\ loop = IdleLoop
  /\ worker = [w \in Workers |-> IdleWorker]
  /\ ws = [c \in Conns |-> "idle"]
  /\ wsSess = [c \in Conns |-> NoSession]
  /\ terms = {}
  /\ viewers = {}
  /\ stopSent = {}

-----------------------------------------------------------------------------
(* _mark_stopped: one UPDATE that commits or raises.                       *)

MarkStopped(s) == row' = [row EXCEPT ![s] = "stopped"]

(* A request that finds an active row without a live runtime marks the row *)
(* stopped and answers 409 or "stopped": the check is shared by status,    *)
(* reset, grade and the WebSocket handshake.  A failing UPDATE leaves the  *)
(* row as it was.                                                          *)
MarkIfGone(s) ==
  /\ LoopIdle /\ Active(s) /\ ~Live(s)
  /\ MarkStopped(s)
  /\ UNCHANGED <<alive, results, memVars, loop, worker, wsVars>>

GetSessionStatus(s) == MarkIfGone(s)

-----------------------------------------------------------------------------
(* POST /api/session/start: stop the account's other labs, create the      *)
(* runtime, insert the row; a failing INSERT removes the runtime again.    *)

\* Mutant: only rows with status 'running' count as the account's labs.
StartLabIgnoringGraded(s) ==
  /\ LoopIdle
  /\ row[s] = "none" /\ s \notin registry
  /\ loop' = [IdleLoop EXCEPT !.op = "start", !.at = "purge", !.cur = s,
                 !.todo = {o \in ActiveRows(Owner[s]) : row[o] = "running"}]
  /\ UNCHANGED <<alive, dbVars, memVars, worker, wsVars>>

StartLab(s) ==
  /\ LoopIdle
  /\ row[s] = "none" /\ s \notin registry
  /\ loop' = [IdleLoop EXCEPT !.op = "start", !.at = "purge", !.cur = s,
                              !.todo = ActiveRows(Owner[s])]
  /\ UNCHANGED <<alive, dbVars, memVars, worker, wsVars>>

StopRunningLabs ==
  /\ LoopAt("purge")
  /\ \E o \in loop.todo :
       loop' = [loop EXCEPT !.at = "remove", !.victim = o, !.todo = @ \ {o}]
  /\ UNCHANGED <<alive, dbVars, memVars, worker, wsVars>>

\* SimulationRuntime(...) may raise (bad lab.yaml or startup config).
CreateRuntime ==
  /\ LoopAt("purge") /\ loop.todo = {}
  /\ \/ /\ rt' = [rt EXCEPT ![loop.cur] = "running"]
        /\ gen' = [gen EXCEPT ![loop.cur] = 1]
        /\ registry' = registry \cup {loop.cur}
        /\ loop' = [loop EXCEPT !.at = "insert"]
     \/ /\ loop' = IdleLoop
        /\ UNCHANGED memVars
  /\ UNCHANGED <<alive, dbVars, worker, wsVars>>

\* Mutant: a failing INSERT leaves the runtime registered.
InsertRowWithoutUndo ==
  /\ LoopAt("insert")
  /\ row' \in {row, [row EXCEPT ![loop.cur] = "running"]}
  /\ loop' = IdleLoop
  /\ UNCHANGED <<alive, results, memVars, worker, wsVars>>

InsertRow ==
  /\ LoopAt("insert")
  /\ \/ /\ row' = [row EXCEPT ![loop.cur] = "running"]
        /\ loop' = IdleLoop
     \/ /\ DbMayFail
        /\ loop' = [loop EXCEPT !.op = "undo", !.at = "remove", !.victim = loop.cur]
        /\ UNCHANGED row
  /\ UNCHANGED <<alive, results, memVars, worker, wsVars>>

-----------------------------------------------------------------------------
(* manager.remove(victim), then the row: used by stop, by start for the    *)
(* account's earlier labs and by start to undo a failed INSERT.            *)

\* POST /api/session/stop does not look at the row's status.
StopLab(s) ==
  /\ LoopIdle
  /\ row[s] # "none"
  /\ loop' = [IdleLoop EXCEPT !.op = "stop", !.at = "remove", !.victim = s]
  /\ UNCHANGED <<alive, dbVars, memVars, worker, wsVars>>

AfterRemove == IF loop.op = "undo" THEN IdleLoop ELSE [loop EXCEPT !.at = "mark"]

\* Under manager._lock: drop the runtime and its terminal entries.
RemoveRuntime ==
  /\ LoopAt("remove")
  /\ registry' = registry \ {loop.victim}
  /\ terms' = {c \in terms : wsSess[c] # loop.victim}
  /\ loop' = IF loop.victim \in registry THEN [loop EXCEPT !.at = "halt"] ELSE AfterRemove
  /\ UNCHANGED <<alive, dbVars, rt, gen, worker, ws, wsSess, viewers, stopSent>>

\* Under runtime.lock: runtime.stop gives every viewer the stop sentinel.
HaltRuntime ==
  /\ LoopAt("halt")
  /\ rt' = [rt EXCEPT ![loop.victim] = "stopped"]
  /\ stopSent' = IF rt[loop.victim] = "stopped" THEN stopSent
                 ELSE stopSent \cup Attached(loop.victim)
  /\ loop' = AfterRemove
  /\ UNCHANGED <<alive, dbVars, registry, gen, worker, ws, wsSess, terms, viewers>>

\* A failing UPDATE raises out of the handler (HTTP 500).
MarkRow ==
  /\ LoopAt("mark")
  /\ \/ /\ MarkStopped(loop.victim)
        /\ loop' = IF loop.op = "start"
                   THEN [loop EXCEPT !.at = "purge", !.victim = NoSession]
                   ELSE IdleLoop
     \/ /\ DbMayFail
        /\ loop' = IdleLoop
        /\ UNCHANGED row
  /\ UNCHANGED <<alive, results, memVars, worker, wsVars>>

-----------------------------------------------------------------------------
(* POST /api/session/reset.                                                *)

\* Mutant: reset_session is a plain `def`: a thread resets the runtime, and
\* writes the row later, over whatever other requests wrote meanwhile.
ResetSessionInThread(s) ==
  \E w \in Workers :
    \/ /\ alive /\ Active(s) /\ Live(s)
       /\ worker[w].at = "idle" /\ gen[s] < MaxGeneration
       /\ gen' = [gen EXCEPT ![s] = @ + 1]
       /\ worker' = [worker EXCEPT ![w] = [at |-> "resetRow", rows |-> {s}, stale |-> {}]]
       /\ UNCHANGED <<alive, dbVars, rt, registry, loop, wsVars>>
    \/ /\ alive /\ worker[w].at = "resetRow" /\ worker[w].rows = {s}
       /\ row' = [row EXCEPT ![s] = "running"]
       /\ worker' = [worker EXCEPT ![w] = IdleWorker]
       /\ UNCHANGED <<alive, results, memVars, loop, wsVars>>

ResetSession(s) ==
  \/ MarkIfGone(s)
  \/ /\ LoopIdle /\ Active(s) /\ s \in registry
     /\ gen[s] < MaxGeneration
     /\ loop' = [IdleLoop EXCEPT !.op = "reset", !.at = "reset", !.cur = s]
     /\ UNCHANGED <<alive, dbVars, memVars, worker, wsVars>>

\* Mutant: reset rebuilds the consoles and forgets who was watching.
ResetRuntimeDroppingViewers ==
  /\ LoopAt("reset")
  /\ gen' = [gen EXCEPT ![loop.cur] = @ + 1]
  /\ viewers' = viewers \ Attached(loop.cur)
  /\ loop' = [loop EXCEPT !.at = "resetRow"]
  /\ UNCHANGED <<alive, dbVars, rt, registry, worker, ws, wsSess, terms, stopSent>>

\* InvalidRuntimeState when the runtime is not running: the row is stopped.
ResetRuntime ==
  LET running == rt[loop.cur] = "running" IN
  /\ LoopAt("reset")
  /\ gen' = IF running THEN [gen EXCEPT ![loop.cur] = @ + 1] ELSE gen
  /\ row' = IF running THEN row ELSE [row EXCEPT ![loop.cur] = "stopped"]
  /\ loop' = IF running THEN [loop EXCEPT !.at = "resetRow"] ELSE IdleLoop
  /\ UNCHANGED <<alive, results, rt, registry, worker, wsVars>>

\* Mutant: the generation is updated and the status forgotten.
ResetRowKeepingStatus ==
  /\ LoopAt("resetRow")
  /\ loop' = IdleLoop
  /\ UNCHANGED <<alive, dbVars, memVars, worker, wsVars>>

ResetRow ==
  /\ LoopAt("resetRow")
  /\ \/ row' = [row EXCEPT ![loop.cur] = "running"]
     \/ DbMayFail /\ UNCHANGED row
  /\ loop' = IdleLoop
  /\ UNCHANGED <<alive, results, memVars, worker, wsVars>>

-----------------------------------------------------------------------------
(* POST /api/grade: grade one snapshot, then record it.                    *)

GradeLab(s) ==
  \/ MarkIfGone(s)
  \/ /\ LoopIdle /\ Active(s) /\ Live(s)
     /\ loop' = [IdleLoop EXCEPT !.op = "grade", !.at = "snapshot", !.cur = s]
     /\ UNCHANGED <<alive, dbVars, memVars, worker, wsVars>>

\* manager.grade: RuntimeNotFound and InvalidRuntimeState end the request.
GradeSnapshot ==
  /\ LoopAt("snapshot")
  /\ loop' = IF Live(loop.cur)
             THEN [loop EXCEPT !.at = "record", !.snap = gen[loop.cur]]
             ELSE IdleLoop
  /\ UNCHANGED <<alive, dbVars, memVars, worker, wsVars>>

RecordGrade ==
  /\ LoopAt("record")
  /\ \/ /\ results' = results \cup {[session |-> loop.cur, generation |-> loop.snap]}
        /\ row' = [row EXCEPT ![loop.cur] = "graded"]
     \/ DbMayFail /\ UNCHANGED dbVars
  /\ loop' = IdleLoop
  /\ UNCHANGED <<alive, memVars, worker, wsVars>>

-----------------------------------------------------------------------------
(* GET /api/progress, in a thread: SELECT the active rows, look up each    *)
(* runtime, UPDATE the rows whose runtime is gone.                         *)

ProgressRead(w, u) ==
  /\ alive /\ worker[w].at = "idle"
  /\ ActiveRows(u) # {}
  /\ worker' = [worker EXCEPT ![w] = [at |-> "find", rows |-> ActiveRows(u), stale |-> {}]]
  /\ UNCHANGED <<alive, dbVars, memVars, loop, wsVars>>

ProgressFind(w) ==
  /\ alive /\ worker[w].at = "find"
  /\ \E s \in worker[w].rows :
       worker' = [worker EXCEPT
                    ![w].rows = @ \ {s},
                    ![w].stale = IF Live(s) THEN @ ELSE @ \cup {s}]
  /\ UNCHANGED <<alive, dbVars, memVars, loop, wsVars>>

ProgressWrite(w) ==
  /\ alive /\ worker[w].at = "find" /\ worker[w].rows = {}
  /\ \/ row' = [s \in Sessions |-> IF s \in worker[w].stale THEN "stopped" ELSE row[s]]
     \/ DbMayFail /\ UNCHANGED row
  /\ worker' = [worker EXCEPT ![w] = IdleWorker]
  /\ UNCHANGED <<alive, results, memVars, loop, wsVars>>

-----------------------------------------------------------------------------
(* The terminal WebSocket handler of connection c.                         *)

\* Handshake checks; they run on the event loop without an await.
WsOpen(c, s) ==
  /\ LoopIdle /\ ws[c] = "idle" /\ Active(s)
  /\ \/ /\ Live(s)
        /\ ws' = [ws EXCEPT ![c] = "attach"]
        /\ wsSess' = [wsSess EXCEPT ![c] = s]
        /\ UNCHANGED row
     \/ /\ ~Live(s)
        /\ MarkStopped(s)
        /\ UNCHANGED <<ws, wsSess>>
  /\ UNCHANGED <<alive, results, memVars, loop, worker, terms, viewers, stopSent>>

\* The handler ends with nothing attached.
WsGiveUp(c) ==
  /\ ws' = [ws EXCEPT ![c] = "idle"]
  /\ wsSess' = [wsSess EXCEPT ![c] = NoSession]
  /\ UNCHANGED <<terms, viewers, stopSent>>

\* manager.attach, in a thread: manager.get ...
AttachGet(c) ==
  /\ alive /\ ws[c] = "attach"
  /\ \/ /\ wsSess[c] \in registry
        /\ ws' = [ws EXCEPT ![c] = "got"]
        /\ UNCHANGED <<wsSess, terms, viewers, stopSent>>
     \/ /\ wsSess[c] \notin registry
        /\ WsGiveUp(c)
  /\ UNCHANGED <<alive, dbVars, memVars, loop, worker>>

\* Mutant: attach trusts manager.get and does not look at the status again.
AttachRuntimeUnchecked(c) ==
  /\ alive /\ ws[c] = "got"
  /\ viewers' = viewers \cup {c}
  /\ ws' = [ws EXCEPT ![c] = "attached"]
  /\ UNCHANGED <<alive, dbVars, memVars, loop, worker, wsSess, terms, stopSent>>

\* ... runtime.attach, under runtime.lock ...
AttachRuntime(c) ==
  /\ alive /\ ws[c] = "got"
  /\ \/ /\ rt[wsSess[c]] = "running"
        /\ viewers' = viewers \cup {c}
        /\ ws' = [ws EXCEPT ![c] = "attached"]
        /\ UNCHANGED <<wsSess, terms, stopSent>>
     \/ /\ rt[wsSess[c]] # "running"
        /\ WsGiveUp(c)
  /\ UNCHANGED <<alive, dbVars, memVars, loop, worker>>

\* ... and the terminal entry, under manager._lock.
AttachRegister(c) ==
  /\ alive /\ ws[c] = "attached"
  /\ terms' = terms \cup {c}
  /\ ws' = [ws EXCEPT ![c] = "open"]
  /\ UNCHANGED <<alive, dbVars, memVars, loop, worker, wsSess, viewers, stopSent>>

\* manager.execute, in a thread: manager.get, then runtime.execute.
ExecuteGet(c) ==
  /\ alive /\ ws[c] = "open"
  /\ ws' = [ws EXCEPT ![c] = IF wsSess[c] \in registry THEN "execute" ELSE "closing"]
  /\ UNCHANGED <<alive, dbVars, memVars, loop, worker, wsSess, terms, viewers, stopSent>>

\* InvalidRuntimeState and TerminalNotFound close the socket.
ExecuteRun(c) ==
  /\ alive /\ ws[c] = "execute"
  /\ ws' = [ws EXCEPT ![c] =
              IF rt[wsSess[c]] = "running" /\ c \in viewers THEN "open" ELSE "closing"]
  /\ UNCHANGED <<alive, dbVars, memVars, loop, worker, wsSess, terms, viewers, stopSent>>

\* The browser goes away, or the sender task closes the socket after the
\* stop sentinel; the receive loop returns in both cases.
WsDisconnect(c) ==
  /\ LoopIdle /\ ws[c] = "open"
  /\ ws' = [ws EXCEPT ![c] = "closing"]
  /\ UNCHANGED <<alive, dbVars, memVars, loop, worker, wsSess, terms, viewers, stopSent>>

SendStop(c) == c \in stopSent /\ WsDisconnect(c)

\* The handler's finally block: manager.detach, on the event loop, reaches
\* runtime.detach only through the terminal entry; the viewer entry of a
\* runtime that is no longer registered goes with the runtime object.
WsDetach(c) ==
  /\ LoopIdle /\ ws[c] = "closing"
  /\ terms' = terms \ {c}
  /\ viewers' = IF c \in terms \/ wsSess[c] \notin registry THEN viewers \ {c} ELSE viewers
  /\ stopSent' = stopSent \ {c}
  /\ ws' = [ws EXCEPT ![c] = "idle"]
  /\ wsSess' = [wsSess EXCEPT ![c] = NoSession]
  /\ UNCHANGED <<alive, dbVars, memVars, loop, worker>>

-----------------------------------------------------------------------------
(* The process is killed: memory, threads and sockets are lost.            *)

Crash ==
  /\ alive
  /\ alive' = FALSE
  /\ rt' = [s \in Sessions |-> "absent"]
  /\ registry' = {}
  /\ gen' = [s \in Sessions |-> 0]
  /\ loop' = IdleLoop
  /\ worker' = [w \in Workers |-> IdleWorker]
  /\ ws' = [c \in Conns |-> "idle"]
  /\ wsSess' = [c \in Conns |-> NoSession]
  /\ terms' = {} /\ viewers' = {} /\ stopSent' = {}
  /\ UNCHANGED dbVars

(* init_db at import: every active row with a native runtime id is stopped.*)
InitDb ==
  /\ ~alive
  /\ alive' = TRUE
  /\ row' = [s \in Sessions |-> IF Active(s) THEN "stopped" ELSE row[s]]
  /\ UNCHANGED <<results, memVars, loop, worker, wsVars>>

-----------------------------------------------------------------------------

Handlers ==
  \E s \in Sessions :
     StartLab(s) \/ StopLab(s) \/ GetSessionStatus(s) \/ ResetSession(s) \/ GradeLab(s)

LoopStep ==
  \/ StopRunningLabs \/ CreateRuntime \/ InsertRow
  \/ RemoveRuntime \/ HaltRuntime \/ MarkRow
  \/ ResetRuntime \/ ResetRow
  \/ GradeSnapshot \/ RecordGrade

GetProgress(w) ==
  \/ \E u \in Users : ProgressRead(w, u)
  \/ ProgressFind(w)
  \/ ProgressWrite(w)

AttachThread(c) == AttachGet(c) \/ AttachRuntime(c) \/ AttachRegister(c)
ExecuteThread(c) == ExecuteGet(c) \/ ExecuteRun(c)

Terminal(c) ==
  \/ \E s \in Sessions : WsOpen(c, s)
  \/ AttachThread(c)
  \/ ExecuteThread(c)
  \/ WsDisconnect(c) \/ SendStop(c) \/ WsDetach(c)

Next ==
  \/ Handlers
  \/ LoopStep
  \/ \E w \in Workers : GetProgress(w)
  \/ \E c \in Conns : Terminal(c)
  \/ Crash
  \/ InitDb

Spec == Init /\ [][Next]_vars

(* Fairness.  A handler without an await runs to its end; a pool thread is  *)
(* not starved; asyncio runs callbacks in the order they became ready, so a *)
(* WebSocket handler that waits for the loop gets it although other handlers*)
(* keep taking it.  No request, disconnect or crash has to happen.          *)
Fairness ==
  /\ WF_vars(LoopStep)
  /\ \A c \in Conns :
       /\ WF_vars(AttachThread(c))
       /\ WF_vars(ExecuteRun(c))
       /\ SF_vars(SendStop(c))
       /\ SF_vars(WsDetach(c))

FairSpec == Spec /\ Fairness

-----------------------------------------------------------------------------
(* Properties.                                                             *)

LoopPoints == {"idle", "purge", "insert", "remove", "halt", "mark",
               "reset", "resetRow", "snapshot", "record"}
WsPoints == {"idle", "attach", "got", "attached", "open", "execute", "closing"}

LoopType ==
  [op : {"none", "start", "undo", "stop", "reset", "grade"},
   at : LoopPoints,
   cur : Sessions \cup {NoSession},
   victim : Sessions \cup {NoSession},
   todo : SUBSET Sessions,
   snap : 0..MaxGeneration]
WorkerType == [at : {"idle", "find"}, rows : SUBSET Sessions, stale : SUBSET Sessions]

\* Types, and the ids a WebSocket handler and the loop hold at each point.
TypeOK ==
  /\ alive \in BOOLEAN
  /\ row \in [Sessions -> {"none", "running", "graded", "stopped"}]
  /\ rt \in [Sessions -> {"absent", "running", "stopped"}]
  /\ registry \subseteq Sessions
  /\ gen \in [Sessions -> 0..MaxGeneration]
  /\ results \subseteq [session : Sessions, generation : 0..MaxGeneration]
  /\ loop \in LoopType
  /\ loop.at \in {"purge", "insert", "reset", "resetRow", "snapshot", "record"}
       => loop.cur \in Sessions
  /\ loop.op = "start" => loop.cur \in Sessions
  /\ loop.at = "reset" => gen[loop.cur] < MaxGeneration
  /\ loop.at \in {"remove", "halt", "mark"} => loop.victim \in Sessions
  /\ worker \in [Workers -> WorkerType]
  /\ ws \in [Conns -> WsPoints]
  /\ wsSess \in [Conns -> Sessions \cup {NoSession}]
  /\ \A c \in Conns : ws[c] = "idle" <=> wsSess[c] = NoSession
  /\ terms \subseteq Conns /\ viewers \subseteq Conns /\ stopSent \subseteq Conns

\* README.md:77 "One lab runs per account at a time: starting another lab stops
\* the previous one": an account never has two active rows, nor two runtimes.
OneLabPerAccount ==
  \A s, t \in Sessions :
    /\ Owner[s] = Owner[t]
    /\ \/ Active(s) /\ Active(t)
       \/ s \in registry /\ t \in registry
    => s = t

\* A runtime stays in the manager only while a row makes it reachable; in
\* between there is the start that is about to insert or to undo it.
NoLeakedRuntime ==
  \A s \in registry :
    \/ Active(s)
    \/ loop.op = "start" /\ loop.at = "insert" /\ loop.cur = s
    \/ loop.op = "undo" /\ loop.at = "remove" /\ loop.victim = s

\* A handler that ended left nothing behind: no terminal entry in the manager
\* and no viewer in a console, whatever removed the runtime meanwhile.  Until
\* then an attached browser of a live lab can type: both are there, across
\* resets.
TerminalBacked ==
  \A c \in Conns :
    /\ ws[c] = "idle" => c \notin terms /\ c \notin viewers
    /\ ws[c] \in {"open", "execute"} /\ Live(wsSess[c]) => c \in viewers /\ c \in terms

\* A stopped session never runs again: no reset, grade or progress request
\* that read the row earlier writes an active status over it.
StoppedIsFinal ==
  [][\A s \in Sessions : row[s] = "stopped" => row'[s] = "stopped"]_vars

\* Progress, status, reset, grade and the WebSocket handshake stop only rows
\* whose runtime is not running any more.
OnlyDeadRowsStopped ==
  [][\A s \in Sessions : Active(s) /\ row'[s] = "stopped" => s \notin registry]_vars

\* A result is recorded for the runtime that was graded, in the generation
\* that was graded: no reset and no stop in between.
GradeMatchesGeneration ==
  [][\A r \in results' \ results :
       Live(r.session) /\ r.generation = gen[r.session]]_vars

\* If no transaction fails, rows are true whenever the loop is between two
\* handlers: an active one has a live runtime, and one that says graded has a
\* result for the generation that runs, since a reset takes the status back.
RowsCurrent ==
  LoopIdle => \A s \in Sessions :
    /\ Active(s) => Live(s)
    /\ row[s] = "graded" => [session |-> s, generation |-> gen[s]] \in results

\* The browser of a lab that was stopped is told so: its handler ends.
TerminalsClose ==
  \A c \in Conns :
    (ws[c] # "idle" /\ wsSess[c] \notin registry) ~> (ws[c] = "idle")

-----------------------------------------------------------------------------
(* The inductive invariant behind the safety properties.                   *)

\* The runtime's own status: a registered runtime is running.
RegisteredRuns == \A s \in registry : rt[s] = "running"

\* The purge of start_lab: what is still active is still to be stopped.
PurgeCovers ==
  /\ loop.op = "start" => row[loop.cur] = "none"
  /\ loop.op = "start" /\ loop.at = "purge" => ActiveRows(Owner[loop.cur]) \subseteq loop.todo
  /\ loop.op = "start" /\ loop.at \in {"remove", "halt", "mark"}
       => ActiveRows(Owner[loop.cur]) \subseteq loop.todo \cup {loop.victim}
  /\ loop.op = "start" /\ loop.at = "insert" => ActiveRows(Owner[loop.cur]) = {}
  /\ loop.op = "undo" => /\ ActiveRows(Owner[loop.victim]) = {}
                         /\ row[loop.victim] = "none"

\* What a handler knows about its session at each point.
LoopKnows ==
  /\ loop.op = "none" <=> loop.at = "idle"
  /\ loop.at \in {"purge", "insert"} => loop.op = "start"
  /\ loop.op = "start" => loop.at \in {"purge", "insert", "remove", "halt", "mark"}
  /\ loop.op = "undo" => loop.at \in {"remove", "halt"}
  /\ loop.at \in {"reset", "resetRow", "snapshot", "record"}
       => loop.cur \in registry /\ Active(loop.cur)
  /\ loop.at = "record" => loop.snap = gen[loop.cur]
  /\ loop.at \in {"halt", "mark"} => loop.victim \notin registry
  /\ loop.at \in {"remove", "halt", "mark"} /\ loop.op # "undo"
       => row[loop.victim] # "none"
  /\ \A s \in loop.todo : row[s] # "none"

\* What a progress thread read stays true enough: its rows exist, and those it
\* will stop have no runtime and never get one again.
WorkersKnow ==
  \A w \in Workers :
    /\ \A s \in worker[w].rows : row[s] # "none"
    /\ \A s \in worker[w].stale : row[s] # "none" /\ s \notin registry

\* While the process is down there is no memory.
DeadIsEmpty == ~alive => registry = {} /\ loop.at = "idle"

IInv ==
  /\ TypeOK
  /\ OneLabPerAccount
  /\ NoLeakedRuntime
  /\ RegisteredRuns
  /\ PurgeCovers
  /\ LoopKnows
  /\ WorkersKnow
  /\ DeadIsEmpty

-----------------------------------------------------------------------------
(* What the control plane promises: LabLifecycle.                          *)

Phase == [s \in Sessions |-> IF Active(s) THEN "active" ELSE row[s]]
Lifecycle == INSTANCE LabLifecycle WITH phase <- Phase, grades <- results

\* The rows and results behave as the abstract lifecycle allows.
LifecycleSpec == Lifecycle!Spec

=============================================================================
