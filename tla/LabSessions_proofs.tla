------------------------- MODULE LabSessions_proofs -------------------------
(***************************************************************************)
(* Proofs about LabSessions, for any accounts, sessions, connections and   *)
(* threads: types, the inductive invariant IInv, and what follows from it. *)
(***************************************************************************)
EXTENDS LabSessions, TLAPS

USE OwnerAssumption, NoSessionAssumption, MaxGenerationAssumption, DbMayFailAssumption

-----------------------------------------------------------------------------
(* Types.                                                                  *)

LEMMA IdleTyped == IdleLoop \in LoopType /\ IdleWorker \in WorkerType
  BY DEF IdleLoop, IdleWorker, LoopType, LoopPoints, WorkerType

LEMMA IdleFields ==
  /\ IdleLoop.op = "none" /\ IdleLoop.at = "idle" /\ IdleLoop.todo = {}
  /\ IdleWorker.rows = {} /\ IdleWorker.stale = {}
  BY DEF IdleLoop, IdleWorker

LEMMA TypeInit == Init => TypeOK
  BY IdleTyped, IdleFields DEF Init, TypeOK, WsPoints

LEMMA TypeHandlers == ASSUME TypeOK, Handlers PROVE TypeOK'
<1>1. ASSUME NEW s \in Sessions, StartLab(s) PROVE TypeOK'
  BY <1>1, IdleTyped, IdleFields DEF StartLab, TypeOK, LoopIdle, ActiveRows, LoopType, LoopPoints, dbVars, memVars, wsVars
<1>2. ASSUME NEW s \in Sessions, StopLab(s) PROVE TypeOK'
  BY <1>2, IdleTyped, IdleFields DEF StopLab, TypeOK, LoopIdle, LoopType, LoopPoints, dbVars, memVars, wsVars
<1>3. ASSUME NEW s \in Sessions, MarkIfGone(s) PROVE TypeOK'
  BY <1>3 DEF MarkIfGone, MarkStopped, TypeOK, memVars, wsVars
<1>4. ASSUME NEW s \in Sessions, ResetSession(s) PROVE TypeOK'
  <2>1. CASE MarkIfGone(s)
    BY <1>3, <2>1
  <2>2. CASE ~MarkIfGone(s)
    <3>1. /\ loop' = [IdleLoop EXCEPT !.op = "reset", !.at = "reset", !.cur = s]
          /\ gen[s] < MaxGeneration
          /\ UNCHANGED <<alive, dbVars, memVars, worker, wsVars>>
      BY <1>4, <2>2 DEF ResetSession
    <3>2. /\ loop' \in LoopType /\ loop'.op = "reset"
          /\ loop'.at = "reset" /\ loop'.cur = s
      BY <3>1, IdleTyped DEF LoopType, LoopPoints
    <3> QED BY <3>1, <3>2 DEF TypeOK, dbVars, memVars, wsVars
  <2> QED BY <2>1, <2>2
<1>5. ASSUME NEW s \in Sessions, GradeLab(s) PROVE TypeOK'
  <2>1. CASE MarkIfGone(s)
    BY <1>3, <2>1
  <2>2. CASE ~MarkIfGone(s)
    <3>1. /\ loop' = [IdleLoop EXCEPT !.op = "grade", !.at = "snapshot", !.cur = s]
          /\ UNCHANGED <<alive, dbVars, memVars, worker, wsVars>>
      BY <1>5, <2>2 DEF GradeLab
    <3>2. /\ loop' \in LoopType /\ loop'.op = "grade"
          /\ loop'.at = "snapshot" /\ loop'.cur = s
      BY <3>1, IdleTyped DEF LoopType, LoopPoints
    <3> QED BY <3>1, <3>2 DEF TypeOK, dbVars, memVars, wsVars
  <2> QED BY <2>1, <2>2
<1> QED BY <1>1, <1>2, <1>3, <1>4, <1>5 DEF Handlers, GetSessionStatus

LEMMA TypeLoopStep == ASSUME TypeOK, LoopStep PROVE TypeOK'
<1>1. CASE StopRunningLabs
  <2>1. PICK o \in loop.todo :
          loop' = [loop EXCEPT !.at = "remove", !.victim = o, !.todo = @ \ {o}]
    BY <1>1 DEF StopRunningLabs
  <2>2. /\ loop' \in LoopType /\ loop'.at = "remove" /\ loop'.victim \in Sessions
        /\ loop'.op = loop.op /\ loop'.cur = loop.cur
    BY <2>1 DEF TypeOK, LoopType, LoopPoints
  <2> QED BY <1>1, <2>2 DEF StopRunningLabs, TypeOK, dbVars, memVars, wsVars
<1>2. CASE CreateRuntime
  BY <1>2, IdleTyped, IdleFields DEF CreateRuntime, TypeOK, LoopAt, LoopType, LoopPoints, dbVars, memVars, wsVars
<1>3. CASE InsertRow
  <2>1. CASE loop' = IdleLoop
    BY <1>3, <2>1, IdleTyped, IdleFields DEF InsertRow, TypeOK, LoopAt, memVars, wsVars
  <2>2. CASE loop' = [loop EXCEPT !.op = "undo", !.at = "remove", !.victim = loop.cur]
    <3>1. /\ loop' \in LoopType /\ loop'.at = "remove" /\ loop'.op = "undo"
          /\ loop'.victim \in Sessions
      BY <1>3, <2>2 DEF InsertRow, TypeOK, LoopAt, LoopType, LoopPoints
    <3> QED BY <1>3, <3>1 DEF InsertRow, TypeOK, LoopAt, memVars, wsVars
  <2> QED BY <1>3, <2>1, <2>2 DEF InsertRow
<1>4. CASE RemoveRuntime
  BY <1>4, IdleTyped, IdleFields DEF RemoveRuntime, AfterRemove, TypeOK, LoopAt, LoopType, LoopPoints, dbVars
<1>5. CASE HaltRuntime
  BY <1>5, IdleTyped, IdleFields DEF HaltRuntime, AfterRemove, Attached, TypeOK, LoopAt, LoopType, LoopPoints, dbVars
<1>6. CASE MarkRow
  <2>1. row' \in [Sessions -> {"none", "running", "graded", "stopped"}]
    BY <1>6 DEF MarkRow, MarkStopped, TypeOK, LoopAt
  <2>2. CASE loop' = IdleLoop
    BY <1>6, <2>1, <2>2, IdleTyped, IdleFields DEF MarkRow, TypeOK, memVars, wsVars
  <2>3. CASE loop.op = "start" /\ loop' = [loop EXCEPT !.at = "purge", !.victim = NoSession]
    <3>1. /\ loop' \in LoopType /\ loop'.at = "purge" /\ loop'.op = "start"
          /\ loop'.cur \in Sessions
      BY <2>3 DEF TypeOK, LoopType, LoopPoints
    <3> QED BY <1>6, <2>1, <3>1 DEF MarkRow, TypeOK, memVars, wsVars
  <2> QED BY <1>6, <2>2, <2>3 DEF MarkRow
<1>7. CASE ResetRuntime
  BY <1>7, IdleTyped, IdleFields DEF ResetRuntime, TypeOK, LoopAt, LoopType, LoopPoints, wsVars
<1>8. CASE ResetRow
  BY <1>8, IdleTyped, IdleFields DEF ResetRow, TypeOK, LoopAt, LoopType, LoopPoints, memVars, wsVars
<1>9. CASE GradeSnapshot
  <2>1. CASE loop' = IdleLoop
    BY <1>9, <2>1, IdleTyped, IdleFields DEF GradeSnapshot, TypeOK, dbVars, memVars, wsVars
  <2>2. CASE loop' = [loop EXCEPT !.at = "record", !.snap = gen[loop.cur]]
    <3>1. loop \in LoopType /\ loop.cur \in Sessions
      BY <1>9 DEF GradeSnapshot, TypeOK, LoopAt
    <3>2. gen[loop.cur] \in 0..MaxGeneration
      BY <3>1 DEF TypeOK
    <3>3. /\ loop' \in LoopType /\ loop'.at = "record" /\ loop'.op = loop.op
          /\ loop'.cur \in Sessions
      BY <2>2, <3>1, <3>2 DEF LoopType, LoopPoints
    <3> QED BY <1>9, <3>3 DEF GradeSnapshot, TypeOK, dbVars, memVars, wsVars
  <2> QED BY <1>9, <2>1, <2>2 DEF GradeSnapshot
<1>10. CASE RecordGrade
  BY <1>10, IdleTyped, IdleFields DEF RecordGrade, TypeOK, LoopAt, LoopType, LoopPoints, dbVars, memVars, wsVars
<1> QED BY <1>1, <1>2, <1>3, <1>4, <1>5, <1>6, <1>7, <1>8, <1>9, <1>10 DEF LoopStep

LEMMA TypeProgress == ASSUME TypeOK, NEW w \in Workers, GetProgress(w) PROVE TypeOK'
<1>1. ASSUME NEW u \in Users, ProgressRead(w, u) PROVE TypeOK'
  BY <1>1 DEF ProgressRead, ActiveRows, TypeOK, WorkerType, dbVars, memVars, wsVars
<1>2. CASE ProgressFind(w)
  <2>1. PICK s \in worker[w].rows :
          worker' = [worker EXCEPT ![w].rows = @ \ {s},
                                   ![w].stale = IF Live(s) THEN @ ELSE @ \cup {s}]
    BY <1>2 DEF ProgressFind
  <2>2. worker' \in [Workers -> WorkerType]
    <3>1. worker[w] \in WorkerType /\ s \in Sessions
      BY <2>1 DEF TypeOK, WorkerType
    <3>2. [worker[w] EXCEPT !.rows = @ \ {s},
                            !.stale = IF Live(s) THEN @ ELSE @ \cup {s}] \in WorkerType
      BY <3>1 DEF WorkerType
    <3> QED BY <2>1, <3>2 DEF TypeOK
  <2> QED BY <1>2, <2>2 DEF ProgressFind, TypeOK, dbVars, memVars, wsVars
<1>3. CASE ProgressWrite(w)
  BY <1>3, IdleTyped DEF ProgressWrite, TypeOK, memVars, wsVars
<1> QED BY <1>1, <1>2, <1>3 DEF GetProgress

LEMMA TypeTerminal == ASSUME TypeOK, NEW c \in Conns, Terminal(c) PROVE TypeOK'
<1>1. ASSUME NEW s \in Sessions, WsOpen(c, s) PROVE TypeOK'
  BY <1>1 DEF WsOpen, MarkStopped, TypeOK, WsPoints, memVars
<1>2. CASE AttachGet(c)
  BY <1>2 DEF AttachGet, WsGiveUp, TypeOK, WsPoints, dbVars, memVars
<1>3. CASE AttachRuntime(c)
  BY <1>3 DEF AttachRuntime, WsGiveUp, TypeOK, WsPoints, dbVars, memVars
<1>4. CASE AttachRegister(c)
  BY <1>4 DEF AttachRegister, TypeOK, WsPoints, dbVars, memVars
<1>5. CASE ExecuteGet(c)
  BY <1>5 DEF ExecuteGet, TypeOK, WsPoints, dbVars, memVars
<1>6. CASE ExecuteRun(c)
  BY <1>6 DEF ExecuteRun, TypeOK, WsPoints, dbVars, memVars
<1>7. CASE WsDisconnect(c)
  BY <1>7 DEF WsDisconnect, TypeOK, WsPoints, dbVars, memVars
<1>8. CASE WsDetach(c)
  BY <1>8 DEF WsDetach, TypeOK, WsPoints, dbVars, memVars
<1> QED BY <1>1, <1>2, <1>3, <1>4, <1>5, <1>6, <1>7, <1>8
        DEF Terminal, AttachThread, ExecuteThread, SendStop

LEMMA TypeRestart == ASSUME TypeOK, Crash \/ InitDb PROVE TypeOK'
<1>1. CASE Crash
  <2>1. loop' \in LoopType /\ loop'.at = "idle" /\ loop'.op = "none"
    BY <1>1, IdleTyped, IdleFields DEF Crash
  <2>2. worker' \in [Workers -> WorkerType]
    BY <1>1, IdleTyped DEF Crash
  <2>3. /\ rt' \in [Sessions -> {"absent", "running", "stopped"}]
        /\ gen' \in [Sessions -> 0..MaxGeneration]
    BY <1>1 DEF Crash
  <2>4. /\ ws' \in [Conns -> WsPoints] /\ wsSess' \in [Conns -> Sessions \cup {NoSession}]
        /\ \A c \in Conns : ws'[c] = "idle" /\ wsSess'[c] = NoSession
    BY <1>1 DEF Crash, WsPoints
  <2> QED BY <1>1, <2>1, <2>2, <2>3, <2>4 DEF Crash, TypeOK, dbVars
<1>2. CASE InitDb
  BY <1>2 DEF InitDb, TypeOK, memVars, wsVars
<1> QED BY <1>1, <1>2

LEMMA TypeNext == ASSUME TypeOK, [Next]_vars PROVE TypeOK'
<1>1. CASE UNCHANGED vars
  BY <1>1 DEF TypeOK, vars, dbVars, memVars, wsVars
<1> QED BY <1>1, TypeHandlers, TypeLoopStep, TypeProgress, TypeTerminal, TypeRestart DEF Next

\* Every variable keeps its type, and the loop and the WebSocket handlers hold
\* a session exactly where their code uses one.
THEOREM TypeCorrect == Spec => []TypeOK
  BY TypeInit, TypeNext, PTL DEF Spec

-----------------------------------------------------------------------------
(* The inductive invariant.                                                *)

LEMMA InductiveInit == Init => IInv
<1> SUFFICES ASSUME Init PROVE IInv
  OBVIOUS
<1>1. TypeOK
  BY TypeInit
<1>2. OneLabPerAccount /\ NoLeakedRuntime /\ RegisteredRuns /\ PurgeCovers
  BY IdleFields DEF Init, OneLabPerAccount, NoLeakedRuntime, RegisteredRuns, PurgeCovers,
       Active, ActiveStatus
<1>3. LoopKnows /\ WorkersKnow /\ DeadIsEmpty
  BY IdleFields DEF Init, LoopKnows, WorkersKnow, DeadIsEmpty
<1> QED BY <1>1, <1>2, <1>3 DEF IInv

\* What the invariant says besides types.
Inv == /\ OneLabPerAccount /\ NoLeakedRuntime /\ RegisteredRuns
       /\ PurgeCovers /\ LoopKnows /\ WorkersKnow

LEMMA InvHandlers == ASSUME IInv, TypeOK', Handlers PROVE Inv'
<1> USE DEF IInv, Inv, TypeOK, OneLabPerAccount, NoLeakedRuntime, RegisteredRuns, PurgeCovers, LoopKnows, WorkersKnow, Active, ActiveRows, ActiveStatus, Live, LoopIdle, LoopAt
<1>1. ASSUME NEW s \in Sessions, StartLab(s) PROVE Inv'
  <2>1. /\ loop'.op = "start" /\ loop'.at = "purge" /\ loop'.cur = s
        /\ loop'.todo = ActiveRows(Owner[s])
    BY <1>1, IdleTyped DEF StartLab, LoopType
  <2>2. row' = row /\ rt' = rt /\ registry' = registry /\ gen' = gen /\ worker' = worker
    BY <1>1 DEF StartLab, dbVars, memVars
  <2>3. OneLabPerAccount' /\ NoLeakedRuntime' /\ RegisteredRuns' /\ WorkersKnow'
    BY <1>1, <2>1, <2>2 DEF StartLab
  <2>4. PurgeCovers' /\ LoopKnows'
    BY <1>1, <2>1, <2>2 DEF StartLab
  <2> QED BY <2>3, <2>4
<1>2. ASSUME NEW s \in Sessions, StopLab(s) PROVE Inv'
  BY <1>2, IdleTyped, IdleFields DEF StopLab, dbVars, memVars, wsVars, LoopType
<1>3. ASSUME NEW s \in Sessions, MarkIfGone(s) PROVE Inv'
  BY <1>3 DEF MarkIfGone, MarkStopped, memVars, wsVars
<1>4. ASSUME NEW s \in Sessions, ResetSession(s) PROVE Inv'
  <2>1. CASE MarkIfGone(s)
    BY <1>3, <2>1
  <2>2. CASE ~MarkIfGone(s)
    <3>1. /\ loop' = [IdleLoop EXCEPT !.op = "reset", !.at = "reset", !.cur = s]
          /\ LoopIdle /\ Active(s) /\ s \in registry
          /\ UNCHANGED <<dbVars, memVars, worker>>
      BY <1>4, <2>2 DEF ResetSession
    <3>2. loop'.op = "reset" /\ loop'.at = "reset" /\ loop'.cur = s /\ loop'.todo = {}
      BY <3>1, IdleTyped, IdleFields DEF LoopType
    <3> QED BY <3>1, <3>2 DEF dbVars, memVars
  <2> QED BY <2>1, <2>2
<1>5. ASSUME NEW s \in Sessions, GradeLab(s) PROVE Inv'
  <2>1. CASE MarkIfGone(s)
    BY <1>3, <2>1
  <2>2. CASE ~MarkIfGone(s)
    <3>1. /\ loop' = [IdleLoop EXCEPT !.op = "grade", !.at = "snapshot", !.cur = s]
          /\ LoopIdle /\ Active(s) /\ s \in registry
          /\ UNCHANGED <<dbVars, memVars, worker>>
      BY <1>5, <2>2 DEF GradeLab
    <3>2. loop'.op = "grade" /\ loop'.at = "snapshot" /\ loop'.cur = s /\ loop'.todo = {}
      BY <3>1, IdleTyped, IdleFields DEF LoopType
    <3> QED BY <3>1, <3>2 DEF dbVars, memVars
  <2> QED BY <2>1, <2>2
<1> QED BY <1>1, <1>2, <1>3, <1>4, <1>5 DEF Handlers, GetSessionStatus

LEMMA InvLoopStep == ASSUME IInv, TypeOK', LoopStep PROVE Inv'
<1> USE DEF IInv, Inv, TypeOK, OneLabPerAccount, NoLeakedRuntime, RegisteredRuns, PurgeCovers, LoopKnows, WorkersKnow, Active, ActiveRows, ActiveStatus, Live, LoopIdle, LoopAt
<1>1. CASE StopRunningLabs
  BY <1>1, IdleTyped, IdleFields DEF StopRunningLabs, LoopType, dbVars, memVars, wsVars
<1>2. CASE CreateRuntime
  BY <1>2, IdleTyped, IdleFields DEF CreateRuntime, LoopType, dbVars, memVars, wsVars
<1>3. CASE InsertRow
  <2>1. CASE loop' = IdleLoop /\ row' = [row EXCEPT ![loop.cur] = "running"]
    <3>1. /\ loop.cur \in Sessions /\ row[loop.cur] = "none"
          /\ ActiveRows(Owner[loop.cur]) = {}
      BY <1>3 DEF InsertRow
    <3>2. \A s \in Sessions : Active(s)' <=> Active(s) \/ s = loop.cur
      BY <2>1, <3>1
    <3>3. OneLabPerAccount'
      BY <1>3, <3>1, <3>2 DEF InsertRow, memVars
    <3>4. NoLeakedRuntime' /\ RegisteredRuns' /\ WorkersKnow'
      BY <1>3, <2>1, <3>1, <3>2 DEF InsertRow, memVars
    <3>5. PurgeCovers'
      BY <2>1, IdleFields
    <3>6. LoopKnows'
      BY <2>1, IdleFields
    <3> QED BY <3>3, <3>4, <3>5, <3>6
  <2>2. CASE /\ loop' = [loop EXCEPT !.op = "undo", !.at = "remove", !.victim = loop.cur]
             /\ row' = row
    <3>1. /\ loop'.op = "undo" /\ loop'.at = "remove" /\ loop'.victim = loop.cur
          /\ loop'.todo = loop.todo
      BY <2>2 DEF LoopType
    <3> QED BY <1>3, <2>2, <3>1 DEF InsertRow, memVars
  <2> QED BY <1>3, <2>1, <2>2 DEF InsertRow
<1>4. CASE RemoveRuntime
  BY <1>4, IdleTyped, IdleFields DEF RemoveRuntime, AfterRemove, LoopType, dbVars
<1>5. CASE HaltRuntime
  BY <1>5, IdleTyped, IdleFields DEF HaltRuntime, AfterRemove, LoopType, dbVars
<1>6. CASE MarkRow
  <2>1. row' \in {row, [row EXCEPT ![loop.victim] = "stopped"]}
    BY <1>6 DEF MarkRow, MarkStopped
  <2>2. \A s \in Sessions : Active(s)' => Active(s)
    BY <1>6, <2>1
  <2>3. \A s \in Sessions : row[s] # "none" => row'[s] # "none"
    BY <2>1
  <2>4. \A s \in registry : row'[s] = row[s]
    BY <1>6, <2>1 DEF MarkRow
  <2>5. registry' = registry /\ rt' = rt /\ gen' = gen /\ worker' = worker
    BY <1>6 DEF MarkRow, memVars
  <2>6. OneLabPerAccount'
    BY <2>2, <2>5
  <2>6a. RegisteredRuns'
    BY <2>5
  <2>6b. WorkersKnow'
    BY <2>3, <2>5 DEF WorkerType
  <2>7. NoLeakedRuntime'
    BY <1>6, <2>4, <2>5 DEF MarkRow
  <2>8. CASE loop' = IdleLoop
    <3>1. PurgeCovers' /\ LoopKnows'
      BY <2>8, IdleFields
    <3> QED BY <2>6, <2>6a, <2>6b, <2>7, <3>1
  <2>9. CASE /\ loop.op = "start" /\ row' = [row EXCEPT ![loop.victim] = "stopped"]
             /\ loop' = [loop EXCEPT !.at = "purge", !.victim = NoSession]
    <3>1. /\ loop'.op = "start" /\ loop'.at = "purge" /\ loop'.cur = loop.cur
          /\ loop'.todo = loop.todo
      BY <2>9 DEF LoopType
    <3>2. loop.victim \in Sessions /\ row[loop.victim] # "none"
      BY <1>6, <2>9 DEF MarkRow
    <3>3. PurgeCovers'
      BY <1>6, <2>2, <2>9, <3>1, <3>2 DEF MarkRow
    <3>4. LoopKnows'
      BY <2>3, <3>1 DEF LoopType
    <3> QED BY <2>6, <2>6a, <2>6b, <2>7, <3>3, <3>4
  <2> QED BY <1>6, <2>8, <2>9 DEF MarkRow, MarkStopped
<1>7. CASE ResetRuntime
  BY <1>7, IdleTyped, IdleFields DEF ResetRuntime, LoopType, wsVars
<1>8. CASE ResetRow
  <2>1. loop.at = "resetRow" /\ loop.cur \in Sessions /\ Active(loop.cur)
    BY <1>8 DEF ResetRow
  <2>2. row' \in {row, [row EXCEPT ![loop.cur] = "running"]}
    BY <1>8 DEF ResetRow, dbVars
  <2>3. \A s \in Sessions : Active(s)' <=> Active(s)
    BY <2>1, <2>2
  <2>4. \A s \in Sessions : row[s] # "none" => row'[s] # "none"
    BY <2>2
  <2>5. registry' = registry /\ rt' = rt /\ gen' = gen /\ worker' = worker /\ loop' = IdleLoop
    BY <1>8 DEF ResetRow, memVars
  <2>6. OneLabPerAccount' /\ RegisteredRuns'
    BY <2>3, <2>5
  <2>7. WorkersKnow'
    BY <2>4, <2>5 DEF WorkerType
  <2>8. NoLeakedRuntime'
    BY <2>1, <2>3, <2>5
  <2>9. PurgeCovers' /\ LoopKnows'
    BY <2>5, IdleFields
  <2> QED BY <2>6, <2>7, <2>8, <2>9
<1>9. CASE GradeSnapshot
  BY <1>9, IdleTyped, IdleFields DEF GradeSnapshot, LoopType, dbVars, memVars, wsVars
<1>10. CASE RecordGrade
  <2>1. loop.at = "record" /\ loop.cur \in Sessions /\ Active(loop.cur)
    BY <1>10 DEF RecordGrade
  <2>2. row' \in {row, [row EXCEPT ![loop.cur] = "graded"]}
    BY <1>10 DEF RecordGrade, dbVars
  <2>3. \A s \in Sessions : Active(s)' <=> Active(s)
    BY <2>1, <2>2
  <2>4. \A s \in Sessions : row[s] # "none" => row'[s] # "none"
    BY <2>2
  <2>5. registry' = registry /\ rt' = rt /\ gen' = gen /\ worker' = worker /\ loop' = IdleLoop
    BY <1>10 DEF RecordGrade, memVars
  <2>6. OneLabPerAccount' /\ RegisteredRuns'
    BY <2>3, <2>5
  <2>7. WorkersKnow'
    BY <2>4, <2>5 DEF WorkerType
  <2>8. NoLeakedRuntime'
    BY <2>1, <2>3, <2>5
  <2>9. PurgeCovers' /\ LoopKnows'
    BY <2>5, IdleFields
  <2> QED BY <2>6, <2>7, <2>8, <2>9
<1> QED BY <1>1, <1>2, <1>3, <1>4, <1>5, <1>6, <1>7, <1>8, <1>9, <1>10 DEF LoopStep

LEMMA InvProgress == ASSUME IInv, TypeOK', NEW w \in Workers, GetProgress(w) PROVE Inv'
<1> USE DEF IInv, Inv, TypeOK, OneLabPerAccount, NoLeakedRuntime, RegisteredRuns, PurgeCovers, LoopKnows, WorkersKnow, Active, ActiveRows, ActiveStatus, Live, LoopIdle, LoopAt
<1>1. ASSUME NEW u \in Users, ProgressRead(w, u) PROVE Inv'
  BY <1>1 DEF ProgressRead, WorkerType, dbVars, memVars, wsVars
<1>2. CASE ProgressFind(w)
  BY <1>2 DEF ProgressFind, WorkerType, dbVars, memVars, wsVars
<1>3. CASE ProgressWrite(w)
  <2>1. \A s \in Sessions : row'[s] \in {row[s], "stopped"}
    BY <1>3 DEF ProgressWrite
  <2>2. \A s \in registry : row'[s] = row[s]
    <3>1. worker[w].stale \cap registry = {}
      BY DEF WorkerType
    <3> QED BY <1>3, <3>1 DEF ProgressWrite
  <2>3. \A s \in Sessions : row'[s] = "none" <=> row[s] = "none"
    BY <1>3 DEF ProgressWrite, WorkerType
  <2>4. registry' = registry /\ rt' = rt /\ gen' = gen /\ loop' = loop
    BY <1>3 DEF ProgressWrite, memVars
  <2>5. worker' = [worker EXCEPT ![w] = IdleWorker]
    BY <1>3 DEF ProgressWrite
  <2>6. \A s \in Sessions : Active(s)' => Active(s)
    BY <2>1
  <2>7. OneLabPerAccount' /\ RegisteredRuns'
    BY <2>4, <2>6
  <2>8. NoLeakedRuntime'
    BY <2>2, <2>4
  <2>9. PurgeCovers'
    BY <2>3, <2>4, <2>6
  <2>10. LoopKnows'
    BY <2>2, <2>3, <2>4 DEF LoopType
  <2>11. WorkersKnow'
    BY <2>3, <2>4, <2>5, IdleFields DEF WorkerType
  <2> QED BY <2>7, <2>8, <2>9, <2>10, <2>11
<1> QED BY <1>1, <1>2, <1>3 DEF GetProgress


\* A step that leaves rows, runtimes, loop and threads alone keeps Inv.
LEMMA InvFrame ==
  ASSUME IInv, UNCHANGED <<row, rt, registry, gen, loop, worker>> PROVE Inv'
  BY DEF IInv, Inv, OneLabPerAccount, NoLeakedRuntime, RegisteredRuns, PurgeCovers,
         LoopKnows, WorkersKnow, Active, ActiveRows

LEMMA InvTerminal == ASSUME IInv, TypeOK', NEW c \in Conns, Terminal(c) PROVE Inv'
<1>1. ASSUME NEW s \in Sessions, WsOpen(c, s) PROVE Inv'
  <2>1. CASE Live(s)
    BY <1>1, <2>1, InvFrame DEF WsOpen, memVars
  <2>2. CASE ~Live(s)
    <3>2. row' = [row EXCEPT ![s] = "stopped"] /\ Active(s) /\ s \notin registry
      BY <1>1, <2>2 DEF WsOpen, MarkStopped, Live, IInv, RegisteredRuns
    <3>3. UNCHANGED <<rt, registry, gen, loop, worker>> /\ loop.at = "idle"
      BY <1>1 DEF WsOpen, memVars, LoopIdle
    <3>4. /\ \A t \in Sessions : Active(t)' => Active(t)
          /\ \A t \in Sessions : row'[t] = "none" <=> row[t] = "none"
          /\ \A t \in registry : row'[t] = row[t]
      BY <3>2 DEF Active, ActiveStatus, IInv, TypeOK
    <3>5. OneLabPerAccount' /\ NoLeakedRuntime' /\ RegisteredRuns'
      BY <3>3, <3>4 DEF IInv, OneLabPerAccount, NoLeakedRuntime, RegisteredRuns, TypeOK, Active
    <3>6. PurgeCovers' /\ LoopKnows'
      BY <3>3, <3>4 DEF IInv, TypeOK, LoopType, PurgeCovers, LoopKnows
    <3>7. WorkersKnow'
      BY <3>3, <3>4 DEF IInv, TypeOK, WorkerType, WorkersKnow
    <3> QED BY <3>5, <3>6, <3>7 DEF Inv
  <2> QED BY <2>1, <2>2
<1>2. CASE AttachThread(c) \/ ExecuteThread(c)
  BY <1>2, InvFrame DEF AttachThread, AttachGet, AttachRuntime, AttachRegister,
       ExecuteThread, ExecuteGet, ExecuteRun, dbVars, memVars
<1>3. CASE WsDisconnect(c) \/ WsDetach(c)
  BY <1>3, InvFrame DEF WsDisconnect, WsDetach, dbVars, memVars
<1> QED BY <1>1, <1>2, <1>3 DEF Terminal, SendStop

LEMMA InvRestart == ASSUME IInv, TypeOK', Crash \/ InitDb PROVE Inv'
<1>1. CASE Crash
  <2>1. registry' = {} /\ row' = row /\ loop' = IdleLoop /\ worker' = [w \in Workers |-> IdleWorker]
    BY <1>1 DEF Crash, dbVars
  <2>2. OneLabPerAccount' /\ NoLeakedRuntime' /\ RegisteredRuns'
    BY <2>1 DEF IInv, OneLabPerAccount, NoLeakedRuntime, RegisteredRuns, Active
  <2>3. PurgeCovers' /\ LoopKnows' /\ WorkersKnow'
    BY <2>1, IdleFields DEF PurgeCovers, LoopKnows, WorkersKnow
  <2> QED BY <2>2, <2>3 DEF Inv
<1>2. CASE InitDb
  <2>1. /\ \A s \in Sessions : ~Active(s)' /\ (row[s] = "none" <=> row'[s] = "none")
        /\ UNCHANGED <<rt, registry, gen, loop, worker>>
    BY <1>2 DEF InitDb, memVars, Active, ActiveStatus, IInv, TypeOK
  <2>2. registry = {} /\ loop.at = "idle"
    BY <1>2 DEF InitDb, IInv, DeadIsEmpty
  <2>3. OneLabPerAccount' /\ NoLeakedRuntime' /\ RegisteredRuns'
    BY <2>1, <2>2 DEF OneLabPerAccount, NoLeakedRuntime, RegisteredRuns
  <2>4. PurgeCovers' /\ LoopKnows'
    BY <2>1, <2>2 DEF IInv, TypeOK, LoopType, PurgeCovers, LoopKnows
  <2>5. WorkersKnow'
    BY <2>1, <2>2 DEF IInv, TypeOK, WorkerType, WorkersKnow
  <2> QED BY <2>3, <2>4, <2>5 DEF Inv
<1> QED BY <1>1, <1>2

LEMMA DeadNext == ASSUME DeadIsEmpty, [Next]_vars PROVE DeadIsEmpty'
<1>1. CASE alive
  <2>1. CASE Crash
    BY <2>1, IdleFields DEF Crash, DeadIsEmpty
  <2>2. CASE alive' = alive
    BY <1>1, <2>2 DEF DeadIsEmpty
  <2>3. CASE Handlers
    BY <2>2, <2>3 DEF Handlers, StartLab, StopLab, GetSessionStatus, ResetSession, GradeLab, MarkIfGone
  <2>4. CASE LoopStep
    BY <2>2, <2>4 DEF LoopStep, StopRunningLabs, CreateRuntime, InsertRow, RemoveRuntime,
         HaltRuntime, MarkRow, ResetRuntime, ResetRow, GradeSnapshot, RecordGrade
  <2>5. CASE \E w \in Workers : GetProgress(w)
    BY <2>2, <2>5 DEF GetProgress, ProgressRead, ProgressFind, ProgressWrite
  <2>6. CASE \E c \in Conns : Terminal(c)
    BY <2>2, <2>6 DEF Terminal, WsOpen, AttachThread, AttachGet, AttachRuntime, AttachRegister,
         ExecuteThread, ExecuteGet, ExecuteRun, WsDisconnect, SendStop, WsDetach
  <2>7. CASE UNCHANGED vars
    BY <2>2, <2>7 DEF vars
  <2> QED BY <1>1, <2>1, <2>3, <2>4, <2>5, <2>6, <2>7 DEF Next, InitDb
<1>2. CASE ~alive
  <2>1. InitDb \/ UNCHANGED vars
    BY <1>2 DEF Next, Handlers, StartLab, StopLab, GetSessionStatus, ResetSession, GradeLab,
         MarkIfGone, LoopStep, StopRunningLabs, CreateRuntime, InsertRow, RemoveRuntime,
         HaltRuntime, MarkRow, ResetRuntime, ResetRow, GradeSnapshot, RecordGrade, LoopAt,
         LoopIdle, GetProgress, ProgressRead, ProgressFind, ProgressWrite, Terminal, WsOpen,
         AttachThread, AttachGet, AttachRuntime, AttachRegister, ExecuteThread, ExecuteGet,
         ExecuteRun, WsDisconnect, SendStop, WsDetach, Crash
  <2> QED BY <1>2, <2>1 DEF InitDb, DeadIsEmpty, vars, memVars
<1> QED BY <1>1, <1>2

LEMMA InductiveNext == ASSUME IInv, [Next]_vars PROVE IInv'
<1>1. TypeOK'
  BY TypeNext DEF IInv
<1>2. ASSUME UNCHANGED vars PROVE Inv'
  BY <1>2, InvFrame DEF vars, dbVars, memVars
<1>3. Inv'
  <2>1. ASSUME NEW w \in Workers, GetProgress(w) PROVE Inv'
    BY <1>1, <2>1, InvProgress
  <2>2. ASSUME NEW c \in Conns, Terminal(c) PROVE Inv'
    BY <1>1, <2>2, InvTerminal
  <2>3. ASSUME Handlers \/ LoopStep \/ Crash \/ InitDb PROVE Inv'
    BY <1>1, <2>3, InvHandlers, InvLoopStep, InvRestart
  <2> QED BY <1>2, <2>1, <2>2, <2>3 DEF Next
<1>4. DeadIsEmpty'
  BY DeadNext DEF IInv
<1> QED BY <1>1, <1>3, <1>4 DEF IInv, Inv

\* The inductive invariant, for every number of accounts, sessions,
\* connections and threads.
THEOREM InductiveInvariant == Spec => []IInv
  BY InductiveInit, InductiveNext, PTL DEF Spec

\* README.md:77: an account has at most one active row and one runtime.
THEOREM OneLabPerAccountHolds == Spec => []OneLabPerAccount
<1>1. IInv => OneLabPerAccount
  BY DEF IInv
<1> QED BY <1>1, InductiveInvariant, PTL

\* No runtime is left in the manager without a row that reaches it.
THEOREM NoLeakedRuntimeHolds == Spec => []NoLeakedRuntime
<1>1. IInv => NoLeakedRuntime
  BY DEF IInv
<1> QED BY <1>1, InductiveInvariant, PTL


-----------------------------------------------------------------------------
(* Terminals.  What the viewers and the terminal entries are at each point  *)
(* of a WebSocket handler: the invariant behind TerminalBacked.             *)

WsKnows ==
  \A c \in Conns :
    /\ ws[c] # "idle" => row[wsSess[c]] # "none"
    /\ ws[c] \in {"idle", "attach", "got"} => c \notin terms /\ c \notin viewers
    /\ ws[c] \in {"attached", "open", "execute", "closing"} => c \in viewers
    /\ ws[c] \in {"open", "execute", "closing"} /\ wsSess[c] \in registry => c \in terms

\* A step that moves no handler, adds no runtime to a session that has a row
\* and takes no terminal entry.
LEMMA WsFrame ==
  ASSUME WsKnows, TypeOK, UNCHANGED <<ws, wsSess, terms, viewers>>,
         \A s \in Sessions : row[s] # "none" => row'[s] # "none",
         \A s \in registry' : s \in registry \/ row[s] = "none"
  PROVE  WsKnows'
  BY DEF WsKnows, TypeOK

LEMMA WsHandlers == ASSUME IInv, WsKnows, Handlers PROVE WsKnows'
<1>1. /\ UNCHANGED <<ws, wsSess, terms, viewers, registry>>
      /\ row' = row \/ \E s \in Sessions : row' = [row EXCEPT ![s] = "stopped"]
  BY DEF Handlers, StartLab, StopLab, GetSessionStatus, ResetSession, GradeLab, MarkIfGone,
       MarkStopped, dbVars, memVars, wsVars
<1>2. \A s \in Sessions : row[s] # "none" => row'[s] # "none"
  BY <1>1 DEF IInv, TypeOK
<1> QED BY <1>1, <1>2, WsFrame DEF IInv

LEMMA WsLoopStep == ASSUME IInv, WsKnows, LoopStep PROVE WsKnows'
<1>1. CASE RemoveRuntime
  <2>1. /\ registry' = registry \ {loop.victim} /\ terms' = {c \in terms : wsSess[c] # loop.victim}
        /\ UNCHANGED <<row, ws, wsSess, viewers>>
    BY <1>1 DEF RemoveRuntime, dbVars
  <2> QED BY <2>1 DEF WsKnows
<1>2. CASE CreateRuntime
  <2>1. loop.op = "start" /\ row[loop.cur] = "none"
    BY <1>2 DEF CreateRuntime, LoopAt, IInv, LoopKnows, PurgeCovers
  <2>2. /\ UNCHANGED <<row, ws, wsSess, terms, viewers>>
        /\ \A s \in registry' : s \in registry \/ s = loop.cur
    BY <1>2 DEF CreateRuntime, dbVars, memVars, wsVars
  <2> QED BY <2>1, <2>2, WsFrame DEF IInv
<1>3. CASE HaltRuntime
  BY <1>3, WsFrame DEF HaltRuntime, dbVars, IInv
<1>4. CASE StopRunningLabs \/ GradeSnapshot
  BY <1>4, WsFrame DEF StopRunningLabs, GradeSnapshot, dbVars, memVars, wsVars, IInv
<1>5. CASE InsertRow \/ MarkRow \/ ResetRuntime \/ ResetRow \/ RecordGrade
  <2>1. UNCHANGED <<ws, wsSess, terms, viewers, registry>>
    BY <1>5 DEF InsertRow, MarkRow, ResetRuntime, ResetRow, RecordGrade, memVars, wsVars
  <2>2. \E s \in Sessions, v \in {"running", "stopped", "graded"} :
          row' \in {row, [row EXCEPT ![s] = v]}
    BY <1>5 DEF InsertRow, MarkRow, MarkStopped, ResetRuntime, ResetRow, RecordGrade, LoopAt,
         IInv, TypeOK, dbVars
  <2>3. \A s \in Sessions : row[s] # "none" => row'[s] # "none"
    BY <2>2 DEF IInv, TypeOK
  <2> QED BY <2>1, <2>3, WsFrame DEF IInv
<1> QED BY <1>1, <1>2, <1>3, <1>4, <1>5 DEF LoopStep

LEMMA WsProgress == ASSUME IInv, WsKnows, NEW w \in Workers, GetProgress(w) PROVE WsKnows'
<1>1. UNCHANGED <<ws, wsSess, terms, viewers, registry>>
  BY DEF GetProgress, ProgressRead, ProgressFind, ProgressWrite, memVars, wsVars
<1>2. \A s \in Sessions : row'[s] \in {row[s], "stopped"}
  BY DEF GetProgress, ProgressRead, ProgressFind, ProgressWrite, dbVars
<1> QED BY <1>1, <1>2, WsFrame DEF IInv

LEMMA WsTerminal == ASSUME IInv, WsKnows, NEW c \in Conns, Terminal(c) PROVE WsKnows'
<1> USE DEF IInv, TypeOK, WsKnows
<1>1. ASSUME NEW s \in Sessions, WsOpen(c, s) PROVE WsKnows'
  <2>1. row[s] # "none" /\ ws[c] = "idle" /\ UNCHANGED <<registry, terms, viewers>>
    BY <1>1 DEF WsOpen, Active, ActiveStatus, memVars
  <2>2. CASE Live(s)
    BY <1>1, <2>1, <2>2 DEF WsOpen
  <2>3. CASE ~Live(s)
    BY <1>1, <2>1, <2>3, WsFrame DEF WsOpen, MarkStopped
  <2> QED BY <2>2, <2>3
<1>2. CASE AttachGet(c)
  BY <1>2 DEF AttachGet, WsGiveUp, dbVars, memVars
<1>3. CASE AttachRuntime(c)
  BY <1>3 DEF AttachRuntime, WsGiveUp, dbVars, memVars
<1>4. CASE AttachRegister(c)
  BY <1>4 DEF AttachRegister, dbVars, memVars
<1>5. CASE ExecuteThread(c)
  BY <1>5 DEF ExecuteThread, ExecuteGet, ExecuteRun, dbVars, memVars
<1>6. CASE WsDisconnect(c)
  BY <1>6 DEF WsDisconnect, dbVars, memVars
<1>7. CASE WsDetach(c)
  BY <1>7 DEF WsDetach, dbVars, memVars
<1> QED BY <1>1, <1>2, <1>3, <1>4, <1>5, <1>6, <1>7 DEF Terminal, AttachThread, SendStop

LEMMA WsRestart == ASSUME IInv, WsKnows, Crash \/ InitDb PROVE WsKnows'
<1>1. CASE Crash
  BY <1>1 DEF Crash, WsKnows
<1>2. CASE InitDb
  <2>1. \A s \in Sessions : row[s] # "none" => row'[s] # "none"
    BY <1>2 DEF InitDb
  <2> QED BY <1>2, <2>1, WsFrame DEF InitDb, memVars, wsVars, IInv
<1> QED BY <1>1, <1>2

\* A handler that ended left no viewer and no terminal entry behind, and an
\* attached browser of a live lab can type, however many browsers there are.
THEOREM TerminalBackedHolds == Spec => []TerminalBacked
<1>1. Init => WsKnows
  BY DEF Init, WsKnows
<1>2. IInv /\ WsKnows /\ [Next]_vars => WsKnows'
  <2>1. ASSUME IInv, WsKnows, UNCHANGED vars PROVE WsKnows'
    BY <2>1, WsFrame DEF vars, dbVars, memVars, wsVars, IInv
  <2> QED BY <2>1, WsHandlers, WsLoopStep, WsProgress, WsTerminal, WsRestart DEF Next
<1>3. WsKnows => TerminalBacked
  BY DEF WsKnows, TerminalBacked, Live
<1> QED BY <1>1, <1>2, <1>3, InductiveInvariant, PTL DEF Spec

-----------------------------------------------------------------------------
(* Rows.  How far rows are behind the runtimes while a handler runs, if no  *)
(* transaction fails: the invariant behind RowsCurrent.                     *)

RowsKnow ==
  /\ loop.at = "insert" => loop.cur \in registry
  /\ alive => \A s \in Sessions :
       /\ Active(s) => s \in registry \/ (loop.at \in {"halt", "mark"} /\ loop.victim = s)
       /\ row[s] = "graded" =>
            \/ [session |-> s, generation |-> gen[s]] \in results
            \/ loop.at = "resetRow" /\ loop.cur = s

LEMMA RowsHandlers == ASSUME ~DbMayFail, IInv, RowsKnow, Handlers PROVE RowsKnow'
<1> DEFINE Begun == /\ alive /\ alive' /\ UNCHANGED <<registry, gen, results>>
                    /\ loop.at = "idle"
                    /\ loop'.at \notin {"insert", "halt", "mark", "resetRow"}
<1>1. Begun
  <2>1. ASSUME NEW s \in Sessions, StartLab(s) PROVE Begun
    BY <2>1, IdleTyped DEF StartLab, LoopIdle, LoopType, dbVars, memVars
  <2>2. ASSUME NEW s \in Sessions, StopLab(s) PROVE Begun
    BY <2>2, IdleTyped DEF StopLab, LoopIdle, LoopType, dbVars, memVars
  <2>3. ASSUME NEW s \in Sessions, MarkIfGone(s) PROVE Begun
    BY <2>3 DEF MarkIfGone, LoopIdle, memVars
  <2>4. ASSUME NEW s \in Sessions, ResetSession(s), ~MarkIfGone(s) PROVE Begun
    <3>1. /\ loop' = [IdleLoop EXCEPT !.op = "reset", !.at = "reset", !.cur = s]
          /\ LoopIdle /\ UNCHANGED <<alive, dbVars, memVars>>
      BY <2>4 DEF ResetSession
    <3>2. loop'.at = "reset"
      BY <3>1, IdleTyped DEF LoopType
    <3> QED BY <3>1, <3>2 DEF LoopIdle, dbVars, memVars
  <2>5. ASSUME NEW s \in Sessions, GradeLab(s), ~MarkIfGone(s) PROVE Begun
    <3>1. /\ loop' = [IdleLoop EXCEPT !.op = "grade", !.at = "snapshot", !.cur = s]
          /\ LoopIdle /\ UNCHANGED <<alive, dbVars, memVars>>
      BY <2>5 DEF GradeLab
    <3>2. loop'.at = "snapshot"
      BY <3>1, IdleTyped DEF LoopType
    <3> QED BY <3>1, <3>2 DEF LoopIdle, dbVars, memVars
  <2> HIDE DEF Begun
  <2> QED BY <2>1, <2>2, <2>3, <2>4, <2>5 DEF Handlers, GetSessionStatus
<1>2. \A s \in Sessions : row'[s] \in {row[s], "stopped"}
  BY DEF Handlers, StartLab, StopLab, GetSessionStatus, ResetSession, GradeLab, MarkIfGone,
       MarkStopped, dbVars, IInv, TypeOK
<1> QED BY <1>1, <1>2 DEF RowsKnow, Active, ActiveStatus

LEMMA RowsLoopStep == ASSUME ~DbMayFail, IInv, IInv', RowsKnow, LoopStep PROVE RowsKnow'
<1> USE DEF IInv, TypeOK, RowsKnow, Active, ActiveStatus, LoopAt
<1>1. CASE StopRunningLabs
  BY <1>1 DEF StopRunningLabs, LoopType, dbVars, memVars
<1>2. CASE CreateRuntime
  <2>1. /\ loop.cur \in Sessions /\ row[loop.cur] = "none" /\ loop.at = "purge"
        /\ UNCHANGED <<alive, row, results>>
    BY <1>2 DEF CreateRuntime, LoopKnows, PurgeCovers, dbVars
  <2>2. CASE loop' = IdleLoop /\ UNCHANGED memVars
    BY <1>2, <2>1, <2>2, IdleFields DEF CreateRuntime, memVars
  <2>3. CASE /\ gen' = [gen EXCEPT ![loop.cur] = 1] /\ registry' = registry \cup {loop.cur}
             /\ loop' = [loop EXCEPT !.at = "insert"]
    <3>1. loop'.at = "insert" /\ loop'.cur = loop.cur
      BY <2>3 DEF LoopType
    <3> QED BY <1>2, <2>1, <2>3, <3>1
  <2> QED BY <1>2, <2>2, <2>3 DEF CreateRuntime
<1>3. CASE InsertRow
  BY <1>3, IdleFields DEF InsertRow, memVars
<1>4. CASE RemoveRuntime
  <2>1. /\ UNCHANGED <<alive, row, results, gen>> /\ registry' = registry \ {loop.victim}
        /\ loop.victim \in Sessions /\ loop.at = "remove"
    BY <1>4 DEF RemoveRuntime, dbVars
  <2>2. CASE loop' = IdleLoop
    <3>1. loop.op = "undo"
      BY <1>4, <2>2, IdleFields DEF RemoveRuntime, AfterRemove, LoopType
    <3>2. row[loop.victim] = "none"
      BY <3>1 DEF PurgeCovers
    <3> QED BY <2>1, <2>2, <3>2, IdleFields
  <2>3. CASE loop' = [loop EXCEPT !.at = "halt"] \/ loop' = [loop EXCEPT !.at = "mark"]
    <3>1. loop'.at \in {"halt", "mark"} /\ loop'.victim = loop.victim
      BY <2>3 DEF LoopType
    <3> QED BY <2>1, <3>1
  <2> QED BY <1>4, <2>2, <2>3 DEF RemoveRuntime, AfterRemove
<1>5. CASE HaltRuntime
  <2>1. UNCHANGED <<alive, row, results, gen, registry>> /\ loop.at = "halt"
    BY <1>5 DEF HaltRuntime, dbVars
  <2>2. CASE loop' = IdleLoop
    <3>1. loop.op = "undo"
      BY <1>5, <2>2, IdleFields DEF HaltRuntime, AfterRemove, LoopType
    <3>2. row[loop.victim] = "none"
      BY <3>1 DEF PurgeCovers
    <3> QED BY <2>1, <2>2, <3>2, IdleFields
  <2>3. CASE loop' = [loop EXCEPT !.at = "mark"]
    <3>1. loop'.at = "mark" /\ loop'.victim = loop.victim
      BY <2>3 DEF LoopType
    <3> QED BY <2>1, <3>1
  <2> QED BY <1>5, <2>2, <2>3 DEF HaltRuntime, AfterRemove
<1>6. CASE MarkRow
  <2>1. /\ row' = [row EXCEPT ![loop.victim] = "stopped"] /\ loop.at = "mark"
        /\ UNCHANGED <<alive, results, gen, registry>>
    BY <1>6 DEF MarkRow, MarkStopped, memVars
  <2>2. loop'.at \in {"idle", "purge"}
    <3>1. CASE loop' = IdleLoop
      BY <3>1, IdleFields
    <3>2. CASE loop' = [loop EXCEPT !.at = "purge", !.victim = NoSession]
      BY <3>2 DEF LoopType
    <3> QED BY <1>6, <3>1, <3>2 DEF MarkRow
  <2> QED BY <2>1, <2>2
<1>7. CASE ResetRuntime
  <2>1. rt[loop.cur] = "running" /\ loop.cur \in Sessions
    BY <1>7 DEF ResetRuntime, LoopKnows, RegisteredRuns
  <2>2. /\ gen' = [gen EXCEPT ![loop.cur] = @ + 1] /\ row' = row
        /\ loop' = [loop EXCEPT !.at = "resetRow"] /\ UNCHANGED <<alive, results, registry>>
    BY <1>7, <2>1 DEF ResetRuntime
  <2>3. loop'.at = "resetRow" /\ loop'.cur = loop.cur
    BY <2>2 DEF LoopType
  <2> QED BY <1>7, <2>1, <2>2, <2>3 DEF ResetRuntime
<1>8. CASE ResetRow
  <2>1. /\ row' = [row EXCEPT ![loop.cur] = "running"] /\ loop' = IdleLoop
        /\ UNCHANGED <<alive, results, gen, registry>> /\ loop.cur \in registry
        /\ loop.at = "resetRow"
    BY <1>8 DEF ResetRow, memVars, LoopKnows
  <2> QED BY <2>1, IdleFields
<1>9. CASE GradeSnapshot
  <2>1. UNCHANGED <<alive, row, results, gen, registry>> /\ loop'.at \in {"record", "idle"}
    BY <1>9, IdleFields DEF GradeSnapshot, LoopType, dbVars, memVars
  <2> QED BY <1>9, <2>1 DEF GradeSnapshot
<1>10. CASE RecordGrade
  <2>1. /\ row' = [row EXCEPT ![loop.cur] = "graded"] /\ loop' = IdleLoop
        /\ results' = results \cup {[session |-> loop.cur, generation |-> gen[loop.cur]]}
        /\ UNCHANGED <<alive, gen, registry>> /\ loop.cur \in registry /\ loop.at = "record"
    BY <1>10 DEF RecordGrade, memVars, LoopKnows
  <2> QED BY <2>1, IdleFields
<1> QED BY <1>1, <1>2, <1>3, <1>4, <1>5, <1>6, <1>7, <1>8, <1>9, <1>10 DEF LoopStep

LEMMA RowsOthers ==
  ASSUME IInv, RowsKnow,
         \/ \E w \in Workers : GetProgress(w)
         \/ \E c \in Conns : Terminal(c)
         \/ UNCHANGED vars
  PROVE  RowsKnow'
<1>1. /\ UNCHANGED <<alive, registry, gen, results, loop>>
      /\ \A s \in Sessions : row'[s] \in {row[s], "stopped"}
  <2>1. ASSUME NEW w \in Workers, GetProgress(w)
        PROVE  /\ UNCHANGED <<alive, registry, gen, results, loop>>
               /\ \A s \in Sessions : row'[s] \in {row[s], "stopped"}
    BY <2>1 DEF GetProgress, ProgressRead, ProgressFind, ProgressWrite, dbVars, memVars
  <2>2. ASSUME NEW c \in Conns, Terminal(c)
        PROVE  /\ UNCHANGED <<alive, registry, gen, results, loop>>
               /\ \A s \in Sessions : row'[s] \in {row[s], "stopped"}
    BY <2>2 DEF Terminal, WsOpen, MarkStopped, AttachThread, AttachGet, AttachRuntime,
         AttachRegister, ExecuteThread, ExecuteGet, ExecuteRun, WsDisconnect, SendStop,
         WsDetach, dbVars, memVars, IInv, TypeOK
  <2> QED BY <2>1, <2>2 DEF vars, dbVars, memVars
<1> QED BY <1>1 DEF RowsKnow, Active, ActiveStatus

LEMMA RowsRestart == ASSUME IInv, RowsKnow, Crash \/ InitDb PROVE RowsKnow'
<1>1. CASE Crash
  BY <1>1, IdleFields DEF Crash, RowsKnow
<1>2. CASE InitDb
  BY <1>2 DEF InitDb, IInv, DeadIsEmpty, RowsKnow, Active, ActiveStatus, memVars
<1> QED BY <1>1, <1>2

\* If no transaction fails, an active row has a live runtime whenever no handler
\* is half way, and a graded one the result of the generation that runs: also
\* across crashes and with any number of threads that stop rows.
THEOREM RowsCurrentHolds == ~DbMayFail => (Spec => []RowsCurrent)
<1> SUFFICES ASSUME ~DbMayFail PROVE Spec => []RowsCurrent
  OBVIOUS
<1>1. Init => RowsKnow
  BY IdleFields DEF Init, RowsKnow, Active, ActiveStatus
<1>2. IInv /\ IInv' /\ RowsKnow /\ [Next]_vars => RowsKnow'
  BY RowsHandlers, RowsLoopStep, RowsOthers, RowsRestart DEF Next
<1>3. IInv /\ RowsKnow => RowsCurrent
  BY DEF IInv, RegisteredRuns, RowsKnow, RowsCurrent, LoopIdle, Live
<1> QED BY <1>1, <1>2, <1>3, InductiveInvariant, PTL DEF Spec

-----------------------------------------------------------------------------
(* Action properties and the refinement.                                   *)

\* Which rows a step may move, and from where to where.
RowStep(s) ==
  \/ row'[s] = row[s]
  \/ /\ row[s] = "none" /\ row'[s] = "running"
     /\ loop.cur = s /\ InsertRow
  \/ Active(s) /\ row'[s] \in ActiveStatus
  \/ row[s] # "none" /\ row'[s] = "stopped" /\ s \notin registry

LEMMA RowSteps == ASSUME IInv, [Next]_vars PROVE \A s \in Sessions : RowStep(s)
<1> USE DEF RowStep
<1>1. ASSUME NEW s \in Sessions, MarkIfGone(s) PROVE \A t \in Sessions : RowStep(t)
  BY <1>1 DEF MarkIfGone, MarkStopped, Live, Active, ActiveStatus, IInv, TypeOK, RegisteredRuns
<1>2. ASSUME Handlers PROVE \A t \in Sessions : RowStep(t)
  BY <1>1, <1>2 DEF Handlers, StartLab, StopLab, GetSessionStatus, ResetSession, GradeLab, dbVars
<1>3. ASSUME InsertRow PROVE \A t \in Sessions : RowStep(t)
  BY <1>3 DEF InsertRow, LoopAt, IInv, TypeOK, PurgeCovers, LoopKnows
<1>4. ASSUME MarkRow PROVE \A t \in Sessions : RowStep(t)
  BY <1>4 DEF MarkRow, MarkStopped, LoopAt, IInv, TypeOK, LoopKnows
<1>5. ASSUME ResetRuntime PROVE \A t \in Sessions : RowStep(t)
  BY <1>5 DEF ResetRuntime, LoopAt, IInv, LoopKnows, RegisteredRuns
<1>6. ASSUME ResetRow \/ RecordGrade PROVE \A t \in Sessions : RowStep(t)
  BY <1>6 DEF ResetRow, RecordGrade, LoopAt, IInv, TypeOK, LoopKnows, ActiveStatus, dbVars
<1>7. ASSUME LoopStep PROVE \A t \in Sessions : RowStep(t)
  BY <1>3, <1>4, <1>5, <1>6, <1>7
     DEF LoopStep, StopRunningLabs, CreateRuntime, RemoveRuntime, HaltRuntime,
         GradeSnapshot, dbVars
<1>8. ASSUME NEW w \in Workers, GetProgress(w) PROVE \A t \in Sessions : RowStep(t)
  BY <1>8 DEF GetProgress, ProgressRead, ProgressFind, ProgressWrite, IInv, WorkersKnow, dbVars
<1>9. ASSUME NEW c \in Conns, Terminal(c) PROVE \A t \in Sessions : RowStep(t)
  <2>1. ASSUME NEW s \in Sessions, WsOpen(c, s) PROVE \A t \in Sessions : RowStep(t)
    BY <2>1 DEF WsOpen, MarkStopped, Live, Active, ActiveStatus, IInv, TypeOK, RegisteredRuns
  <2> QED BY <1>9, <2>1 DEF Terminal, AttachThread, AttachGet, AttachRuntime, AttachRegister,
            ExecuteThread, ExecuteGet, ExecuteRun, WsDisconnect, SendStop, WsDetach, dbVars
<1>10. ASSUME Crash \/ UNCHANGED vars PROVE \A t \in Sessions : RowStep(t)
  BY <1>10 DEF Crash, dbVars, vars
<1>11. ASSUME InitDb PROVE \A t \in Sessions : RowStep(t)
  BY <1>11 DEF InitDb, IInv, TypeOK, DeadIsEmpty, Active, ActiveStatus
<1> QED BY <1>2, <1>7, <1>8, <1>9, <1>10, <1>11 DEF Next

\* A stopped session never runs again, whatever a handler or a thread read
\* before it was stopped.
THEOREM StoppedIsFinalHolds == Spec => StoppedIsFinal
<1>1. IInv /\ [Next]_vars =>
        [\A s \in Sessions : row[s] = "stopped" => row'[s] = "stopped"]_vars
  BY RowSteps DEF RowStep, Active, ActiveStatus
<1> QED BY <1>1, InductiveInvariant, PTL DEF Spec, StoppedIsFinal

\* Nobody stops the row of a lab that still has a runtime.
THEOREM OnlyDeadRowsStoppedHolds == Spec => OnlyDeadRowsStopped
<1>1. IInv /\ [Next]_vars =>
        [\A s \in Sessions : Active(s) /\ row'[s] = "stopped" => s \notin registry]_vars
  BY RowSteps DEF RowStep, Active, ActiveStatus
<1> QED BY <1>1, InductiveInvariant, PTL DEF Spec, OnlyDeadRowsStopped

\* Only RecordGrade adds results, and it adds the graded generation of a
\* running runtime.
LEMMA ResultStep ==
  ASSUME IInv, [Next]_vars
  PROVE  \/ results' = results
         \/ /\ RecordGrade
            /\ results' = results \cup {[session |-> loop.cur, generation |-> loop.snap]}
<1>1. ASSUME Handlers PROVE results' = results
  BY <1>1 DEF Handlers, StartLab, StopLab, GetSessionStatus, ResetSession, GradeLab,
       MarkIfGone, dbVars
<1>2. ASSUME LoopStep, ~RecordGrade PROVE results' = results
  BY <1>2 DEF LoopStep, StopRunningLabs, CreateRuntime, InsertRow, RemoveRuntime,
       HaltRuntime, MarkRow, ResetRuntime, ResetRow, GradeSnapshot, dbVars
<1>3. ASSUME NEW w \in Workers, GetProgress(w) PROVE results' = results
  BY <1>3 DEF GetProgress, ProgressRead, ProgressFind, ProgressWrite, dbVars
<1>4. ASSUME NEW c \in Conns, Terminal(c) PROVE results' = results
  BY <1>4 DEF Terminal, WsOpen, AttachThread, AttachGet, AttachRuntime, AttachRegister,
       ExecuteThread, ExecuteGet, ExecuteRun, WsDisconnect, SendStop, WsDetach, dbVars
<1>5. ASSUME Crash \/ InitDb \/ UNCHANGED vars PROVE results' = results
  BY <1>5 DEF Crash, InitDb, vars, dbVars
<1>6. CASE RecordGrade
  BY <1>6 DEF RecordGrade, LoopAt, dbVars
<1> QED BY <1>1, <1>2, <1>3, <1>4, <1>5, <1>6 DEF Next

\* A result names the generation that is still the runtime's own.
THEOREM GradeMatchesGenerationHolds == Spec => GradeMatchesGeneration
<1>1. IInv /\ [Next]_vars =>
        [\A r \in results' \ results : Live(r.session) /\ r.generation = gen[r.session]]_vars
  BY ResultStep DEF RecordGrade, LoopAt, IInv, LoopKnows, RegisteredRuns, Live
<1> QED BY <1>1, InductiveInvariant, PTL DEF Spec, GradeMatchesGeneration


LEMMA LifecycleInit == Init => Lifecycle!Init
  BY DEF Init, Lifecycle!Init, Phase, Active, ActiveStatus

LEMMA LifecycleNext == ASSUME IInv, IInv', [Next]_vars PROVE [Lifecycle!Next]_(Lifecycle!vars)
<1> USE DEF Active, ActiveStatus
<1>1. \A s \in Sessions : RowStep(s)
  BY RowSteps
<1>2. CASE results' # results
  <2>1. /\ row' = [row EXCEPT ![loop.cur] = "graded"]
        /\ results' = results \cup {[session |-> loop.cur, generation |-> loop.snap]}
        /\ loop.cur \in Sessions /\ Active(loop.cur) /\ loop.snap \in 0..MaxGeneration
    BY <1>2, ResultStep DEF RecordGrade, LoopAt, dbVars, IInv, TypeOK, LoopType, LoopKnows
  <2>2. Phase' = Phase
    BY <2>1 DEF Phase, IInv, TypeOK
  <2> QED BY <2>1, <2>2 DEF Lifecycle!Next, Lifecycle!Grade, Phase
<1>3. CASE results' = results /\ \E s \in Sessions : row[s] = "none" /\ row'[s] = "running"
  <2>1. PICK s \in Sessions : row[s] = "none" /\ row'[s] = "running"
    BY <1>3
  <2>2. InsertRow /\ loop.cur = s
    BY <1>1, <2>1 DEF RowStep
  <2>3. row' = [row EXCEPT ![s] = "running"]
    BY <2>1, <2>2 DEF InsertRow, IInv, TypeOK, LoopAt
  <2>4. Phase' = [Phase EXCEPT ![s] = "active"] /\ Phase[s] = "none"
    BY <2>1, <2>3 DEF Phase, IInv, TypeOK
  <2>5. \A o \in Lifecycle!Active : Owner[o] # Owner[s]
    <3>1. ActiveRows(Owner[s]) = {}
      BY <2>2 DEF InsertRow, LoopAt, IInv, LoopKnows, PurgeCovers
    <3>2. \A o \in Lifecycle!Active : o \in Sessions /\ Active(o)
      BY DEF Lifecycle!Active, Phase, IInv, TypeOK
    <3> QED BY <3>1, <3>2 DEF ActiveRows
  <2> QED BY <1>3, <2>4, <2>5 DEF Lifecycle!Next, Lifecycle!Start
<1>4. CASE results' = results /\ ~\E s \in Sessions : row[s] = "none" /\ row'[s] = "running"
  <2> DEFINE S == {s \in Sessions : Active(s) /\ row'[s] = "stopped"}
  <2>1. S \in SUBSET Lifecycle!Active
    BY DEF Lifecycle!Active, Phase
  <2>2. Phase' = [s \in Sessions |-> IF s \in S THEN "stopped" ELSE Phase[s]]
    BY <1>1, <1>4 DEF RowStep, Phase, IInv, TypeOK
  <2> QED BY <1>4, <2>1, <2>2 DEF Lifecycle!Next, Lifecycle!Stop
<1> QED BY <1>2, <1>3, <1>4, ResultStep

\* The rows and results of the control plane behave as LabLifecycle promises.
THEOREM LifecycleImplemented == Spec => LifecycleSpec
  BY LifecycleInit, LifecycleNext, InductiveInvariant, PTL DEF Spec, LifecycleSpec, Lifecycle!Spec

=============================================================================
