--------------------------- MODULE Browser_proofs ---------------------------
(***************************************************************************)
(* Proofs about what browsers meet.                                        *)
(*                                                                         *)
(* LabClient, for any sessions, number of acts and of failures: what the   *)
(* lab page knows of the server only moves forward, although replies are   *)
(* lost or late, or are about sessions that other devices have replaced.   *)
(*                                                                         *)
(* Accounts, for any addresses, passwords, browsers, limits and finite     *)
(* pool of threads: types, what requests in progress know, how far they    *)
(* can exceed a limiter together, and who is signed out.                   *)
(***************************************************************************)
EXTENDS Accounts, LabClient, TLAPS, FiniteSetTheorems, SequenceTheorems

-----------------------------------------------------------------------------
(* The inductive invariant of LabClient.                                   *)

Answers == [kind : {"none", "ok", "error"}, id : Some, gen : Nat]
Requests(names) ==
  [op : names, id : Some, at : {"none", "sent", "answered"}, reply : Answers, n : Nat]

Pages ==
  [session : Some, gen : Nat, ready : BOOLEAN, booting : BOOLEAN, timed : BOOLEAN,
   active : BOOLEAN, expected : Nat, grading : BOOLEAN, report : Some]
LateRequests == [op : {"start", "stop", "reset"}, id : Some, n : Nat]
PollStates == [at : {"off", "timer", "sent", "answered"}, errors : Nat, reply : Answers]
RestoreStates ==
  [at : {"none", "find", "found", "status", "answered"}, id : Some, reply : Answers, wanted : SUBSET Here]

ServerTyped ==
  /\ phase \in [Sessions -> {"none", "running", "stopped"}]
  /\ sgen \in [Sessions -> Nat]

ClientTypes ==
  /\ page \in Pages
  /\ op \in Requests({"none", "start", "stop", "reset"})
  /\ grade \in Requests({"none", "grade"})
  /\ late \subseteq LateRequests
  /\ poll \in PollStates
  /\ restore \in RestoreStates
  /\ stored \in Some /\ acts \in Nat

\* A session that the server has created.
Created(s) == s \in Sessions /\ phase[s] # "none"

ServerSound ==
  \A s \in Sessions :
    /\ phase[s] = "none" => sgen[s] = 0
    /\ phase[s] = "running" => sgen[s] > 0

PageKnows ==
  /\ page.session # NoSession => Created(page.session) /\ page.gen <= sgen[page.session]
  /\ page.report # NoSession => page.report = page.session

StoredKnows == stored # NoSession => Created(stored)

\* The page waits for one thing at a time, and an operation is about the session
\* it shows.
OpKnows ==
  op.at # "none" =>
    /\ poll.at = "off" /\ restore.at = "none"
    /\ \/ op.op = "start" /\ page.session = NoSession
       \/ op.op \in {"stop", "reset"} /\ page.session # NoSession /\ op.id = page.session

\* What a successful reply says of the server, that is still so when it is read.
Answered(name, s, reply) ==
  reply.kind = "ok" =>
    /\ name = "start" => Created(reply.id) /\ reply.gen <= sgen[reply.id]
    /\ name = "stop" => phase[s] = "stopped"
    /\ name = "reset" => page.gen <= reply.gen /\ reply.gen <= sgen[s]

OpAnswered == op.at = "answered" => Answered(op.op, op.id, op.reply)

LateKnows == \A r \in late : r.op # "start" => Created(r.id)

StatusSays(s, reply, least) ==
  reply.kind = "ok" =>
    /\ reply.gen = 0 => phase[s] = "stopped"
    /\ reply.gen > 0 => least <= reply.gen /\ reply.gen <= sgen[s]

PollKnows ==
  poll.at # "off" =>
    /\ page.session # NoSession
    /\ poll.at = "answered" => StatusSays(page.session, poll.reply, page.gen)

RestoreKnows ==
  restore.at # "none" =>
    /\ page.session = NoSession
    /\ restore.at = "found" /\ restore.reply.id # NoSession => Created(restore.reply.id)
    /\ restore.at \in {"status", "answered"} => Created(restore.id)
    /\ restore.at = "answered" => StatusSays(restore.id, restore.reply, 0)

ClientInv ==
  /\ ServerTyped /\ ClientTypes /\ ServerSound
  /\ PageKnows /\ StoredKnows /\ OpKnows /\ OpAnswered /\ LateKnows /\ PollKnows /\ RestoreKnows

-----------------------------------------------------------------------------
(* Steps of the server.                                                    *)

\* Sessions do not go away, stopped ones stay stopped and generations grow.
Grows ==
  \A s \in Sessions :
    /\ phase[s] # "none" => phase'[s] # "none"
    /\ phase[s] = "stopped" => phase'[s] = "stopped"
    /\ sgen[s] <= sgen'[s]

LEMMA RepliesTyped ==
  /\ NoReply \in Answers /\ Error \in Answers
  /\ \A s \in Some, g \in Nat : Ok(s, g) \in Answers
BY DEF NoReply, Error, Ok, Answers, Some

\* A server on which the running sessions of a set are stopped.
LEMMA HaltedSound ==
  ASSUME ServerTyped, ServerSound, NEW T, sgen' = sgen,
         phase' = [t \in Sessions |-> IF t \in T /\ phase[t] = "running" THEN "stopped" ELSE phase[t]]
  PROVE  ServerTyped' /\ ServerSound' /\ Grows
BY DEF ServerTyped, ServerSound, Grows

LEMMA StartSound ==
  ASSUME ServerTyped, ServerSound, NEW s \in Sessions, phase[s] = "none",
         phase' = [Halted EXCEPT ![s] = "running"], sgen' = [sgen EXCEPT ![s] = 1]
  PROVE  ServerTyped' /\ ServerSound' /\ Grows /\ Created(s)' /\ sgen'[s] = 1
BY DEF ServerTyped, ServerSound, Grows, Created, Halted

LEMMA ResetSound ==
  ASSUME ServerTyped, ServerSound, NEW s \in Sessions, phase[s] = "running",
         phase' = phase, sgen' = [sgen EXCEPT ![s] = @ + 1]
  PROVE  ServerTyped' /\ ServerSound' /\ Grows /\ sgen'[s] = sgen[s] + 1 /\ sgen[s] \in Nat
BY DEF ServerTyped, ServerSound, Grows

\* Handling a request: what becomes of the server and what the reply says.
LEMMA HandledSound ==
  ASSUME ServerTyped, ServerSound, NEW r, r.op \in {"start", "stop", "reset"},
         r.op # "start" => Created(r.id), NEW o \in Handled(r), Becomes(o)
  PROVE  /\ ServerTyped' /\ ServerSound' /\ Grows /\ o.reply \in Answers
         /\ o.reply.kind = "ok" =>
              /\ r.op = "start" => Created(o.reply.id)' /\ o.reply.gen <= sgen'[o.reply.id]
              /\ r.op = "stop" => phase'[r.id] = "stopped"
              /\ r.op = "reset" => o.reply.gen = sgen[r.id] + 1 /\ sgen'[r.id] = sgen[r.id] + 1
<1>1. CASE r.op = "start"
  <2>1. PICK s \in {t \in Here : phase[t] = "none"} :
               o = Outcome([Halted EXCEPT ![s] = "running"], [sgen EXCEPT ![s] = 1], Ok(s, 1))
    BY <1>1 DEF Handled
  <2>2. s \in Sessions /\ phase[s] = "none"
    BY HereAssumption
  <2>3. phase' = [Halted EXCEPT ![s] = "running"] /\ sgen' = [sgen EXCEPT ![s] = 1] /\ o.reply = Ok(s, 1)
    BY <2>1 DEF Becomes, Outcome
  <2>4. ServerTyped' /\ ServerSound' /\ Grows /\ Created(s)' /\ sgen'[s] = 1
    BY <2>2, <2>3, StartSound
  <2>5. Ok(s, 1) \in Answers /\ Ok(s, 1).id = s /\ Ok(s, 1).gen = 1
    BY <2>2, RepliesTyped DEF Some, Ok
  <2> QED BY <1>1, <2>3, <2>4, <2>5
<1>2. CASE r.op = "stop"
  <2>1. o = Outcome(HaltedOnly(r.id), sgen, Ok(r.id, 0)) /\ Created(r.id)
    BY <1>2 DEF Handled
  <2>2. phase' = HaltedOnly(r.id) /\ sgen' = sgen /\ o.reply = Ok(r.id, 0)
    BY <2>1 DEF Becomes, Outcome
  <2>3. phase' = [t \in Sessions |-> IF t \in {r.id} /\ phase[t] = "running" THEN "stopped" ELSE phase[t]]
    BY <2>2 DEF HaltedOnly, Halted
  <2>4. ServerTyped' /\ ServerSound' /\ Grows
    BY <2>2, <2>3, HaltedSound
  <2>5. phase'[r.id] = "stopped"
    BY <2>1, <2>3 DEF Created, ServerTyped
  <2>6. o.reply \in Answers
    BY <2>1, <2>2, RepliesTyped DEF Some, Created
  <2> QED BY <1>2, <2>4, <2>5, <2>6
<1>3. CASE r.op = "reset"
  <2>1. r.id \in Sessions /\ r.id \in Some
    BY <1>3 DEF Created, Some
  <2>2. CASE phase[r.id] = "running"
    <3>1. o = Outcome(phase, [sgen EXCEPT ![r.id] = @ + 1], Ok(r.id, sgen[r.id] + 1))
      BY <1>3, <2>2 DEF Handled
    <3>2. phase' = phase /\ sgen' = [sgen EXCEPT ![r.id] = @ + 1] /\ o.reply = Ok(r.id, sgen[r.id] + 1)
      BY <3>1 DEF Becomes, Outcome
    <3>3. ServerTyped' /\ ServerSound' /\ Grows /\ sgen'[r.id] = sgen[r.id] + 1 /\ sgen[r.id] \in Nat
      BY <2>1, <2>2, <3>2, ResetSound
    <3>4. o.reply \in Answers /\ o.reply.gen = sgen[r.id] + 1
      BY <2>1, <3>2, <3>3, RepliesTyped DEF Ok
    <3> QED BY <1>3, <3>3, <3>4
  <2>3. CASE phase[r.id] # "running"
    <3>1. o = Outcome(phase, sgen, Error)
      BY <1>3, <2>3 DEF Handled
    <3>2. phase' = phase /\ sgen' = sgen /\ o.reply = Error
      BY <3>1 DEF Becomes, Outcome
    <3>3. ServerTyped' /\ ServerSound' /\ Grows
      BY <3>2 DEF ServerTyped, ServerSound, Grows
    <3> QED BY <1>3, <3>2, <3>3, RepliesTyped DEF Error
  <2> QED BY <2>2, <2>3
<1> QED BY <1>1, <1>2, <1>3

LEMMA FailedSound ==
  ASSUME ServerTyped, ServerSound, NEW r, r.op \in {"start", "stop", "reset"},
         r.op # "start" => Created(r.id), NEW o \in Failed(r), Becomes(o)
  PROVE  ServerTyped' /\ ServerSound' /\ Grows /\ o.reply = Error
<1>1. CASE o = Outcome(phase, sgen, Error)
  <2>1. phase' = phase /\ sgen' = sgen /\ o.reply = Error
    BY <1>1 DEF Becomes, Outcome
  <2> QED BY <2>1 DEF ServerTyped, ServerSound, Grows
<1>2. CASE o = Outcome(Halted, sgen, Error)
  <2>1. phase' = Halted /\ sgen' = sgen /\ o.reply = Error
    BY <1>2 DEF Becomes, Outcome
  <2>2. phase' = [t \in Sessions |-> IF t \in Sessions /\ phase[t] = "running" THEN "stopped" ELSE phase[t]]
    BY <2>1 DEF Halted
  <2> QED BY <2>1, <2>2, HaltedSound
<1>3. ASSUME NEW h \in Handled(r), o = Outcome(h.phase, h.sgen, Error)
      PROVE  ServerTyped' /\ ServerSound' /\ Grows /\ o.reply = Error
  <2>1. Becomes(h) /\ o.reply = Error
    BY <1>3 DEF Becomes, Outcome
  <2> QED BY <2>1, HandledSound
<1> QED BY <1>1, <1>2, <1>3 DEF Failed

-----------------------------------------------------------------------------
(* Steps of the server leave true what the page knows.                     *)

Forward ==
  /\ page.session # NoSession /\ page'.session = NoSession
       => phase[page.session] = "stopped" \/ PageLoad
  /\ stored # NoSession /\ stored' = NoSession => phase'[stored] = "stopped"
  /\ page.session # NoSession /\ page'.session = page.session /\ ~PageLoad
       => page'.gen >= page.gen
  /\ page'.report # NoSession => page'.report = page'.session

\* A step in which the page keeps its session and its generation.
LEMMA Keeping ==
  ASSUME ClientTypes, ClientInv', page'.session = page.session, page'.gen = page.gen,
         stored' = NoSession => stored = NoSession
  PROVE  Forward
BY DEF Forward, ClientInv, ClientTypes, PageKnows, Pages

LEMMA StatusKept ==
  ASSUME ServerTyped, ServerTyped', Grows, NEW s \in Sessions, NEW reply \in Answers, NEW least \in Nat,
         StatusSays(s, reply, least)
  PROVE  StatusSays(s, reply, least)'
BY DEF ServerTyped, Grows, StatusSays, Answers

LEMMA KnownKept == ASSUME Grows PROVE \A s : Created(s) => Created(s)'
BY DEF Grows, Created

LEMMA PageKept ==
  ASSUME ClientInv, ServerTyped', Grows, page' = page
  PROVE  PageKnows'
<1>1. ASSUME page.session # NoSession PROVE Created(page.session)' /\ page.gen <= sgen'[page.session]
  <2>1. Created(page.session) /\ page.gen <= sgen[page.session] /\ page.session \in Sessions
    BY <1>1 DEF ClientInv, PageKnows, Created
  <2>2. page.gen \in Nat /\ sgen[page.session] \in Nat /\ sgen'[page.session] \in Nat
        /\ sgen[page.session] <= sgen'[page.session]
    BY <2>1 DEF ClientInv, ClientTypes, ServerTyped, Grows, Pages
  <2> QED BY <2>1, <2>2, KnownKept
<1> QED BY <1>1 DEF ClientInv, PageKnows

LEMMA AnsweredKept ==
  ASSUME ClientInv, ServerTyped', Grows, page' = page, op' = op
  PROVE  OpKnows => OpAnswered'
<1> SUFFICES ASSUME OpKnows, op.at = "answered", op.reply.kind = "ok"
             PROVE  Answered(op.op, op.id, op.reply)'
  BY DEF OpAnswered, Answered
<1>1. Answered(op.op, op.id, op.reply)
  BY DEF ClientInv, OpAnswered
<1>2. op.reply.gen \in Nat /\ op.reply \in Answers /\ page.gen \in Nat
  BY DEF ClientInv, ClientTypes, Requests, Answers, Pages, PollStates, RestoreStates
<1>3. CASE op.op = "start"
  <2>1. Created(op.reply.id) /\ op.reply.gen <= sgen[op.reply.id] /\ op.reply.id \in Sessions
    BY <1>1, <1>3 DEF Answered, Created
  <2>2. op.reply.gen <= sgen'[op.reply.id]
    BY <1>2, <2>1 DEF ClientInv, ServerTyped, Grows
  <2> QED BY <1>3, <2>1, <2>2, KnownKept DEF Answered
<1>4. CASE op.op \in {"stop", "reset"}
  <2>1. op.id \in Sessions
    BY <1>4 DEF OpKnows, ClientInv, PageKnows, Created
  <2>2. op.op = "stop" => phase'[op.id] = "stopped"
    BY <1>1, <2>1 DEF Answered, Grows
  <2>3. op.op = "reset" => page.gen <= op.reply.gen /\ op.reply.gen <= sgen'[op.id]
    BY <1>1, <1>2, <2>1 DEF Answered, Grows, ClientInv, ServerTyped
  <2> QED BY <1>4, <2>2, <2>3 DEF Answered
<1> QED BY <1>3, <1>4 DEF OpKnows

LEMMA LateKept == ASSUME ClientInv, Grows, late' \subseteq late PROVE LateKnows'
BY KnownKept DEF ClientInv, LateKnows

LEMMA PollKept ==
  ASSUME ClientInv, ServerTyped', Grows, UNCHANGED <<page, poll>>
  PROVE  PollKnows'
<1> SUFFICES ASSUME poll.at # "off"
             PROVE  /\ page.session # NoSession
                    /\ poll.at = "answered" => StatusSays(page.session, poll.reply, page.gen)'
  BY DEF PollKnows
<1>1. /\ page.session # NoSession
      /\ poll.at = "answered" => StatusSays(page.session, poll.reply, page.gen)
  BY DEF ClientInv, PollKnows
<1>2. page.session \in Sessions /\ poll.reply \in Answers /\ page.gen \in Nat
  BY <1>1 DEF ClientInv, ClientTypes, PageKnows, Created, Pages, PollStates
<1>3. StatusSays(page.session, poll.reply, page.gen) => StatusSays(page.session, poll.reply, page.gen)'
  BY <1>2 DEF ServerTyped, Grows, StatusSays, Answers, ClientInv
<1> QED BY <1>1, <1>3

LEMMA RestoreKept ==
  ASSUME ClientInv, ServerTyped', Grows, UNCHANGED <<page, restore>>
  PROVE  RestoreKnows'
<1> SUFFICES ASSUME restore.at # "none"
             PROVE  /\ page.session = NoSession
                    /\ restore.at = "found" /\ restore.reply.id # NoSession => Created(restore.reply.id)'
                    /\ restore.at \in {"status", "answered"} => Created(restore.id)'
                    /\ restore.at = "answered" => StatusSays(restore.id, restore.reply, 0)'
  BY DEF RestoreKnows
<1>1. /\ page.session = NoSession
      /\ restore.at = "found" /\ restore.reply.id # NoSession => Created(restore.reply.id)
      /\ restore.at \in {"status", "answered"} => Created(restore.id)
      /\ restore.at = "answered" => StatusSays(restore.id, restore.reply, 0)
  BY DEF ClientInv, RestoreKnows
<1>2. ASSUME restore.at = "answered" PROVE StatusSays(restore.id, restore.reply, 0)'
  <2>1. restore.id \in Sessions /\ restore.reply \in Answers
    BY <1>1, <1>2 DEF ClientInv, ClientTypes, Created, RestoreStates, PollStates
  <2> QED BY <1>1, <1>2, <2>1 DEF ServerTyped, Grows, StatusSays, Answers, ClientInv
<1> QED BY <1>1, <1>2, KnownKept

\* What the server does does not make false what the page knows of it.
LEMMA ServerSteps ==
  ASSUME ClientInv, ServerTyped', ServerSound', Grows, ClientTypes', StoredKnows',
         UNCHANGED <<page, op, poll, restore>>, late' \subseteq late
  PROVE  ClientInv'
<1>1. OpKnows /\ OpKnows'
  BY DEF ClientInv, OpKnows
<1> QED BY <1>1, PageKept, AnsweredKept, LateKept, PollKept, RestoreKept DEF ClientInv

LEMMA ActTyped == ASSUME acts \in Nat, Act \/ NoAct PROVE acts' \in Nat
BY DEF Act, NoAct

\* The account elsewhere, and the backend that restarts.
LEMMA DevicesStep == ASSUME ClientInv, Others PROVE ClientInv' /\ Forward
<1>1. ASSUME NEW s \in Sessions, OtherStart(s) PROVE ClientInv' /\ Forward
  <2>1. /\ phase[s] = "none" /\ phase' = [Halted EXCEPT ![s] = "running"]
        /\ sgen' = [sgen EXCEPT ![s] = 1] /\ stored' \in {stored, s}
        /\ UNCHANGED <<page, op, late, poll, restore, grade, sock>> /\ (Act \/ NoAct)
    BY <1>1 DEF OtherStart, Becomes, Outcome
  <2>2. ServerTyped' /\ ServerSound' /\ Grows /\ Created(s)'
    BY <2>1, StartSound DEF ClientInv
  <2>3. ClientTypes'
    BY <2>1, ActTyped DEF ClientInv, ClientTypes, Some
  <2>4. StoredKnows'
    BY <2>1, <2>2, KnownKept DEF ClientInv, StoredKnows
  <2>5. ClientInv'
    BY <2>1, <2>2, <2>3, <2>4, ServerSteps
  <2>6. stored' = NoSession => stored = NoSession
    BY <2>1, NoSessionAssumption
  <2> QED BY <2>1, <2>5, <2>6, Keeping DEF ClientInv
<1>2. ASSUME NEW s \in Sessions, OtherStop(s) PROVE ClientInv' /\ Forward
  <2>1. /\ phase[s] = "running" /\ phase' = Halted /\ sgen' = sgen
        /\ stored' = stored \/ (stored = s /\ stored' = NoSession)
        /\ UNCHANGED <<page, op, late, poll, restore, grade, sock>> /\ (Act \/ NoAct)
    BY <1>2 DEF OtherStop, Becomes, Outcome
  <2>2. phase' = [t \in Sessions |-> IF t \in Sessions /\ phase[t] = "running" THEN "stopped" ELSE phase[t]]
    BY <2>1 DEF Halted
  <2>3. ServerTyped' /\ ServerSound' /\ Grows
    BY <2>1, <2>2, HaltedSound DEF ClientInv
  <2>4. ClientTypes'
    BY <2>1, ActTyped DEF ClientInv, ClientTypes, Some
  <2>5. StoredKnows'
    BY <2>1, <2>3, KnownKept DEF ClientInv, StoredKnows
  <2>6. ClientInv'
    BY <2>1, <2>3, <2>4, <2>5, ServerSteps
  <2>7. phase'[s] = "stopped"
    BY <2>1, <2>2
  <2> QED BY <2>1, <2>6, <2>7 DEF Forward, ClientInv, ClientTypes, PageKnows, Pages, LateRequests
<1>3. ASSUME NEW s \in Sessions, OtherReset(s) PROVE ClientInv' /\ Forward
  <2>1. /\ phase[s] = "running" /\ phase' = phase /\ sgen' = [sgen EXCEPT ![s] = @ + 1]
        /\ UNCHANGED <<page, op, late, poll, restore, grade, stored, sock>> /\ (Act \/ NoAct)
    BY <1>3 DEF OtherReset, Becomes, Outcome
  <2>2. ServerTyped' /\ ServerSound' /\ Grows
    BY <2>1, ResetSound DEF ClientInv
  <2>3. ClientTypes'
    BY <2>1, ActTyped DEF ClientInv, ClientTypes, Some
  <2>4. StoredKnows'
    BY <2>1, <2>2, KnownKept DEF ClientInv, StoredKnows
  <2>5. ClientInv'
    BY <2>1, <2>2, <2>3, <2>4, ServerSteps
  <2> QED BY <2>1, <2>5, Keeping DEF ClientInv
<1>4. ASSUME ServerRestarts PROVE ClientInv' /\ Forward
  <2>1. /\ phase' = Halted /\ sgen' = sgen
        /\ UNCHANGED <<page, op, late, poll, restore, grade, stored>> /\ (Act \/ NoAct)
    BY <1>4 DEF ServerRestarts, Becomes, Outcome
  <2>2. phase' = [t \in Sessions |-> IF t \in Sessions /\ phase[t] = "running" THEN "stopped" ELSE phase[t]]
    BY <2>1 DEF Halted
  <2>3. ServerTyped' /\ ServerSound' /\ Grows
    BY <2>1, <2>2, HaltedSound DEF ClientInv
  <2>4. ClientTypes'
    BY <2>1, ActTyped DEF ClientInv, ClientTypes, Some
  <2>5. StoredKnows'
    BY <2>1, <2>3, KnownKept DEF ClientInv, StoredKnows
  <2>6. ClientInv'
    BY <2>1, <2>3, <2>4, <2>5, ServerSteps
  <2> QED BY <2>1, <2>6, Keeping DEF ClientInv
<1> QED BY <1>1, <1>2, <1>3, <1>4 DEF Others

\* A request that the page does not wait for any more.
LEMMA LateStep == ASSUME ClientInv, LateHandled PROVE ClientInv' /\ Forward
<1>1. PICK r \in late : late' = late \ {r} /\ \E o \in Handled(r) : Becomes(o)
  BY DEF LateHandled
<1>2. UNCHANGED <<page, op, poll, restore, grade, stored, sock>> /\ NoAct
  BY DEF LateHandled
<1>3. r.op \in {"start", "stop", "reset"} /\ (r.op # "start" => Created(r.id))
  BY DEF ClientInv, ClientTypes, LateKnows, LateRequests
<1>4. ServerTyped' /\ ServerSound' /\ Grows
  BY <1>1, <1>3, HandledSound DEF ClientInv
<1>5. ClientTypes' /\ late' \subseteq late
  BY <1>1, <1>2 DEF ClientInv, ClientTypes, NoAct
<1>6. StoredKnows'
  BY <1>2, <1>4, KnownKept DEF ClientInv, StoredKnows
<1>7. ClientInv'
  BY <1>2, <1>4, <1>5, <1>6, ServerSteps
<1> QED BY <1>2, <1>7, Keeping DEF ClientInv

-----------------------------------------------------------------------------
(* Requests reach the server.                                              *)

LEMMA OpHandledStep == ASSUME ClientInv, OpHandled PROVE ClientInv' /\ Forward
<1>1. op.at = "sent" /\ NoAct /\ UNCHANGED <<page, late, poll, restore, grade, stored, sock>>
  BY DEF OpHandled
<1>2. op.op \in {"start", "stop", "reset"} /\ (op.op # "start" => Created(op.id))
      /\ (op.op # "start" => op.id = page.session)
  BY <1>1 DEF ClientInv, OpKnows, PageKnows
<1>3. PICK o \in Handled(op) \cup Failed(op) :
             Becomes(o) /\ op' = [op EXCEPT !.at = "answered", !.reply = o.reply]
  BY DEF OpHandled
<1>4. /\ ServerTyped' /\ ServerSound' /\ Grows /\ o.reply \in Answers
      /\ o.reply.kind = "ok" =>
           /\ op.op = "start" => Created(o.reply.id)' /\ o.reply.gen <= sgen'[o.reply.id]
           /\ op.op = "stop" => phase'[op.id] = "stopped"
           /\ op.op = "reset" => o.reply.gen = sgen[op.id] + 1 /\ sgen'[op.id] = sgen[op.id] + 1
  <2>1. CASE o \in Handled(op)
    BY <1>2, <1>3, <2>1, HandledSound DEF ClientInv
  <2>2. CASE o \in Failed(op)
    <3>1. ServerTyped' /\ ServerSound' /\ Grows /\ o.reply = Error
      BY <1>2, <1>3, <2>2, FailedSound DEF ClientInv
    <3> QED BY <3>1, RepliesTyped DEF Error
  <2> QED BY <2>1, <2>2
<1>5. op'.op = op.op /\ op'.id = op.id /\ op'.at = "answered" /\ op'.reply = o.reply
      /\ op' \in Requests({"none", "start", "stop", "reset"})
  BY <1>3, <1>4 DEF ClientInv, ClientTypes, Requests
<1>6. ClientTypes'
  BY <1>1, <1>5 DEF ClientInv, ClientTypes, NoAct
<1>7. StoredKnows'
  BY <1>1, <1>4, KnownKept DEF ClientInv, StoredKnows
<1>8. OpKnows'
  BY <1>1, <1>2, <1>5 DEF ClientInv, OpKnows
<1>9. OpAnswered'
  <2>1. CASE op.op = "reset"
    <3>1. op.id \in Sessions /\ page.gen \in Nat /\ page.gen <= sgen[op.id] /\ sgen[op.id] \in Nat
      BY <1>1, <1>2, <2>1 DEF ClientInv, OpKnows, PageKnows, Created, ClientTypes, ServerTyped, Pages
    <3> QED BY <1>1, <1>4, <1>5, <2>1, <3>1 DEF OpAnswered, Answered
  <2>2. CASE op.op # "reset"
    BY <1>1, <1>4, <1>5, <2>2 DEF OpAnswered, Answered
  <2> QED BY <2>1, <2>2
<1>10. PageKnows' /\ LateKnows' /\ PollKnows' /\ RestoreKnows'
  BY <1>1, <1>4, PageKept, LateKept, PollKept, RestoreKept
<1>11. ClientInv'
  BY <1>4, <1>6, <1>7, <1>8, <1>9, <1>10 DEF ClientInv
<1> QED BY <1>1, <1>11, Keeping DEF ClientInv

\* A status says what the server has.
LEMMA StatusSound ==
  ASSUME ServerTyped, ServerSound, NEW s \in Sessions, Created(s), NEW least \in Nat, least <= sgen[s]
  PROVE  StatusOf(s) \in Answers /\ StatusSays(s, StatusOf(s), least)
<1>1. StatusOf(s).gen = (IF phase[s] = "running" THEN sgen[s] ELSE 0) /\ sgen[s] \in Nat
  BY DEF StatusOf, Ok, ServerTyped
<1>2. StatusOf(s) \in Answers
  BY RepliesTyped DEF StatusOf, ServerTyped, Some
<1> QED BY <1>1, <1>2 DEF StatusSays, ServerSound, ServerTyped, Created

LEMMA ErrorSays == ASSUME NEW s, NEW least PROVE StatusSays(s, Error, least)
BY DEF StatusSays, Error

\* Nothing changes on the server.
LEMMA ServerSame ==
  ASSUME ClientInv, UNCHANGED server
  PROVE  ServerTyped' /\ ServerSound' /\ Grows
BY DEF ClientInv, ServerTyped, ServerSound, Grows, server

LEMMA PollHandledStep == ASSUME ClientInv, PollHandled \/ PollTimer PROVE ClientInv' /\ Forward
<1>1. poll.at \in {"timer", "sent"} /\ NoAct
      /\ UNCHANGED <<server, page, op, late, restore, grade, stored, sock>>
  BY DEF PollHandled, PollTimer
<1>2. page.session \in Sessions /\ Created(page.session) /\ page.gen \in Nat /\ page.gen <= sgen[page.session]
      /\ page.session # NoSession
  BY <1>1 DEF ClientInv, PollKnows, PageKnows, Created, ClientTypes, Pages
<1>3. PICK reply \in Answers :
        /\ StatusSays(page.session, reply, page.gen)
        /\ \/ poll' = [poll EXCEPT !.at = "answered", !.reply = reply]
           \/ poll' = [poll EXCEPT !.at = "sent"]
  <2>1. StatusOf(page.session) \in Answers /\ StatusSays(page.session, StatusOf(page.session), page.gen)
    BY <1>2, StatusSound DEF ClientInv
  <2>2. Error \in Answers /\ StatusSays(page.session, Error, page.gen)
    BY ErrorSays, RepliesTyped
  <2> QED BY <2>1, <2>2 DEF PollHandled, PollTimer
<1>4. poll'.at \in {"sent", "answered"} /\ (poll'.at = "answered" => poll'.reply = reply)
      /\ poll' \in PollStates
  BY <1>3 DEF ClientInv, ClientTypes, PollStates
<1>5. ServerTyped' /\ ServerSound' /\ Grows
  BY <1>1, ServerSame
<1>6. ClientTypes'
  BY <1>1, <1>4 DEF ClientInv, ClientTypes, NoAct
<1>7. PageKnows' /\ LateKnows' /\ RestoreKnows' /\ StoredKnows'
  BY <1>1, <1>5, PageKept, LateKept, RestoreKept, KnownKept DEF ClientInv, StoredKnows
<1>8. op.at = "none"
  BY <1>1 DEF ClientInv, OpKnows
<1>9. OpKnows' /\ OpAnswered'
  BY <1>1, <1>8 DEF OpKnows, OpAnswered
<1>10. PollKnows'
  <2>1. StatusSays(page.session, reply, page.gen)'
    BY <1>1, <1>3 DEF StatusSays, server
  <2> QED BY <1>1, <1>2, <1>4, <2>1 DEF PollKnows
<1>11. ClientInv'
  BY <1>5, <1>6, <1>7, <1>9, <1>10 DEF ClientInv
<1> QED BY <1>1, <1>11, Keeping DEF ClientInv

LEMMA RestoreHandledStep == ASSUME ClientInv, RestoreHandled PROVE ClientInv' /\ Forward
<1>1. restore.at \in {"find", "status"} /\ NoAct
      /\ UNCHANGED <<server, page, op, late, poll, grade, stored, sock>>
  BY DEF RestoreHandled
<1>2. page.session = NoSession /\ (restore.at = "status" => Created(restore.id))
  BY <1>1 DEF ClientInv, RestoreKnows
<1>3. ActiveHere \in Answers /\ (ActiveHere.id # NoSession => Created(ActiveHere.id))
  <2>1. CASE Running \cap Here = {}
    <3>1. ActiveHere = Ok(NoSession, 0)
      BY <2>1 DEF ActiveHere
    <3>2. Ok(NoSession, 0) \in Answers
      BY RepliesTyped DEF Some
    <3> QED BY <3>1, <3>2 DEF Ok
  <2>2. CASE Running \cap Here # {}
    <3> DEFINE s == CHOOSE t \in Running \cap Here : TRUE
    <3>1. s \in Sessions /\ phase[s] = "running"
      BY <2>2 DEF Running
    <3>2. ActiveHere = Ok(s, sgen[s])
      BY <2>2 DEF ActiveHere
    <3> HIDE DEF s
    <3>3. Ok(s, sgen[s]) \in Answers
      BY <3>1, RepliesTyped DEF Some, ClientInv, ServerTyped
    <3> QED BY <3>1, <3>2, <3>3 DEF Ok, Created
  <2> QED BY <2>1, <2>2
<1>4. PICK reply \in Answers :
        \/ /\ restore' = [restore EXCEPT !.at = "found", !.reply = reply]
           /\ reply.id # NoSession => Created(reply.id)
        \/ /\ restore' = [restore EXCEPT !.at = "answered", !.reply = reply]
           /\ StatusSays(restore.id, reply, 0) /\ Created(restore.id)
  <2>1. Error \in Answers /\ Error.id = NoSession /\ StatusSays(restore.id, Error, 0)
    BY ErrorSays, RepliesTyped DEF Error
  <2>2. CASE restore.at = "find"
    BY <1>3, <2>1, <2>2 DEF RestoreHandled
  <2>3. CASE restore.at = "status"
    <3>1. restore.id \in Sessions /\ sgen[restore.id] \in Nat /\ 0 \in Nat
      BY <1>2, <2>3 DEF Created, ClientInv, ServerTyped
    <3>2. StatusOf(restore.id) \in Answers /\ StatusSays(restore.id, StatusOf(restore.id), 0)
      <4>1. 0 <= sgen[restore.id]
        BY <3>1
      <4> QED BY <1>2, <2>3, <3>1, <4>1, StatusSound DEF ClientInv
    <3> QED BY <1>2, <2>1, <2>3, <3>2 DEF RestoreHandled
  <2> QED BY <1>1, <2>2, <2>3
<1>5. /\ restore'.id = restore.id /\ restore'.reply = reply /\ restore'.at \in {"found", "answered"}
      /\ restore'.at = "found" => (reply.id # NoSession => Created(reply.id))
      /\ restore'.at = "answered" => StatusSays(restore.id, reply, 0) /\ Created(restore.id)
      /\ restore' \in RestoreStates
  BY <1>4 DEF ClientInv, ClientTypes, RestoreStates
<1>6. ServerTyped' /\ ServerSound' /\ Grows
  BY <1>1, ServerSame
<1>7. ClientTypes'
  BY <1>1, <1>5 DEF ClientInv, ClientTypes, NoAct
<1>8. PageKnows' /\ LateKnows' /\ PollKnows' /\ StoredKnows'
  BY <1>1, <1>6, PageKept, LateKept, PollKept, KnownKept DEF ClientInv, StoredKnows
<1>9. op.at = "none"
  BY <1>1 DEF ClientInv, OpKnows
<1>10. OpKnows' /\ OpAnswered'
  BY <1>1, <1>9 DEF OpKnows, OpAnswered
<1>11. RestoreKnows'
  BY <1>1, <1>2, <1>5 DEF RestoreKnows, StatusSays, Created, server
<1>12. ClientInv'
  BY <1>6, <1>7, <1>8, <1>10, <1>11 DEF ClientInv
<1> QED BY <1>1, <1>12, Keeping DEF ClientInv

-----------------------------------------------------------------------------
(* Clicks, grades and page loads.                                          *)

LateTyped == late \subseteq LateRequests

\* What is overtaken while it waits for the server is an operation on a session of
\* the page.
LEMMA OvertakenKnown ==
  ASSUME ClientInv, UNCHANGED server, late' \in {late, late \cup Overtaken(op)}
  PROVE  LateKnows' /\ LateTyped'
<1>1. ASSUME NEW r \in Overtaken(op)
      PROVE  r \in LateRequests /\ (r.op # "start" => Created(r.id))
  <2>1. op.at = "sent" /\ r = [op |-> op.op, id |-> op.id, n |-> op.n]
    BY <1>1 DEF Overtaken
  <2>2. op.op \in {"start", "stop", "reset"} /\ op.id \in Some /\ op.n \in Nat
    BY <2>1 DEF ClientInv, OpKnows, ClientTypes, Requests
  <2>3. op.op # "start" => Created(op.id)
    BY <2>1 DEF ClientInv, OpKnows, PageKnows
  <2> QED BY <2>1, <2>2, <2>3 DEF LateRequests
<1>2. \A r \in late : r \in LateRequests
                      /\ (r.op # "start" => Created(r.id))
  BY DEF ClientInv, ClientTypes, LateKnows
<1>3. \A r : Created(r)' <=> Created(r)
  BY DEF Created, server
<1>4. \A r \in late' : r \in late \/ r \in Overtaken(op)
  OBVIOUS
<1>5. LateTyped'
  BY <1>1, <1>2, <1>4 DEF LateTyped
<1>6. LateKnows'
  BY <1>1, <1>2, <1>3, <1>4 DEF LateKnows
<1> QED BY <1>5, <1>6

LEMMA StartsTyped ==
  /\ PollOff \in PollStates
  /\ PollStart \in PollStates
  /\ RestoreOff \in RestoreStates
  /\ PollOff.at = "off" /\ PollStart.at = "sent" /\ RestoreOff.at = "none"
  /\ \A names : "none" \in names => NoRequest \in Requests(names)
  /\ NoRequest.at = "none"
<1>1. NoReply \in Answers /\ NoSession \in Some
  BY RepliesTyped DEF Some
<1>2. PollOff \in PollStates
  BY <1>1 DEF PollOff, PollStates
<1> QED BY <1>1, <1>2 DEF PollStart, PollOff, RestoreOff, NoRequest, Requests, PollStates, RestoreStates

LEMMA OperationStep ==
  ASSUME ClientInv, NEW name \in {"start", "stop", "reset"}, Operation(name, page.session),
         name = "start" <=> page.session = NoSession,
         page'.session = page.session, page'.gen = page.gen, page'.report = page.report,
         page' \in Pages
  PROVE  ClientInv' /\ Forward
<1>1. /\ Act /\ op' = NewRequest(name, page.session) /\ late' = late \cup Overtaken(op)
      /\ restore' = RestoreOff /\ poll' = PollOff /\ UNCHANGED <<server, grade, stored>>
  BY DEF Operation
<1>2. ServerTyped' /\ ServerSound' /\ Grows
  BY <1>1, ServerSame
<1>3. /\ op'.op = name /\ op'.id = page.session /\ op'.at = "sent"
      /\ op' \in Requests({"none", "start", "stop", "reset"})
  BY <1>1, RepliesTyped DEF NewRequest, Requests, ClientInv, ClientTypes, Pages
<1>4. LateKnows' /\ LateTyped'
  BY <1>1, OvertakenKnown
<1>5. ClientTypes'
  BY <1>1, <1>3, <1>4, StartsTyped, ActTyped DEF ClientInv, ClientTypes, LateTyped
<1>6. PageKnows' /\ StoredKnows'
  BY <1>1 DEF ClientInv, PageKnows, StoredKnows, Created, server
<1>7. OpKnows' /\ OpAnswered' /\ PollKnows' /\ RestoreKnows'
  BY <1>1, <1>3, StartsTyped DEF OpKnows, OpAnswered, PollKnows, RestoreKnows
<1>8. ClientInv'
  BY <1>2, <1>4, <1>5, <1>6, <1>7 DEF ClientInv
<1> QED BY <1>1, <1>8, Keeping DEF ClientInv

LEMMA PageChanged ==
  ASSUME ClientTypes
  PROVE  /\ page \in Pages
         /\ BlankPage \in Pages
         /\ BlankPage.session = NoSession /\ BlankPage.report = NoSession
BY DEF ClientTypes, BlankPage, Some, Pages

LEMMA ClickStep == ASSUME ClientInv, HandleStart \/ HandleStop \/ HandleReset PROVE ClientInv' /\ Forward
<1>1. CASE HandleStart
  <2>1. /\ page.session = NoSession /\ Operation("start", page.session)
        /\ page' = [page EXCEPT !.booting = TRUE, !.active = TRUE, !.expected = 0, !.ready = FALSE]
    BY <1>1 DEF HandleStart
  <2> QED BY <2>1, OperationStep, PageChanged DEF ClientInv, Pages
<1>2. CASE HandleStop
  <2>1. /\ page.session # NoSession /\ Operation("stop", page.session)
        /\ page' = [page EXCEPT !.active = FALSE, !.expected = 0, !.ready = FALSE]
    BY <1>2 DEF HandleStop
  <2> QED BY <2>1, OperationStep, PageChanged DEF ClientInv, Pages
<1>3. CASE HandleReset
  <2>1. /\ page.session # NoSession /\ Operation("reset", page.session)
        /\ page' = [page EXCEPT !.booting = TRUE, !.active = TRUE, !.expected = 0, !.ready = FALSE]
    BY <1>3 DEF HandleReset
  <2> QED BY <2>1, OperationStep, PageChanged DEF ClientInv, Pages
<1> QED BY <1>1, <1>2, <1>3

\* The page keeps its session, its generation and what it waits for.
LEMMA PageSteps ==
  ASSUME ClientInv, UNCHANGED <<server, op, late, poll, restore, stored>>, ClientTypes',
         page'.session = page.session, page'.gen = page.gen,
         page'.report # NoSession => page'.report = page.session
  PROVE  ClientInv' /\ Forward
<1>1. ServerTyped' /\ ServerSound' /\ Grows
  BY ServerSame
<1>2. PageKnows' /\ StoredKnows' /\ OpKnows' /\ LateKnows'
  BY DEF ClientInv, PageKnows, StoredKnows, OpKnows, LateKnows, Created, server
<1>3. OpAnswered'
  BY DEF ClientInv, OpAnswered, Answered, Created, server
<1>4. PollKnows' /\ RestoreKnows'
  BY DEF ClientInv, PollKnows, RestoreKnows, StatusSays, Created, server
<1>5. ClientInv'
  BY <1>1, <1>2, <1>3, <1>4 DEF ClientInv
<1> QED BY <1>5, Keeping DEF ClientInv

LEMMA GradeStep ==
  ASSUME ClientInv, HandleGrade \/ GradeHandled \/ GradeReply
  PROVE  ClientInv' /\ Forward
<1>1. CASE HandleGrade
  <2>1. /\ page' = [page EXCEPT !.grading = TRUE] /\ grade' = NewRequest("grade", page.session) /\ Act
        /\ UNCHANGED <<server, op, late, poll, restore, stored>>
    BY <1>1 DEF HandleGrade
  <2>2. grade' \in Requests({"none", "grade"})
    BY <2>1, RepliesTyped DEF NewRequest, Requests, ClientInv, ClientTypes, Pages
  <2>3. ClientTypes'
    BY <2>1, <2>2, ActTyped DEF ClientInv, ClientTypes, Pages
  <2>4. page'.session = page.session /\ page'.gen = page.gen /\ page'.report = page.report
    BY <2>1, PageChanged DEF ClientInv
  <2> QED BY <2>1, <2>3, <2>4, PageSteps DEF ClientInv, PageKnows
<1>2. CASE GradeHandled
  <2>1. /\ NoAct /\ UNCHANGED <<server, page, op, late, poll, restore, stored>>
        /\ \E reply \in Answers : grade' = [grade EXCEPT !.at = "answered", !.reply = reply]
    <3>1. Error \in Answers
      BY RepliesTyped
    <3>2. Ok(grade.id, 0) \in Answers
      BY RepliesTyped DEF ClientInv, ClientTypes, Requests
    <3> QED BY <1>2, <3>1, <3>2 DEF GradeHandled
  <2>2. grade' \in Requests({"none", "grade"})
    BY <2>1 DEF ClientInv, ClientTypes, Requests
  <2>3. ClientTypes'
    BY <2>1, <2>2 DEF ClientInv, ClientTypes, NoAct
  <2> QED BY <2>1, <2>3, PageSteps DEF ClientInv, PageKnows
<1>3. CASE GradeReply
  <2>1. /\ NoAct /\ UNCHANGED <<server, op, late, poll, restore, stored>> /\ grade' = NoRequest
        /\ page' = [page EXCEPT !.grading = FALSE,
                      !.report = IF grade.reply.kind = "ok" /\ page.session = grade.id
                                 THEN grade.id ELSE @]
    BY <1>3 DEF GradeReply
  <2>2. grade.id \in Some /\ grade' \in Requests({"none", "grade"})
    BY <2>1, StartsTyped DEF ClientInv, ClientTypes, Requests
  <2>3. ClientTypes'
    BY <2>1, <2>2 DEF ClientInv, ClientTypes, NoAct, Pages
  <2>4. /\ page'.session = page.session /\ page'.gen = page.gen
        /\ page'.report = page.report \/ page'.report = page.session
    BY <2>1, PageChanged DEF ClientInv
  <2>5. page'.report # NoSession => page'.report = page.session
    BY <2>4 DEF ClientInv, PageKnows
  <2> QED BY <2>1, <2>3, <2>4, <2>5, PageSteps
<1> QED BY <1>1, <1>2, <1>3

LEMMA PageLoadStep == ASSUME ClientInv, PageLoad PROVE ClientInv' /\ Forward
<1>1. /\ Act /\ op' = NoRequest /\ late' = late \cup Overtaken(op) /\ poll' = PollOff /\ grade' = NoRequest
      /\ UNCHANGED <<server, stored>> /\ page' = [BlankPage EXCEPT !.booting = stored \in Here]
      /\ restore' = [RestoreOff EXCEPT !.at = IF stored \in Here THEN "status" ELSE "find",
                                       !.id = IF stored \in Here THEN stored ELSE NoSession,
                                       !.wanted = Running \cap Here]
  BY DEF PageLoad
<1>2. ServerTyped' /\ ServerSound' /\ Grows
  BY <1>1, ServerSame
<1>3. LateKnows' /\ LateTyped'
  BY <1>1, OvertakenKnown
<1>4. /\ page'.session = NoSession /\ page'.report = NoSession
      /\ page' \in Pages
  <2> DEFINE b == stored \in Here
  <2>1. b \in BOOLEAN /\ page' = [BlankPage EXCEPT !.booting = b]
    BY <1>1
  <2> HIDE DEF b
  <2> QED BY <2>1, PageChanged DEF ClientInv, Pages
<1>5. /\ restore'.at = (IF stored \in Here THEN "status" ELSE "find")
      /\ restore'.id = (IF stored \in Here THEN stored ELSE NoSession)
      /\ restore' \in RestoreStates
  BY <1>1, StartsTyped DEF Some, ClientInv, ClientTypes, RestoreStates
<1>6. ClientTypes'
  BY <1>1, <1>3, <1>4, <1>5, StartsTyped, ActTyped DEF ClientInv, ClientTypes, LateTyped
<1>7. PageKnows' /\ StoredKnows' /\ OpKnows' /\ OpAnswered' /\ PollKnows'
  BY <1>1, <1>4, StartsTyped DEF ClientInv, PageKnows, StoredKnows, OpKnows, OpAnswered, PollKnows, Created, server
<1>8. RestoreKnows'
  <2>1. stored \in Here => Created(stored)'
    BY <1>1, HereAssumption, NoSessionAssumption DEF ClientInv, StoredKnows, Created, server
  <2>2. CASE stored \in Here
    <3>1. restore'.at = "status" /\ restore'.id = stored /\ stored' = stored
      BY <1>1, <1>5, <2>2
    <3> QED BY <1>4, <2>1, <2>2, <3>1 DEF RestoreKnows, Created
  <2>3. CASE stored \notin Here
    <3>1. restore'.at = "find"
      BY <1>5, <2>3
    <3> QED BY <1>4, <3>1 DEF RestoreKnows
  <2> QED BY <2>2, <2>3
<1>9. ClientInv'
  BY <1>2, <1>3, <1>6, <1>7, <1>8 DEF ClientInv
<1> QED BY <1>1, <1>4, <1>9 DEF Forward, ClientInv

LEMMA FindReplyStep == ASSUME ClientInv, FindReply PROVE ClientInv' /\ Forward
<1>1. restore.at = "found" /\ NoAct /\ UNCHANGED <<server, op, late, poll, grade, stored, sock>>
  BY DEF FindReply
<1>2. page.session = NoSession /\ op.at = "none"
      /\ (restore.reply.id # NoSession => Created(restore.reply.id))
  BY <1>1 DEF ClientInv, RestoreKnows, OpKnows
<1>3. \/ restore' = RestoreOff /\ page' = page
      \/ /\ restore' = [restore EXCEPT !.at = "status", !.id = restore.reply.id]
         /\ restore.reply.id # NoSession /\ page' = [page EXCEPT !.booting = TRUE]
  BY DEF FindReply
<1>4. /\ page'.session = page.session /\ page'.gen = page.gen /\ page'.report = page.report
      /\ page' \in Pages
  BY <1>3, PageChanged DEF ClientInv, Pages
<1>5. /\ restore'.at \in {"none", "status"} /\ (restore'.at = "status" => Created(restore'.id))
      /\ restore' \in RestoreStates
  BY <1>2, <1>3, StartsTyped DEF ClientInv, ClientTypes, Answers, RestoreStates
<1>6. ServerTyped' /\ ServerSound' /\ Grows
  BY <1>1, ServerSame
<1>7. ClientTypes'
  BY <1>1, <1>4, <1>5 DEF ClientInv, ClientTypes, NoAct
<1>8. PageKnows' /\ StoredKnows' /\ LateKnows'
  BY <1>1, <1>4 DEF ClientInv, PageKnows, StoredKnows, LateKnows, Created, server
<1>9. OpKnows' /\ OpAnswered' /\ PollKnows'
  BY <1>1, <1>2, <1>4 DEF ClientInv, OpKnows, OpAnswered, PollKnows
<1>10. RestoreKnows'
  BY <1>1, <1>2, <1>4, <1>5 DEF RestoreKnows, Created, server
<1>11. ClientInv'
  BY <1>6, <1>7, <1>8, <1>9, <1>10 DEF ClientInv
<1> QED BY <1>1, <1>4, <1>11, Keeping DEF ClientInv

-----------------------------------------------------------------------------
(* Replies.                                                                *)

\* After a reply the page waits for nothing, except that it may poll.
LEMMA ReplySteps ==
  ASSUME ClientInv, UNCHANGED <<server, grade>>, NoAct,
         page' \in Pages, stored' \in {stored, NoSession, page.session, page'.session},
         PageKnows', StoredKnows',
         op' = NoRequest \/ (op' = op /\ op.at = "none"),
         restore' = RestoreOff \/ (restore' = restore /\ restore.at = "none"),
         late' \in {late, late \cup Overtaken(op)},
         poll' \in PollStates,
         poll'.at # "answered", poll'.at # "off" => page'.session # NoSession
  PROVE  ClientInv'
<1>1. ServerTyped' /\ ServerSound'
  BY ServerSame
<1>2. LateKnows' /\ LateTyped'
  BY OvertakenKnown
<1>3. op'.at = "none" /\ restore'.at = "none"
  BY StartsTyped
<1>4. /\ op' \in Requests({"none", "start", "stop", "reset"})
      /\ restore' \in RestoreStates
  BY StartsTyped DEF ClientInv, ClientTypes
<1>5. stored' \in Some
  BY DEF ClientInv, ClientTypes, Some, Pages
<1>6. ClientTypes'
  BY <1>2, <1>4, <1>5 DEF ClientInv, ClientTypes, LateTyped, Pages, NoAct
<1>7. OpKnows' /\ OpAnswered' /\ PollKnows' /\ RestoreKnows'
  BY <1>3 DEF OpKnows, OpAnswered, PollKnows, RestoreKnows
<1> QED BY <1>1, <1>2, <1>6, <1>7 DEF ClientInv

LEMMA KnownSame == ASSUME UNCHANGED server PROVE \A s : Created(s)' <=> Created(s)
BY DEF Created, server

LEMMA ClearedIs ==
  ASSUME ClientTypes
  PROVE  Cleared \in Pages /\ Cleared.session = NoSession /\ Cleared.report = NoSession
BY DEF Cleared, ClientTypes, BlankPage, Pages, Some

LEMMA ForgottenIs ==
  ASSUME ClientInv, NEW s, phase[s] = "stopped", stored' = Forgotten(s), UNCHANGED server
  PROVE  /\ StoredKnows' /\ stored' \in {stored, NoSession}
         /\ stored # NoSession /\ stored' = NoSession => phase'[stored] = "stopped"
BY KnownSame DEF Forgotten, ClientInv, StoredKnows, server

\* The end of an operation: with its reply, or with an error that the page saw
\* instead.
LEMMA OpEndsStep ==
  ASSUME ClientInv, NEW reply \in Answers, op.at # "none", Answered(op.op, op.id, reply), OpEnds(reply),
         late' \in {late, late \cup Overtaken(op)}
  PROVE  ClientInv' /\ Forward
<1>1. /\ op' = NoRequest /\ NoAct /\ UNCHANGED <<server, restore, grade>>
      /\ \/ op.op = "start" /\ StartEnds(reply)
         \/ op.op = "stop" /\ StopEnds(reply)
         \/ op.op = "reset" /\ ResetEnds(reply)
  BY DEF OpEnds
<1>2. /\ poll.at = "off" /\ restore.at = "none"
      /\ \/ op.op = "start" /\ page.session = NoSession
         \/ op.op \in {"stop", "reset"} /\ page.session # NoSession /\ op.id = page.session
  BY DEF ClientInv, OpKnows
<1>3. page \in Pages /\ reply.id \in Some /\ reply.gen \in Nat
  BY DEF ClientInv, ClientTypes, Pages, Answers
<1>4. \A s \in Sessions : sgen'[s] = sgen[s] /\ phase'[s] = phase[s]
  BY <1>1 DEF server
<1>5. CASE op.op = "start" /\ reply.kind = "ok"
  <2>1. /\ page' = [page EXCEPT !.session = reply.id, !.gen = reply.gen, !.timed = FALSE,
                                !.expected = reply.gen]
        /\ stored' = reply.id /\ poll' = PollStart
    BY <1>1, <1>5 DEF StartEnds
  <2>2. Created(reply.id) /\ reply.gen <= sgen[reply.id] /\ reply.id \in Sessions
    BY <1>5 DEF Answered, Created
  <2>3. page' \in Pages /\ page'.session = reply.id /\ page'.gen = reply.gen /\ page'.report = page.report
    BY <1>3, <2>1 DEF Pages
  <2>4. page.report = NoSession
    BY <1>2, <1>5 DEF ClientInv, PageKnows
  <2>5. PageKnows' /\ StoredKnows' /\ reply.id # NoSession
    BY <1>1, <1>4, <2>1, <2>2, <2>3, <2>4, KnownSame, NoSessionAssumption DEF PageKnows, StoredKnows
  <2>6. ClientInv'
    BY <1>1, <1>2, <2>1, <2>3, <2>5, StartsTyped, ReplySteps
  <2> QED BY <1>2, <1>5, <2>1, <2>3, <2>4, <2>5, <2>6 DEF Forward
<1>6. CASE op.op = "start" /\ reply.kind # "ok"
  <2>1. /\ page' = [page EXCEPT !.active = FALSE, !.expected = 0, !.booting = FALSE, !.ready = FALSE]
        /\ stored' = stored /\ poll' = poll
    BY <1>1, <1>6 DEF StartEnds
  <2>2. page' \in Pages /\ page'.session = page.session /\ page'.gen = page.gen /\ page'.report = page.report
    BY <1>3, <2>1 DEF Pages
  <2>3. PageKnows' /\ StoredKnows'
    BY <1>1, <2>1, <2>2, <1>2, <1>6, KnownSame DEF ClientInv, PageKnows, StoredKnows
  <2>4. poll' \in PollStates
    BY <2>1 DEF ClientInv, ClientTypes
  <2>5. ClientInv'
    BY <1>1, <1>2, <2>1, <2>2, <2>3, <2>4, ReplySteps
  <2> QED BY <2>1, <2>2, <2>5, Keeping DEF ClientInv
<1>7. CASE op.op = "stop" /\ reply.kind = "ok"
  <2>1. page' = Cleared /\ stored' = Forgotten(op.id) /\ poll' = PollOff
    BY <1>1, <1>7 DEF StopEnds
  <2>2. phase[op.id] = "stopped" /\ op.id = page.session
    BY <1>2, <1>7 DEF Answered
  <2>3. page' \in Pages /\ page'.session = NoSession /\ page'.report = NoSession
    BY <2>1, ClearedIs DEF ClientInv
  <2>4. /\ StoredKnows' /\ stored' \in {stored, NoSession}
        /\ stored # NoSession /\ stored' = NoSession => phase'[stored] = "stopped"
    BY <1>1, <2>1, <2>2, ForgottenIs
  <2>5. PageKnows'
    BY <2>3 DEF PageKnows
  <2>6. ClientInv'
    BY <1>1, <1>2, <2>1, <2>3, <2>4, <2>5, StartsTyped, ReplySteps
  <2> QED BY <2>2, <2>3, <2>4, <2>6 DEF Forward
<1>8. CASE op.op = "stop" /\ reply.kind # "ok"
  <2>1. poll' = PollStart /\ page' = page /\ stored' = stored
    BY <1>1, <1>8 DEF StopEnds
  <2>2. PageKnows' /\ StoredKnows'
    BY <1>1, <1>2, <1>4, <2>1, KnownSame DEF ClientInv, PageKnows, StoredKnows, Created
  <2>3. ClientInv'
    BY <1>1, <1>2, <1>3, <1>8, <2>1, <2>2, StartsTyped, ReplySteps
  <2> QED BY <2>1, <2>3, Keeping DEF ClientInv
<1>9. CASE op.op = "reset" /\ reply.kind = "ok"
  <2>1. /\ page' = [page EXCEPT !.gen = reply.gen, !.expected = reply.gen, !.report = NoSession]
        /\ stored' = op.id /\ poll' = PollStart
    BY <1>1, <1>9 DEF ResetEnds
  <2>2. /\ page' \in Pages /\ page'.session = page.session /\ page'.gen = reply.gen
        /\ page'.report = NoSession
    BY <1>3, <2>1, RepliesTyped DEF Pages, Some
  <2>3. page.gen <= reply.gen /\ reply.gen <= sgen[op.id] /\ Created(page.session) /\ page.session \in Sessions
    BY <1>2, <1>9 DEF Answered, ClientInv, PageKnows, Created
  <2>4. PageKnows' /\ StoredKnows'
    BY <1>1, <1>2, <1>4, <1>9, <2>1, <2>2, <2>3, KnownSame DEF PageKnows, StoredKnows
  <2>5. ClientInv'
    BY <1>1, <1>2, <1>9, <2>1, <2>2, <2>4, StartsTyped, ReplySteps
  <2> QED BY <1>2, <1>3, <1>9, <2>1, <2>2, <2>3, <2>5 DEF Forward, Pages
<1>10. CASE op.op = "reset" /\ reply.kind # "ok"
  <2>1. /\ page' = [page EXCEPT !.active = FALSE, !.expected = 0, !.booting = FALSE, !.ready = FALSE]
        /\ stored' = stored /\ poll' = PollStart
    BY <1>1, <1>10 DEF ResetEnds
  <2>2. page' \in Pages /\ page'.session = page.session /\ page'.gen = page.gen /\ page'.report = page.report
    BY <1>3, <2>1 DEF Pages
  <2>3. PageKnows' /\ StoredKnows'
    BY <1>1, <1>4, <2>1, <2>2, KnownSame DEF ClientInv, PageKnows, StoredKnows, Created
  <2>4. ClientInv'
    BY <1>1, <1>2, <1>10, <2>1, <2>2, <2>3, StartsTyped, ReplySteps
  <2> QED BY <2>1, <2>2, <2>4, Keeping DEF ClientInv
<1> QED BY <1>2, <1>5, <1>6, <1>7, <1>8, <1>9, <1>10

LEMMA OpReplyStep == ASSUME ClientInv, OpReply \/ OpTimesOut PROVE ClientInv' /\ Forward
<1>1. CASE OpReply
  <2>1. op.at = "answered" /\ OpEnds(op.reply) /\ late' = late
    BY <1>1 DEF OpReply
  <2>2. op.reply \in Answers /\ Answered(op.op, op.id, op.reply)
    BY <2>1 DEF ClientInv, ClientTypes, Requests, OpAnswered
  <2> QED BY <2>1, <2>2, OpEndsStep
<1>2. CASE OpTimesOut
  <2>1. op.at # "none" /\ OpEnds(Error) /\ late' = late \cup Overtaken(op)
    BY <1>2 DEF OpTimesOut
  <2>2. Error \in Answers /\ Answered(op.op, op.id, Error)
    BY RepliesTyped DEF Answered, Error
  <2> QED BY <2>1, <2>2, OpEndsStep
<1> QED BY <1>1, <1>2

LEMMA PollReplyStep == ASSUME ClientInv, PollReply PROVE ClientInv' /\ Forward
<1>1. /\ poll.at = "answered" /\ NoAct /\ UNCHANGED <<server, grade>>
      /\ PollStopped \/ PollRunning \/ PollError
  BY DEF PollReply
<1>2. /\ page.session # NoSession /\ StatusSays(page.session, poll.reply, page.gen)
      /\ op.at = "none" /\ restore.at = "none"
  BY <1>1 DEF ClientInv, PollKnows, OpKnows, RestoreKnows
<1>3. /\ page \in Pages /\ poll.reply \in Answers /\ poll.reply.gen \in Nat /\ poll.errors \in Nat
      /\ Created(page.session) /\ page.session \in Sessions
  BY <1>2 DEF ClientInv, ClientTypes, Pages, Answers, PageKnows, Created, PollStates
<1>4. \A s \in Sessions : sgen'[s] = sgen[s] /\ phase'[s] = phase[s]
  BY <1>1 DEF server
<1>5. CASE PollStopped
  <2>1. /\ poll.reply.kind = "ok" /\ poll.reply.gen = 0
        /\ page' = Cleared /\ stored' = Forgotten(page.session)
        /\ op' = NoRequest /\ late' = late \cup Overtaken(op)
        /\ poll' = PollOff /\ restore' = RestoreOff
    BY <1>5 DEF PollStopped
  <2>2. phase[page.session] = "stopped"
    BY <1>2, <2>1 DEF StatusSays
  <2>3. page' \in Pages /\ page'.session = NoSession /\ page'.report = NoSession
    BY <2>1, ClearedIs DEF ClientInv
  <2>4. /\ StoredKnows' /\ stored' \in {stored, NoSession}
        /\ stored # NoSession /\ stored' = NoSession => phase'[stored] = "stopped"
    BY <1>1, <2>1, <2>2, ForgottenIs
  <2>5. PageKnows'
    BY <2>3 DEF PageKnows
  <2>6. ClientInv'
    BY <1>1, <2>1, <2>3, <2>4, <2>5, StartsTyped, ReplySteps
  <2> QED BY <2>2, <2>3, <2>4, <2>6 DEF Forward
<1>6. CASE PollRunning
  <2>1. /\ poll.reply.kind = "ok" /\ poll.reply.gen > 0
        /\ \/ page' = [page EXCEPT !.gen = poll.reply.gen, !.ready = TRUE, !.booting = FALSE,
                                   !.active = FALSE, !.expected = 0, !.timed = TRUE]
           \/ page' = [page EXCEPT !.ready = FALSE]
        /\ stored' \in {stored, page.session}
        /\ poll' = [PollOff EXCEPT !.at = "timer"]
        /\ op' = op /\ late' = late /\ restore' = restore
    BY <1>6 DEF PollRunning
  <2>2. page.gen <= poll.reply.gen /\ poll.reply.gen <= sgen[page.session]
    BY <1>2, <2>1 DEF StatusSays
  <2>3. /\ page' \in Pages /\ page'.session = page.session /\ page'.report = page.report
        /\ page'.gen = page.gen \/ page'.gen = poll.reply.gen
    <3>1. CASE page' = [page EXCEPT !.ready = FALSE]
      BY <1>3, <3>1 DEF Pages
    <3>2. CASE page' = [page EXCEPT !.gen = poll.reply.gen, !.ready = TRUE, !.booting = FALSE,
                                    !.active = FALSE, !.expected = 0, !.timed = TRUE]
      <4>1. page' \in Pages
        BY <1>3, <3>2 DEF Pages
      <4>2. page'.session = page.session /\ page'.report = page.report /\ page'.gen = poll.reply.gen
        BY <1>3, <3>2 DEF Pages
      <4> QED BY <4>1, <4>2
    <3> QED BY <2>1, <3>1, <3>2
  <2>4. PageKnows' /\ StoredKnows'
    <3>1. page'.gen <= sgen'[page'.session]
      BY <1>2, <1>3, <1>4, <2>2, <2>3 DEF ClientInv, PageKnows
    <3> QED BY <1>1, <1>2, <1>3, <2>1, <2>3, <3>1, KnownSame DEF ClientInv, PageKnows, StoredKnows
  <2>5. poll'.at = "timer"
        /\ poll' \in PollStates
    BY <2>1, StartsTyped DEF PollStates
  <2>6. ClientInv'
    BY <1>1, <1>2, <2>1, <2>3, <2>4, <2>5, ReplySteps
  <2>7. page'.gen >= page.gen
    BY <1>3, <2>2, <2>3 DEF Pages
  <2>8. stored' = NoSession => stored = NoSession
    BY <1>2, <2>1
  <2> QED BY <1>2, <2>3, <2>6, <2>7, <2>8 DEF Forward, ClientInv, PageKnows
<1>7. CASE PollError
  <2>1. /\ \/ page' = [page EXCEPT !.active = FALSE, !.expected = 0, !.ready = FALSE, !.booting = FALSE]
           \/ page' = page
        /\ stored' = stored /\ op' = op /\ late' = late /\ restore' = restore
        /\ \E n \in Nat : poll' = [PollOff EXCEPT !.at = "timer", !.errors = n]
    <3>1. (IF poll.errors < MaxErrors THEN poll.errors + 1 ELSE MaxErrors) \in Nat
      BY <1>3, BoundsAssumption
    <3>2. poll' = [PollOff EXCEPT !.at = "timer",
                     !.errors = IF poll.errors < MaxErrors THEN poll.errors + 1 ELSE MaxErrors]
      BY <1>7 DEF PollError
    <3>3. \E n \in Nat : poll' = [PollOff EXCEPT !.at = "timer", !.errors = n]
      BY <3>1, <3>2, Zenon
    <3>4. /\ \/ page' = [page EXCEPT !.active = FALSE, !.expected = 0, !.ready = FALSE, !.booting = FALSE]
             \/ page' = page
          /\ stored' = stored /\ op' = op /\ late' = late /\ restore' = restore
      BY <1>7 DEF PollError
    <3> QED BY <3>3, <3>4
  <2>2. page' \in Pages /\ page'.session = page.session /\ page'.gen = page.gen /\ page'.report = page.report
    <3>1. CASE page' = page
      BY <1>3, <3>1
    <3>2. CASE page' = [page EXCEPT !.active = FALSE, !.expected = 0, !.ready = FALSE, !.booting = FALSE]
      BY <1>3, <3>2 DEF Pages
    <3> QED BY <2>1, <3>1, <3>2
  <2>3. PageKnows' /\ StoredKnows'
    BY <1>1, <1>4, <2>1, <2>2, KnownSame DEF ClientInv, PageKnows, StoredKnows, Created
  <2>4. poll'.at = "timer"
        /\ poll' \in PollStates
    BY <2>1, StartsTyped DEF PollStates
  <2>5. ClientInv'
    BY <1>1, <1>2, <2>1, <2>2, <2>3, <2>4, ReplySteps
  <2> QED BY <2>1, <2>2, <2>5, Keeping DEF ClientInv
<1> QED BY <1>1, <1>5, <1>6, <1>7

LEMMA RestoreReplyStep == ASSUME ClientInv, RestoreReply PROVE ClientInv' /\ Forward
<1>1. /\ restore.at = "answered" /\ NoAct /\ UNCHANGED <<server, grade>>
      /\ op' = op /\ late' = late /\ restore' = RestoreOff
      /\ RestoreStopped \/ RestoreRunning \/ RestoreFails
  BY DEF RestoreReply
<1>2. /\ page.session = NoSession /\ StatusSays(restore.id, restore.reply, 0)
      /\ op.at = "none" /\ poll.at = "off"
      /\ Created(restore.id) /\ restore.id \in Sessions
  BY <1>1 DEF ClientInv, PollKnows, OpKnows, RestoreKnows, Created
<1>3. page \in Pages /\ restore.reply.gen \in Nat /\ restore.id \in Some /\ page.report = NoSession
      /\ poll \in PollStates
  BY <1>2 DEF ClientInv, ClientTypes, Pages, Answers, PageKnows, RestoreStates
<1>4. \A s \in Sessions : sgen'[s] = sgen[s] /\ phase'[s] = phase[s]
  BY <1>1 DEF server
<1>5. CASE RestoreStopped
  <2>1. /\ restore.reply.kind = "ok" /\ restore.reply.gen = 0 /\ poll' = poll
        /\ page' = [page EXCEPT !.booting = FALSE] /\ stored' = Forgotten(restore.id)
    BY <1>5 DEF RestoreStopped
  <2>2. phase[restore.id] = "stopped"
    BY <1>2, <2>1 DEF StatusSays
  <2>3. page' \in Pages /\ page'.session = NoSession /\ page'.report = NoSession
    BY <1>2, <1>3, <2>1 DEF Pages
  <2>4. /\ StoredKnows' /\ stored' \in {stored, NoSession}
        /\ stored # NoSession /\ stored' = NoSession => phase'[stored] = "stopped"
    BY <1>1, <2>1, <2>2, ForgottenIs
  <2>5. PageKnows'
    BY <2>3 DEF PageKnows
  <2>6. ClientInv'
    BY <1>1, <1>2, <1>3, <2>1, <2>3, <2>4, <2>5, ReplySteps
  <2> QED BY <1>2, <2>3, <2>4, <2>6 DEF Forward
<1>6. CASE RestoreRunning
  <2>1. /\ restore.reply.kind = "ok" /\ restore.reply.gen > 0
        /\ page' = [page EXCEPT !.session = restore.id, !.gen = restore.reply.gen,
                                !.ready = TRUE, !.timed = TRUE, !.booting = FALSE]
        /\ stored' = restore.id /\ poll' = PollStart
    BY <1>6 DEF RestoreRunning
  <2>2. restore.reply.gen <= sgen[restore.id]
    BY <1>2, <2>1 DEF StatusSays
  <2>3. /\ page' \in Pages /\ page'.session = restore.id /\ page'.gen = restore.reply.gen
        /\ page'.report = NoSession
    BY <1>3, <2>1 DEF Pages
  <2>4. PageKnows' /\ StoredKnows' /\ restore.id # NoSession
    BY <1>1, <1>2, <1>4, <2>1, <2>2, <2>3, KnownSame, NoSessionAssumption DEF PageKnows, StoredKnows
  <2>5. ClientInv'
    BY <1>1, <1>2, <2>1, <2>3, <2>4, StartsTyped, ReplySteps
  <2> QED BY <1>2, <2>1, <2>3, <2>4, <2>5 DEF Forward
<1>7. CASE RestoreFails
  <2>1. page' = [page EXCEPT !.booting = FALSE, !.ready = FALSE] /\ stored' = stored /\ poll' = poll
    BY <1>7 DEF RestoreFails
  <2>2. page' \in Pages /\ page'.session = page.session /\ page'.gen = page.gen /\ page'.report = page.report
    BY <1>3, <2>1 DEF Pages
  <2>3. PageKnows' /\ StoredKnows'
    BY <1>1, <1>2, <1>3, <2>1, <2>2, KnownSame DEF ClientInv, PageKnows, StoredKnows
  <2>4. ClientInv'
    BY <1>1, <1>2, <1>3, <2>1, <2>2, <2>3, ReplySteps
  <2> QED BY <2>1, <2>2, <2>4, Keeping DEF ClientInv
<1> QED BY <1>1, <1>5, <1>6, <1>7

LEMMA TerminalStep == ASSUME ClientInv, Terminal PROVE ClientInv' /\ Forward
<1>1. NoAct /\ UNCHANGED <<server, page, op, late, poll, restore, grade, stored>>
  BY DEF Terminal, SocketOpens, SocketStopped, SocketLost, SocketRetries, SocketStep
<1>2. ClientTypes'
  BY <1>1 DEF ClientInv, ClientTypes, NoAct
<1> QED BY <1>1, <1>2, PageSteps DEF ClientInv, PageKnows

LEMMA ClientInitHolds == ClientInit => ClientInv
<1> SUFFICES ASSUME ClientInit PROVE ClientInv
  OBVIOUS
<1>1. ServerTyped /\ ServerSound
  BY DEF ClientInit, ServerTyped, ServerSound
<1>2. BlankPage \in Pages /\ BlankPage.session = NoSession /\ BlankPage.report = NoSession
  BY DEF BlankPage, Pages, Some
<1>3. ClientTypes
  <2>1. stored \in Some /\ acts \in Nat /\ late = {}
    BY DEF ClientInit, Some
  <2> QED BY <1>2, <2>1, StartsTyped DEF ClientInit, ClientTypes, Pages
<1>4. PageKnows /\ StoredKnows /\ LateKnows
  BY <1>2 DEF ClientInit, PageKnows, StoredKnows, LateKnows
<1>5. OpKnows /\ OpAnswered /\ PollKnows /\ RestoreKnows
  BY StartsTyped DEF ClientInit, OpKnows, OpAnswered, PollKnows, RestoreKnows
<1> QED BY <1>1, <1>3, <1>4, <1>5 DEF ClientInv

LEMMA ClientNextKeeps == ASSUME ClientInv, [ClientNext]_clientVars PROVE ClientInv' /\ (ClientNext => Forward)
<1>1. CASE UNCHANGED clientVars
  <2>1. /\ UNCHANGED <<server, page, op, late, poll, restore, grade, stored>> /\ acts' = acts
    BY <1>1 DEF clientVars, server
  <2>2. ClientTypes'
    BY <2>1 DEF ClientInv, ClientTypes
  <2> QED BY <2>1, <2>2, PageSteps DEF ClientInv, PageKnows
<1>2. CASE ClientNext
  BY <1>2, ClickStep, GradeStep, PageLoadStep, DevicesStep, LateStep, OpHandledStep, OpReplyStep,
     PollHandledStep, PollReplyStep, RestoreHandledStep, FindReplyStep, RestoreReplyStep, TerminalStep
     DEF ClientNext, Click
<1> QED BY <1>1, <1>2

-----------------------------------------------------------------------------

\* What the page, its requests and their replies know of the server
\* (useLabSession) holds in every reachable state.
THEOREM ClientInvariant == ClientSpec => []ClientInv
<1>1. ClientInv /\ [ClientNext]_clientVars => ClientInv'
  BY ClientNextKeeps
<1> QED BY ClientInitHolds, <1>1, PTL DEF ClientSpec

\* The page and localStorage forget a session only when it has stopped, a status
\* reply from before a reset does not bring its generation back, and a grading
\* report is one of the session shown (poll, clearSessionLocally, handleGrade).
THEOREM KnowledgeForwardHolds == ClientSpec => KnowledgeForward
<1>1. ClientInv /\ [ClientNext]_clientVars => [Forward]_clientVars
  BY ClientNextKeeps
<1> QED BY ClientInvariant, <1>1, PTL DEF ClientSpec, KnowledgeForward, Forward

-----------------------------------------------------------------------------
(* Accounts.                                                               *)

LEMMA Numbers ==
  /\ LoginLimit \in Nat /\ IpLimit \in Nat /\ SignupLimit \in Nat /\ ChangeLimit \in Nat
  /\ LoginLimit > 0 /\ IpLimit > 0 /\ SignupLimit > 0 /\ ChangeLimit > 0
  /\ Window \in Nat /\ Life \in Nat /\ MaxTime \in Nat /\ MaxRequests \in Nat
  BY NumbersAssumption

-----------------------------------------------------------------------------
(* The inductive invariant.                                                *)

\* What a request in progress carries: the form it came with, an account once
\* it is checked, and the token of a session there was.
JobsKnown ==
  \A t \in Threads : jobs[t] # Idle =>
    LET j == jobs[t] IN
    /\ j.token <= serial
    /\ j.op \in {"register", "login", "change"} =>
         j.email \in Emails /\ j.password \in Passwords /\ j.new \in Passwords
    /\ j.at = "checked" /\ (j.user # NoOne \/ j.op = "register") => j.user \in Accts

\* The requests in progress that passed limiter l for key k and may still count.
Counts(j, l, k) ==
  \/ l = "signup" /\ k = Ip /\ j.op = "register" /\ j.at = "start"
  \/ l = "login" /\ j.op = "login" /\ j.email = k
  \/ l = "login by ip" /\ k = Ip /\ j.op = "login"
  \/ l = "change" /\ j.op = "change" /\ j.email = k
Pending(l, k) == {t \in Threads : Counts(jobs[t], l, k)}

\* Events and those that may come stay below the limit and one for each thread.
Room(l, k) ==
  Len(Recent(events[l][k])) + Cardinality(Pending(l, k)) < Limit[l] + Cardinality(Threads)
Headroom == \A l \in Limiters, k \in Emails \cup {Ip} : Room(l, k)

IInv == TypeOK /\ JobsKnown /\ Headroom /\ OthersSignedOut

-----------------------------------------------------------------------------
(* The limiters' trimming.                                                 *)

LEMMA Least ==
  ASSUME NEW T, T \subseteq Nat, T # {}
  PROVE  \E x \in T : \A y \in T : x <= y
<1>1. PICK x \in T : \A y \in T : ~ (<<y, x>> \in OpToRel(<, Nat))
  BY WFMin, NatLessThanWellFounded
<1>2. \A y \in T : ~ (y < x)
  BY <1>1 DEF OpToRel
<1> QED BY <1>2

\* What leaves is what is outdated, up to the first event that is not.
LEMMA OutdatedDef ==
  ASSUME NEW times \in Seq(Nat), NEW at \in Nat
  PROVE  /\ Outdated(times, at) \in 0..Len(times)
         /\ \A i \in 1..Outdated(times, at) : times[i] + Window <= at
         /\ Outdated(times, at) < Len(times) => times[Outdated(times, at) + 1] + Window > at
<1> DEFINE Fresh == {n \in 0..Len(times) : n < Len(times) => times[n + 1] + Window > at}
<1>0. /\ Len(times) \in Nat /\ \A i \in 1..Len(times) : times[i] \in Nat
      /\ Window \in Nat
  BY Numbers
<1>1. Fresh \subseteq Nat /\ Len(times) \in Fresh
  BY <1>0
<1>2. PICK n \in Fresh : \A m \in Fresh : n <= m
  <2>1. Fresh # {}
    BY <1>1
  <2> HIDE DEF Fresh
  <2> QED BY <1>1, <2>1, Least
<1>3. \A i \in 1..n : times[i] + Window <= at
  <2> SUFFICES ASSUME NEW i \in 1..n PROVE times[i] + Window <= at
    OBVIOUS
  <2>1. i - 1 \in 0..Len(times) /\ i - 1 < n /\ (i - 1) + 1 = i
    BY <1>0
  <2>2. i - 1 \notin Fresh
    <3>1. n \in Nat /\ ~(n <= i - 1)
      BY <1>1, <2>1
    <3> QED BY <1>2, <3>1
  <2>3. ~(times[i] + Window > at)
    BY <2>1, <2>2
  <2>4. times[i] \in Nat
    BY <1>0
  <2> QED BY <1>0, <2>3, <2>4
<1>4. \E m \in 0..Len(times) :
        /\ \A i \in 1..m : times[i] + Window <= at
        /\ m < Len(times) => times[m + 1] + Window > at
  BY <1>2, <1>3
<1> HIDE DEF Fresh
<1> QED BY <1>4 DEF Outdated

LEMMA Suffix ==
  ASSUME NEW S, NEW s \in Seq(S), NEW n \in 0..Len(s)
  PROVE  /\ SubSeq(s, n + 1, Len(s)) \in Seq(S)
         /\ Len(SubSeq(s, n + 1, Len(s))) = Len(s) - n
<1>1. n + 1 \in Int /\ Len(s) \in Int /\ \A i \in (n + 1)..Len(s) : s[i] \in S
  OBVIOUS
<1> QED BY <1>1, SubSeqProperties

Kept(times, at) == SubSeq(times, Outdated(times, at) + 1, Len(times))

LEMMA KeptLen ==
  ASSUME NEW times \in Seq(0..MaxTime), NEW at \in 0..MaxTime
  PROVE  /\ Kept(times, at) \in Seq(0..MaxTime)
         /\ Len(Kept(times, at)) = Len(times) - Outdated(times, at)
         /\ Len(Kept(times, at)) <= Len(times)
         /\ Len(Kept(times, at)) \in Nat
<1>1. Len(times) \in Nat /\ times \in Seq(Nat) /\ at \in Nat
  BY Numbers
<1>2. Outdated(times, at) \in 0..Len(times)
  BY <1>1, OutdatedDef
<1>3. /\ Kept(times, at) \in Seq(0..MaxTime)
      /\ Len(Kept(times, at)) = Len(times) - Outdated(times, at)
  BY <1>2, Suffix DEF Kept
<1> QED BY <1>1, <1>2, <1>3

LEMMA RecentKept == \A times : Recent(times) = Kept(times, now)
  BY DEF Recent, Kept

LEMMA RecentLen ==
  ASSUME NEW times \in Seq(0..MaxTime), now \in 0..MaxTime
  PROVE  /\ Recent(times) \in Seq(0..MaxTime)
         /\ Len(Recent(times)) = Len(times) - Outdated(times, now)
         /\ Len(Recent(times)) <= Len(times)
  BY RecentKept, KeptLen

\* A longer sequence, or a later time, has no fewer outdated events at its left.
LEMMA OutdatedGrows ==
  ASSUME NEW s \in Seq(Nat), NEW r \in Seq(Nat), Len(s) <= Len(r),
         \A i \in 1..Len(s) : r[i] = s[i],
         NEW at \in Nat, NEW later \in Nat, at <= later
  PROVE  Outdated(s, at) <= Outdated(r, later)
<1> DEFINE n == Outdated(s, at)
           m == Outdated(r, later)
<1>1. /\ n \in 0..Len(s) /\ m \in 0..Len(r)
      /\ \A i \in 1..n : s[i] + Window <= at
      /\ m < Len(r) => r[m + 1] + Window > later
  BY OutdatedDef
<1>2. /\ \A i \in 1..Len(s) : s[i] \in Nat /\ r[i] \in Nat
      /\ Window \in Nat /\ Len(s) \in Nat /\ Len(r) \in Nat
  BY Numbers
<1> HIDE DEF n, m
<1>3. SUFFICES ASSUME m < n PROVE FALSE
  BY <1>1 DEF n, m
<1>4. m + 1 \in 1..n /\ m < Len(r) /\ m + 1 \in 1..Len(s)
  BY <1>1, <1>2, <1>3
<1>5. s[m + 1] + Window <= at /\ r[m + 1] + Window > later /\ r[m + 1] = s[m + 1]
  BY <1>1, <1>4
<1> QED BY <1>2, <1>4, <1>5

\* Counting one more event leaves at most one more of them in the window.
LEMMA RecentAppend ==
  ASSUME NEW times \in Seq(0..MaxTime), now \in 0..MaxTime
  PROVE  /\ Recent(Append(times, now)) \in Seq(0..MaxTime)
         /\ Len(Recent(Recent(Append(times, now)))) <= Len(Recent(times)) + 1
<1> DEFINE r == Append(times, now)
<1>1. /\ r \in Seq(0..MaxTime) /\ Len(r) = Len(times) + 1
      /\ \A i \in 1..Len(times) : r[i] = times[i]
  OBVIOUS
<1>2. Outdated(times, now) <= Outdated(r, now)
  <2>1. /\ times \in Seq(Nat) /\ r \in Seq(Nat) /\ now \in Nat
        /\ Len(times) \in Nat /\ Len(r) \in Nat
    BY <1>1, Numbers
  <2> HIDE DEF r
  <2>2. Len(times) <= Len(r)
    BY <1>1, <2>1
  <2> QED BY <1>1, <2>1, <2>2, OutdatedGrows
<1> HIDE DEF r
<1>3. Recent(r) \in Seq(0..MaxTime) /\ Len(Recent(r)) = Len(r) - Outdated(r, now)
  BY <1>1, RecentLen
<1>4. Len(Recent(Recent(r))) <= Len(Recent(r)) /\ Len(Recent(Recent(r))) \in Nat
  <2>1. Recent(Recent(r)) \in Seq(0..MaxTime)
    BY <1>3, RecentLen
  <2> QED BY <1>3, <2>1, RecentLen
<1>5. Len(Recent(times)) = Len(times) - Outdated(times, now)
  BY RecentLen
<1>6. Outdated(times, now) \in 0..Len(times) /\ Outdated(r, now) \in 0..Len(r)
  <2>1. times \in Seq(Nat) /\ r \in Seq(Nat) /\ now \in Nat
    BY <1>1, Numbers
  <2> QED BY <2>1, OutdatedDef
<1>7. Len(Recent(Recent(r))) <= Len(Recent(times)) + 1
  BY <1>1, <1>2, <1>3, <1>4, <1>5, <1>6
<1> QED BY <1>3, <1>7 DEF r

-----------------------------------------------------------------------------
(* Types and what requests carry.                                          *)

LEMMA IdleIs == Idle.op = "idle" /\ Idle \notin JobType
  BY DEF Idle, JobType, Ops

LEMMA AtJob ==
  ASSUME TypeOK, NEW t \in Threads, jobs[t].op \in Ops
  PROVE  jobs[t] \in JobType /\ jobs[t] # Idle
  BY IdleIs DEF TypeOK, Ops

LEMMA JobTyped ==
  ASSUME NEW name \in Ops, NEW b \in Browsers,
         NEW e \in Emails \cup {NoOne}, NEW p \in Passwords \cup {NoOne}
  PROVE  /\ Job(name, b, e, p) \in JobType
         /\ Job(name, b, e, p).op = name /\ Job(name, b, e, p).at = "start"
         /\ Job(name, b, e, p).email = e /\ Job(name, b, e, p).password = p
         /\ Job(name, b, e, p).new = p /\ Job(name, b, e, p).token = 0
  BY DEF Job, JobType

Known == TypeOK /\ JobsKnown

LEMMA KnownInit == Init => Known
<1> SUFFICES ASSUME Init PROVE Known
  OBVIOUS
<1>1. users \in UNION {[E -> Passwords \ Weak] : E \in SUBSET Emails}
  <2>1. users \in [{} -> Passwords \ Weak]
    BY DEF Init
  <2> QED BY <2>1
<1>2. TypeOK
  BY <1>1, Numbers DEF Init, TypeOK
<1>3. JobsKnown
  BY DEF Init, JobsKnown
<1> QED BY <1>2, <1>3 DEF Known

\* A request that arrives carries what its thread needs.
LEMMA KnownBegin ==
  ASSUME Known, NEW t \in Threads, NEW j \in JobType, Begin(t, j), UNCHANGED events,
         j.at = "start", j.token <= serial,
         j.op \in {"register", "login", "change"} =>
           j.email \in Emails /\ j.password \in Passwords /\ j.new \in Passwords
  PROVE  Known'
<1>1. jobs' = [jobs EXCEPT ![t] = j]
  BY DEF Begin
<1>2. TypeOK'
  <2>1. requests' \in 0..MaxRequests
    BY Numbers DEF Known, TypeOK, Begin
  <2>2. jobs' \in [Threads -> {Idle} \cup JobType]
    BY <1>1 DEF Known, TypeOK
  <2> QED BY <2>1, <2>2 DEF Known, TypeOK, Begin, Accts
<1>3. JobsKnown'
  <2> SUFFICES ASSUME NEW r \in Threads, jobs'[r] # Idle
               PROVE  LET k == jobs'[r] IN
                 /\ k.token <= serial'
                 /\ k.op \in {"register", "login", "change"} =>
                      k.email \in Emails /\ k.password \in Passwords /\ k.new \in Passwords
                 /\ k.at = "checked" /\ (k.user # NoOne \/ k.op = "register") => k.user \in Accts'
    BY DEF JobsKnown
  <2>1. CASE r = t
    <3>1. jobs'[r] = j
      BY <1>1, <2>1 DEF Known, TypeOK
    <3> QED BY <3>1 DEF Begin
  <2>2. CASE r # t
    <3>1. jobs'[r] = jobs[r]
      BY <1>1, <2>2 DEF Known, TypeOK
    <3> QED BY <3>1 DEF Begin, Known, JobsKnown, Accts
  <2> QED BY <2>1, <2>2
<1> QED BY <1>2, <1>3 DEF Known

LEMMA KnownRefused ==
  ASSUME Known, NEW t \in Threads, Refused(t)
  PROVE  Known'
<1>1. requests' \in 0..MaxRequests
  BY Numbers DEF Known, TypeOK, Refused
<1>2. TypeOK'
  BY <1>1 DEF Known, TypeOK, Refused, Accts
<1> QED BY <1>2 DEF Known, JobsKnown, Refused, Accts

\* A thread that ends leaves what the others know: accounts never go, and
\* tokens only grow.
LEMMA JobsKnownEnd ==
  ASSUME Known, NEW t \in Threads, jobs' = [jobs EXCEPT ![t] = Idle],
         serial <= serial', Accts \subseteq Accts', serial' \in Nat
  PROVE  JobsKnown'
<1> SUFFICES ASSUME NEW r \in Threads, jobs'[r] # Idle
             PROVE  LET k == jobs'[r] IN
               /\ k.token <= serial'
               /\ k.op \in {"register", "login", "change"} =>
                    k.email \in Emails /\ k.password \in Passwords /\ k.new \in Passwords
               /\ k.at = "checked" /\ (k.user # NoOne \/ k.op = "register") => k.user \in Accts'
  BY DEF JobsKnown
<1>1. r # t /\ jobs'[r] = jobs[r]
  BY DEF Known, TypeOK
<1>2. jobs[r] \in JobType
  BY <1>1 DEF Known, TypeOK
<1>3. jobs[r].token <= serial'
  <2>1. jobs[r].token <= serial /\ jobs[r].token \in Nat /\ serial \in Nat
    BY <1>1, <1>2 DEF Known, TypeOK, JobsKnown, JobType
  <2> QED BY <2>1
<1> QED BY <1>1, <1>3 DEF Known, JobsKnown

\* One job goes on with the fields it has.
LEMMA KnownJob ==
  ASSUME Known, NEW t \in Threads, NEW j \in JobType, jobs[t] \in JobType,
         jobs' = [jobs EXCEPT ![t] = j],
         j.op = jobs[t].op, j.token = jobs[t].token, j.email = jobs[t].email,
         j.password = jobs[t].password, j.new = jobs[t].new,
         j.at = "checked" /\ (j.user # NoOne \/ j.op = "register") => j.user \in Accts',
         serial' = serial, Accts \subseteq Accts'
  PROVE  JobsKnown' /\ jobs' \in [Threads -> {Idle} \cup JobType]
<1> SUFFICES ASSUME NEW r \in Threads, jobs'[r] # Idle
             PROVE  LET k == jobs'[r] IN
               /\ k.token <= serial'
               /\ k.op \in {"register", "login", "change"} =>
                    k.email \in Emails /\ k.password \in Passwords /\ k.new \in Passwords
               /\ k.at = "checked" /\ (k.user # NoOne \/ k.op = "register") => k.user \in Accts'
  BY DEF JobsKnown, Known, TypeOK
<1>1. jobs[t] # Idle
  BY IdleIs
<1>2. CASE r = t
  <2>1. jobs'[r] = j
    BY <1>2 DEF Known, TypeOK
  <2> QED BY <1>1, <2>1 DEF Known, JobsKnown
<1>3. CASE r # t
  <2>1. jobs'[r] = jobs[r]
    BY <1>3 DEF Known, TypeOK
  <2> QED BY <2>1 DEF Known, JobsKnown
<1> QED BY <1>2, <1>3

LEMMA KnownVerify == ASSUME Known, NEW t \in Threads, Verify(t) PROVE Known'
<1> DEFINE j == jobs[t]
           right == j.email \in Accts /\ users[j.email] = j.password
           k == [j EXCEPT !.at = "checked", !.user = IF right THEN j.email ELSE NoOne]
<1>1. j \in JobType /\ j # Idle /\ j.op \in {"login", "change"}
  BY AtJob DEF Verify, At, Known, Ops
<1>2. jobs' = [jobs EXCEPT ![t] = k]
  BY <1>1 DEF Verify, Known, TypeOK, JobType
<1>3. /\ k \in JobType /\ k.op = j.op /\ k.token = j.token /\ k.email = j.email
      /\ k.password = j.password /\ k.new = j.new /\ k.at = "checked"
      /\ k.user # NoOne => k.user \in Accts
  BY <1>1 DEF Known, JobsKnown, JobType
<1> HIDE DEF j, k
<1>4. JobsKnown' /\ jobs' \in [Threads -> {Idle} \cup JobType]
  <2>1. /\ UNCHANGED <<users, serial>> /\ Accts' = Accts
    BY DEF Verify, Accts
  <2>2. j = jobs[t]
    BY DEF j
  <2>3. k.op # "register"
    BY <1>1, <1>3
  <2> QED BY <1>1, <1>2, <1>3, <2>1, <2>2, <2>3, KnownJob
<1> QED BY <1>4 DEF Known, TypeOK, Verify, Accts

LEMMA EventsTyped ==
  ASSUME TypeOK, NEW l \in Limiters, NEW k \in Emails \cup {Ip}
  PROVE  /\ Record(events, l, k) \in [Limiters -> [Emails \cup {Ip} -> Seq(0..MaxTime)]]
         /\ Reset(events, l, k) \in [Limiters -> [Emails \cup {Ip} -> Seq(0..MaxTime)]]
<1>1. events[l][k] \in Seq(0..MaxTime) /\ now \in 0..MaxTime
  BY DEF TypeOK
<1>2. Recent(Append(events[l][k], now)) \in Seq(0..MaxTime)
  BY <1>1, RecentAppend
<1>3. <<>> \in Seq(0..MaxTime)
  OBVIOUS
<1> QED BY <1>1, <1>2, <1>3 DEF TypeOK, Record, Reset

LEMMA KnownCountSignup == ASSUME Known, NEW t \in Threads, CountSignup(t) PROVE Known'
<1> DEFINE k == [jobs[t] EXCEPT !.at = "counted"]
<1>1. jobs[t] \in JobType /\ jobs[t].op = "register"
  BY AtJob DEF CountSignup, At, Known, Ops
<1>2. jobs' = [jobs EXCEPT ![t] = k]
  BY DEF CountSignup, Known, TypeOK
<1>3. /\ k \in JobType /\ k.op = jobs[t].op /\ k.token = jobs[t].token
      /\ k.email = jobs[t].email /\ k.password = jobs[t].password
      /\ k.new = jobs[t].new /\ k.at = "counted"
  BY <1>1 DEF JobType
<1> HIDE DEF k
<1>4. UNCHANGED <<users, serial>> /\ Accts' = Accts
  BY DEF CountSignup, Accts
<1>5. JobsKnown' /\ jobs' \in [Threads -> {Idle} \cup JobType]
  BY <1>1, <1>2, <1>3, <1>4, KnownJob
<1>6. events' \in [Limiters -> [Emails \cup {Ip} -> Seq(0..MaxTime)]]
  BY EventsTyped DEF CountSignup, Known, Limiters
<1> QED BY <1>4, <1>5, <1>6 DEF Known, TypeOK, CountSignup

LEMMA KnownCreateUser == ASSUME Known, NEW t \in Threads, CreateUser(t) PROVE Known'
<1> DEFINE e == jobs[t].email
           k == [jobs[t] EXCEPT !.at = "checked", !.user = e]
<1>1. jobs[t] \in JobType /\ jobs[t] # Idle /\ jobs[t].op = "register"
  BY AtJob DEF CreateUser, At, Known, Ops
<1>2. e \in Emails /\ jobs[t].password \in Passwords \ Weak /\ e \notin Accts
  BY <1>1 DEF Known, JobsKnown, CreateUser
<1>3. users' = [a \in Accts \cup {e} |-> IF a = e THEN jobs[t].password ELSE users[a]]
  BY DEF CreateUser
<1>4. Accts' = Accts \cup {e}
  BY <1>3 DEF Accts
<1>5. users' \in UNION {[E -> Passwords \ Weak] : E \in SUBSET Emails}
  <2>1. PICK E \in SUBSET Emails : users \in [E -> Passwords \ Weak]
    BY DEF Known, TypeOK
  <2>2. users' \in [E \cup {e} -> Passwords \ Weak]
    BY <1>2, <1>3, <2>1 DEF Accts
  <2>3. E \cup {e} \in SUBSET Emails
    BY <1>2
  <2> QED BY <2>2, <2>3
<1>6. jobs' = [jobs EXCEPT ![t] = k]
  BY DEF CreateUser, Known, TypeOK
<1>7. /\ k \in JobType /\ k.op = jobs[t].op /\ k.token = jobs[t].token
      /\ k.email = jobs[t].email /\ k.password = jobs[t].password
      /\ k.new = jobs[t].new /\ k.user = e
  BY <1>1, <1>2 DEF JobType
<1> HIDE DEF k, e
<1>8. JobsKnown' /\ jobs' \in [Threads -> {Idle} \cup JobType]
  <2>1. serial' = serial /\ Accts \subseteq Accts' /\ k.user \in Accts'
    BY <1>4, <1>7 DEF CreateUser
  <2> QED BY <1>1, <1>6, <1>7, <2>1, KnownJob
<1>9. sessions' \subseteq [id : 1..serial', user : Accts', expires : 0..(MaxTime + Life)]
  BY <1>4 DEF CreateUser, Known, TypeOK
<1> QED BY <1>5, <1>8, <1>9 DEF Known, TypeOK, CreateUser

LEMMA KnownAnswer ==
  ASSUME Known, NEW t \in Threads, jobs[t] \in JobType, NEW n \in Nat, n <= serial',
         Answer(t, n), serial <= serial', serial' \in Nat, Accts \subseteq Accts'
  PROVE  /\ JobsKnown' /\ jobs' \in [Threads -> {Idle} \cup JobType]
         /\ cookie' \in [Browsers -> 0..serial']
         /\ UNCHANGED <<now, requests>>
<1>1. JobsKnown'
  BY JobsKnownEnd DEF Answer
<1>2. \A b \in Browsers : cookie[b] \in 0..serial'
  BY DEF Known, TypeOK
<1>3. cookie' \in [Browsers -> 0..serial']
  BY <1>2 DEF Answer, Known, TypeOK, JobType
<1> QED BY <1>1, <1>3 DEF Answer, Known, TypeOK

LEMMA KnownPlain ==
  ASSUME Known, NEW t \in Threads, AnswerPlain(t), serial' = serial, Accts \subseteq Accts'
  PROVE  /\ JobsKnown' /\ jobs' \in [Threads -> {Idle} \cup JobType]
         /\ UNCHANGED <<now, requests, cookie>>
<1>1. serial <= serial' /\ serial' \in Nat
  BY DEF Known, TypeOK
<1>2. JobsKnown'
  BY <1>1, JobsKnownEnd DEF AnswerPlain
<1> QED BY <1>2 DEF AnswerPlain, Known, TypeOK

\* A new session has an id of its own.
LEMMA KnownCreateSession ==
  ASSUME Known, NEW e \in Accts, CreateSession(e), users' = users
  PROVE  /\ serial' = serial + 1 /\ serial' \in Nat /\ serial <= serial'
         /\ sessions' \subseteq [id : 1..serial', user : Accts', expires : 0..(MaxTime + Life)]
         /\ \A s, r \in sessions' : s.id = r.id => s = r
         /\ changed \in [Emails -> [upto : 0..serial', by : 0..serial']]
<1> DEFINE new == [id |-> serial + 1, user |-> e, expires |-> now + Life]
           old == {s \in sessions : s.expires > now}
<1>1. serial' = serial + 1 /\ sessions' = old \cup {new} /\ Accts' = Accts /\ serial \in Nat
  BY DEF CreateSession, Accts, Known, TypeOK
<1>2. new.id = serial + 1 /\ \A s \in old : s.id \in 1..serial
  BY DEF Known, TypeOK
<1>3. new \in [id : 1..serial', user : Accts', expires : 0..(MaxTime + Life)]
  BY <1>1, Numbers DEF Known, TypeOK
<1>4. old \subseteq [id : 1..serial', user : Accts', expires : 0..(MaxTime + Life)]
  BY <1>1 DEF Known, TypeOK
<1>5. \A s, r \in old : s.id = r.id => s = r
  BY DEF Known, TypeOK
<1>6. changed \in [Emails -> [upto : 0..serial', by : 0..serial']]
  <2>1. \A a \in Emails : changed[a] \in [upto : 0..serial', by : 0..serial']
    BY <1>1 DEF Known, TypeOK
  <2> QED BY <2>1 DEF Known, TypeOK
<1> HIDE DEF new, old
<1>7. \A s, r \in sessions' : s.id = r.id => s = r
  BY <1>1, <1>2, <1>5
<1> QED BY <1>1, <1>3, <1>4, <1>6, <1>7

LEMMA KnownSessionOpened ==
  ASSUME Known, NEW t \in Threads, jobs[t] \in JobType, jobs[t].user \in Accts,
         CreateSession(jobs[t].user), Answer(t, serial + 1), users' = users, changed' = changed,
         events' \in [Limiters -> [Emails \cup {Ip} -> Seq(0..MaxTime)]]
  PROVE  Known'
<1>1. /\ serial' = serial + 1 /\ serial' \in Nat /\ serial <= serial'
      /\ sessions' \subseteq [id : 1..serial', user : Accts', expires : 0..(MaxTime + Life)]
      /\ \A s, r \in sessions' : s.id = r.id => s = r
      /\ changed \in [Emails -> [upto : 0..serial', by : 0..serial']]
  BY KnownCreateSession
<1>2. Accts \subseteq Accts' /\ serial + 1 \in Nat /\ serial + 1 <= serial'
  BY <1>1 DEF Accts
<1>3. /\ JobsKnown' /\ jobs' \in [Threads -> {Idle} \cup JobType]
      /\ cookie' \in [Browsers -> 0..serial'] /\ UNCHANGED <<now, requests>>
  BY <1>1, <1>2, KnownAnswer
<1> QED BY <1>1, <1>3 DEF Known, TypeOK

LEMMA KnownRegister ==
  ASSUME Known, NEW t \in Threads, RegisterRefused(t) \/ RegisterDone(t)
  PROVE  Known'
<1>1. jobs[t] \in JobType /\ jobs[t] # Idle /\ jobs[t].op = "register"
  BY AtJob DEF RegisterRefused, RegisterDone, At, Known, Ops
<1>2. CASE RegisterRefused(t)
  <2>1. UNCHANGED <<users, sessions, serial, events, changed>> /\ AnswerPlain(t)
    BY <1>2 DEF RegisterRefused
  <2> QED BY <2>1, KnownPlain DEF Known, TypeOK, Accts
<1>3. CASE RegisterDone(t)
  <2>1. jobs[t].user \in Accts
    BY <1>1, <1>3 DEF RegisterDone, At, Known, JobsKnown
  <2> QED BY <1>1, <1>3, <2>1, KnownSessionOpened DEF RegisterDone, Known, TypeOK
<1> QED BY <1>2, <1>3

LEMMA KnownLogin ==
  ASSUME Known, NEW t \in Threads, LoginFailed(t) \/ LoginDone(t)
  PROVE  Known'
<1>1. jobs[t] \in JobType /\ jobs[t] # Idle /\ jobs[t].op = "login" /\ jobs[t].at = "checked"
  BY AtJob DEF LoginFailed, LoginDone, At, Known, Ops
<1>2. jobs[t].email \in Emails
  BY <1>1 DEF Known, JobsKnown
<1>3. CASE LoginFailed(t)
  <2>1. events' \in [Limiters -> [Emails \cup {Ip} -> Seq(0..MaxTime)]]
    <3> DEFINE mid == Record(events, "login", jobs[t].email)
    <3>1. mid \in [Limiters -> [Emails \cup {Ip} -> Seq(0..MaxTime)]]
      BY <1>2, EventsTyped DEF Known, Limiters
    <3>2. mid["login by ip"][Ip] \in Seq(0..MaxTime) /\ now \in 0..MaxTime
      BY <3>1 DEF Limiters, Known, TypeOK
    <3>3. Recent(Append(mid["login by ip"][Ip], now)) \in Seq(0..MaxTime)
      BY <3>2, RecentAppend
    <3>4. events' = Record(mid, "login by ip", Ip)
      BY <1>3 DEF LoginFailed
    <3> HIDE DEF mid
    <3> QED BY <3>1, <3>3, <3>4 DEF Record
  <2>2. UNCHANGED <<users, sessions, serial, changed>> /\ AnswerPlain(t)
    BY <1>3 DEF LoginFailed
  <2> QED BY <2>1, <2>2, KnownPlain DEF Known, TypeOK, Accts
<1>4. CASE LoginDone(t)
  <2>1. jobs[t].user \in Accts
    BY <1>1, <1>4 DEF LoginDone, Known, JobsKnown
  <2>2. events' \in [Limiters -> [Emails \cup {Ip} -> Seq(0..MaxTime)]]
    BY <1>2, <1>4, EventsTyped DEF LoginDone, Known, Limiters
  <2> QED BY <1>1, <1>4, <2>1, <2>2, KnownSessionOpened DEF LoginDone
<1> QED BY <1>3, <1>4

LEMMA KnownChange ==
  ASSUME Known, NEW t \in Threads, ChangeFailed(t) \/ ChangeRefused(t) \/ ChangeDone(t)
  PROVE  Known'
<1>1. jobs[t] \in JobType /\ jobs[t] # Idle /\ jobs[t].op = "change" /\ jobs[t].at = "checked"
  BY AtJob DEF ChangeFailed, ChangeRefused, ChangeDone, At, Known, Ops
<1>2. jobs[t].email \in Emails /\ jobs[t].new \in Passwords /\ jobs[t].token <= serial
  BY <1>1 DEF Known, JobsKnown
<1>3. CASE ChangeFailed(t)
  <2>1. events' \in [Limiters -> [Emails \cup {Ip} -> Seq(0..MaxTime)]]
    BY <1>2, <1>3, EventsTyped DEF ChangeFailed, Known, Limiters
  <2>2. UNCHANGED <<users, sessions, serial, changed>> /\ AnswerPlain(t)
    BY <1>3 DEF ChangeFailed
  <2> QED BY <2>1, <2>2, KnownPlain DEF Known, TypeOK, Accts
<1>4. CASE ChangeRefused(t)
  <2>1. UNCHANGED <<users, sessions, serial, events, changed>> /\ AnswerPlain(t)
    BY <1>4 DEF ChangeRefused
  <2> QED BY <2>1, KnownPlain DEF Known, TypeOK, Accts
<1>5. CASE ChangeDone(t)
  <2>1. jobs[t].user \in Accts /\ serial \in Nat /\ jobs[t].token \in 0..serial
    <3>1. jobs[t].user \in Accts
      BY <1>1, <1>5 DEF ChangeDone, Known, JobsKnown
    <3>2. serial \in Nat /\ jobs[t].token \in Nat
      BY <1>1 DEF Known, TypeOK, JobType
    <3> QED BY <1>2, <3>1, <3>2
  <2>2. jobs[t].user \in Emails
    BY <2>1 DEF Known, TypeOK, Accts
  <2>3. users' = [users EXCEPT ![jobs[t].user] = jobs[t].new] /\ jobs[t].new \in Passwords \ Weak
    BY <1>2, <1>5 DEF ChangeDone, SetPassword
  <2>4. users' \in UNION {[E -> Passwords \ Weak] : E \in SUBSET Emails} /\ Accts' = Accts
    <3>1. PICK E \in SUBSET Emails : users \in [E -> Passwords \ Weak]
      BY DEF Known, TypeOK
    <3>2. users' \in [E -> Passwords \ Weak]
      BY <2>3, <3>1
    <3> QED BY <2>3, <3>1, <3>2 DEF Accts
  <2>5. sessions' \subseteq sessions /\ serial' = serial
    BY <1>5 DEF ChangeDone, SetPassword
  <2>6. changed' \in [Emails -> [upto : 0..serial, by : 0..serial]]
    <3>1. changed' = [changed EXCEPT ![jobs[t].user] = [upto |-> serial, by |-> jobs[t].token]]
      BY <1>5 DEF ChangeDone
    <3>2. [upto |-> serial, by |-> jobs[t].token] \in [upto : 0..serial, by : 0..serial]
      BY <2>1
    <3> QED BY <3>1, <3>2 DEF Known, TypeOK
  <2>7. events' \in [Limiters -> [Emails \cup {Ip} -> Seq(0..MaxTime)]]
    BY <1>2, <1>5, EventsTyped DEF ChangeDone, Known, Limiters
  <2>8. /\ JobsKnown' /\ jobs' \in [Threads -> {Idle} \cup JobType]
        /\ UNCHANGED <<now, requests, cookie>>
    BY <1>5, <2>4, <2>5, KnownPlain DEF ChangeDone
  <2> QED BY <2>4, <2>5, <2>6, <2>7, <2>8 DEF Known, TypeOK
<1> QED BY <1>3, <1>4, <1>5

LEMMA KnownLogout == ASSUME Known, NEW t \in Threads, LogoutDone(t) PROVE Known'
<1>1. jobs[t] \in JobType /\ jobs[t] # Idle
  BY AtJob DEF LogoutDone, At, Known, Ops
<1>2. UNCHANGED <<users, serial, events, changed>> /\ Answer(t, 0) /\ sessions' \subseteq sessions
  BY DEF LogoutDone
<1>3. Accts' = Accts /\ serial \in Nat /\ 0 \in Nat /\ 0 <= serial' /\ serial <= serial'
  BY <1>2 DEF Accts, Known, TypeOK
<1>4. /\ JobsKnown' /\ jobs' \in [Threads -> {Idle} \cup JobType]
      /\ cookie' \in [Browsers -> 0..serial'] /\ UNCHANGED <<now, requests>>
  BY <1>1, <1>2, <1>3, KnownAnswer
<1> QED BY <1>2, <1>3, <1>4 DEF Known, TypeOK

LEMMA KnownRequest == ASSUME Known, NEW t \in Threads, Request(t) PROVE Known'
<1>1. ASSUME NEW b \in Browsers, NEW e \in Emails, NEW p \in Passwords,
             Register(t, b, e, p) \/ Login(t, b, e, p)
      PROVE  Known'
  <2>1. CASE Refused(t)
    BY <2>1, KnownRefused
  <2>2. ASSUME NEW name \in {"register", "login"}, Begin(t, Job(name, b, e, p)), UNCHANGED events
        PROVE  Known'
    <3>1. /\ Job(name, b, e, p) \in JobType /\ Job(name, b, e, p).op = name
          /\ Job(name, b, e, p).at = "start" /\ Job(name, b, e, p).token = 0
          /\ Job(name, b, e, p).email = e /\ Job(name, b, e, p).password = p
          /\ Job(name, b, e, p).new = p
      <4>1. name \in Ops /\ e \in Emails \cup {NoOne} /\ p \in Passwords \cup {NoOne}
        BY DEF Ops
      <4> QED BY <4>1, JobTyped
    <3>2. 0 <= serial
      BY DEF Known, TypeOK
    <3> HIDE DEF Job
    <3> QED BY <2>2, <3>1, <3>2, KnownBegin
  <2> QED BY <1>1, <2>1, <2>2 DEF Register, Login
<1>2. ASSUME NEW b \in Browsers, NEW p \in Passwords, NEW new \in Passwords,
             ChangePassword(t, b, p, new)
      PROVE  Known'
  <2>1. CASE Refused(t)
    BY <2>1, KnownRefused
  <2>2. ASSUME NEW s \in SignedIn(cookie[b]), UNCHANGED events,
               Begin(t, [Job("change", b, s.user, p) EXCEPT !.token = s.id, !.new = new])
        PROVE  Known'
    <3> DEFINE j == [Job("change", b, s.user, p) EXCEPT !.token = s.id, !.new = new]
    <3>1. s \in sessions /\ s.user \in Emails /\ s.id \in Nat /\ s.id <= serial
      <4>1. s \in sessions
        BY DEF SignedIn
      <4>2. s.user \in Accts /\ s.id \in 1..serial /\ serial \in Nat
        BY <4>1 DEF Known, TypeOK
      <4> QED BY <4>1, <4>2 DEF Known, TypeOK, Accts
    <3>2. /\ j \in JobType /\ j.op = "change" /\ j.at = "start" /\ j.token = s.id
          /\ j.email = s.user /\ j.password = p /\ j.new = new
      BY <3>1 DEF Job, JobType, Ops
    <3> HIDE DEF j
    <3>3. Begin(t, j)
      BY <2>2 DEF j
    <3> QED BY <2>2, <3>1, <3>2, <3>3, KnownBegin
  <2> QED BY <1>2, <2>1, <2>2 DEF ChangePassword
<1>3. ASSUME NEW b \in Browsers, NEW everywhere \in BOOLEAN, Logout(t, b, everywhere)
      PROVE  Known'
  <2> DEFINE name == IF everywhere THEN "logout everywhere" ELSE "logout"
             who == IF SignedIn(cookie[b]) = {} THEN NoOne
                    ELSE (CHOOSE s \in SignedIn(cookie[b]) : TRUE).user
             j == [Job(name, b, NoOne, NoOne) EXCEPT !.token = cookie[b], !.user = who]
  <2>1. who \in Emails \cup {NoOne} /\ cookie[b] \in Nat /\ cookie[b] <= serial
    <3>1. \A s \in SignedIn(cookie[b]) : s.user \in Emails
      <4>1. \A s \in SignedIn(cookie[b]) : s \in sessions
        BY DEF SignedIn
      <4> QED BY <4>1 DEF Known, TypeOK, Accts
    <3>2. cookie[b] \in 0..serial /\ serial \in Nat
      BY DEF Known, TypeOK
    <3> QED BY <3>1, <3>2
  <2>2. /\ j \in JobType /\ j.op \in {"logout", "logout everywhere"} /\ j.at = "start"
        /\ j.token = cookie[b]
    <3>1. name \in {"logout", "logout everywhere"}
      OBVIOUS
    <3> HIDE DEF name, who
    <3> QED BY <2>1, <3>1 DEF Job, JobType, Ops
  <2>3. Begin(t, j) /\ UNCHANGED events
    BY <1>3 DEF Logout
  <2> HIDE DEF j
  <2> QED BY <2>1, <2>2, <2>3, KnownBegin
<1> QED BY <1>1, <1>2, <1>3 DEF Request

LEMMA KnownStep == ASSUME Known, NEW t \in Threads, Step(t) PROVE Known'
  BY KnownVerify, KnownCountSignup, KnownRegister, KnownCreateUser, KnownLogin, KnownChange,
     KnownLogout DEF Step

LEMMA KnownNext == ASSUME Known, [Next]_vars PROVE Known'
<1>1. ASSUME NEW t \in Threads, Request(t) \/ Step(t) PROVE Known'
  BY <1>1, KnownRequest, KnownStep
<1>2. CASE Tick
  <2>1. now' \in 0..MaxTime
    BY <1>2, Numbers DEF Tick, Known, TypeOK
  <2>2. TypeOK'
    BY <1>2, <2>1 DEF Tick, Known, TypeOK, Accts
  <2> QED BY <1>2, <2>2 DEF Tick, Known, JobsKnown, Accts
<1>3. CASE Restart
  BY <1>3, IdleIs DEF Restart, Known, TypeOK, JobsKnown, Accts
<1>4. CASE UNCHANGED vars
  BY <1>4 DEF vars, Known, TypeOK, JobsKnown, Accts
<1> QED BY <1>1, <1>2, <1>3, <1>4 DEF Next

-----------------------------------------------------------------------------
(* Who is signed out.                                                      *)

\* A step changes the sessions of an account only in these ways.
LEMMA SignedOutStep ==
  ASSUME Known, [Next]_vars, NEW s \in sessions, s.expires > now, s \notin sessions'
  PROVE  \E t \in Threads :
           /\ jobs[t] # Idle /\ jobs'[t] = Idle
           /\ \/ jobs[t].op \in {"logout", "logout everywhere"} /\ jobs[t].token = s.id
              \/ jobs[t].op = "logout everywhere" /\ jobs[t].user = s.user
              \/ jobs[t].op = "change" /\ jobs[t].user = s.user /\ jobs[t].token # s.id
<1>1. CASE sessions' = sessions
  BY <1>1
<1>2. ASSUME NEW t \in Threads, RegisterDone(t) \/ LoginDone(t) PROVE FALSE
  BY <1>2 DEF RegisterDone, LoginDone, CreateSession
<1>3. CASE Restart
  BY <1>3 DEF Restart
<1>4. ASSUME NEW t \in Threads, ChangeDone(t)
      PROVE  /\ jobs[t] # Idle /\ jobs'[t] = Idle
             /\ jobs[t].op = "change" /\ jobs[t].user = s.user /\ jobs[t].token # s.id
  BY <1>4, AtJob DEF ChangeDone, At, SetPassword, AnswerPlain, Known, TypeOK, Ops
<1>5. ASSUME NEW t \in Threads, LogoutDone(t)
      PROVE  /\ jobs[t] # Idle /\ jobs'[t] = Idle
             /\ \/ jobs[t].op \in {"logout", "logout everywhere"} /\ jobs[t].token = s.id
                \/ jobs[t].op = "logout everywhere" /\ jobs[t].user = s.user
  <2>1. /\ jobs[t] # Idle /\ jobs'[t] = Idle /\ s \in LoggedOut(jobs[t])
        /\ jobs[t].op \in {"logout", "logout everywhere"}
    BY <1>5, AtJob DEF LogoutDone, Answer, At, Known, TypeOK, Ops
  <2> QED BY <2>1 DEF LoggedOut
<1>6. CASE Tick
  BY <1>6 DEF Tick
<1>7. CASE UNCHANGED vars
  BY <1>7 DEF vars
<1>8. ASSUME NEW t \in Threads, Request(t) PROVE sessions' = sessions
  BY <1>8 DEF Request, Register, Login, ChangePassword, Logout, Begin, Refused
<1>9. ASSUME NEW t \in Threads,
             \/ Verify(t) \/ CountSignup(t) \/ RegisterRefused(t) \/ CreateUser(t)
             \/ LoginFailed(t) \/ ChangeFailed(t) \/ ChangeRefused(t)
      PROVE  sessions' = sessions
  BY <1>9 DEF Verify, CountSignup, RegisterRefused, CreateUser, LoginFailed, ChangeFailed,
              ChangeRefused
<1> QED BY <1>1, <1>2, <1>3, <1>4, <1>5, <1>6, <1>7, <1>8, <1>9 DEF Next, Step

\* A sign-in gets an id above all that a password change looked at, and a change
\* leaves one session of its account.
LEMMA OthersStep ==
  ASSUME Known, OthersSignedOut, [Next]_vars
  PROVE  OthersSignedOut'
<1>0. \A s \in sessions : s.user \in Emails /\ s.id \in 1..serial
  BY DEF Known, TypeOK, Accts
<1>1. CASE sessions' \subseteq sessions /\ changed' = changed
  BY <1>1 DEF OthersSignedOut
<1>2. ASSUME NEW t \in Threads, RegisterDone(t) \/ LoginDone(t)
      PROVE  OthersSignedOut'
  <2>1. changed' = changed /\ CreateSession(jobs[t].user) /\ jobs[t].user \in Emails
    <3>1. /\ jobs[t].op \in {"register", "login"} /\ jobs[t].at = "checked"
          /\ jobs[t].user # NoOne \/ jobs[t].op = "register"
      BY <1>2 DEF RegisterDone, LoginDone, At
    <3>2. jobs[t] # Idle
      BY <3>1, IdleIs
    <3>3. jobs[t].user \in Accts
      BY <3>1, <3>2 DEF Known, JobsKnown
    <3>4. jobs[t].user \in Emails
      BY <3>3 DEF Known, TypeOK, Accts
    <3> QED BY <1>2, <3>4 DEF RegisterDone, LoginDone
  <2>2. changed[jobs[t].user].upto \in 0..serial /\ serial \in Nat
    BY <2>1 DEF Known, TypeOK
  <2>3. \A s \in sessions' : s \in sessions \/ (s.id = serial + 1 /\ s.user = jobs[t].user)
    BY <2>1 DEF CreateSession
  <2> QED BY <2>1, <2>2, <2>3 DEF OthersSignedOut
<1>3. ASSUME NEW t \in Threads, ChangeDone(t) PROVE OthersSignedOut'
  <2>1. /\ changed' = [changed EXCEPT ![jobs[t].user] = [upto |-> serial, by |-> jobs[t].token]]
        /\ sessions' = {s \in sessions : s.user # jobs[t].user \/ s.id = jobs[t].token}
    BY <1>3 DEF ChangeDone, SetPassword
  <2>2. ASSUME NEW s \in sessions'
        PROVE  s.id > changed'[s.user].upto \/ s.id = changed'[s.user].by
    <3>1. s \in sessions /\ s.user \in Emails
      BY <1>0, <2>1
    <3>2. CASE s.user = jobs[t].user
      <4>1. s.id = jobs[t].token /\ changed'[s.user].by = jobs[t].token
        BY <2>1, <3>1, <3>2 DEF Known, TypeOK
      <4> QED BY <4>1
    <3>3. CASE s.user # jobs[t].user
      BY <2>1, <3>1, <3>3 DEF Known, TypeOK, OthersSignedOut
    <3> QED BY <3>2, <3>3
  <2> QED BY <2>2 DEF OthersSignedOut
<1>4. CASE Tick \/ Restart \/ UNCHANGED vars
  BY <1>1, <1>4 DEF Tick, Restart, vars
<1>5. ASSUME NEW t \in Threads, Request(t) PROVE sessions' = sessions /\ changed' = changed
  BY <1>5 DEF Request, Register, Login, ChangePassword, Logout, Begin, Refused
<1>6. ASSUME NEW t \in Threads,
             \/ Verify(t) \/ CountSignup(t) \/ RegisterRefused(t) \/ CreateUser(t)
             \/ LoginFailed(t) \/ ChangeFailed(t) \/ ChangeRefused(t) \/ LogoutDone(t)
      PROVE  sessions' \subseteq sessions /\ changed' = changed
  BY <1>6 DEF Verify, CountSignup, RegisterRefused, CreateUser, LoginFailed, ChangeFailed,
              ChangeRefused, LogoutDone
<1> QED BY <1>1, <1>2, <1>3, <1>4, <1>5, <1>6 DEF Next, Step

-----------------------------------------------------------------------------
(* How far a limiter is exceeded.                                          *)

Keys == Emails \cup {Ip}

LEMMA Counted ==
  ASSUME Known, NEW l \in Limiters, NEW k \in Keys
  PROVE  /\ Len(Recent(events[l][k])) \in Nat
         /\ Cardinality(Pending(l, k)) \in Nat /\ Cardinality(Threads) \in Nat
         /\ Cardinality(Pending(l, k)) <= Cardinality(Threads)
         /\ IsFiniteSet(Pending(l, k))
         /\ Limit[l] \in Nat /\ Limit[l] > 0
<1>1. Recent(events[l][k]) \in Seq(0..MaxTime)
  BY RecentLen DEF Known, TypeOK, Keys
<1>2. Limit[l] \in Nat /\ Limit[l] > 0
  BY Numbers DEF Limit, Limiters
<1>3. Pending(l, k) \in SUBSET Threads
  BY DEF Pending
<1>4. /\ IsFiniteSet(Pending(l, k)) /\ Cardinality(Pending(l, k)) <= Cardinality(Threads)
  BY <1>3, FS_Subset, ThreadsAssumption
<1>5. Cardinality(Pending(l, k)) \in Nat /\ Cardinality(Threads) \in Nat
  BY <1>4, FS_CardinalityType, ThreadsAssumption
<1>6. Len(Recent(events[l][k])) \in Nat
  BY <1>1
<1> QED BY <1>2, <1>4, <1>5, <1>6

LEMMA CountedNext ==
  ASSUME Known', NEW l \in Limiters, NEW k \in Keys
  PROVE  /\ Len(Recent(events[l][k]))' \in Nat
         /\ Cardinality(Pending(l, k)') \in Nat
         /\ Cardinality(Pending(l, k)') <= Cardinality(Threads)
<1>1. Len(Recent(events[l][k]))' \in Nat
  <2>1. events'[l][k] \in Seq(0..MaxTime) /\ now' \in 0..MaxTime
    BY DEF Known, TypeOK, Keys
  <2>2. Recent(events[l][k])' = Kept(events'[l][k], now')
    BY DEF Recent, Kept
  <2> QED BY <2>1, <2>2, KeptLen
<1>2. Pending(l, k)' \in SUBSET Threads
  BY DEF Pending
<1>3. IsFiniteSet(Pending(l, k)') /\ Cardinality(Pending(l, k)') <= Cardinality(Threads)
  BY <1>2, FS_Subset, ThreadsAssumption
<1> QED BY <1>1, <1>3, FS_CardinalityType

\* Nobody new is on the way and nothing was counted.
LEMMA RoomLess ==
  ASSUME Known, Known', NEW l \in Limiters, NEW k \in Keys, Room(l, k),
         Pending(l, k)' \subseteq Pending(l, k),
         Len(Recent(events[l][k]))' <= Len(Recent(events[l][k]))
  PROVE  Room(l, k)'
<1>1. Cardinality(Pending(l, k)') <= Cardinality(Pending(l, k))
  BY Counted, FS_Subset
<1>2. Len(Recent(events[l][k]))' \in Nat /\ Cardinality(Pending(l, k)') \in Nat
  BY Counted, CountedNext
<1> QED BY <1>1, <1>2, Counted DEF Room

\* One that was on the way was counted.
LEMMA RoomCounted ==
  ASSUME Known, Known', NEW l \in Limiters, NEW k \in Keys, Room(l, k),
         NEW t \in Pending(l, k), Pending(l, k)' \subseteq Pending(l, k) \ {t},
         Len(Recent(events[l][k]))' <= Len(Recent(events[l][k])) + 1
  PROVE  Room(l, k)'
<1>1. /\ IsFiniteSet(Pending(l, k) \ {t})
      /\ Cardinality(Pending(l, k) \ {t}) = Cardinality(Pending(l, k)) - 1
  BY Counted, FS_RemoveElement
<1>2. Cardinality(Pending(l, k)') <= Cardinality(Pending(l, k) \ {t})
  BY <1>1, FS_Subset
<1>3. Len(Recent(events[l][k]))' \in Nat /\ Cardinality(Pending(l, k)') \in Nat
  BY Counted, CountedNext
<1> QED BY <1>1, <1>2, <1>3, Counted DEF Room

\* Whoever passed the limiter saw it below its limit, and there are no more
\* requests on the way than threads.
LEMMA RoomPassed ==
  ASSUME Known, Known', NEW l \in Limiters, NEW k \in Keys, MayTry(l, k),
         UNCHANGED <<events, now>>
  PROVE  Room(l, k)'
<1>1. Len(Recent(events[l][k]))' = Len(Recent(events[l][k]))
  BY DEF Recent
<1>2. /\ Cardinality(Pending(l, k)') \in Nat /\ Cardinality(Threads) \in Nat
      /\ Cardinality(Pending(l, k)') <= Cardinality(Threads)
  BY Counted, CountedNext
<1> QED BY <1>1, <1>2, Counted DEF Room, MayTry

\* The clock only takes events out of the window.
LEMMA RoomTick == ASSUME Known, Known', Headroom, Tick PROVE Headroom'
<1> SUFFICES ASSUME NEW l \in Limiters, NEW k \in Keys PROVE Room(l, k)'
  BY DEF Headroom, Keys
<1>1. events[l][k] \in Seq(0..MaxTime) /\ now \in 0..MaxTime /\ now + 1 \in 0..MaxTime
  BY DEF Known, TypeOK, Keys, Tick
<1>2. Recent(events[l][k])' = Kept(events[l][k], now + 1)
  BY DEF Recent, Kept, Tick
<1>3. Outdated(events[l][k], now) <= Outdated(events[l][k], now + 1)
  <2> DEFINE s == events[l][k]
  <2>1. s \in Seq(Nat) /\ now \in Nat /\ now + 1 \in Nat /\ now <= now + 1 /\ Len(s) <= Len(s)
    BY <1>1, Numbers
  <2> HIDE DEF s
  <2>2. Outdated(s, now) <= Outdated(s, now + 1)
    BY <2>1, OutdatedGrows
  <2> QED BY <2>2 DEF s
<1>4. Len(Recent(events[l][k]))' <= Len(Recent(events[l][k]))
  <2>1. /\ Len(Recent(events[l][k]))' = Len(events[l][k]) - Outdated(events[l][k], now + 1)
        /\ Len(Recent(events[l][k])) = Len(events[l][k]) - Outdated(events[l][k], now)
    BY <1>1, <1>2, RecentKept, KeptLen
  <2>2. /\ Outdated(events[l][k], now) \in Nat /\ Outdated(events[l][k], now + 1) \in Nat
        /\ Len(events[l][k]) \in Nat
    <3>1. /\ events[l][k] \in Seq(Nat) /\ now \in Nat /\ now + 1 \in Nat
          /\ Len(events[l][k]) \in Nat
      BY <1>1, Numbers
    <3>2. /\ Outdated(events[l][k], now) \in 0..Len(events[l][k])
          /\ Outdated(events[l][k], now + 1) \in 0..Len(events[l][k])
      BY <3>1, OutdatedDef
    <3> QED BY <3>1, <3>2
  <2> QED BY <1>3, <2>1, <2>2
<1>5. Pending(l, k)' = Pending(l, k)
  BY DEF Pending, Counts, Tick
<1>6. Room(l, k)
  BY DEF Headroom, Keys
<1> QED BY <1>4, <1>5, <1>6, RoomLess

\* The process starts with empty limiters and no requests.
LEMMA RoomRestart ==
  ASSUME Known, Known', NEW l \in Limiters, NEW k \in Keys,
         events'[l][k] = <<>>, Pending(l, k)' = {}
  PROVE  Room(l, k)'
<1>1. Len(Recent(events[l][k]))' = 0
  <2>1. <<>> \in Seq(0..MaxTime) /\ Len(<<>>) = 0 /\ now' \in 0..MaxTime
    BY DEF Known, TypeOK
  <2>2. Recent(events[l][k])' = Kept(<<>>, now')
    BY DEF Recent, Kept
  <2>3. Len(Kept(<<>>, now')) <= 0 /\ Len(Kept(<<>>, now')) \in Nat
    BY <2>1, KeptLen
  <2> QED BY <2>2, <2>3
<1>2. Cardinality(Pending(l, k)') = 0
  BY FS_EmptySet
<1> QED BY <1>1, <1>2, Counted DEF Room

\* A step of one thread: for each limiter and key it counts what it came for,
\* forgets, passes the limiter, or leaves all as it is.
LEMMA RoomStep ==
  ASSUME Known, Known', Headroom, NEW t \in Threads, NEW j, jobs' = [jobs EXCEPT ![t] = j],
         now' = now,
         \A l \in Limiters, k \in Keys :
           \/ /\ events'[l][k] \in {events[l][k], <<>>}
              /\ Counts(j, l, k) => Counts(jobs[t], l, k)
           \/ /\ events'[l][k] = Recent(Append(events[l][k], now))
              /\ Counts(jobs[t], l, k) /\ ~Counts(j, l, k)
           \/ MayTry(l, k) /\ events' = events
  PROVE  Headroom'
<1> SUFFICES ASSUME NEW l \in Limiters, NEW k \in Keys PROVE Room(l, k)'
  BY DEF Headroom, Keys
<1>0. /\ Room(l, k) /\ events[l][k] \in Seq(0..MaxTime) /\ now \in 0..MaxTime
      /\ jobs'[t] = j /\ \A r \in Threads : r # t => jobs'[r] = jobs[r]
  BY DEF Headroom, Keys, Known, TypeOK
<1>1. CASE /\ events'[l][k] \in {events[l][k], <<>>}
           /\ Counts(j, l, k) => Counts(jobs[t], l, k)
  <2>1. Pending(l, k)' \subseteq Pending(l, k)
    BY <1>0, <1>1 DEF Pending
  <2>2. Len(Recent(events[l][k]))' <= Len(Recent(events[l][k]))
    <3>1. CASE events'[l][k] = events[l][k]
      <4>1. Recent(events[l][k])' = Recent(events[l][k])
        BY <3>1 DEF Recent
      <4> QED BY <4>1, Counted
    <3>2. CASE events'[l][k] = <<>>
      <4>1. <<>> \in Seq(0..MaxTime) /\ Len(<<>>) = 0
        OBVIOUS
      <4>2. Recent(events[l][k])' = Kept(<<>>, now)
        BY <3>2 DEF Recent, Kept
      <4>3. Len(Kept(<<>>, now)) <= 0 /\ Len(Kept(<<>>, now)) \in Nat
        BY <1>0, <4>1, KeptLen
      <4> QED BY <4>2, <4>3, Counted
    <3> QED BY <1>1, <3>1, <3>2
  <2> QED BY <1>0, <2>1, <2>2, RoomLess
<1>2. CASE /\ events'[l][k] = Recent(Append(events[l][k], now))
           /\ Counts(jobs[t], l, k) /\ ~Counts(j, l, k)
  <2>1. t \in Pending(l, k) /\ Pending(l, k)' \subseteq Pending(l, k) \ {t}
    BY <1>0, <1>2 DEF Pending
  <2>2. Recent(events[l][k])' = Recent(Recent(Append(events[l][k], now)))
    BY <1>2 DEF Recent
  <2>3. Len(Recent(events[l][k]))' <= Len(Recent(events[l][k])) + 1
    BY <1>0, <2>2, RecentAppend
  <2> QED BY <1>0, <2>1, <2>3, RoomCounted
<1>3. CASE MayTry(l, k) /\ events' = events
  BY <1>3, RoomPassed
<1> QED BY <1>1, <1>2, <1>3

LEMMA HeadroomBegin == ASSUME Known, Known', Headroom, NEW t \in Threads, Request(t) PROVE Headroom'
<1>1. CASE Refused(t)
  <2>1. jobs' = [jobs EXCEPT ![t] = jobs[t]] /\ now' = now /\ events' = events
    BY <1>1 DEF Refused, Known, TypeOK
  <2> QED BY <2>1, RoomStep
<1>2. ASSUME NEW j, Begin(t, j), UNCHANGED events,
             \A l \in Limiters, k \in Keys : Counts(j, l, k) => MayTry(l, k)
      PROVE  Headroom'
  BY <1>2, RoomStep DEF Begin
<1>3. ASSUME NEW b \in Browsers, NEW e \in Emails, NEW p \in Passwords, Register(t, b, e, p)
      PROVE  Headroom'
  <2> DEFINE j == Job("register", b, e, p)
  <2>1. j.op = "register" /\ j.email = e
    BY DEF Job
  <2> HIDE DEF j
  <2>2. ASSUME MayTry("signup", Ip), Begin(t, j), UNCHANGED events PROVE Headroom'
    <3>1. \A l \in Limiters, k \in Keys : Counts(j, l, k) => MayTry(l, k)
      BY <2>1, <2>2 DEF Counts
    <3> QED BY <1>2, <2>2, <3>1
  <2> QED BY <1>1, <1>3, <2>2 DEF Register, j
<1>4. ASSUME NEW b \in Browsers, NEW e \in Emails, NEW p \in Passwords, Login(t, b, e, p)
      PROVE  Headroom'
  <2> DEFINE j == Job("login", b, e, p)
  <2>1. j.op = "login" /\ j.email = e
    BY DEF Job
  <2> HIDE DEF j
  <2>2. ASSUME LoginAllowed(e), Begin(t, j), UNCHANGED events PROVE Headroom'
    <3>1. \A l \in Limiters, k \in Keys : Counts(j, l, k) => MayTry(l, k)
      BY <2>1, <2>2 DEF Counts, LoginAllowed
    <3> QED BY <1>2, <2>2, <3>1
  <2> QED BY <1>1, <1>4, <2>2 DEF Login, j
<1>5. ASSUME NEW b \in Browsers, NEW p \in Passwords, NEW new \in Passwords,
             ChangePassword(t, b, p, new)
      PROVE  Headroom'
  <2>1. ASSUME NEW s, ChangeAllowed(s.user), UNCHANGED events,
               Begin(t, [Job("change", b, s.user, p) EXCEPT !.token = s.id, !.new = new])
        PROVE  Headroom'
    <3> DEFINE j == [Job("change", b, s.user, p) EXCEPT !.token = s.id, !.new = new]
    <3>1. j.op = "change" /\ j.email = s.user
      BY DEF Job
    <3>2. \A l \in Limiters, k \in Keys : Counts(j, l, k) => MayTry(l, k)
      BY <2>1, <3>1 DEF Counts, ChangeAllowed
    <3> HIDE DEF j
    <3>3. Begin(t, j)
      BY <2>1 DEF j
    <3> QED BY <1>2, <2>1, <3>2, <3>3
  <2> QED BY <1>1, <1>5, <2>1 DEF ChangePassword
<1>6. ASSUME NEW b \in Browsers, NEW everywhere \in BOOLEAN, Logout(t, b, everywhere)
      PROVE  Headroom'
  <2> DEFINE who == IF SignedIn(cookie[b]) = {} THEN NoOne
                    ELSE (CHOOSE s \in SignedIn(cookie[b]) : TRUE).user
             name == IF everywhere THEN "logout everywhere" ELSE "logout"
             j == [Job(name, b, NoOne, NoOne) EXCEPT !.token = cookie[b], !.user = who]
  <2>1. j.op \in {"logout", "logout everywhere"}
    <3> HIDE DEF who
    <3> QED BY DEF Job
  <2>2. \A l \in Limiters, k \in Keys : ~Counts(j, l, k)
    BY <2>1 DEF Counts
  <2>3. Begin(t, j) /\ UNCHANGED events
    BY <1>6 DEF Logout
  <2> HIDE DEF j
  <2> QED BY <1>2, <2>2, <2>3
<1> QED BY <1>3, <1>4, <1>5, <1>6 DEF Request

LEMMA HeadroomStep == ASSUME Known, Known', Headroom, NEW t \in Threads, Step(t) PROVE Headroom'
<1>0. \A l \in Limiters, k \in Keys : ~Counts(Idle, l, k)
  BY IdleIs DEF Counts
<1>1. CASE Verify(t)
  <2>1. jobs[t] \in JobType /\ jobs[t].op \in {"login", "change"}
    BY <1>1, AtJob DEF Verify, At, Known, Ops
  <2>2. PICK who : jobs' = [jobs EXCEPT ![t].at = "checked", ![t].user = who]
    BY <1>1 DEF Verify
  <2> DEFINE j == [jobs[t] EXCEPT !.at = "checked", !.user = who]
  <2>3. jobs' = [jobs EXCEPT ![t] = j]
    BY <2>2 DEF Known, TypeOK
  <2>4. j.op = jobs[t].op /\ j.email = jobs[t].email
    BY <2>1 DEF JobType
  <2>5. \A l \in Limiters, k \in Keys : Counts(j, l, k) => Counts(jobs[t], l, k)
    BY <2>1, <2>4 DEF Counts
  <2> HIDE DEF j
  <2>6. events' = events /\ now' = now
    BY <1>1 DEF Verify
  <2> QED BY <2>3, <2>5, <2>6, RoomStep
<1>2. CASE CountSignup(t)
  <2>1. jobs[t] \in JobType /\ jobs[t].op = "register" /\ jobs[t].at = "start"
    BY <1>2, AtJob DEF CountSignup, At, Known, Ops
  <2> DEFINE j == [jobs[t] EXCEPT !.at = "counted"]
  <2>2. j.op = "register" /\ j.at = "counted"
    BY <2>1 DEF JobType
  <2>3. jobs' = [jobs EXCEPT ![t] = j] /\ now' = now
    BY <1>2 DEF CountSignup, Known, TypeOK
  <2> HIDE DEF j
  <2>4. events' = [events EXCEPT !["signup"][Ip] = Recent(Append(events["signup"][Ip], now))]
    BY <1>2 DEF CountSignup, Record
  <2>5. ASSUME NEW l \in Limiters, NEW k \in Keys
        PROVE  \/ /\ events'[l][k] \in {events[l][k], <<>>}
                  /\ Counts(j, l, k) => Counts(jobs[t], l, k)
               \/ /\ events'[l][k] = Recent(Append(events[l][k], now))
                  /\ Counts(jobs[t], l, k) /\ ~Counts(j, l, k)
    <3>1. CASE l = "signup" /\ k = Ip
      BY <2>1, <2>2, <2>4, <3>1 DEF Counts, Known, TypeOK, Keys
    <3>2. CASE l # "signup" \/ k # Ip
      BY <2>1, <2>2, <2>4, <3>2 DEF Counts, Known, TypeOK, Keys
    <3> QED BY <3>1, <3>2
  <2> QED BY <2>3, <2>5, RoomStep
<1>3. CASE CreateUser(t)
  <2>1. jobs[t] \in JobType /\ jobs[t].op = "register"
    BY <1>3, AtJob DEF CreateUser, At, Known, Ops
  <2> DEFINE j == [jobs[t] EXCEPT !.at = "checked", !.user = jobs[t].email]
  <2>2. j.op = "register" /\ j.at = "checked"
    BY <2>1 DEF JobType
  <2>3. jobs' = [jobs EXCEPT ![t] = j] /\ events' = events /\ now' = now
    BY <1>3 DEF CreateUser, Known, TypeOK
  <2> HIDE DEF j
  <2>4. \A l \in Limiters, k \in Keys : ~Counts(j, l, k)
    BY <2>2 DEF Counts
  <2> QED BY <2>3, <2>4, RoomStep
<1>4. CASE LoginFailed(t)
  <2>1. /\ jobs[t].op = "login" /\ jobs[t].email \in Emails
        /\ jobs' = [jobs EXCEPT ![t] = Idle] /\ now' = now
    BY <1>4, AtJob DEF LoginFailed, AnswerPlain, At, Known, JobsKnown, Ops
  <2> DEFINE e == jobs[t].email
  <2>2. \A l \in Limiters, k \in Keys :
          events'[l][k] =
            IF (l = "login" /\ k = e) \/ (l = "login by ip" /\ k = Ip)
            THEN Recent(Append(events[l][k], now)) ELSE events[l][k]
    BY <1>4, <2>1 DEF LoginFailed, Record, Known, TypeOK, Keys, Limiters
  <2>3. \A l \in Limiters, k \in Keys :
          (l = "login" /\ k = e) \/ (l = "login by ip" /\ k = Ip) => Counts(jobs[t], l, k)
    BY <2>1 DEF Counts
  <2> HIDE DEF e
  <2>4. ASSUME NEW l \in Limiters, NEW k \in Keys
        PROVE  \/ /\ events'[l][k] \in {events[l][k], <<>>}
                  /\ Counts(Idle, l, k) => Counts(jobs[t], l, k)
               \/ /\ events'[l][k] = Recent(Append(events[l][k], now))
                  /\ Counts(jobs[t], l, k) /\ ~Counts(Idle, l, k)
    BY <1>0, <2>2, <2>3
  <2> QED BY <2>1, <2>4, RoomStep
<1>5. CASE ChangeFailed(t)
  <2>1. /\ jobs[t].op = "change" /\ jobs[t].email \in Emails
        /\ jobs' = [jobs EXCEPT ![t] = Idle] /\ now' = now
    BY <1>5, AtJob DEF ChangeFailed, AnswerPlain, At, Known, JobsKnown, Ops
  <2> DEFINE e == jobs[t].email
  <2>2. \A l \in Limiters, k \in Keys :
          events'[l][k] = IF l = "change" /\ k = e
                          THEN Recent(Append(events[l][k], now)) ELSE events[l][k]
    BY <1>5, <2>1 DEF ChangeFailed, Record, Known, TypeOK, Keys, Limiters
  <2>3. \A l \in Limiters, k \in Keys : l = "change" /\ k = e => Counts(jobs[t], l, k)
    BY <2>1 DEF Counts
  <2> HIDE DEF e
  <2>4. ASSUME NEW l \in Limiters, NEW k \in Keys
        PROVE  \/ /\ events'[l][k] \in {events[l][k], <<>>}
                  /\ Counts(Idle, l, k) => Counts(jobs[t], l, k)
               \/ /\ events'[l][k] = Recent(Append(events[l][k], now))
                  /\ Counts(jobs[t], l, k) /\ ~Counts(Idle, l, k)
    BY <1>0, <2>2, <2>3
  <2> QED BY <2>1, <2>4, RoomStep
<1>6. CASE LoginDone(t) \/ ChangeDone(t)
  <2>1. /\ jobs[t].email \in Emails
        /\ jobs' = [jobs EXCEPT ![t] = Idle] /\ now' = now
    BY <1>6, AtJob DEF LoginDone, ChangeDone, Answer, AnswerPlain, At, Known, JobsKnown, Ops
  <2>2. PICK who \in {"login", "change"} :
          events' = [events EXCEPT ![who][jobs[t].email] = <<>>]
    BY <1>6 DEF LoginDone, ChangeDone, Reset
  <2>3. \A l \in Limiters, k \in Keys : events'[l][k] \in {events[l][k], <<>>}
    BY <2>1, <2>2 DEF Known, TypeOK, Keys, Limiters
  <2> QED BY <1>0, <2>1, <2>3, RoomStep
<1>7. CASE RegisterRefused(t) \/ RegisterDone(t) \/ ChangeRefused(t) \/ LogoutDone(t)
  <2>1. jobs' = [jobs EXCEPT ![t] = Idle] /\ now' = now /\ events' = events
    BY <1>7 DEF RegisterRefused, RegisterDone, ChangeRefused, LogoutDone, Answer, AnswerPlain
  <2> QED BY <1>0, <2>1, RoomStep
<1> QED BY <1>1, <1>2, <1>3, <1>4, <1>5, <1>6, <1>7 DEF Step

LEMMA HeadroomNext == ASSUME Known, Known', Headroom, [Next]_vars PROVE Headroom'
<1>1. CASE Restart
  <2>1. \A l \in Limiters, k \in Keys : events'[l][k] = <<>> /\ Pending(l, k)' = {}
    BY <1>1, IdleIs DEF Restart, Keys, Pending, Counts
  <2> QED BY <2>1, RoomRestart DEF Headroom, Keys
<1>2. CASE UNCHANGED vars
  BY <1>2 DEF vars, Headroom, Room, Recent, Pending
<1> QED BY <1>1, <1>2, RoomTick, HeadroomBegin, HeadroomStep DEF Next

LEMMA HeadroomInit == Init => Headroom
<1> SUFFICES ASSUME Init, NEW l \in Limiters, NEW k \in Keys PROVE Room(l, k)
  BY DEF Headroom, Keys
<1>1. events[l][k] = <<>> /\ now = 0 /\ Known
  BY KnownInit DEF Init, Keys
<1>2. Len(Recent(events[l][k])) = 0
  <2>1. <<>> \in Seq(0..MaxTime) /\ Len(<<>>) = 0 /\ now \in 0..MaxTime
    BY <1>1 DEF Known, TypeOK
  <2>2. Recent(events[l][k]) = Kept(<<>>, now)
    BY <1>1, RecentKept
  <2>3. Len(Kept(<<>>, now)) <= 0 /\ Len(Kept(<<>>, now)) \in Nat
    BY <2>1, KeptLen
  <2> QED BY <2>2, <2>3
<1>3. Pending(l, k) = {}
  BY IdleIs DEF Init, Pending, Counts
<1>4. Cardinality(Pending(l, k)) = 0
  BY <1>3, FS_EmptySet
<1> QED BY <1>1, <1>2, <1>4, Counted DEF Room

-----------------------------------------------------------------------------
(* Results.                                                                *)

(* What tables, limiters and requests in progress hold in every reachable  *)
(* state: types, unique session ids, accounts and tokens that exist, and   *)
(* the two counts the results below follow from.                           *)
THEOREM InductiveInvariant == Spec => []IInv
<1>1. Init => IInv
  BY KnownInit, HeadroomInit DEF IInv, Known, OthersSignedOut, Init
<1>2. IInv /\ [Next]_vars => IInv'
  <2> SUFFICES ASSUME IInv, [Next]_vars PROVE IInv'
    OBVIOUS
  <2>1. Known /\ Headroom /\ OthersSignedOut
    BY DEF IInv, Known
  <2>2. Known'
    BY <2>1, KnownNext
  <2>3. Headroom'
    BY <2>1, <2>2, HeadroomNext
  <2>4. OthersSignedOut'
    BY <2>1, OthersStep
  <2> QED BY <2>2, <2>3, <2>4 DEF IInv, Known
<1> QED BY <1>1, <1>2, PTL DEF Spec

(* retry_after is asked before a password is hashed and record is told     *)
(* after it: with any number of threads, within a window a key has fewer   *)
(* events than its limit and one for each thread.                          *)
THEOREM ExcessBoundedHolds == Spec => []ExcessBounded
<1>1. IInv => ExcessBounded
  <2> SUFFICES ASSUME IInv, NEW l \in Limiters, NEW k \in Keys
               PROVE  Len(Recent(events[l][k])) < Limit[l] + Cardinality(Threads)
    BY DEF ExcessBounded, Keys
  <2>1. Known /\ Room(l, k)
    BY DEF IInv, Known, Headroom, Keys
  <2> QED BY <2>1, Counted DEF Room
<1> QED BY <1>1, InductiveInvariant, PTL

(* set_password: of the sessions an account had when its password changed  *)
(* only the one that changed it is left, whatever else was in progress.    *)
THEOREM OthersSignedOutHolds == Spec => []OthersSignedOut
<1>1. IInv => OthersSignedOut
  BY DEF IInv
<1> QED BY <1>1, InductiveInvariant, PTL

(* No step of another account's, no sweep of expired sessions and no       *)
(* restart ends a session that has not expired.                            *)
THEOREM SignedOutOnRequestHolds == Spec => SignedOutOnRequest
<1>1. IInv /\ [Next]_vars =>
        [\A s \in sessions : s.expires > now /\ s \notin sessions' =>
           \E t \in Threads :
             /\ jobs[t] # Idle /\ jobs'[t] = Idle
             /\ \/ jobs[t].op \in {"logout", "logout everywhere"} /\ jobs[t].token = s.id
                \/ jobs[t].op = "logout everywhere" /\ jobs[t].user = s.user
                \/ jobs[t].op = "change" /\ jobs[t].user = s.user /\ jobs[t].token # s.id]_vars
  BY SignedOutStep DEF IInv, Known
<1> QED BY <1>1, InductiveInvariant, PTL DEF Spec, SignedOutOnRequest

=============================================================================
