----------------------------- MODULE NodeConsole -----------------------------
(***************************************************************************)
(* The persistent consoles of a lab's IOS devices: login, the stack of     *)
(* nested ssh and telnet sessions, the VTY lines they occupy, `reload` and *)
(* the syslog lines that wait until they can be shown.                     *)
(*                                                                         *)
(* All of it runs under runtime.lock.  A keystroke is one step: the        *)
(* terminal processes it, then _after_input shows the queued syslog lines  *)
(* and runs the reloads that the command asked for.  Between two           *)
(* keystrokes on a console a command may be waiting (a pager, a [confirm], *)
(* the login dialog of an outgoing session) while the other consoles go    *)
(* on; that is where the interleavings are.                                *)
(*                                                                         *)
(* Every NodeState object has an incarnation number: a reload of the node  *)
(* and a reset of the lab put a new object in runtime.nodes, and a session *)
(* shell goes on using the object it was made with.                        *)
(***************************************************************************)
EXTENDS Integers, Sequences, SequencesExt

CONSTANTS
  Nodes,         \* the IOS devices
  Gated,         \* devices whose console asks for a login
  Synchronous,   \* devices with `logging synchronous` on their lines
  VtyLines,      \* VTY line numbers of a device
  QueueLimit,    \* _LOG_QUEUE_LIMIT
  MaxDepth,      \* bound on the session stack
  MaxReplaced    \* bound on the incarnations of a device

Con0 == -1       \* the line of a root session
ToConsole == [node |-> "console", line |-> Con0]  \* recipient of a console log
NoTarget == "none"

ASSUME VtyLinesAssumption == VtyLines \subseteq Nat /\ VtyLines # {}
ASSUME GatedAssumption == Gated \subseteq Nodes /\ Synchronous \subseteq Nodes
ASSUME NodesAssumption == NoTarget \notin Nodes /\ "console" \notin Nodes
ASSUME BoundsAssumption ==
  QueueLimit \in Nat \ {0} /\ MaxDepth \in Nat \ {0} /\ MaxReplaced \in Nat \ {0}

VARIABLES
  inc,  \* the incarnation of runtime.nodes[n]
  con   \* the console of each device: state, stack, what the running command
        \* waits for, the target of a login dialog and the syslog queue

vars == <<inc, con>>

-----------------------------------------------------------------------------
(* Frames and lines.                                                       *)

Frame(n, line) == [node |-> n, inc |-> inc[n], line |-> line, monitor |-> FALSE]
Top(k) == k.stack[Len(k.stack)]
Nested(k) == Tail(k.stack)
Recipient(f) == [node |-> f.node, line |-> f.line]

\* VTY lines of device n that sessions hold, whichever console they are on.
LinesInUse(n) ==
  UNION {{f.line : f \in {g \in ToSet(Nested(con[c])) : g.node = n}} :
           c \in {d \in Nodes : con[d].stack # <<>>}}
FreeLines(n) == VtyLines \ LinesInUse(n)
Lowest(S) == CHOOSE i \in S : \A j \in S : i <= j

-----------------------------------------------------------------------------
(* Syslog lines.  A queue holds the recipients of the waiting lines: the   *)
(* console itself or a nested session with `terminal monitor`.             *)

\* logging synchronous, while the top shell's command has not finished.
MustWait(k) == k.state = "active" /\ k.task # "none" /\ Top(k).node \in Synchronous

\* _flush_logs: drop lines for sessions that are gone, show the others
\* unless a login dialog or a command is in the way.
StillWaiting(k) ==
  LET alive == {ToConsole} \cup {Recipient(k.stack[i]) : i \in DOMAIN k.stack}
  IN IF k.state = "idle" \/ (k.state = "active" /\ ~MustWait(k)) THEN <<>>
     ELSE SelectSeq(k.queue, LAMBDA r : r \in alive)
Flushed(k) == [k EXCEPT !.queue = StillWaiting(k)]

\* The oldest lines leave a full queue.
Newest(lines) ==
  SubSeq(lines, 1 + (IF Len(lines) > QueueLimit THEN Len(lines) - QueueLimit ELSE 0), Len(lines))
Queued(k, lines) == [k EXCEPT !.queue = Newest(k.queue \o lines)]

\* The recipients on console k of node c of a line that device n logs: its own
\* console, and every monitoring session.
LogLines(k, c, n) ==
  (IF c = n THEN <<ToConsole>> ELSE <<>>)
    \o (IF k.stack = <<>> THEN <<>>
        ELSE LET monitors == SelectSeq(Nested(k), LAMBDA f : f.node = n /\ f.monitor)
             IN [i \in DOMAIN monitors |-> Recipient(monitors[i])])

\* emit_log on device n.  The console `busy` is processing the keystroke that
\* caused it, the others show what they can at once.
Logged(k, c, n, busy) ==
  LET lines == LogLines(k, c, n)
  IN IF k.state = "new" \/ lines = <<>> THEN k
     ELSE IF c = busy THEN Queued(k, lines)
     ELSE Flushed(Queued(k, lines))
EmitLog(K, n, busy) == [c \in Nodes |-> Logged(K[c], c, n, busy)]

-----------------------------------------------------------------------------
(* Start, logout and reload.                                               *)

Started(k, n, i) ==
  IF n \in Gated
  THEN [k EXCEPT !.state = "gate", !.stack = <<>>, !.task = "login", !.target = NoTarget]
  ELSE [k EXCEPT !.state = "active", !.task = "none", !.target = NoTarget,
                 !.stack = <<[node |-> n, inc |-> i, line |-> Con0, monitor |-> FALSE]>>]

\* Press RETURN to get started.
Idle(k) == [k EXCEPT !.state = "idle", !.stack = <<>>, !.task = "none", !.target = NoTarget]

\* Mutant: only the top session is looked at.
ClosedTopInto(k, r) ==
  IF k.state = "active" /\ Len(k.stack) > 1 /\ Top(k).node = r
  THEN [k EXCEPT !.stack = Front(k.stack), !.task = "none", !.target = NoTarget]
  ELSE k

\* close_sessions_into: the first nested session into r and all above it.
ClosedInto(k, r) ==
  LET into == {i \in 2..Len(k.stack) : k.stack[i].node = r}
  IN IF k.state # "active" \/ into = {} THEN k
     ELSE [k EXCEPT !.stack = SubSeq(k.stack, 1, Lowest(into) - 1),
                    !.task = "none", !.target = NoTarget]

\* reload_node: other consoles lose their sessions into r, its own console
\* boots, and the restart is logged.
Reloaded(K, r, busy) ==
  LET closed == [c \in Nodes |->
        IF c # r THEN ClosedInto(K[c], r)
        ELSE IF K[c].state = "new" THEN K[c] ELSE Idle(K[c])]
  IN EmitLog(closed, r, busy)

-----------------------------------------------------------------------------
(* Actions: attach, reset and the keystrokes on console c.                 *)

Init ==
  /\ inc = [n \in Nodes |-> 1]
  /\ con = [n \in Nodes |-> [state |-> "new", stack |-> <<>>, task |-> "none",
                             target |-> NoTarget, queue |-> <<>>]]

\* Every keystroke ends with _after_input on its console.
AfterInput(K, c) == con' = [K EXCEPT ![c] = Flushed(@)] /\ UNCHANGED inc
Set(c, k) == AfterInput([con EXCEPT ![c] = k], c)

\* The first viewer starts the console; a later one changes nothing.
StartConsole(c) ==
  /\ con[c].state = "new"
  /\ con' = [con EXCEPT ![c] = Started(@, c, inc[c])]
  /\ UNCHANGED inc

PressReturn(c) ==
  /\ con[c].state = "idle"
  /\ Set(c, Started(con[c], c, inc[c]))

Login(c) ==
  /\ con[c].state = "gate"
  /\ Set(c, [con[c] EXCEPT !.state = "active", !.task = "none", !.stack = <<Frame(c, Con0)>>])

AtPrompt(c) == con[c].state = "active" /\ con[c].task = "none"

\* A command that changes an operational state somewhere: oper_report logs it.
Configure(c, n) ==
  /\ AtPrompt(c)
  /\ AfterInput(EmitLog(con, n, c), c)

\* A command stops at --More-- or at a question, and goes on later.
StopAtPager(c) == AtPrompt(c) /\ Set(c, [con[c] EXCEPT !.task = "pager"])
Finish(c) == con[c].task = "pager" /\ Set(c, [con[c] EXCEPT !.task = "none"])

TerminalMonitor(c) ==
  /\ AtPrompt(c) /\ Len(con[c].stack) > 1
  /\ \E on \in BOOLEAN :
       Set(c, [con[c] EXCEPT !.stack[Len(con[c].stack)].monitor = on])

\* ssh or telnet to t: refused when no VTY line is free, else a dialog.
Dial(c, t) ==
  /\ AtPrompt(c) /\ Len(con[c].stack) < MaxDepth
  /\ FreeLines(t) # {}
  /\ Set(c, [con[c] EXCEPT !.task = "dial", !.target = t])

\* Wrong password, or interrupted.
DialFails(c) ==
  /\ con[c].task = "dial"
  /\ Set(c, [con[c] EXCEPT !.task = "none", !.target = NoTarget])

\* Mutant: the lines seen free when the dialog began are not looked up again.
OpenSessionUnchecked(c) ==
  /\ con[c].task = "dial"
  /\ Set(c, [con[c] EXCEPT
       !.task = "none", !.target = NoTarget,
       !.stack = Append(@, Frame(con[c].target, Lowest(VtyLines)))])

\* _open_vty: the lines are looked up again, they may be busy meanwhile.
OpenSession(c) ==
  /\ con[c].task = "dial"
  /\ LET t == con[c].target
         k == [con[c] EXCEPT !.task = "none", !.target = NoTarget]
     IN Set(c, IF FreeLines(t) = {} THEN k
               ELSE [k EXCEPT !.stack = Append(@, Frame(t, Lowest(FreeLines(t))))])

\* exit: back to the parent session, or log out of the console.
Exit(c) ==
  /\ AtPrompt(c)
  /\ Set(c, IF Len(con[c].stack) > 1 THEN [con[c] EXCEPT !.stack = Front(@)]
            ELSE Idle(con[c]))

\* reload, confirmed, in the top session: its own session is closed, the
\* reload itself runs when the command has finished.
Reload(c) ==
  LET r      == Top(con[c]).node
      logged == EmitLog(con, r, c)
      left   == IF Len(con[c].stack) > 1
                THEN [logged EXCEPT ![c].stack = Front(@)] ELSE logged
      input  == [left EXCEPT ![c] = Flushed(@)]
  IN /\ AtPrompt(c) /\ inc[r] < MaxReplaced
     /\ inc' = [inc EXCEPT ![r] = @ + 1]
     /\ con' = [Reloaded(input, r, c) EXCEPT ![c] = Flushed(@)]

\* runtime.reset: all devices are replaced, all consoles start again.
Reset ==
  /\ \A n \in Nodes : inc[n] < MaxReplaced
  /\ inc' = [n \in Nodes |-> inc[n] + 1]
  /\ con' = [c \in Nodes |->
               IF con[c].state = "new" THEN con[c]
               ELSE Started([con[c] EXCEPT !.queue = <<>>], c, inc[c] + 1)]

Keystroke(c) ==
  \/ PressReturn(c) \/ Login(c)
  \/ \E n \in Nodes : Configure(c, n) \/ Dial(c, n)
  \/ StopAtPager(c) \/ Finish(c)
  \/ TerminalMonitor(c)
  \/ DialFails(c) \/ OpenSession(c) \/ Exit(c)
  \/ Reload(c)

Next == Reset \/ \E c \in Nodes : StartConsole(c) \/ Keystroke(c)

Spec == Init /\ [][Next]_vars

-----------------------------------------------------------------------------
(* Properties.                                                             *)

Frames == [node : Nodes, inc : 1..MaxReplaced, line : VtyLines \cup {Con0}, monitor : BOOLEAN]

\* Types, and what each console state has.
TypeOK ==
  /\ inc \in [Nodes -> 1..MaxReplaced]
  /\ \A c \in Nodes : LET k == con[c] IN
       /\ k.state \in {"new", "gate", "active", "idle"}
       /\ k.task \in {"none", "login", "pager", "dial"}
       /\ k.task = "login" <=> k.state = "gate"
       /\ k.task = "dial" <=> k.target # NoTarget
       /\ k.target \in Nodes \cup {NoTarget}
       /\ Len(k.stack) <= MaxDepth /\ ToSet(k.stack) \subseteq Frames
       /\ k.stack # <<>> <=> k.state = "active"
       /\ \A i \in DOMAIN k.stack : k.stack[i].line = Con0 <=> i = 1
       /\ k.stack # <<>> => k.stack[1].node = c
       /\ Len(k.queue) <= QueueLimit

\* No session goes on using a device object that a reload or a reset replaced,
\* on whichever console it is open and however deep in the stack.
SessionsCurrent ==
  \A c \in Nodes : \A i \in DOMAIN con[c].stack :
    con[c].stack[i].inc = inc[con[c].stack[i].node]

\* Two sessions into a device never share a VTY line, although the lines are
\* looked up before the login dialog and other consoles go on during it.
VtyLinesExclusive ==
  \A c, d \in Nodes : \A i \in 2..Len(con[c].stack), j \in 2..Len(con[d].stack) :
    /\ con[c].stack[i].node = con[d].stack[j].node
    /\ con[c].stack[i].line = con[d].stack[j].line
    => c = d /\ i = j

\* console.py:641 "shown as soon as it cannot interleave with command output":
\* between keystrokes a line waits only for a login dialog or, with logging
\* synchronous, for the command that is running.
LogsShown ==
  \A c \in Nodes : con[c].queue # <<>> => con[c].state = "gate" \/ MustWait(con[c])

=============================================================================
