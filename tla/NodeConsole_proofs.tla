-------------------------- MODULE NodeConsole_proofs --------------------------
(***************************************************************************)
(* Proofs about NodeConsole, for any devices, VTY lines, stack depth and   *)
(* number of replaced devices: what each console state has, that sessions  *)
(* are on current devices, and that no VTY line is used twice.  What waits *)
(* in the syslog queues does not matter to them: steps are compared by     *)
(* everything else that a console has (Like).                              *)
(***************************************************************************)
EXTENDS NodeConsole, TLAPS, SequenceTheorems, WellFoundedInduction

USE GatedAssumption, NodesAssumption

-----------------------------------------------------------------------------
(* The inductive invariant.                                                *)

\* A console has these fields.
Shaped(k) == k = [state |-> k.state, stack |-> k.stack, task |-> k.task,
                  target |-> k.target, queue |-> k.queue]

\* Console m is console k, but for the queue.
Like(k, m) ==
  /\ Shaped(m)
  /\ m.state = k.state /\ m.stack = k.stack /\ m.task = k.task /\ m.target = k.target

\* A stack starts with the device's own shell, sessions are above it.
StackOf(c, s) ==
  /\ s \in Seq(Frames) /\ Len(s) <= MaxDepth
  /\ \A i \in 1..Len(s) : s[i].line = Con0 <=> i = 1
  /\ s # <<>> => s[1].node = c

\* What console c has in each of its states.
Sane(c, k) ==
  /\ Shaped(k)
  /\ k.state \in {"new", "gate", "active", "idle"}
  /\ k.task \in {"none", "login", "pager", "dial"}
  /\ k.target \in Nodes \cup {NoTarget}
  /\ k.task = "login" <=> k.state = "gate"
  /\ k.task = "dial" <=> k.target # NoTarget
  /\ k.task \in {"pager", "dial"} => k.state = "active"
  /\ k.task = "dial" => Len(k.stack) < MaxDepth
  /\ k.stack # <<>> <=> k.state = "active"
  /\ StackOf(c, k.stack)

AllSane ==
  /\ inc \in [Nodes -> 1..MaxReplaced]
  /\ con = [c \in Nodes |-> con[c]]
  /\ \A c \in Nodes : Sane(c, con[c])

IInv == AllSane /\ SessionsCurrent /\ VtyLinesExclusive

-----------------------------------------------------------------------------
(* Records, logs and sequences.                                            *)

LEMMA LowestIs ==
  ASSUME NEW T, T \subseteq Nat, T # {}
  PROVE  Lowest(T) \in T /\ \A y \in T : Lowest(T) <= y
<1>1. PICK x \in T : \A y \in T : ~ (<<y, x>> \in OpToRel(<, Nat))
  BY WFMin, NatLessThanWellFounded
<1>2. \A y \in T : ~ (y < x)
  BY <1>1 DEF OpToRel
<1>3. \A y \in T : x <= y
  BY <1>2
<1> QED BY <1>3 DEF Lowest

LEMMA FlushedLike == ASSUME NEW k, Shaped(k) PROVE Like(k, Flushed(k))
  BY DEF Shaped, Like, Flushed

LEMMA QueuedLike == ASSUME NEW k, NEW lines, Shaped(k) PROVE Like(k, Queued(k, lines))
  BY DEF Shaped, Like, Queued

LEMMA LikeSelf == ASSUME NEW k, Shaped(k) PROVE Like(k, k)
  BY DEF Like

LEMMA LikeShaped == ASSUME NEW k, NEW m, Like(k, m) PROVE Shaped(m)
  BY DEF Like

LEMMA LikeTrans == ASSUME NEW k, NEW m, NEW n, Like(k, m), Like(m, n) PROVE Like(k, n)
  BY DEF Like

LEMMA LoggedLike ==
  ASSUME NEW k, NEW c, NEW n, NEW busy, Shaped(k)
  PROVE  Like(k, Logged(k, c, n, busy))
<1> DEFINE q == Queued(k, LogLines(k, c, n))
<1>1. Like(k, q) /\ Like(q, Flushed(q))
  BY QueuedLike, LikeShaped, FlushedLike
<1>2. Logged(k, c, n, busy) \in {k, q, Flushed(q)}
  BY DEF Logged
<1> QED BY <1>1, <1>2, LikeSelf, LikeTrans

LEMMA EmitLike ==
  ASSUME NEW K, NEW n, NEW busy, \A c \in Nodes : Shaped(K[c])
  PROVE  /\ DOMAIN EmitLog(K, n, busy) = Nodes
         /\ \A c \in Nodes : Like(K[c], EmitLog(K, n, busy)[c])
  BY LoggedLike DEF EmitLog

\* One field of a console is changed.
LEMMA StateChange ==
  ASSUME NEW k, Shaped(k), NEW x
  PROVE  LET m == [k EXCEPT !.state = x] IN
         /\ Shaped(m) /\ m.state = x /\ m.stack = k.stack
         /\ m.task = k.task /\ m.target = k.target /\ m.queue = k.queue
<1> DEFINE m == [k EXCEPT !.state = x]
<1>1. m = [state |-> x, stack |-> k.stack, task |-> k.task,
           target |-> k.target, queue |-> k.queue]
  BY DEF Shaped
<1> HIDE DEF m
<1>2. /\ Shaped(m) /\ m.state = x /\ m.stack = k.stack
      /\ m.task = k.task /\ m.target = k.target /\ m.queue = k.queue
  BY <1>1 DEF Shaped
<1> QED BY <1>2 DEF m

LEMMA StackChange ==
  ASSUME NEW k, Shaped(k), NEW x
  PROVE  LET m == [k EXCEPT !.stack = x] IN
         /\ Shaped(m) /\ m.state = k.state /\ m.stack = x
         /\ m.task = k.task /\ m.target = k.target /\ m.queue = k.queue
<1> DEFINE m == [k EXCEPT !.stack = x]
<1>1. m = [state |-> k.state, stack |-> x, task |-> k.task,
           target |-> k.target, queue |-> k.queue]
  BY DEF Shaped
<1> HIDE DEF m
<1>2. /\ Shaped(m) /\ m.state = k.state /\ m.stack = x
      /\ m.task = k.task /\ m.target = k.target /\ m.queue = k.queue
  BY <1>1 DEF Shaped
<1> QED BY <1>2 DEF m

LEMMA TaskOnly ==
  ASSUME NEW k, Shaped(k), NEW x
  PROVE  LET m == [k EXCEPT !.task = x] IN
         /\ Shaped(m) /\ m.state = k.state /\ m.stack = k.stack
         /\ m.task = x /\ m.target = k.target /\ m.queue = k.queue
<1> DEFINE m == [k EXCEPT !.task = x]
<1>1. m = [state |-> k.state, stack |-> k.stack, task |-> x,
           target |-> k.target, queue |-> k.queue]
  BY DEF Shaped
<1> HIDE DEF m
<1>2. /\ Shaped(m) /\ m.state = k.state /\ m.stack = k.stack
      /\ m.task = x /\ m.target = k.target /\ m.queue = k.queue
  BY <1>1 DEF Shaped
<1> QED BY <1>2 DEF m

LEMMA TargetChange ==
  ASSUME NEW k, Shaped(k), NEW x
  PROVE  LET m == [k EXCEPT !.target = x] IN
         /\ Shaped(m) /\ m.state = k.state /\ m.stack = k.stack
         /\ m.task = k.task /\ m.target = x /\ m.queue = k.queue
<1> DEFINE m == [k EXCEPT !.target = x]
<1>1. m = [state |-> k.state, stack |-> k.stack, task |-> k.task,
           target |-> x, queue |-> k.queue]
  BY DEF Shaped
<1> HIDE DEF m
<1>2. /\ Shaped(m) /\ m.state = k.state /\ m.stack = k.stack
      /\ m.task = k.task /\ m.target = x /\ m.queue = k.queue
  BY <1>1 DEF Shaped
<1> QED BY <1>2 DEF m

\* What the command waits for is changed.
Waiting(k, task, target) == [k EXCEPT !.task = task, !.target = target]

LEMMA TaskChange ==
  ASSUME NEW k, Shaped(k), NEW task, NEW target
  PROVE  LET m == Waiting(k, task, target) IN
         /\ Shaped(m) /\ m.state = k.state /\ m.stack = k.stack
         /\ m.task = task /\ m.target = target
<1> DEFINE m == [k EXCEPT !.task = task]
           n == [m EXCEPT !.target = target]
<1>1. Waiting(k, task, target) = n
  BY DEF Waiting
<1>2. Shaped(m) /\ m.state = k.state /\ m.stack = k.stack /\ m.task = task
  BY TaskOnly
<1> HIDE DEF m
<1>3. /\ Shaped(n) /\ n.state = k.state /\ n.stack = k.stack /\ n.task = task
      /\ n.target = target
  BY <1>2, TargetChange
<1> QED BY <1>1, <1>3

LEMMA IdleSane ==
  ASSUME NEW c \in Nodes, NEW k, Shaped(k)
  PROVE  Sane(c, Idle(k)) /\ Idle(k).stack = <<>> /\ Len(<<>>) = 0
<1> DEFINE a == [k EXCEPT !.state = "idle"]
           b == [a EXCEPT !.stack = <<>>]
           m == Waiting(b, "none", NoTarget)
<1>1. Idle(k) = m
  BY DEF Idle, Waiting
<1>2. Shaped(a) /\ a.state = "idle"
  BY StateChange
<1> HIDE DEF a
<1>3. Shaped(b) /\ b.state = "idle" /\ b.stack = <<>>
  BY <1>2, StackChange
<1> HIDE DEF b
<1>4. Shaped(m) /\ m.state = "idle" /\ m.stack = <<>> /\ m.task = "none" /\ m.target = NoTarget
  BY <1>3, TaskChange
<1> HIDE DEF m
<1>5. StackOf(c, <<>>)
  BY BoundsAssumption DEF StackOf
<1>6. Sane(c, m)
  BY <1>4, <1>5 DEF Sane
<1> QED BY <1>1, <1>4, <1>6

LEMMA SaneLike == ASSUME NEW c, NEW k, NEW m, Sane(c, k), Like(k, m) PROVE Sane(c, m)
  BY DEF Sane, Like

\* A step that ends with a console's _after_input.
LEMMA AfterLike ==
  ASSUME NEW K, NEW c \in Nodes, DOMAIN K = Nodes, K = [d \in Nodes |-> K[d]],
         \A d \in Nodes : Shaped(K[d]), AfterInput(K, c)
  PROVE  /\ con' = [d \in Nodes |-> con'[d]] /\ inc' = inc
         /\ \A d \in Nodes : Like(K[d], con'[d])
<1>1. con' = [K EXCEPT ![c] = Flushed(K[c])] /\ inc' = inc
  BY DEF AfterInput
<1>2. \A d \in Nodes : con'[d] = IF d = c THEN Flushed(K[c]) ELSE K[d]
  BY <1>1
<1> QED BY <1>1, <1>2, FlushedLike, LikeSelf

LEMMA SetLike ==
  ASSUME AllSane, NEW c \in Nodes, NEW k, Shaped(k), Set(c, k)
  PROVE  /\ con' = [d \in Nodes |-> con'[d]] /\ inc' = inc
         /\ Like(k, con'[c])
         /\ \A d \in Nodes : d # c => con'[d] = con[d]
<1> DEFINE K == [con EXCEPT ![c] = k]
<1>1. /\ K[c] = k /\ \A d \in Nodes : d # c => K[d] = con[d]
      /\ DOMAIN K = Nodes /\ K = [d \in Nodes |-> K[d]]
  BY DEF AllSane
<1>2. \A d \in Nodes : Shaped(K[d])
  BY <1>1 DEF AllSane, Sane
<1>3. AfterInput(K, c)
  BY DEF Set
<1>4. con' = [K EXCEPT ![c] = Flushed(K[c])]
  BY <1>3 DEF AfterInput
<1> HIDE DEF K
<1>5. \A d \in Nodes : d # c => con'[d] = K[d]
  BY <1>1, <1>4
<1> QED BY <1>1, <1>2, <1>3, <1>5, AfterLike

\* Where all stacks but one are as before, and that one is sane.
LEMMA SaneSet ==
  ASSUME AllSane, NEW c \in Nodes, NEW k, Sane(c, k), Set(c, k)
  PROVE  AllSane'
<1>1. Shaped(k)
  BY DEF Sane
<1>2. /\ con' = [d \in Nodes |-> con'[d]] /\ inc' = inc /\ Like(k, con'[c])
      /\ \A d \in Nodes : d # c => con'[d] = con[d]
  BY <1>1, SetLike
<1>3. Sane(c, con'[c])
  BY <1>2, SaneLike
<1>4. \A d \in Nodes : Sane(d, con'[d])
  BY <1>2, <1>3 DEF AllSane
<1>5. \A d \in Nodes : Sane(d, con[d])'
  BY <1>4 DEF Sane, Shaped, StackOf
<1> QED BY <1>2, <1>5 DEF AllSane

\* Sessions that are left as they were share no lines.
LEMMA FewerSessions ==
  ASSUME VtyLinesExclusive,
         \A d \in Nodes : \A i \in 2..Len(con'[d].stack) :
           /\ i \in 2..Len(con[d].stack)
           /\ con'[d].stack[i].node = con[d].stack[i].node
           /\ con'[d].stack[i].line = con[d].stack[i].line
  PROVE  VtyLinesExclusive'
  BY DEF VtyLinesExclusive

-----------------------------------------------------------------------------
(* Consoles that start, and commands that leave the sessions alone.        *)

LEMMA RootFrame ==
  ASSUME NEW c \in Nodes, NEW n \in 1..MaxReplaced
  PROVE  LET f == [node |-> c, inc |-> n, line |-> Con0, monitor |-> FALSE] IN
         /\ f \in Frames /\ StackOf(c, <<f>>) /\ <<f>> # <<>> /\ Len(<<f>>) = 1
         /\ <<f>>[1] = f
  BY BoundsAssumption DEF Frames, StackOf

LEMMA StartedSane ==
  ASSUME NEW c \in Nodes, NEW n \in 1..MaxReplaced, NEW k, Shaped(k)
  PROVE  /\ Sane(c, Started(k, c, n))
         /\ \A i \in 1..Len(Started(k, c, n).stack) :
              /\ i = 1 /\ Started(k, c, n).stack[i].node = c
              /\ Started(k, c, n).stack[i].inc = n
<1> DEFINE f == [node |-> c, inc |-> n, line |-> Con0, monitor |-> FALSE]
           m == Started(k, c, n)
<1>1. StackOf(c, <<f>>) /\ <<f>> # <<>> /\ Len(<<f>>) = 1 /\ <<f>>[1] = f
  BY RootFrame
<1>2. CASE c \in Gated
  <2>1. /\ m.state = "gate" /\ m.stack = <<>> /\ m.task = "login" /\ m.target = NoTarget
        /\ Shaped(m)
    BY <1>2 DEF Started, Shaped
  <2>2. StackOf(c, <<>>) /\ Len(<<>>) = 0
    BY BoundsAssumption DEF StackOf
  <2> HIDE DEF m
  <2>3. Sane(c, m) /\ \A i \in 1..Len(m.stack) : FALSE
    BY <2>1, <2>2 DEF Sane
  <2> QED BY <2>3 DEF m
<1>3. CASE c \notin Gated
  <2>1. /\ m.state = "active" /\ m.stack = <<f>> /\ m.task = "none" /\ m.target = NoTarget
        /\ Shaped(m)
    BY <1>3 DEF Started, Shaped
  <2>2. f.node = c /\ f.inc = n
    OBVIOUS
  <2> HIDE DEF m, f
  <2>3. Sane(c, m)
    BY <1>1, <2>1 DEF Sane
  <2>4. \A i \in 1..Len(m.stack) : i = 1 /\ m.stack[i].node = c /\ m.stack[i].inc = n
    BY <1>1, <2>1, <2>2
  <2> QED BY <2>3, <2>4 DEF m
<1> QED BY <1>2, <1>3

\* Console c gets a stack without sessions, of a current device.
LEMMA RootOnly ==
  ASSUME IInv, NEW c \in Nodes, NEW k, Sane(c, k), Set(c, k),
         \A i \in 1..Len(k.stack) : i = 1 /\ k.stack[i].node = c /\ k.stack[i].inc = inc[c]
  PROVE  IInv'
<1>1. AllSane'
  BY SaneSet DEF IInv
<1>2. /\ inc' = inc /\ con'[c].stack = k.stack
      /\ \A d \in Nodes : d # c => con'[d] = con[d]
  BY SetLike DEF IInv, Sane, Like
<1>3. Len(k.stack) \in Nat /\ \A d \in Nodes : Len(con[d].stack) \in Nat
                                            /\ DOMAIN con[d].stack = 1..Len(con[d].stack)
                                            /\ DOMAIN k.stack = 1..Len(k.stack)
  BY DEF IInv, AllSane, Sane, StackOf
<1>4. SessionsCurrent'
  BY <1>2, <1>3 DEF IInv, SessionsCurrent
<1>5. VtyLinesExclusive'
  <2>1. \A d \in Nodes : \A i \in 2..Len(con'[d].stack) : d # c /\ i \in 2..Len(con[d].stack)
    BY <1>2, <1>3
  <2> QED BY <1>2, <2>1, FewerSessions DEF IInv
<1> QED BY <1>1, <1>4, <1>5 DEF IInv

LEMMA StartConsoleKeeps == ASSUME IInv, NEW c \in Nodes, StartConsole(c) PROVE IInv'
<1> DEFINE m == Started(con[c], c, inc[c])
<1>1. con' = [con EXCEPT ![c] = m] /\ inc' = inc
  BY DEF StartConsole
<1>2. /\ Sane(c, m)
      /\ \A i \in 1..Len(m.stack) : i = 1 /\ m.stack[i].node = c /\ m.stack[i].inc = inc[c]
  BY StartedSane DEF IInv, AllSane, Sane
<1> HIDE DEF m
<1>3. con'[c] = m /\ \A d \in Nodes : d # c => con'[d] = con[d]
  BY <1>1 DEF IInv, AllSane
<1>4. \A d \in Nodes : Sane(d, con'[d])
  BY <1>2, <1>3 DEF IInv, AllSane
<1>5. AllSane'
  <2>1. \A d \in Nodes : Sane(d, con[d])'
    BY <1>4 DEF Sane, Shaped, StackOf
  <2>2. con' = [d \in Nodes |-> con'[d]]
    BY <1>1 DEF IInv, AllSane
  <2> QED BY <1>1, <2>1, <2>2 DEF IInv, AllSane
<1>6. Len(m.stack) \in Nat /\ \A d \in Nodes : Len(con[d].stack) \in Nat
                                            /\ DOMAIN con[d].stack = 1..Len(con[d].stack)
                                            /\ DOMAIN m.stack = 1..Len(m.stack)
  BY <1>2 DEF IInv, AllSane, Sane, StackOf
<1>7. SessionsCurrent'
  BY <1>1, <1>2, <1>3, <1>6 DEF IInv, SessionsCurrent
<1>8. VtyLinesExclusive'
  <2>1. \A d \in Nodes : \A i \in 2..Len(con'[d].stack) : d # c /\ i \in 2..Len(con[d].stack)
    BY <1>2, <1>3, <1>6
  <2> QED BY <1>3, <2>1, FewerSessions DEF IInv
<1> QED BY <1>5, <1>7, <1>8 DEF IInv

\* Steps that leave no session but some of those there were.
LEMMA SessionsKept ==
  ASSUME IInv, con' = [d \in Nodes |-> con'[d]], inc' \in [Nodes -> 1..MaxReplaced],
         \A d \in Nodes : Sane(d, con'[d]),
         \A d \in Nodes : \A i \in 1..Len(con'[d].stack) :
           /\ i <= Len(con[d].stack)
           /\ con'[d].stack[i].node = con[d].stack[i].node
           /\ con'[d].stack[i].inc = con[d].stack[i].inc
           /\ con'[d].stack[i].line = con[d].stack[i].line
           /\ inc'[con[d].stack[i].node] = inc[con[d].stack[i].node]
  PROVE  IInv'
<1>1. AllSane'
  <2>1. \A d \in Nodes : Sane(d, con[d])'
    BY DEF Sane, Shaped, StackOf
  <2> QED BY <2>1 DEF AllSane
<1>2. \A d \in Nodes : /\ Len(con[d].stack) \in Nat /\ Len(con'[d].stack) \in Nat
                       /\ DOMAIN con[d].stack = 1..Len(con[d].stack)
                       /\ DOMAIN con'[d].stack = 1..Len(con'[d].stack)
  BY DEF IInv, AllSane, Sane, StackOf
<1>3. SessionsCurrent'
  <2>1. ASSUME NEW d \in Nodes, NEW i \in DOMAIN con'[d].stack
        PROVE  con'[d].stack[i].inc = inc'[con'[d].stack[i].node]
    <3>1. i \in 1..Len(con'[d].stack) /\ i \in DOMAIN con[d].stack
      BY <1>2
    <3> QED BY <3>1 DEF IInv, SessionsCurrent
  <2> QED BY <2>1 DEF SessionsCurrent
<1>4. VtyLinesExclusive'
  <2>1. \A d \in Nodes : \A i \in 2..Len(con'[d].stack) :
          /\ i \in 2..Len(con[d].stack)
          /\ con'[d].stack[i].node = con[d].stack[i].node
          /\ con'[d].stack[i].line = con[d].stack[i].line
    BY <1>2
  <2> QED BY <2>1, FewerSessions DEF IInv
<1> QED BY <1>1, <1>3, <1>4 DEF IInv

\* A command after which its console has the lowest shells that it had.
LEMMA SameSessions ==
  ASSUME IInv, NEW c \in Nodes, NEW k, Sane(c, k), Set(c, k),
         Len(k.stack) <= Len(con[c].stack),
         \A i \in 1..Len(k.stack) : /\ k.stack[i].node = con[c].stack[i].node
                                    /\ k.stack[i].inc = con[c].stack[i].inc
                                    /\ k.stack[i].line = con[c].stack[i].line
  PROVE  IInv'
<1>1. Shaped(k) /\ Len(k.stack) \in Nat
  BY DEF Sane, StackOf
<1>2. /\ con' = [d \in Nodes |-> con'[d]] /\ inc' = inc /\ Like(k, con'[c])
      /\ \A d \in Nodes : d # c => con'[d] = con[d]
  BY <1>1, SetLike DEF IInv
<1>3. \A d \in Nodes : Sane(d, con'[d]) /\ Len(con[d].stack) \in Nat
  <2>1. Sane(c, con'[c])
    BY <1>2, SaneLike
  <2>2. \A d \in Nodes : Sane(d, con'[d])
    BY <1>2, <2>1 DEF IInv, AllSane
  <2>3. \A d \in Nodes : Len(con[d].stack) \in Nat
    BY DEF IInv, AllSane, Sane, StackOf
  <2> QED BY <2>2, <2>3
<1>4. con'[c].stack = k.stack /\ inc' \in [Nodes -> 1..MaxReplaced]
  BY <1>2 DEF Like, IInv, AllSane
<1>5. ASSUME NEW d \in Nodes, NEW i \in 1..Len(con'[d].stack)
      PROVE  /\ i <= Len(con[d].stack)
             /\ con'[d].stack[i].node = con[d].stack[i].node
             /\ con'[d].stack[i].inc = con[d].stack[i].inc
             /\ con'[d].stack[i].line = con[d].stack[i].line
             /\ inc'[con[d].stack[i].node] = inc[con[d].stack[i].node]
  <2>1. CASE d = c
    BY <1>1, <1>2, <1>3, <1>4, <2>1
  <2>2. CASE d # c
    BY <1>2, <1>3, <2>2
  <2> QED BY <2>1, <2>2
<1> QED BY <1>2, <1>3, <1>4, <1>5, SessionsKept

LEMMA TaskKeeps ==
  ASSUME IInv, NEW c \in Nodes, con[c].state = "active",
         NEW task \in {"none", "pager", "dial"}, NEW target \in Nodes \cup {NoTarget},
         task = "dial" <=> target # NoTarget,
         task = "dial" => Len(con[c].stack) < MaxDepth,
         Set(c, [con[c] EXCEPT !.task = task, !.target = target])
  PROVE  IInv'
<1> DEFINE m == Waiting(con[c], task, target)
<1>0. Shaped(con[c])
  BY DEF IInv, AllSane, Sane
<1>1. /\ Shaped(m) /\ m.state = con[c].state /\ m.stack = con[c].stack
      /\ m.task = task /\ m.target = target
  BY <1>0, TaskChange
<1>2. Set(c, m)
  BY DEF Waiting
<1> HIDE DEF m
<1>3. Sane(c, m)
  BY <1>1 DEF IInv, AllSane, Sane
<1> QED BY <1>1, <1>2, <1>3, SameSessions

LEMMA TaskOnlyKeeps ==
  ASSUME IInv, NEW c \in Nodes, con[c].state = "active", con[c].target = NoTarget,
         NEW task \in {"none", "pager"}, Set(c, [con[c] EXCEPT !.task = task])
  PROVE  IInv'
<1> DEFINE m == [con[c] EXCEPT !.task = task]
<1>0. Shaped(con[c])
  BY DEF IInv, AllSane, Sane
<1>1. /\ Shaped(m) /\ m.state = con[c].state /\ m.stack = con[c].stack
      /\ m.task = task /\ m.target = NoTarget
  BY <1>0, TaskOnly
<1>2. Set(c, m)
  OBVIOUS
<1> HIDE DEF m
<1>3. Sane(c, m)
  BY <1>1 DEF IInv, AllSane, Sane
<1> QED BY <1>1, <1>2, <1>3, SameSessions

LEMMA ConfigureKeeps ==
  ASSUME IInv, NEW c \in Nodes, NEW n \in Nodes, Configure(c, n)
  PROVE  IInv'
<1> DEFINE K == EmitLog(con, n, c)
<1>1. \A d \in Nodes : Shaped(con[d])
  BY DEF IInv, AllSane, Sane
<1>2. DOMAIN K = Nodes /\ \A d \in Nodes : Like(con[d], K[d])
  BY <1>1, EmitLike
<1>3. K = [d \in Nodes |-> K[d]] /\ \A d \in Nodes : Shaped(K[d])
  BY <1>2 DEF EmitLog, Like
<1>4. AfterInput(K, c)
  BY DEF Configure
<1> HIDE DEF K
<1>5. /\ con' = [d \in Nodes |-> con'[d]] /\ inc' = inc
      /\ \A d \in Nodes : Like(K[d], con'[d])
  BY <1>2, <1>3, <1>4, AfterLike
<1>6. \A d \in Nodes : Like(con[d], con'[d])
  BY <1>2, <1>5, LikeTrans
<1>7. AllSane'
  <2>1. \A d \in Nodes : Sane(d, con'[d])
    BY <1>6, SaneLike DEF IInv, AllSane
  <2>2. \A d \in Nodes : Sane(d, con[d])'
    BY <2>1 DEF Sane, Shaped, StackOf
  <2> QED BY <1>5, <2>2 DEF IInv, AllSane
<1>8. \A d \in Nodes : con'[d].stack = con[d].stack
  BY <1>6 DEF Like
<1>9. SessionsCurrent' /\ VtyLinesExclusive'
  BY <1>5, <1>8 DEF IInv, SessionsCurrent, VtyLinesExclusive
<1> QED BY <1>7, <1>9 DEF IInv

LEMMA DialogKeeps ==
  ASSUME IInv, NEW c \in Nodes,
         \/ StopAtPager(c) \/ Finish(c) \/ DialFails(c) \/ \E t \in Nodes : Dial(c, t)
  PROVE  IInv'
<1>0. /\ Shaped(con[c]) /\ Sane(c, con[c])
  BY DEF IInv, AllSane, Sane
<1>1. CASE StopAtPager(c)
  <2>1. con[c].state = "active" /\ con[c].target = NoTarget
    BY <1>0, <1>1 DEF StopAtPager, AtPrompt, Sane
  <2> QED BY <1>1, <2>1, TaskOnlyKeeps DEF StopAtPager
<1>2. CASE Finish(c)
  <2>1. con[c].state = "active" /\ con[c].target = NoTarget
    BY <1>0, <1>2 DEF Finish, Sane
  <2> QED BY <1>2, <2>1, TaskOnlyKeeps DEF Finish
<1>3. CASE DialFails(c)
  <2>1. con[c].state = "active"
    BY <1>0, <1>3 DEF DialFails, Sane
  <2> QED BY <1>3, <2>1, TaskKeeps DEF DialFails
<1>4. ASSUME NEW t \in Nodes, Dial(c, t) PROVE IInv'
  <2>1. con[c].state = "active" /\ t # NoTarget
    BY <1>4 DEF Dial, AtPrompt
  <2> QED BY <1>4, <2>1, TaskKeeps DEF Dial
<1> QED BY <1>1, <1>2, <1>3, <1>4

LEMMA MonitorKeeps == ASSUME IInv, NEW c \in Nodes, TerminalMonitor(c) PROVE IInv'
<1> DEFINE s == con[c].stack
<1>1. /\ s \in Seq(Frames) /\ Len(s) > 1 /\ Len(s) \in Nat /\ Shaped(con[c]) /\ Sane(c, con[c])
  BY DEF TerminalMonitor, IInv, AllSane, Sane, StackOf
<1>2. PICK on \in BOOLEAN : Set(c, [con[c] EXCEPT !.stack[Len(s)].monitor = on])
  BY DEF TerminalMonitor
<1> DEFINE r == [s EXCEPT ![Len(s)] = [s[Len(s)] EXCEPT !.monitor = on]]
           m == [con[c] EXCEPT !.stack = r]
<1>3. Set(c, m)
  BY <1>2
<1>4. /\ r \in Seq(Frames) /\ Len(r) = Len(s)
      /\ \A i \in 1..Len(s) : /\ r[i].node = s[i].node /\ r[i].inc = s[i].inc
                              /\ r[i].line = s[i].line
  <2>1. s[Len(s)] \in Frames
    BY <1>1
  <2>2. [s[Len(s)] EXCEPT !.monitor = on] \in Frames
    BY <2>1 DEF Frames
  <2>3. \A i \in 1..Len(s) : s[i] \in Frames /\ r[i] =
          IF i = Len(s) THEN [s[Len(s)] EXCEPT !.monitor = on] ELSE s[i]
    BY <1>1
  <2>4. r \in Seq(Frames) /\ Len(r) = Len(s)
    BY <1>1, <2>2, ExceptSeq
  <2>5. ASSUME NEW i \in 1..Len(s)
        PROVE  r[i].node = s[i].node /\ r[i].inc = s[i].inc /\ r[i].line = s[i].line
    BY <2>1, <2>3 DEF Frames
  <2> QED BY <2>4, <2>5
<1>5. /\ Shaped(m) /\ m.state = con[c].state /\ m.stack = r
      /\ m.task = con[c].task /\ m.target = con[c].target
  BY <1>1, StackChange
<1> HIDE DEF m, r
<1>6. Sane(c, m)
  <2>1. StackOf(c, r) /\ r # <<>>
    BY <1>1, <1>4 DEF Sane, StackOf
  <2> QED BY <1>1, <1>4, <1>5, <2>1 DEF Sane
<1> QED BY <1>1, <1>3, <1>4, <1>5, <1>6, SameSessions

-----------------------------------------------------------------------------
(* Consoles that start or end, and sessions that open.                     *)

\* The lowest shells of a stack are a stack.
LEMMA CutStack ==
  ASSUME NEW c, NEW s, StackOf(c, s), NEW n \in 1..Len(s)
  PROVE  LET t == SubSeq(s, 1, n) IN
         /\ StackOf(c, t) /\ Len(t) = n /\ t # <<>> /\ \A i \in 1..n : t[i] = s[i]
<1> DEFINE t == SubSeq(s, 1, n)
<1>1. s \in Seq(Frames) /\ Len(s) \in Nat /\ Len(s) <= MaxDepth
  BY DEF StackOf
<1>2. t \in Seq(Frames) /\ Len(t) = n /\ \A i \in 1..n : t[i] = s[i]
  BY <1>1, SubSeqProperties
<1> HIDE DEF t
<1>3. t # <<>>
  BY <1>2
<1>4. StackOf(c, t)
  BY <1>1, <1>2, BoundsAssumption DEF StackOf
<1> QED BY <1>2, <1>3, <1>4 DEF t

LEMMA PressReturnKeeps == ASSUME IInv, NEW c \in Nodes, PressReturn(c) PROVE IInv'
<1> DEFINE m == Started(con[c], c, inc[c])
<1>1. /\ Sane(c, m)
      /\ \A i \in 1..Len(m.stack) : i = 1 /\ m.stack[i].node = c /\ m.stack[i].inc = inc[c]
  BY StartedSane DEF IInv, AllSane, Sane
<1>2. Set(c, m)
  BY DEF PressReturn
<1> HIDE DEF m
<1> QED BY <1>1, <1>2, RootOnly

LEMMA LoginKeeps == ASSUME IInv, NEW c \in Nodes, Login(c) PROVE IInv'
<1> DEFINE s == <<Frame(c, Con0)>>
           a == [con[c] EXCEPT !.state = "active"]
           b == [a EXCEPT !.task = "none"]
           m == [b EXCEPT !.stack = s]
<1>1. Shaped(con[c]) /\ con[c].target = NoTarget
  BY DEF Login, IInv, AllSane, Sane
<1>2. Shaped(a) /\ a.state = "active" /\ a.target = NoTarget
  BY <1>1, StateChange
<1>3. Set(c, m)
  <2>1. [con[c] EXCEPT !.state = "active", !.task = "none", !.stack = s] = m
    OBVIOUS
  <2> QED BY <2>1 DEF Login
<1> HIDE DEF a
<1>4. Shaped(b) /\ b.state = "active" /\ b.target = NoTarget /\ b.task = "none"
  BY <1>2, TaskOnly
<1> HIDE DEF b
<1>5. /\ Shaped(m) /\ m.state = "active" /\ m.target = NoTarget /\ m.task = "none"
      /\ m.stack = s
  BY <1>4, StackChange
<1>6. StackOf(c, s) /\ s # <<>> /\ Len(s) = 1 /\ s[1].node = c /\ s[1].inc = inc[c]
  BY RootFrame DEF Frame, IInv, AllSane
<1> HIDE DEF m, s
<1>7. Sane(c, m)
  BY <1>5, <1>6 DEF Sane
<1>8. \A i \in 1..Len(m.stack) : i = 1 /\ m.stack[i].node = c /\ m.stack[i].inc = inc[c]
  BY <1>5, <1>6
<1> QED BY <1>3, <1>7, <1>8, RootOnly

LEMMA ExitKeeps == ASSUME IInv, NEW c \in Nodes, Exit(c) PROVE IInv'
<1> DEFINE s == con[c].stack
<1>1. /\ Shaped(con[c]) /\ Sane(c, con[c]) /\ StackOf(c, s) /\ Len(s) \in Nat
  BY DEF IInv, AllSane, Sane, StackOf
<1>2. CASE Len(s) > 1
  <2> DEFINE t == SubSeq(s, 1, Len(s) - 1)
             m == [con[c] EXCEPT !.stack = t]
  <2>1. Set(c, m)
    BY <1>2 DEF Exit, Front
  <2>2. Len(s) - 1 \in 1..Len(s)
    BY <1>1, <1>2
  <2>3. StackOf(c, t) /\ Len(t) = Len(s) - 1 /\ t # <<>> /\ \A i \in 1..Len(s) - 1 : t[i] = s[i]
    BY <1>1, <2>2, CutStack
  <2>4. /\ Shaped(m) /\ m.state = con[c].state /\ m.stack = t
        /\ m.task = con[c].task /\ m.target = con[c].target
    BY <1>1, StackChange
  <2> HIDE DEF m, t
  <2>5. Sane(c, m)
    BY <1>1, <1>2, <2>3, <2>4 DEF Sane, Exit, AtPrompt
  <2> QED BY <1>1, <2>1, <2>3, <2>4, <2>5, SameSessions
<1>3. CASE ~(Len(s) > 1)
  <2>1. Set(c, Idle(con[c]))
    BY <1>3 DEF Exit
  <2>2. Sane(c, Idle(con[c])) /\ Idle(con[c]).stack = <<>> /\ Len(<<>>) = 0
    BY <1>1, IdleSane
  <2> QED BY <2>1, <2>2, RootOnly
<1> QED BY <1>2, <1>3

\* A session occupies a line of its device.
LEMMA LineHeld ==
  ASSUME AllSane, NEW d \in Nodes, NEW j \in 2..Len(con[d].stack)
  PROVE  con[d].stack[j].line \in LinesInUse(con[d].stack[j].node)
<1> DEFINE s == con[d].stack
           g == s[j]
<1>1. s \in Seq(Frames) /\ s # <<>> /\ Len(s) \in Nat
  BY DEF AllSane, Sane, StackOf
<1>2. Tail(s)[j - 1] = g /\ j - 1 \in DOMAIN Tail(s)
  BY <1>1
<1>3. g \in ToSet(Nested(con[d]))
  BY <1>2 DEF ToSet, Nested
<1> QED BY <1>1, <1>3 DEF LinesInUse

LEMMA OpenSessionKeeps == ASSUME IInv, NEW c \in Nodes, OpenSession(c) PROVE IInv'
<1> DEFINE s == con[c].stack
           t == con[c].target
           k == Waiting(con[c], "none", NoTarget)
           l == Lowest(FreeLines(t))
           f == Frame(t, l)
           m == [k EXCEPT !.stack = Append(s, f)]
<1>1. /\ Shaped(con[c]) /\ Sane(c, con[c]) /\ con[c].state = "active" /\ t \in Nodes
      /\ Len(s) < MaxDepth /\ StackOf(c, s) /\ s \in Seq(Frames) /\ Len(s) \in Nat /\ s # <<>>
  BY DEF OpenSession, IInv, AllSane, Sane, StackOf
<1>2. /\ Shaped(k) /\ k.state = con[c].state /\ k.stack = s /\ k.task = "none"
      /\ k.target = NoTarget
  BY <1>1, TaskChange
<1>3. Set(c, IF FreeLines(t) = {} THEN k ELSE [k EXCEPT !.stack = Append(k.stack, f)])
  BY DEF OpenSession, Waiting
<1> HIDE DEF k
<1>4. CASE FreeLines(t) = {}
  <2>1. Sane(c, k)
    BY <1>1, <1>2 DEF Sane
  <2>2. Set(c, k)
    BY <1>3, <1>4
  <2> QED BY <1>1, <1>2, <2>1, <2>2, SameSessions
<1>5. CASE FreeLines(t) # {}
  <2>1. Set(c, m)
    BY <1>2, <1>3, <1>5
  <2>2. l \in FreeLines(t) /\ l \in VtyLines /\ l # Con0
    <3>1. FreeLines(t) \subseteq Nat
      BY VtyLinesAssumption DEF FreeLines
    <3>2. l \in FreeLines(t)
      BY <1>5, <3>1, LowestIs
    <3> QED BY <3>2, VtyLinesAssumption DEF FreeLines, Con0
  <2>3. f \in Frames /\ f.node = t /\ f.inc = inc[t] /\ f.line = l
    BY <1>1, <2>2 DEF Frame, Frames, IInv, AllSane
  <2> HIDE DEF f, l
  <2> DEFINE u == Append(s, f)
  <2>4. /\ u \in Seq(Frames) /\ Len(u) = Len(s) + 1 /\ u[Len(s) + 1] = f
        /\ \A i \in 1..Len(s) : u[i] = s[i]
    BY <1>1, <2>3, AppendProperties
  <2> HIDE DEF u
  <2>5. /\ Shaped(m) /\ m.state = "active" /\ m.stack = u /\ m.task = "none"
        /\ m.target = NoTarget
    BY <1>1, <1>2, StackChange DEF u
  <2> HIDE DEF m
  <2>6. StackOf(c, u) /\ u # <<>>
    <3>1. Len(u) <= MaxDepth /\ u # <<>>
      BY <1>1, <2>4, BoundsAssumption
    <3>2. \A i \in 1..Len(u) : i \in 1..Len(s) \/ i = Len(s) + 1
      BY <1>1, <2>4
    <3>3. \A i \in 1..Len(u) : u[i].line = Con0 <=> i = 1
      BY <1>1, <2>2, <2>3, <2>4, <3>2 DEF StackOf
    <3>4. u[1].node = c
      BY <1>1, <2>4 DEF StackOf
    <3> QED BY <2>4, <3>1, <3>3, <3>4 DEF StackOf
  <2>7. Sane(c, m)
    BY <2>5, <2>6 DEF Sane
  <2>8. AllSane'
    BY <2>1, <2>7, SaneSet DEF IInv
  <2>9. /\ inc' = inc /\ con'[c].stack = u
        /\ \A d \in Nodes : d # c => con'[d] = con[d]
    BY <2>1, <2>5, <2>7, SetLike DEF IInv, Sane, Like
  <2>10. \A d \in Nodes : /\ Len(con[d].stack) \in Nat
                          /\ DOMAIN con[d].stack = 1..Len(con[d].stack)
    BY DEF IInv, AllSane, Sane, StackOf
  <2>11. ASSUME NEW d \in Nodes, NEW i \in 1..Len(con'[d].stack)
         PROVE  \/ i \in 1..Len(con[d].stack) /\ con'[d].stack[i] = con[d].stack[i]
                \/ d = c /\ i = Len(s) + 1 /\ con'[d].stack[i] = f
    <3>1. CASE d = c
      BY <1>1, <2>4, <2>9, <3>1
    <3>2. CASE d # c
      BY <2>9, <3>2
    <3> QED BY <3>1, <3>2
  <2>12. \A d \in Nodes : DOMAIN con'[d].stack = 1..Len(con'[d].stack)
    BY <1>1, <2>4, <2>9, <2>10
  <2>13. SessionsCurrent'
    <3>1. ASSUME NEW d \in Nodes, NEW i \in DOMAIN con'[d].stack
          PROVE  con'[d].stack[i].inc = inc'[con'[d].stack[i].node]
      <4>1. \/ i \in DOMAIN con[d].stack /\ con'[d].stack[i] = con[d].stack[i]
            \/ con'[d].stack[i] = f
        BY <2>10, <2>11, <2>12
      <4> QED BY <2>3, <2>9, <4>1 DEF IInv, SessionsCurrent
    <3> QED BY <3>1 DEF SessionsCurrent
  <2>14. \A d \in Nodes : \A j \in 2..Len(con[d].stack) :
           con[d].stack[j].node = t => con[d].stack[j].line # l
    BY <2>2, LineHeld DEF IInv, FreeLines
  <2>15. VtyLinesExclusive'
    <3>1. ASSUME NEW d \in Nodes, NEW i \in 2..Len(con'[d].stack)
          PROVE  \/ i \in 2..Len(con[d].stack) /\ con'[d].stack[i] = con[d].stack[i]
                 \/ d = c /\ i = Len(s) + 1 /\ con'[d].stack[i] = f
      <4>1. i \in 1..Len(con'[d].stack) /\ i >= 2
        BY <2>8 DEF AllSane, Sane, StackOf
      <4> QED BY <2>11, <4>1
    <3>2. ASSUME NEW d \in Nodes, NEW e \in Nodes,
                 NEW i \in 2..Len(con'[d].stack), NEW j \in 2..Len(con'[e].stack),
                 con'[d].stack[i].node = con'[e].stack[j].node,
                 con'[d].stack[i].line = con'[e].stack[j].line
          PROVE  d = e /\ i = j
      <4>1. \/ i \in 2..Len(con[d].stack) /\ con'[d].stack[i] = con[d].stack[i]
            \/ d = c /\ i = Len(s) + 1 /\ con'[d].stack[i] = f
        BY <3>1
      <4>2. \/ j \in 2..Len(con[e].stack) /\ con'[e].stack[j] = con[e].stack[j]
            \/ e = c /\ j = Len(s) + 1 /\ con'[e].stack[j] = f
        BY <3>1
      <4>3. CASE /\ i \in 2..Len(con[d].stack) /\ con'[d].stack[i] = con[d].stack[i]
                 /\ j \in 2..Len(con[e].stack) /\ con'[e].stack[j] = con[e].stack[j]
        BY <3>2, <4>3 DEF IInv, VtyLinesExclusive
      <4>4. CASE /\ i \in 2..Len(con[d].stack) /\ con'[d].stack[i] = con[d].stack[i]
                 /\ con'[e].stack[j] = f
        BY <2>3, <2>14, <3>2, <4>4
      <4>5. CASE /\ con'[d].stack[i] = f
                 /\ j \in 2..Len(con[e].stack) /\ con'[e].stack[j] = con[e].stack[j]
        BY <2>3, <2>14, <3>2, <4>5
      <4> QED BY <4>1, <4>2, <4>3, <4>4, <4>5
    <3> QED BY <3>2 DEF VtyLinesExclusive
  <2> QED BY <2>8, <2>13, <2>15 DEF IInv
<1> QED BY <1>4, <1>5

-----------------------------------------------------------------------------
(* Devices that are replaced.                                              *)

\* What a reload of r leaves of the stack of another console has no session
\* into r.
LEMMA ClosedSane ==
  ASSUME NEW d \in Nodes, NEW r \in Nodes, d # r, NEW k, Sane(d, k)
  PROVE  LET m == ClosedInto(k, r) IN
         /\ Sane(d, m) /\ Len(m.stack) <= Len(k.stack)
         /\ \A i \in 1..Len(m.stack) : m.stack[i] = k.stack[i] /\ m.stack[i].node # r
<1> DEFINE m == ClosedInto(k, r)
           into == {i \in 2..Len(k.stack) : k.stack[i].node = r}
<1>1. /\ Shaped(k) /\ StackOf(d, k.stack) /\ k.stack \in Seq(Frames) /\ Len(k.stack) \in Nat
      /\ k.stack # <<>> <=> k.state = "active"
  BY DEF Sane, StackOf
<1>2. CASE k.state # "active"
  <2>1. m = k
    BY <1>2 DEF ClosedInto
  <2>2. k.stack = <<>>
    BY <1>1, <1>2
  <2> HIDE DEF m
  <2>3. Len(m.stack) = 0 /\ Len(k.stack) = 0
    BY <2>1, <2>2
  <2>4. Sane(d, m)
    BY <2>1
  <2> QED BY <2>3, <2>4 DEF m
<1>3. CASE k.state = "active" /\ into = {}
  <2>1. m = k
    BY <1>3 DEF ClosedInto
  <2>2. k.stack[1].node # r
    BY <1>1, <1>3 DEF StackOf
  <2>3. \A i \in 1..Len(k.stack) : k.stack[i].node # r
    BY <1>1, <1>3, <2>2
  <2> QED BY <1>1, <2>1, <2>3
<1>4. CASE k.state = "active" /\ into # {}
  <2> DEFINE n == Lowest(into) - 1
             s == SubSeq(k.stack, 1, n)
             a == [k EXCEPT !.stack = s]
  <2>1. Lowest(into) \in into /\ \A i \in into : Lowest(into) <= i
    <3>1. into \subseteq Nat
      BY <1>1
    <3> QED BY <1>4, <3>1, LowestIs
  <2>2. n \in 1..Len(k.stack) /\ \A i \in 2..n : i \notin into
    <3>1. Lowest(into) \in 2..Len(k.stack)
      BY <2>1
    <3>2. n \in 1..Len(k.stack) /\ n < Lowest(into)
      BY <1>1, <3>1
    <3>3. ASSUME NEW i \in 2..n, i \in into PROVE FALSE
      <4>1. Lowest(into) <= i
        BY <2>1, <3>3
      <4> HIDE DEF into
      <4> QED BY <3>1, <3>2, <4>1
    <3> QED BY <3>2, <3>3
  <2>3. m = Waiting(a, "none", NoTarget)
    BY <1>4 DEF ClosedInto, Waiting
  <2>4. /\ StackOf(d, s) /\ Len(s) = n /\ s # <<>> /\ \A i \in 1..n : s[i] = k.stack[i]
    BY <1>1, <2>2, CutStack
  <2>5. Shaped(a) /\ a.state = "active" /\ a.stack = s
    BY <1>1, <1>4, StackChange
  <2> HIDE DEF a, m
  <2>6. /\ Shaped(m) /\ m.state = "active" /\ m.stack = s /\ m.task = "none"
        /\ m.target = NoTarget
    BY <2>3, <2>5, TaskChange
  <2> HIDE DEF s
  <2>7. Sane(d, m)
    BY <2>4, <2>6 DEF Sane
  <2>8. \A i \in 1..n : k.stack[i].node # r
    <3>1. k.stack[1].node # r
      BY <1>1, <1>4 DEF StackOf
    <3> QED BY <1>1, <2>2, <3>1
  <2> HIDE DEF n
  <2>9. Len(m.stack) <= Len(k.stack) /\ \A i \in 1..Len(m.stack) : i \in 1..n /\ m.stack[i] = s[i]
    BY <2>2, <2>4, <2>6
  <2> QED BY <2>4, <2>7, <2>8, <2>9 DEF m
<1> QED BY <1>2, <1>3, <1>4

LEMMA ResetKeeps == ASSUME IInv, Reset PROVE IInv'
<1> DEFINE cleared(c) == [con[c] EXCEPT !.queue = <<>>]
           m(c) == Started(cleared(c), c, inc[c] + 1)
<1>1. /\ inc' = [n \in Nodes |-> inc[n] + 1]
      /\ con' = [c \in Nodes |-> IF con[c].state = "new" THEN con[c] ELSE m(c)]
  BY DEF Reset
<1>2. \A n \in Nodes : inc[n] + 1 \in 1..MaxReplaced
  BY BoundsAssumption DEF Reset, IInv, AllSane
<1>3. ASSUME NEW c \in Nodes
      PROVE  /\ Sane(c, con'[c])
             /\ \A i \in 1..Len(con'[c].stack) : /\ i = 1 /\ con'[c].stack[i].node = c
                                                 /\ con'[c].stack[i].inc = inc'[c]
  <2>1. Shaped(con[c]) /\ Sane(c, con[c])
    BY DEF IInv, AllSane, Sane
  <2>2. CASE con[c].state = "new"
    <3>1. con'[c] = con[c] /\ con[c].stack = <<>>
      BY <1>1, <2>1, <2>2 DEF Sane
    <3>2. Len(con'[c].stack) = 0
      BY <3>1
    <3> QED BY <2>1, <3>1, <3>2
  <2>3. CASE con[c].state # "new"
    <3>1. con'[c] = m(c) /\ inc'[c] = inc[c] + 1
      BY <1>1, <2>3
    <3>2. Shaped(cleared(c))
      BY <2>1 DEF Shaped
    <3> HIDE DEF cleared
    <3>3. /\ Sane(c, m(c))
          /\ \A i \in 1..Len(m(c).stack) : /\ i = 1 /\ m(c).stack[i].node = c
                                           /\ m(c).stack[i].inc = inc[c] + 1
      BY <1>2, <3>2, StartedSane
    <3> QED BY <3>1, <3>3
  <2> QED BY <2>2, <2>3
<1>4. AllSane'
  <2>1. \A c \in Nodes : Sane(c, con[c])'
    BY <1>3 DEF Sane, Shaped, StackOf
  <2>2. con' = [c \in Nodes |-> con'[c]] /\ inc' \in [Nodes -> 1..MaxReplaced]
    BY <1>1, <1>2
  <2> QED BY <2>1, <2>2 DEF AllSane
<1>5. \A c \in Nodes : /\ Len(con'[c].stack) \in Nat
                       /\ DOMAIN con'[c].stack = 1..Len(con'[c].stack)
  BY <1>3 DEF Sane, StackOf
<1>6. SessionsCurrent'
  BY <1>3, <1>5 DEF SessionsCurrent
<1>7. VtyLinesExclusive'
  <2>1. \A c \in Nodes : \A i \in 2..Len(con'[c].stack) : FALSE
    BY <1>3, <1>5
  <2> QED BY <2>1 DEF VtyLinesExclusive
<1> QED BY <1>4, <1>6, <1>7 DEF IInv

LEMMA ReloadKeeps == ASSUME IInv, NEW c \in Nodes, Reload(c) PROVE IInv'
<1> DEFINE r      == Top(con[c]).node
           logged == EmitLog(con, r, c)
           own    == [logged[c] EXCEPT !.stack = Front(logged[c].stack)]
           left   == IF Len(con[c].stack) > 1 THEN [logged EXCEPT ![c] = own] ELSE logged
           input  == [left EXCEPT ![c] = Flushed(left[c])]
           closed == [d \in Nodes |->
                        IF d # r THEN ClosedInto(input[d], r)
                        ELSE IF input[d].state = "new" THEN input[d] ELSE Idle(input[d])]
           after  == EmitLog(closed, r, c)
           \* Console k has the lowest frames that console d had.
           Kept(d, k) == /\ Len(k.stack) <= Len(con[d].stack)
                         /\ \A i \in 1..Len(k.stack) : k.stack[i] = con[d].stack[i]
<1>1. /\ AtPrompt(c) /\ inc[r] < MaxReplaced /\ inc' = [inc EXCEPT ![r] = inc[r] + 1]
      /\ con' = [after EXCEPT ![c] = Flushed(after[c])]
  BY DEF Reload, Reloaded
<1>2. \A d \in Nodes : /\ Sane(d, con[d]) /\ Shaped(con[d]) /\ StackOf(d, con[d].stack)
                       /\ con[d].stack \in Seq(Frames) /\ Len(con[d].stack) \in Nat
  BY DEF IInv, AllSane, Sane, StackOf
<1>3. /\ con[c].state = "active" /\ con[c].task = "none" /\ con[c].stack # <<>>
      /\ r \in Nodes
  <2>1. con[c].state = "active" /\ con[c].task = "none" /\ con[c].stack # <<>>
    BY <1>1, <1>2 DEF AtPrompt, Sane
  <2>2. con[c].stack[Len(con[c].stack)] \in Frames
    BY <1>2, <2>1
  <2> QED BY <2>1, <2>2 DEF Top, Frames
<1> HIDE DEF r
<1>4. /\ DOMAIN logged = Nodes /\ \A d \in Nodes : Like(con[d], logged[d])
  BY <1>2, EmitLike
<1> HIDE DEF logged
<1>5. /\ DOMAIN left = Nodes /\ \A d \in Nodes : Sane(d, left[d]) /\ Kept(d, left[d])
  <2>1. \A d \in Nodes : Sane(d, logged[d]) /\ logged[d].stack = con[d].stack
    BY <1>2, <1>4, SaneLike DEF Like
  <2>2. \A d \in Nodes : Kept(d, logged[d])
    BY <1>2, <2>1
  <2>3. CASE Len(con[c].stack) > 1
    <3> DEFINE n == Len(con[c].stack) - 1
               s == SubSeq(con[c].stack, 1, n)
    <3>1. own = [logged[c] EXCEPT !.stack = s]
      BY <2>1 DEF Front
    <3>2. n \in 1..Len(con[c].stack)
      BY <1>2, <2>3
    <3>3. /\ StackOf(c, s) /\ Len(s) = n /\ s # <<>> /\ \A i \in 1..n : s[i] = con[c].stack[i]
      BY <1>2, <3>2, CutStack
    <3>4. Shaped(logged[c]) /\ logged[c].state = "active" /\ logged[c].task = "none"
      BY <1>3, <1>4 DEF Like
    <3> HIDE DEF own, s
    <3>5. /\ Shaped(own) /\ own.state = "active" /\ own.stack = s /\ own.task = "none"
          /\ own.target = logged[c].target
      BY <3>1, <3>4, StackChange
    <3>6. Sane(c, own)
      BY <2>1, <3>3, <3>4, <3>5 DEF Sane
    <3>7. Kept(c, own)
      BY <3>2, <3>3, <3>5
    <3>8. /\ DOMAIN left = Nodes /\ left[c] = own
          /\ \A d \in Nodes : d # c => left[d] = logged[d]
      BY <1>4, <2>3
    <3> HIDE DEF left, Kept
    <3> QED BY <2>1, <2>2, <3>6, <3>7, <3>8
  <2>4. CASE ~(Len(con[c].stack) > 1)
    BY <1>4, <2>1, <2>2, <2>4
  <2> QED BY <2>3, <2>4
<1> HIDE DEF left
<1>6. \A d \in Nodes : Sane(d, input[d]) /\ Kept(d, input[d])
  <2>1. \A d \in Nodes : Like(left[d], input[d])
    <3>1. \A d \in Nodes : input[d] = IF d = c THEN Flushed(left[c]) ELSE left[d]
      BY <1>5
    <3>2. \A d \in Nodes : Shaped(left[d])
      BY <1>5 DEF Sane
    <3> QED BY <3>1, <3>2, FlushedLike, LikeSelf
  <2>2. \A d \in Nodes : Sane(d, input[d])
    BY <1>5, <2>1, SaneLike
  <2>3. \A d \in Nodes : input[d].stack = left[d].stack
    BY <2>1 DEF Like
  <2> QED BY <1>5, <2>2, <2>3
<1> HIDE DEF input
<1>7. ASSUME NEW d \in Nodes
      PROVE  /\ Sane(d, closed[d]) /\ Kept(d, closed[d])
             /\ \A i \in 1..Len(closed[d].stack) : closed[d].stack[i].node # r
  <2>1. CASE d # r
    <3> DEFINE m == ClosedInto(input[d], r)
    <3>1. closed[d] = m
      BY <2>1
    <3>2. /\ Sane(d, m) /\ Len(m.stack) <= Len(input[d].stack)
          /\ \A i \in 1..Len(m.stack) : m.stack[i] = input[d].stack[i] /\ m.stack[i].node # r
      BY <1>3, <1>6, <2>1, ClosedSane
    <3>3. Len(m.stack) \in Nat /\ Len(input[d].stack) \in Nat
      BY <1>6, <3>2 DEF Sane, StackOf
    <3> HIDE DEF m, closed
    <3> QED BY <1>2, <1>6, <3>1, <3>2, <3>3
  <2>2. CASE d = r
    <3>1. Sane(d, closed[d]) /\ closed[d].stack = <<>>
      <4>1. CASE input[d].state = "new"
        <5>1. closed[d] = input[d]
          BY <2>2, <4>1
        <5>2. input[d].stack = <<>>
          BY <1>6, <4>1 DEF Sane
        <5> QED BY <1>6, <5>1, <5>2
      <4>2. CASE input[d].state # "new"
        <5>1. closed[d] = Idle(input[d])
          BY <2>2, <4>2
        <5>2. Shaped(input[d])
          BY <1>6 DEF Sane
        <5> QED BY <5>1, <5>2, IdleSane
      <4> QED BY <4>1, <4>2
    <3> HIDE DEF closed
    <3>2. Len(closed[d].stack) = 0
      BY <3>1
    <3> QED BY <1>2, <3>1, <3>2
  <2> QED BY <2>1, <2>2
<1> HIDE DEF closed, Kept
<1>8. /\ con' = [d \in Nodes |-> con'[d]] /\ \A d \in Nodes : Like(closed[d], con'[d])
  <2>1. \A d \in Nodes : Shaped(closed[d])
    BY <1>7 DEF Sane
  <2>2. DOMAIN after = Nodes /\ \A d \in Nodes : Like(closed[d], after[d])
    BY <2>1, EmitLike
  <2>3. after = [d \in Nodes |-> after[d]]
    BY DEF EmitLog
  <2> HIDE DEF after
  <2>4. \A d \in Nodes : con'[d] = IF d = c THEN Flushed(after[c]) ELSE after[d]
    BY <1>1, <2>2
  <2>5. \A d \in Nodes : Like(after[d], con'[d])
    BY <2>2, <2>4, LikeShaped, LikeSelf, FlushedLike
  <2>6. \A d \in Nodes : Like(closed[d], con'[d])
    BY <2>2, <2>5, LikeTrans
  <2>7. con' = [d \in Nodes |-> con'[d]]
    BY <1>1, <2>2, <2>3
  <2> QED BY <2>6, <2>7
<1>9. \A d \in Nodes : Sane(d, con'[d]) /\ con'[d].stack = closed[d].stack
  BY <1>7, <1>8, SaneLike DEF Like
<1>10. inc' \in [Nodes -> 1..MaxReplaced] /\ \A n \in Nodes : n # r => inc'[n] = inc[n]
  BY <1>1, <1>3, BoundsAssumption DEF IInv, AllSane
<1>11. ASSUME NEW d \in Nodes, NEW i \in 1..Len(con'[d].stack)
       PROVE  /\ i <= Len(con[d].stack)
              /\ con'[d].stack[i] = con[d].stack[i]
              /\ inc'[con[d].stack[i].node] = inc[con[d].stack[i].node]
  <2>1. /\ Len(con'[d].stack) \in Nat /\ Len(con[d].stack) \in Nat
        /\ con[d].stack \in Seq(Frames)
    BY <1>2, <1>9 DEF Sane, StackOf
  <2>2. /\ i \in 1..Len(con[d].stack) /\ con'[d].stack[i] = con[d].stack[i]
        /\ con[d].stack[i].node # r
    BY <1>7, <1>9, <2>1 DEF Kept
  <2>3. con[d].stack[i].node \in Nodes
    <3>1. con[d].stack[i] \in Frames
      BY <2>1, <2>2
    <3> QED BY <3>1 DEF Frames
  <2> QED BY <1>10, <2>1, <2>2, <2>3
<1> QED BY <1>8, <1>9, <1>10, <1>11, SessionsKept

-----------------------------------------------------------------------------
(* The theorems.                                                           *)

LEMMA InitInv == Init => IInv
<1> SUFFICES ASSUME Init PROVE IInv
  OBVIOUS
<1>1. inc \in [Nodes -> 1..MaxReplaced] /\ con = [c \in Nodes |-> con[c]]
  BY BoundsAssumption DEF Init
<1>2. ASSUME NEW c \in Nodes
      PROVE  Sane(c, con[c]) /\ con[c].stack = <<>>
  <2>1. con[c] = [state |-> "new", stack |-> <<>>, task |-> "none", target |-> NoTarget,
                  queue |-> <<>>]
    BY DEF Init
  <2>2. StackOf(c, <<>>)
    BY BoundsAssumption DEF StackOf
  <2> QED BY <2>1, <2>2 DEF Sane, Shaped
<1>3. \A c \in Nodes : Len(con[c].stack) = 0 /\ DOMAIN con[c].stack = {}
  BY <1>2
<1> QED BY <1>1, <1>2, <1>3 DEF IInv, AllSane, SessionsCurrent, VtyLinesExclusive

LEMMA StepInv == IInv /\ [Next]_vars => IInv'
<1> SUFFICES ASSUME IInv, [Next]_vars PROVE IInv'
  OBVIOUS
<1>1. CASE Reset
  BY <1>1, ResetKeeps
<1>2. ASSUME NEW c \in Nodes, StartConsole(c) PROVE IInv'
  BY <1>2, StartConsoleKeeps
<1>3. ASSUME NEW c \in Nodes, Keystroke(c) PROVE IInv'
  <2>1. CASE PressReturn(c) \/ Login(c)
    BY <2>1, PressReturnKeeps, LoginKeeps
  <2>2. ASSUME NEW n \in Nodes, Configure(c, n) \/ Dial(c, n) PROVE IInv'
    BY <2>2, ConfigureKeeps, DialogKeeps
  <2>3. CASE StopAtPager(c) \/ Finish(c) \/ DialFails(c)
    BY <2>3, DialogKeeps
  <2>4. CASE TerminalMonitor(c)
    BY <2>4, MonitorKeeps
  <2>5. CASE OpenSession(c) \/ Exit(c)
    BY <2>5, OpenSessionKeeps, ExitKeeps
  <2>6. CASE Reload(c)
    BY <2>6, ReloadKeeps
  <2> QED BY <1>3, <2>1, <2>2, <2>3, <2>4, <2>5, <2>6 DEF Keystroke
<1>4. CASE UNCHANGED vars
  BY <1>4 DEF vars, IInv, AllSane, Sane, Shaped, StackOf, SessionsCurrent, VtyLinesExclusive
<1> QED BY <1>1, <1>2, <1>3, <1>4 DEF Next

\* The inductive invariant: what each console state has, that sessions are on
\* current devices and that they have lines of their own (console.py:433-515,
\* runtime.py:520-636).
THEOREM InductiveInvariant == Spec => []IInv
<1> QED BY InitInv, StepInv, PTL DEF Spec

\* On any topology, with sessions of any depth, a reload or a reset of a device
\* leaves no session on the object that it replaced.
THEOREM SessionsCurrentHolds == Spec => []SessionsCurrent
<1>1. IInv => SessionsCurrent
  BY DEF IInv
<1> QED BY <1>1, InductiveInvariant, PTL

\* However many VTY lines a device has and whatever the other consoles do during
\* a login dialog, no two sessions into it get the same line.
THEOREM VtyLinesExclusiveHolds == Spec => []VtyLinesExclusive
<1>1. IInv => VtyLinesExclusive
  BY DEF IInv
<1> QED BY <1>1, InductiveInvariant, PTL

=============================================================================
