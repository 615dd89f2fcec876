--------------------------- MODULE TerminalStream ---------------------------
(***************************************************************************)
(* How the output of one console reaches the browsers that watch it.       *)
(*                                                                         *)
(* A console pushes every output chunk to the sink of each viewer while it *)
(* holds runtime.lock, in whichever thread runs the simulator.  The sink   *)
(* hands the chunk to the event loop (call_soon_threadsafe), the loop puts *)
(* it in the queue of the WebSocket handler, and the handler's sender task *)
(* takes all that is queued and sends it as one frame.  The handler itself *)
(* sends the initial output that attach returned, and only then starts the *)
(* sender.                                                                 *)
(*                                                                         *)
(* Chunks are numbered in the order the console produced them.  The        *)
(* initial output repaints what the chunks before the attach have shown.   *)
(*                                                                         *)
(* The loop runs its callbacks in order.  Those of two handlers put chunks *)
(* in different queues, so it is the order per handler that matters, and   *)
(* the callbacks of each handler are a queue of their own here.            *)
(***************************************************************************)
EXTENDS Naturals, Sequences, SequencesExt

CONSTANTS
  Conns,      \* WebSocket connections to the console's node
  MaxChunks   \* bound on the chunks the console produces

Stop == 0     \* STOP_SENTINEL among the chunks

ASSUME MaxChunksAssumption == MaxChunks \in Nat

VARIABLES
  running,   \* runtime.status = "running"
  out,       \* chunks the console has produced
  viewers,   \* console.viewers
  base,      \* out when the connection's initial output was made
  ready,     \* chunks in callbacks handed to the event loop, per handler
  queue,     \* the asyncio.Queue of each handler
  flight,    \* what the sender task took and is sending
  handler,   \* where each handler is
  sender,    \* the handler's sender task
  screen     \* frames' chunks the browser got, after the initial output

streamVars == <<running, out, viewers, base, ready, queue, flight, handler, sender, screen>>

StreamInit ==
  /\ running = TRUE
  /\ out = 0
  /\ viewers = {}
  /\ base = [c \in Conns |-> 0]
  /\ ready = [c \in Conns |-> <<>>]
  /\ queue = [c \in Conns |-> <<>>]
  /\ flight = [c \in Conns |-> <<>>]
  /\ handler = [c \in Conns |-> "attach"]
  /\ sender = [c \in Conns |-> "none"]
  /\ screen = [c \in Conns |-> <<>>]

-----------------------------------------------------------------------------
(* Threads, under runtime.lock.                                            *)

\* The sinks of these viewers hand a chunk to the loop.
Callbacks(chunk, to) == [c \in Conns |-> IF c \in to THEN Append(ready[c], chunk) ELSE ready[c]]

\* Mutant: a viewer whose handler is still sending the initial output is
\* passed over.
BroadcastToReceiving ==
  /\ running /\ out < MaxChunks
  /\ out' = out + 1
  /\ ready' = Callbacks(out + 1, {c \in viewers : handler[c] = "receive"})
  /\ UNCHANGED <<running, viewers, base, queue, flight, handler, sender, screen>>

\* _broadcast: one chunk to every sink.
Broadcast ==
  /\ running /\ out < MaxChunks
  /\ out' = out + 1
  /\ ready' = Callbacks(out + 1, viewers)
  /\ UNCHANGED <<running, viewers, base, queue, flight, handler, sender, screen>>

\* runtime.stop: the sentinel to every sink, once.
NotifyStopped ==
  /\ running
  /\ running' = FALSE
  /\ ready' = Callbacks(Stop, viewers)
  /\ UNCHANGED <<out, viewers, base, queue, flight, handler, sender, screen>>

\* manager.attach in a thread: initial output and sink registered together.
Attach(c) ==
  /\ handler[c] = "attach" /\ running
  /\ viewers' = viewers \cup {c}
  /\ base' = [base EXCEPT ![c] = out]
  /\ handler' = [handler EXCEPT ![c] = "initial"]
  /\ UNCHANGED <<running, out, ready, queue, flight, sender, screen>>

AttachFails(c) ==
  /\ handler[c] = "attach" /\ ~running
  /\ handler' = [handler EXCEPT ![c] = "closed"]
  /\ UNCHANGED <<running, out, viewers, base, ready, queue, flight, sender, screen>>

-----------------------------------------------------------------------------
(* The event loop.                                                         *)

\* The handler's oldest callback puts its chunk in the queue.
RunCallback(c) ==
  /\ ready[c] # <<>>
  /\ queue' = [queue EXCEPT ![c] = Append(@, Head(ready[c]))]
  /\ ready' = [ready EXCEPT ![c] = Tail(@)]
  /\ UNCHANGED <<running, out, viewers, base, flight, handler, sender, screen>>

\* The initial output is sent, then the sender starts.
SendInitial(c) ==
  /\ handler[c] = "initial"
  /\ handler' = [handler EXCEPT ![c] = "receive"]
  /\ sender' = [sender EXCEPT ![c] = "wait"]
  /\ UNCHANGED <<running, out, viewers, base, ready, queue, flight, screen>>

\* Position of the sentinel in q, and Len(q) + 1 when it has none.
StopAt(q) ==
  CHOOSE n \in 1..(Len(q) + 1) :
    /\ \A i \in 1..(n - 1) : q[i] # Stop
    /\ n <= Len(q) => q[n] = Stop

\* Mutant: the sender waits for a second chunk to send along.
TakeTwo(c) ==
  /\ sender[c] = "wait" /\ Len(queue[c]) > 1
  /\ flight' = [flight EXCEPT ![c] = queue[c]]
  /\ queue' = [queue EXCEPT ![c] = <<>>]
  /\ sender' = [sender EXCEPT ![c] = "send"]
  /\ UNCHANGED <<running, out, viewers, base, ready, handler, screen>>

\* The sender wakes up and takes what is queued, up to the sentinel.
Take(c) ==
  LET stop == StopAt(queue[c])
      n    == IF stop > Len(queue[c]) THEN Len(queue[c]) ELSE stop
  IN /\ sender[c] = "wait" /\ queue[c] # <<>>
     /\ flight' = [flight EXCEPT ![c] = SubSeq(queue[c], 1, n)]
     /\ queue' = [queue EXCEPT ![c] = SubSeq(@, n + 1, Len(@))]
     /\ sender' = [sender EXCEPT ![c] = "send"]
     /\ UNCHANGED <<running, out, viewers, base, ready, handler, screen>>

\* send_text of the chunks; after the sentinel the socket is closed.
Send(c) ==
  LET stop == StopAt(flight[c])
  IN /\ sender[c] = "send"
     /\ screen' = [screen EXCEPT ![c] = @ \o SubSeq(flight[c], 1, stop - 1)]
     /\ flight' = [flight EXCEPT ![c] = <<>>]
     /\ sender' = [sender EXCEPT ![c] = IF stop > Len(flight[c]) THEN "wait" ELSE "done"]
     /\ UNCHANGED <<running, out, viewers, base, ready, queue, handler>>

\* The socket went away: the sender ends, the handler notices later.
SendFails(c) ==
  /\ sender[c] = "send"
  /\ flight' = [flight EXCEPT ![c] = <<>>]
  /\ sender' = [sender EXCEPT ![c] = "done"]
  /\ UNCHANGED <<running, out, viewers, base, ready, queue, handler, screen>>

\* The handler ends: the browser left, the sender closed the socket, or
\* execute raised because the runtime stopped.  The sender is cancelled and the
\* viewer removed.
Close(c) ==
  /\ handler[c] \in {"initial", "receive"}
  /\ handler' = [handler EXCEPT ![c] = "closed"]
  /\ sender' = [sender EXCEPT ![c] = "done"]
  /\ flight' = [flight EXCEPT ![c] = <<>>]
  /\ viewers' = viewers \ {c}
  /\ UNCHANGED <<running, out, base, ready, queue, screen>>

CloseAfterSender(c) == sender[c] = "done" /\ Close(c)

StreamNext ==
  \/ Broadcast \/ NotifyStopped
  \/ \E c \in Conns :
       \/ Attach(c) \/ AttachFails(c)
       \/ RunCallback(c) \/ SendInitial(c)
       \/ Take(c) \/ Send(c) \/ SendFails(c)
       \/ Close(c) \/ CloseAfterSender(c)

StreamSpec == StreamInit /\ [][StreamNext]_streamVars

(* The event loop runs its callbacks and tasks; threads, browsers and the  *)
(* console need not do anything.                                           *)
Fairness ==
  \A c \in Conns :
    /\ WF_streamVars(RunCallback(c))
    /\ WF_streamVars(SendInitial(c))
    /\ WF_streamVars(Take(c))
    /\ WF_streamVars(Send(c))
    /\ WF_streamVars(CloseAfterSender(c))

FairStreamSpec == StreamSpec /\ Fairness

-----------------------------------------------------------------------------
(* Properties.                                                             *)

\* The chunks still on their way to connection c, in the order they arrive.
OnTheWay(c) == flight[c] \o queue[c] \o ready[c]

StreamTypeOK ==
  /\ running \in BOOLEAN /\ out \in 0..MaxChunks
  /\ viewers \subseteq Conns
  /\ base \in [Conns -> 0..MaxChunks]
  /\ \A c \in Conns :
       /\ handler[c] \in {"attach", "initial", "receive", "closed"}
       /\ sender[c] \in {"none", "wait", "send", "done"}
       /\ handler[c] = "receive" => sender[c] # "none"
       /\ flight[c] # <<>> <=> sender[c] = "send"
       /\ c \in viewers => handler[c] \in {"initial", "receive"}
       /\ ToSet(screen[c]) \subseteq 1..MaxChunks

\* A browser sees what the console showed, from its initial output on: no chunk
\* is missing, doubled or out of order, whichever threads produced them while it
\* attached.  Nothing is lost on the way to it, and the sentinel comes last.
NothingLost ==
  \A c \in Conns :
    LET chunks == [i \in 1..(out - base[c]) |-> base[c] + i]
        all    == screen[c] \o OnTheWay(c)
    IN /\ IsPrefix(screen[c], chunks)
       /\ c \in viewers /\ sender[c] # "done" =>
            all \in {chunks} \cup (IF running THEN {} ELSE {Append(chunks, Stop)})

\* A chunk reaches every browser that stays, and one that is attached when the
\* lab stops has its socket closed.
ChunksArrive ==
  \A c \in Conns :
    /\ \A n \in 1..MaxChunks :
         (c \in viewers /\ n = out /\ base[c] < n)
           ~> (c \notin viewers \/ Len(screen[c]) >= n - base[c])
    /\ (c \in viewers /\ ~running) ~> (c \notin viewers)

=============================================================================
