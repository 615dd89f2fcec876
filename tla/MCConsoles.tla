----------------------------- MODULE MCConsoles -----------------------------
(* The consoles of two routers and, beside them, the output of one console *)
(* on its way to two browsers.  The two share no state: what sessions do   *)
(* does not depend on who watches, nor the way of a chunk on what it says. *)
(* So one is checked while the other rests in its initial state.           *)
EXTENDS MCNodeConsole, TerminalStream

CONSTANTS c1, c2
MCConns == {c1, c2}

MCInit == Init /\ StreamInit

SessionStep == StreamInit /\ Next /\ UNCHANGED streamVars
StreamStep == Init /\ StreamNext /\ UNCHANGED vars

\* A lab that was stopped, and whose handlers have ended, does nothing more.
Over ==
  /\ ~running /\ \A c \in Conns : handler[c] = "closed" /\ ready[c] = <<>>
  /\ UNCHANGED <<vars, streamVars>>

MCNext == SessionStep \/ StreamStep \/ Over

MCSpec == MCInit /\ [][MCNext]_<<vars, streamVars>> /\ Fairness
=============================================================================
