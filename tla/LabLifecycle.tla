---------------------------- MODULE LabLifecycle ----------------------------
(***************************************************************************)
(* What lab sessions promise to an account, whatever threads, failing      *)
(* transactions and restarts do underneath: an attempt becomes active only *)
(* when the account has no other active one, it is stopped once and for    *)
(* all, and only an active attempt is graded.                              *)
(***************************************************************************)
EXTENDS Naturals

CONSTANTS
  Users,         \* accounts
  Sessions,      \* start attempts
  Owner,         \* the account of each attempt
  MaxGeneration  \* bound on the generations a result may name

VARIABLES
  phase,   \* "none", "active" or "stopped"
  grades   \* results recorded so far

vars == <<phase, grades>>

Active == {s \in Sessions : phase[s] = "active"}

Init ==
  /\ phase = [s \in Sessions |-> "none"]
  /\ grades = {}

Start(s) ==
  /\ phase[s] = "none"
  /\ \A o \in Active : Owner[o] # Owner[s]
  /\ phase' = [phase EXCEPT ![s] = "active"]
  /\ UNCHANGED grades

\* A restart or a progress request may stop several attempts at once.
Stop ==
  /\ \E S \in SUBSET Active :
       phase' = [s \in Sessions |-> IF s \in S THEN "stopped" ELSE phase[s]]
  /\ UNCHANGED grades

Grade(s) ==
  /\ phase[s] = "active"
  /\ \E g \in 0..MaxGeneration :
       grades' = grades \cup {[session |-> s, generation |-> g]}
  /\ UNCHANGED phase

Next ==
  \/ \E s \in Sessions : Start(s) \/ Grade(s)
  \/ Stop

Spec == Init /\ [][Next]_vars

=============================================================================
