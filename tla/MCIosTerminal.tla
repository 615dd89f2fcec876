----------------------------- MODULE MCIosTerminal -----------------------------
(* Instances of IosTerminal for TLC. *)
EXTENDS IosTerminal

\* Bound: with a page length, or more than one line in the history, lines and
\* answers have one character.
ShortLines ==
  Len(history) > 1 \/ length > 0 =>
    /\ Len(line) <= 1 /\ Len(typed) <= 1
    /\ \A i \in DOMAIN history : Len(history[i]) <= 1

=============================================================================
