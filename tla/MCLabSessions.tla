--------------------------- MODULE MCLabSessions ---------------------------
(* A small instance of LabSessions: two accounts, one with two start       *)
(* attempts, so that a start finds an earlier lab and another account's.   *)
EXTENDS LabSessions, TLC

CONSTANTS u1, u2, s1, s2, s3, c1, c2

MCUsers == {u1, u2}
MCSessions == {s1, s2, s3}
MCOwner == (s1 :> u1) @@ (s2 :> u1) @@ (s3 :> u2)
OneUserSessions == {s1, s2}
OneUserOwner == (s1 :> u1) @@ (s2 :> u1)
MCConns == {c1, c2}
MCSymmetry == Permutations(MCConns) \cup Permutations({s1, s2})

=============================================================================
