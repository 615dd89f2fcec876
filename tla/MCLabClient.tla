----------------------------- MODULE MCLabClient -----------------------------
(* Two sessions of the open lab and one of another lab of the account.     *)
EXTENDS LabClient, TLC
CONSTANTS s1, s2, s3
MCHere == {s1, s2}
MCSessions == {s1, s2, s3}
MCSymmetry == Permutations(MCHere)
=============================================================================
