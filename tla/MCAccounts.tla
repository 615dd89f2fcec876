----------------------------- MODULE MCAccounts -----------------------------
(* From where e1 has signed up on one browser and signed in on another.    *)
(* Threads are interchangeable, and so are browsers.                       *)
EXTENDS Accounts, TLC

CONSTANTS e1, p1

MCInit ==
  /\ users = (e1 :> p1)
  /\ sessions = [id : {1, 2}, user : {e1}, expires : {Life}]
  /\ serial = 2
  /\ cookie \in {c \in [Browsers -> {1, 2}] : \A b, d \in Browsers : b # d => c[b] # c[d]}
  /\ events = [l \in Limiters |-> [k \in Emails \cup {Ip} |->
                 IF l = "signup" /\ k = Ip THEN <<0>> ELSE <<>>]]
  /\ jobs = [t \in Threads |-> Idle]
  /\ now = 0 /\ requests = 0
  /\ changed = [e \in Emails |-> [upto |-> 0, by |-> 0]]

MCSpec == MCInit /\ [][Next]_vars

MCSymmetry == Permutations(Threads) \cup Permutations(Browsers)
=============================================================================
