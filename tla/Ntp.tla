-------------------------------- MODULE Ntp ---------------------------------
(***************************************************************************)
(* NTP: where a router takes its time from, what show ntp says of it and    *)
(* why a clock is not synchronized (services.py).  Nothing is exchanged:    *)
(* every question is answered from the configuration and from whether the   *)
(* servers can be reached, each time anew and for each router by itself.    *)
(***************************************************************************)
EXTENDS Forwarding

CONSTANTS
  Keys,        \* key numbers
  KeyTexts,    \* key strings
  Strata,      \* strata of ntp master
  Servers      \* addresses of ntp server

NoKey == 0
NoStratum == 0
Unsynchronized == 16

ASSUME NtpAssumption ==
  /\ NoKey \notin Keys /\ NoKey \notin KeyTexts
  /\ Strata \subseteq 1..15 /\ Servers \subseteq Addresses

VARIABLE
  ntp  \* of each router: master stratum, authentication, keys, trusted keys, servers

NewNtp == [master |-> NoStratum, auth |-> FALSE, keys |-> [k \in Keys |-> NoKey],
           trusted |-> {}, servers |-> {}]

NtpInit(s) == ntp = s.ntp


-----------------------------------------------------------------------------
(* Synchronization.                                                         *)

\* The device an address leads to, and whether it lets n use it.
Holder(a, N) == {p[1] : p \in FirstPort({p \in N.ends : ifc[p].addr = a})}
Configured(up) == IF up \in Routers THEN ntp[up] ELSE NewNtp
Agreed(n, up, k) ==
  /\ k \in ntp[n].trusted \cap Configured(up).trusted
  /\ ntp[n].keys[k] # NoKey /\ Configured(up).keys[k] = ntp[n].keys[k]

\* <<client, address, server>> where the client may take the server's time.
Usable(N) ==
  {x \in UNION {{<<n, s[1], up>> : s \in ntp[n].servers, up \in Nodes} : n \in Routers} :
     /\ x[3] \in Holder(x[2], N) /\ Reachable(x[1], x[2], N)
     /\ ntp[x[1]].auth => \E k \in Keys : <<x[2], k>> \in ntp[x[1]].servers /\ Agreed(x[1], x[3], k)}

\* _ntp_resolve without its bound on the stratum.
SyncUnbounded(U) ==
  LET Resolve[n \in Nodes, visiting \in SUBSET Nodes] ==
        LET up == {[at |-> x[2], from |-> Resolve[x[3], visiting \cup {n}]] : x \in {x \in U : x[1] = n}}
            good == {g \in up : g.from # {}}
        IN IF Configured(n).master # NoStratum
           THEN {[stratum |-> Configured(n).master, server |-> None, root |-> n]}
           ELSE IF n \in visiting THEN {}
           ELSE {[stratum |-> (CHOOSE y \in g.from : TRUE).stratum + 1, server |-> g.at,
                  root |-> (CHOOSE y \in g.from : TRUE).root] :
                   g \in {g \in good : \A h \in good : g.at <= h.at}}
  IN Resolve

\* The time of n: its own as a master, otherwise that of the first server, by address,
\* that has one and is not too far from its master; the routers that asked are not asked
\* again.  A set of at most one.
Sync(U) ==
  LET Resolve[n \in Nodes, visiting \in SUBSET Nodes] ==
        LET up == {[at |-> x[2], from |-> Resolve[x[3], visiting \cup {n}]] : x \in {x \in U : x[1] = n}}
            good == {g \in up : \E y \in g.from : y.stratum + 1 < Unsynchronized}
        IN IF Configured(n).master # NoStratum
           THEN {[stratum |-> Configured(n).master, server |-> None, root |-> n]}
           ELSE IF n \in visiting THEN {}
           ELSE {[stratum |-> (CHOOSE y \in g.from : TRUE).stratum + 1, server |-> g.at,
                  root |-> (CHOOSE y \in g.from : TRUE).root] :
                   g \in {g \in good : \A h \in good : g.at <= h.at}}
  IN Resolve

\* show ntp status, where S is what Sync finds.
Synchronized(n, S) == S[n, {}] # {}

\* show ntp associations: a row for each server, * for the one in use, + for others that
\* have the time, whatever their keys.
NtpAssociations(n, S, N) ==
  LET inUse == {y.server : y \in S[n, {}]}
      HasTime(a) == Reachable(n, a, N) /\ \E up \in Holder(a, N) : S[up, {}] # {}
  IN {[at |-> s[1], usable |-> HasTime(s[1]),
       mark |-> IF s[1] \in inUse THEN "*" ELSE IF HasTime(s[1]) THEN "+" ELSE "~"] : s \in ntp[n].servers}

\* ntp_diagnose: for each server the first thing that is wrong with it.
KeyProblem(n, up, k) ==
  LET c == Configured(up)
  IN IF k = NoKey THEN {"no key"}
     ELSE IF k \notin ntp[n].trusted THEN {"not trusted"}
     ELSE IF k \notin c.trusted THEN {"not trusted by the server"}
     ELSE IF ntp[n].keys[k] = NoKey THEN {"not defined"}
     ELSE IF c.keys[k] = NoKey THEN {"not defined on the server"}
     ELSE IF ntp[n].keys[k] # c.keys[k] THEN {"differs"} ELSE {}

ServerProblem(n, a, k, S, N) ==
  LET up == Holder(a, N)
      key == IF ntp[n].auth THEN UNION {KeyProblem(n, u, k) : u \in up} ELSE {}
      time == UNION {S[u, {}] : u \in up}
  IN IF up = {} THEN {"no such address"}
     ELSE IF ~Reachable(n, a, N) THEN {"unreachable"}
     ELSE IF key # {} THEN key
     ELSE IF time = {} THEN {"not synchronized itself"}
     ELSE {"too far" : y \in {y \in time : y.stratum + 1 >= Unsynchronized}}

NtpDiagnose(n, S, N) ==
  IF ntp[n].master # NoStratum THEN {}
  ELSE IF ntp[n].servers = {} THEN {"no server"}
  ELSE UNION {ServerProblem(n, s[1], s[2], S, N) : s \in ntp[n].servers}


-----------------------------------------------------------------------------
(* Configuration.                                                           *)

SetNtp(n, c) == ntp' = [ntp EXCEPT ![n] = c]

\* ntp server with a known address replaces that server's key.
NtpServer(n, a, k) == SetNtp(n, [ntp[n] EXCEPT !.servers = {s \in @ : s[1] # a} \cup {<<a, k>>}])
NoNtpServer(n, a) == SetNtp(n, [ntp[n] EXCEPT !.servers = {s \in @ : s[1] # a}])
NtpMaster(n, s) == SetNtp(n, [ntp[n] EXCEPT !.master = s])
NtpAuthenticate(n, b) == SetNtp(n, [ntp[n] EXCEPT !.auth = b])
NtpAuthenticationKey(n, k, text) == SetNtp(n, [ntp[n] EXCEPT !.keys[k] = text])
NtpTrustedKey(n, k, b) ==
  SetNtp(n, [ntp[n] EXCEPT !.trusted = IF b THEN @ \cup {k} ELSE @ \ {k}])

NtpCommand(n) ==
  \/ \E a \in Servers : NoNtpServer(n, a) \/ \E k \in Keys \cup {NoKey} : NtpServer(n, a, k)
  \/ \E s \in Strata \cup {NoStratum} : NtpMaster(n, s)
  \/ \E b \in BOOLEAN : NtpAuthenticate(n, b) \/ \E k \in Keys : NtpTrustedKey(n, k, b)
  \/ \E k \in Keys, text \in KeyTexts \cup {NoKey} : NtpAuthenticationKey(n, k, text)

=============================================================================
