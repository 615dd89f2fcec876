---------------------------- MODULE RemoteAccess ----------------------------
(***************************************************************************)
(* Sessions from device to device: what a router's VTY lines, SSH server    *)
(* and local users let an ssh or telnet command do, and what the grader     *)
(* asks of them without a console (services.py section 5, network.py,       *)
(* runtime_exec.py).  Credentials are asked for in between, which is        *)
(* NodeConsole's subject; here a command is answered in one state of the    *)
(* network, with the lines that sessions already hold as a parameter.       *)
(***************************************************************************)
EXTENDS Ntp, LineBlocks

CONSTANTS
  Users,     \* user names
  KeySizes   \* bits of RSA keys

NoKeys == 0
AnyVersion == 0
ASSUME AccessAssumption ==
  Devices = Routers /\ KeySizes \subseteq Nat /\ NoKeys \notin KeySizes /\ Passwords \subseteq Nat

VARIABLE
  ssh  \* of each router: domain name set, RSA keys, protocol version, passwords of users

NewSsh == [domain |-> FALSE, rsa |-> NoKeys, version |-> AnyVersion, users |-> [u \in Users |-> NoPassword]]

accessVars == <<ssh, lineVars>>

AccessInit(s) == ssh = s.ssh /\ LinesStart(s.vty)


-----------------------------------------------------------------------------
(* Policy.                                                                  *)

BlocksAt(m) == IF m \in Routers THEN vty[m] ELSE {}
Permitting(m, t) == {b \in BlocksAt(m) : t \in b.set.input}
FirstBlocks(B) == {b \in B : \A d \in B : b.first <= d.first}

\* vty_access: the device, and the block whose login is asked for.
Refused(code) == [code |-> code, to |-> None, block |-> <<>>, login |-> "none"]
VtyAccess(n, a, t, N) ==
  LET to == Holder(a, N)
      first == UNION {FirstBlocks(Permitting(m, t)) : m \in to}
  IN IF ~Reachable(n, a, N) \/ to = {} THEN {Refused("timeout")}
     ELSE IF first = {} \/ (t = "ssh" /\ \E m \in to : ssh[m].rsa = NoKeys) THEN {Refused("refused")}
     ELSE {IF b.set.login = "line" /\ b.set.password = NoPassword THEN Refused("no password")
           ELSE [code |-> "ok", to |-> CHOOSE m \in to : TRUE, block |-> <<b.first, b.last>>, login |-> b.set.login] :
             b \in first}

\* verify_user.
VerifyUser(m, u, p) == ssh[m].users[u] = p

\* vty_authenticate, against the users of the device or the password of that block.
Authenticates(d, u, p) ==
  \/ d.login = "none"
  \/ d.login = "local" /\ VerifyUser(d.to, u, p)
  \/ d.login = "line" /\ \E b \in BlocksAt(d.to) : d.block = <<b.first, b.last>> /\ b.set.password = p

\* The grader's questions.
SshAuthenticate(n, u, p, a, N) == \E d \in VtyAccess(n, a, "ssh", N) : d.code = "ok" /\ Authenticates(d, u, p)
TelnetRefused(n, a, N) == \E d \in VtyAccess(n, a, "telnet", N) : d.code = "refused"


-----------------------------------------------------------------------------
(* The ssh and telnet commands.                                             *)

FromConsole == -1

\* transport output of the line that the command is typed on.
TransportPermitted(n, on, t) ==
  \A b \in BlocksAt(n) : on \in Span(b) => b.set.output = AnyOutput \/ t \in b.set.output

\* Any line that is free.
FreeVtyAny(m, t, busy) == LinesOf(BlocksAt(m)) \ busy

FreeVty(m, t, busy) == LinesOf(Permitting(m, t)) \ busy

\* ssh -v 1|2, or without it the best the server has.
SshVersions(m) == IF ssh[m].version = AnyVersion THEN {1, 2} ELSE {ssh[m].version}
SshVersion(m, v) == v = AnyVersion \/ v \in SshVersions(m)

\* The device and line of the session that a command opens, typed on line `on` of n with
\* user u and password p while sessions hold the lines busy[m] of each m.
Opens(n, on, a, t, v, u, p, busy, N) ==
  {<<d.to, MinOf(FreeVty(d.to, t, busy[d.to]))>> :
     d \in {d \in VtyAccess(n, a, t, N) :
              /\ TransportPermitted(n, on, t) /\ d.code = "ok"
              /\ FreeVty(d.to, t, busy[d.to]) # {}
              /\ t = "ssh" => SshVersion(d.to, v)
              /\ Authenticates(d, u, p)}}


-----------------------------------------------------------------------------
(* Configuration.                                                           *)

SetSsh(n, s) == ssh' = [ssh EXCEPT ![n] = s]

IpDomainName(n, b) == SetSsh(n, [ssh[n] EXCEPT !.domain = b])
\* Keys need a domain name, but keep without it.
CryptoKeyGenerate(n, bits) == ssh[n].domain /\ SetSsh(n, [ssh[n] EXCEPT !.rsa = bits])
CryptoKeyZeroize(n) == SetSsh(n, [ssh[n] EXCEPT !.rsa = NoKeys])
IpSshVersion(n, v) == SetSsh(n, [ssh[n] EXCEPT !.version = v])
\* A user gets a password or loses it and is gone.
SetUser(s, u, p) == [s EXCEPT !.users[u] = p]
Username(n, u, p) == SetSsh(n, SetUser(ssh[n], u, p))

SshCommand(n) ==
  \/ \E b \in BOOLEAN : IpDomainName(n, b)
  \/ \E bits \in KeySizes : CryptoKeyGenerate(n, bits)
  \/ CryptoKeyZeroize(n)
  \/ \E v \in {AnyVersion, 1, 2} : IpSshVersion(n, v)
  \/ \E u \in Users, p \in Passwords \cup {NoPassword} : Username(n, u, p)

AccessCommand(n) == (LineCommand(n) /\ UNCHANGED ssh) \/ (SshCommand(n) /\ UNCHANGED lineVars)

=============================================================================
