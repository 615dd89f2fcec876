------------------------------ MODULE Accounts ------------------------------
(***************************************************************************)
(* Accounts and sign-in sessions (services/auth.py, routers/auth.py).      *)
(*                                                                         *)
(* The handlers are plain functions that FastAPI runs in its thread pool:  *)
(* several requests are in progress at once, and each reads and writes the *)
(* database and the rate limiters in steps of its own.  Hashing a password *)
(* takes about 0.2 s, so what a step read may have changed when the next   *)
(* one runs.  A request is a job here: it `start`s (the limiter, or who is *)
(* signed in), is `checked` (the password against the stored hash, or the  *)
(* account of the token) and then ends in one last step.  What a last step *)
(* does to the limiter and to the database are separate in the code but no *)
(* other step reads both.                                                  *)
(*                                                                         *)
(* An account is named by its email, which is UNIQUE and never changes; a  *)
(* session by its AUTOINCREMENT id, which stands for its random token too. *)
(* All requests come from one client IP.  The clock of the database and    *)
(* the monotonic one tick together.                                        *)
(***************************************************************************)
EXTENDS Naturals, Sequences, FiniteSets

CONSTANTS
  Emails,        \* addresses people sign up with
  Passwords,     \* what they type
  Weak,          \* passwords password_problem refuses
  Browsers,      \* each keeps one session cookie
  Threads,       \* jobs that may be in progress at once
  LoginLimit,    \* LOGIN_FAILURES, per client IP and email
  IpLimit,       \* LOGIN_FAILURES_BY_IP
  SignupLimit,   \* REGISTRATIONS
  ChangeLimit,   \* PASSWORD_FAILURES, per account
  Window,        \* window of the limiters, in ticks
  Life,          \* SESSION_DAYS, in ticks
  Ip,            \* the client, as a key of the limiters
  MaxTime,       \* bound on ticks
  MaxRequests    \* bound on requests

ASSUME WeakAssumption == Weak \subseteq Passwords
ASSUME NumbersAssumption ==
  /\ {LoginLimit, IpLimit, SignupLimit, ChangeLimit, Window, Life} \subseteq Nat \ {0}
  /\ {MaxTime, MaxRequests} \subseteq Nat
ASSUME IpAssumption == Ip \notin Emails
ASSUME ThreadsAssumption == IsFiniteSet(Threads)

VARIABLES
  users,      \* table users: the password of each account there is
  sessions,   \* table auth_sessions
  serial,     \* the last id given to a session
  cookie,     \* the session cookie of each browser, 0 for none
  events,     \* times the limiters count, per limiter and key
  jobs,       \* the request each thread works on
  now,        \* the clock
  requests,   \* requests so far
  changed     \* history: the last password change of each account

vars == <<users, sessions, serial, cookie, events, jobs, now, requests, changed>>

Accts == DOMAIN users
NoOne == "no one"
Limiters == {"login", "login by ip", "signup", "change"}
Limit == [l \in Limiters |-> CASE l = "login" -> LoginLimit [] l = "login by ip" -> IpLimit
                               [] l = "signup" -> SignupLimit [] l = "change" -> ChangeLimit]

Idle == [op |-> "idle"]

Init ==
  /\ users = [e \in {} |-> 0]
  /\ sessions = {} /\ serial = 0
  /\ cookie = [b \in Browsers |-> 0]
  /\ events = [l \in Limiters |-> [k \in Emails \cup {Ip} |-> <<>>]]
  /\ jobs = [t \in Threads |-> Idle]
  /\ now = 0 /\ requests = 0
  /\ changed = [e \in Emails |-> [upto |-> 0, by |-> 0]]

-----------------------------------------------------------------------------
(* RateLimiter.  Events leave the deque at its left once the window passed. *)

\* How many: the oldest ones, up to the first that is still in the window.
Outdated(times, at) ==
  CHOOSE n \in 0..Len(times) :
    /\ \A i \in 1..n : times[i] + Window <= at
    /\ n < Len(times) => times[n + 1] + Window > at
Recent(times) == SubSeq(times, Outdated(times, now) + 1, Len(times))
MayTry(l, k) == Len(Recent(events[l][k])) < Limit[l]
Record(ev, l, k) == [ev EXCEPT ![l][k] = Recent(Append(@, now))]
Reset(ev, l, k) == [ev EXCEPT ![l][k] = <<>>]

(* Sign-in sessions *)

\* user_for_token: the row of a token that has not expired.
SignedIn(token) == {s \in sessions : s.id = token /\ s.expires > now}

\* Mutant: sessions that are about to expire go too.
CreateSessionLoose(e) ==
  /\ sessions' = {s \in sessions : s.expires > now + 1}
                   \cup {[id |-> serial + 1, user |-> e, expires |-> now + Life]}
  /\ serial' = serial + 1

\* create_session forgets the expired sessions of all accounts first.
CreateSession(e) ==
  /\ sessions' = {s \in sessions : s.expires > now}
                   \cup {[id |-> serial + 1, user |-> e, expires |-> now + Life]}
  /\ serial' = serial + 1

\* Mutant: the sessions opened before this one stay.
SetPasswordFirst(e, p, keep) ==
  /\ users' = [users EXCEPT ![e] = p]
  /\ sessions' = {s \in sessions : s.user # e \/ s.id <= keep}

\* set_password: every other session of the account is signed out.
SetPassword(e, p, keep) ==
  /\ users' = [users EXCEPT ![e] = p]
  /\ sessions' = {s \in sessions : s.user # e \/ s.id = keep}

-----------------------------------------------------------------------------
(* A request arrives at a thread with the cookie of its browser.           *)

Begin(t, job) ==
  /\ jobs[t] = Idle /\ requests < MaxRequests
  /\ requests' = requests + 1
  /\ jobs' = [jobs EXCEPT ![t] = job]
  /\ UNCHANGED <<users, sessions, serial, cookie, now, changed>>

\* Refused with 429 or 401 before anything else: the thread is free again.
Refused(t) ==
  /\ jobs[t] = Idle /\ requests < MaxRequests
  /\ requests' = requests + 1
  /\ UNCHANGED <<users, sessions, serial, cookie, events, jobs, now, changed>>

Job(op, b, e, p) == [op |-> op, at |-> "start", browser |-> b, token |-> 0,
                     email |-> e, password |-> p, new |-> p, user |-> NoOne]

Register(t, b, e, p) ==
  \/ MayTry("signup", Ip) /\ Begin(t, Job("register", b, e, p)) /\ UNCHANGED events
  \/ ~MayTry("signup", Ip) /\ Refused(t)

\* Mutant: the failures of an email are not looked at.
LoginAllowedByIp(e) == MayTry("login by ip", Ip)
LoginAllowed(e) == MayTry("login", e) /\ MayTry("login by ip", Ip)
Login(t, b, e, p) ==
  \/ LoginAllowed(e) /\ Begin(t, Job("login", b, e, p)) /\ UNCHANGED events
  \/ ~LoginAllowed(e) /\ Refused(t)

\* Whoever is signed in: current_user, then the limiter of the account.
ChangeAllowed(e) == MayTry("change", e)
ChangePassword(t, b, p, new) ==
  \/ \E s \in SignedIn(cookie[b]) :
       /\ ChangeAllowed(s.user)
       /\ Begin(t, [Job("change", b, s.user, p) EXCEPT !.token = s.id, !.new = new])
       /\ UNCHANGED events
  \/ /\ \A s \in SignedIn(cookie[b]) : ~ChangeAllowed(s.user)
     /\ Refused(t)

\* user_for_token; "everywhere" asks for all sessions of the account.
Logout(t, b, everywhere) ==
  /\ Begin(t, [Job(IF everywhere THEN "logout everywhere" ELSE "logout", b, NoOne, NoOne)
                 EXCEPT !.token = cookie[b],
                        !.user = IF SignedIn(cookie[b]) = {} THEN NoOne
                                 ELSE (CHOOSE s \in SignedIn(cookie[b]) : TRUE).user])
  /\ UNCHANGED events

-----------------------------------------------------------------------------
(* Steps of a job.                                                         *)

At(t, op, where) == jobs[t].op = op /\ jobs[t].at = where

\* authenticate and password_matches: the stored hash is read now.
Verify(t) ==
  /\ \E op \in {"login", "change"} : At(t, op, "start")
  /\ LET j == jobs[t]
         right == j.email \in Accts /\ users[j.email] = j.password IN
     jobs' = [jobs EXCEPT ![t].at = "checked", ![t].user = IF right THEN j.email ELSE NoOne]
  /\ UNCHANGED <<users, sessions, serial, cookie, events, now, requests, changed>>

\* The reply may be lost, and a page may have timed out: no cookie then.
Answer(t, token) ==
  /\ jobs' = [jobs EXCEPT ![t] = Idle]
  /\ cookie' \in {cookie, [cookie EXCEPT ![jobs[t].browser] = token]}
  /\ UNCHANGED <<now, requests>>
AnswerPlain(t) ==
  /\ jobs' = [jobs EXCEPT ![t] = Idle]
  /\ UNCHANGED <<cookie, now, requests>>

\* The sign-up counts, whatever becomes of it.
CountSignup(t) ==
  /\ At(t, "register", "start")
  /\ events' = Record(events, "signup", Ip)
  /\ jobs' = [jobs EXCEPT ![t].at = "counted"]
  /\ UNCHANGED <<users, sessions, serial, cookie, now, requests, changed>>

\* Problems of the form (400), or an email that is taken (409): the UNIQUE
\* constraint decides, nothing was looked up before.
RegisterRefused(t) ==
  /\ At(t, "register", "counted")
  /\ jobs[t].password \in Weak \/ jobs[t].email \in Accts
  /\ AnswerPlain(t)
  /\ UNCHANGED <<users, sessions, serial, events, changed>>

CreateUser(t) ==
  /\ At(t, "register", "counted")
  /\ jobs[t].password \notin Weak /\ jobs[t].email \notin Accts
  /\ users' = [e \in Accts \cup {jobs[t].email} |->
                 IF e = jobs[t].email THEN jobs[t].password ELSE users[e]]
  /\ jobs' = [jobs EXCEPT ![t].at = "checked", ![t].user = jobs[t].email]
  /\ UNCHANGED <<sessions, serial, cookie, events, now, requests, changed>>

RegisterDone(t) ==
  /\ At(t, "register", "checked")
  /\ CreateSession(jobs[t].user)
  /\ Answer(t, serial + 1)
  /\ UNCHANGED <<users, events, changed>>

LoginFailed(t) ==
  /\ At(t, "login", "checked") /\ jobs[t].user = NoOne
  /\ events' = Record(Record(events, "login", jobs[t].email), "login by ip", Ip)
  /\ AnswerPlain(t)
  /\ UNCHANGED <<users, sessions, serial, changed>>

LoginDone(t) ==
  /\ At(t, "login", "checked") /\ jobs[t].user # NoOne
  /\ events' = Reset(events, "login", jobs[t].email)
  /\ CreateSession(jobs[t].user)
  /\ Answer(t, serial + 1)
  /\ UNCHANGED <<users, changed>>

ChangeFailed(t) ==
  /\ At(t, "change", "checked") /\ jobs[t].user = NoOne
  /\ events' = Record(events, "change", jobs[t].email)
  /\ AnswerPlain(t)
  /\ UNCHANGED <<users, sessions, serial, changed>>

ChangeRefused(t) ==
  /\ At(t, "change", "checked") /\ jobs[t].user # NoOne
  /\ jobs[t].new \in Weak \/ jobs[t].new = jobs[t].password
  /\ AnswerPlain(t)
  /\ UNCHANGED <<users, sessions, serial, events, changed>>

\* The session of the request was read when the request came in.
ChangeDone(t) ==
  /\ At(t, "change", "checked") /\ jobs[t].user # NoOne
  /\ jobs[t].new \notin Weak /\ jobs[t].new # jobs[t].password
  /\ events' = Reset(events, "change", jobs[t].email)
  /\ SetPassword(jobs[t].user, jobs[t].new, jobs[t].token)
  /\ changed' = [changed EXCEPT ![jobs[t].user] = [upto |-> serial, by |-> jobs[t].token]]
  /\ AnswerPlain(t)
  /\ UNCHANGED serial

\* Without an account the token alone is deleted, even an expired one's.
LoggedOut(j) ==
  IF j.user # NoOne /\ j.op = "logout everywhere" THEN {s \in sessions : s.user = j.user}
  ELSE {s \in sessions : s.id = j.token}
LogoutDone(t) ==
  /\ \E op \in {"logout", "logout everywhere"} : At(t, op, "start")
  /\ sessions' = sessions \ LoggedOut(jobs[t])
  /\ Answer(t, 0)
  /\ UNCHANGED <<users, serial, events, changed>>

-----------------------------------------------------------------------------
Tick ==
  /\ now < MaxTime /\ now' = now + 1
  /\ UNCHANGED <<users, sessions, serial, cookie, events, jobs, requests, changed>>

\* The process starts again: the requests in progress and the limiters are
\* gone, and init_db forgets the expired sessions.
Restart ==
  /\ jobs' = [t \in Threads |-> Idle]
  /\ events' = [l \in Limiters |-> [k \in Emails \cup {Ip} |-> <<>>]]
  /\ sessions' = {s \in sessions : s.expires > now}
  /\ UNCHANGED <<users, serial, cookie, now, requests, changed>>

Request(t) ==
  \E b \in Browsers :
    \/ \E e \in Emails, p \in Passwords : Register(t, b, e, p) \/ Login(t, b, e, p)
    \/ \E p, new \in Passwords : ChangePassword(t, b, p, new)
    \/ \E everywhere \in BOOLEAN : Logout(t, b, everywhere)

Step(t) ==
  \/ Verify(t) \/ CountSignup(t) \/ RegisterRefused(t) \/ CreateUser(t) \/ RegisterDone(t)
  \/ LoginFailed(t) \/ LoginDone(t)
  \/ ChangeFailed(t) \/ ChangeRefused(t) \/ ChangeDone(t) \/ LogoutDone(t)

Next == (\E t \in Threads : Request(t) \/ Step(t)) \/ Tick \/ Restart

Spec == Init /\ [][Next]_vars

-----------------------------------------------------------------------------
(* Properties                                                              *)

Ops == {"register", "login", "change", "logout", "logout everywhere"}
JobType == [op : Ops, at : {"start", "counted", "checked"}, browser : Browsers, token : Nat,
            email : Emails \cup {NoOne}, password : Passwords \cup {NoOne},
            new : Passwords \cup {NoOne}, user : Emails \cup {NoOne}]

(* The tables and limiters stay in their types, and ids are unique.        *)
TypeOK ==
  /\ users \in UNION {[E -> Passwords \ Weak] : E \in SUBSET Emails}
  /\ serial \in Nat /\ now \in 0..MaxTime /\ requests \in 0..MaxRequests
  /\ sessions \subseteq [id : 1..serial, user : Accts, expires : 0..(MaxTime + Life)]
  /\ \A s, r \in sessions : s.id = r.id => s = r
  /\ cookie \in [Browsers -> 0..serial]
  /\ events \in [Limiters -> [Emails \cup {Ip} -> Seq(0..MaxTime)]]
  /\ jobs \in [Threads -> {Idle} \cup JobType]
  /\ changed \in [Emails -> [upto : 0..serial, by : 0..serial]]

(* auth.py:202 "At most ``limit`` events per ``window`` seconds per key,  *)
(* counted in this process".                                               *)
LimitKept ==
  \A l \in Limiters, k \in Emails \cup {Ip} : Len(Recent(events[l][k])) <= Limit[l]

(* A limiter is asked (retry_after) before the password is hashed and told *)
(* (record) after, so requests in progress together may all pass a limit   *)
(* that has one try left, and LimitKept does not hold.  This is how far it *)
(* is missed: within a window a key has at most one event more than its    *)
(* limit for each other thread, whatever was reset or left the window      *)
(* while they were in progress.                                            *)
ExcessBounded ==
  \A l \in Limiters, k \in Emails \cup {Ip} :
    Len(Recent(events[l][k])) < Limit[l] + Cardinality(Threads)

(* Nobody is signed out who did not ask for it: a session that has not     *)
(* expired goes only when a request that carries its token signs out, or   *)
(* one of its account signs out everywhere or, from another session,       *)
(* changes the password; the sign-ins and sign-ups of others (which sweep  *)
(* the table), their password changes and a restart leave it alone.        *)
SignedOutOnRequest ==
  [][\A s \in sessions : s.expires > now /\ s \notin sessions' =>
       \E t \in Threads :
         /\ jobs[t] # Idle /\ jobs'[t] = Idle
         /\ \/ jobs[t].op \in {"logout", "logout everywhere"} /\ jobs[t].token = s.id
            \/ jobs[t].op = "logout everywhere" /\ jobs[t].user = s.user
            \/ jobs[t].op = "change" /\ jobs[t].user = s.user /\ jobs[t].token # s.id]_vars

(* "You were signed out on your other devices": of the sessions an account *)
(* had when its password changed only the one that changed it is left,     *)
(* with any number of sign-ins, sign-outs and other changes in progress.   *)
OthersSignedOut ==
  \A s \in sessions : s.id > changed[s.user].upto \/ s.id = changed[s.user].by
=============================================================================
