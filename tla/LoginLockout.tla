----------------------------- MODULE LoginLockout -----------------------------
(***************************************************************************)
(* Login and its brute-force lockout in secure mode (app/blueprints/auth.py*)
(* login, _is_locked_out, _record_attempt).  Every request thread of every *)
(* worker runs the handler on its own: it counts the recent failures of    *)
(* its address or its account name in the table login_attempts, and only   *)
(* later, after the password was verified, adds its own row.  The clock of *)
(* the application and of the database are taken to be the same.           *)
(***************************************************************************)
EXTENDS Integers, FiniteSets

CONSTANTS Handlers,     \* request threads, over all workers
          Ips,          \* client addresses
          Users,        \* account names sent in the form
          MaxAttempts,  \* LOGIN_MAX_ATTEMPTS
          Window,       \* LOGIN_LOCKOUT_MINUTES, in ticks
          MaxLogins,    \* bound: requests in a behaviour
          MaxTime       \* bound: ticks in a behaviour

ASSUME LockoutAssumption ==
    /\ IsFiniteSet(Handlers)
    /\ MaxAttempts \in Nat \ {0}
    /\ Window \in Nat
    /\ MaxLogins \in Nat
    /\ MaxTime \in Nat

VARIABLES now,       \* the time
          started,   \* requests so far
          attempts,  \* login_attempts
          nextId,    \* its AUTO_INCREMENT
          alerts,    \* brute_force rows of security_events
          pc,        \* where each handler is; after the password check, its verdict
          req,       \* the request each handler serves
          loggedIn   \* accounts some browser holds a session of

vars == <<now, started, attempts, nextId, alerts, pc, req, loggedIn>>

\* no_such_user, bad_password and inactive are recorded and counted alike.
Verdict == {"failed", "ok"}

Request == [ip : Ips, user : Users, since : -Window..MaxTime]
Attempt == [id : Nat, ip : Ips, user : Users, success : BOOLEAN,
            reason : Verdict \union {"locked"}, ts : 0..MaxTime]

----------------------------------------------------------------------------
\* Variant: accounts are not counted over addresses.
FailsByIp(r) == {a \in attempts : ~a.success /\ a.ts >= r.since /\ a.ip = r.ip}

\* success=0 AND ts >= since AND (ip=... OR username=...)
Fails(r) == {a \in attempts : /\ ~a.success
                              /\ a.ts >= r.since
                              /\ a.ip = r.ip \/ a.user = r.user}

\* Variant: the threshold off by one.
IsLockedOutLate(r) == Cardinality(Fails(r)) > MaxAttempts

IsLockedOut(r) == Cardinality(Fails(r)) >= MaxAttempts

\* INSERT INTO login_attempts; a failure of it is swallowed.
RecordAttempt(r, success, reason) ==
    \/ /\ attempts' = attempts \union
            {[id |-> nextId, ip |-> r.ip, user |-> r.user, success |-> success,
              reason |-> reason, ts |-> now]}
       /\ nextId' = nextId + 1
    \/ UNCHANGED <<attempts, nextId>>

----------------------------------------------------------------------------
Init ==
    /\ now = 0
    /\ started = 0
    /\ attempts = {}
    /\ nextId = 1
    /\ alerts = 0
    /\ pc = [h \in Handlers |-> "idle"]
    /\ req \in [Handlers -> [ip : Ips, user : Users, since : {0}]]
    /\ loggedIn = {}

Go(h, next) == pc' = [pc EXCEPT ![h] = next]

\* POST /auth/login of a browser without a session; minutes_ago is computed
\* by the application before the query is sent.
Login(h, ip, user) ==
    /\ pc[h] = "idle"
    /\ started < MaxLogins
    /\ started' = started + 1
    /\ req' = [req EXCEPT ![h] = [ip |-> ip, user |-> user, since |-> now - Window]]
    /\ Go(h, "count")
    /\ UNCHANGED <<now, attempts, nextId, alerts, loggedIn>>

\* _is_locked_out: the SELECT COUNT(*) and the decision taken on it.
Count(h) ==
    /\ pc[h] = "count"
    /\ Go(h, IF IsLockedOut(req[h]) THEN "refuse" ELSE "verify")
    /\ UNCHANGED <<now, started, attempts, nextId, alerts, req, loggedIn>>

\* A refused request is itself recorded as a failed attempt, reason "locked".
Refuse(h) ==
    /\ pc[h] = "refuse"
    /\ RecordAttempt(req[h], FALSE, "locked")
    /\ Go(h, "alert")
    /\ UNCHANGED <<now, started, alerts, req, loggedIn>>

\* record_security_event, whose error is logged and swallowed; then 429.
Alert(h) ==
    /\ pc[h] = "alert"
    /\ alerts' \in {alerts, alerts + 1}
    /\ Go(h, "idle")
    /\ UNCHANGED <<now, started, attempts, nextId, req, loggedIn>>

\* The account is read and the password verified, for unknown names too.
Verify(h) ==
    /\ pc[h] = "verify"
    /\ \E verdict \in Verdict : Go(h, verdict)
    /\ UNCHANGED <<now, started, attempts, nextId, alerts, req, loggedIn>>

\* The attempt is recorded; a failed one is answered 401 or 403.
Record(h) ==
    /\ pc[h] \in Verdict
    /\ RecordAttempt(req[h], pc[h] = "ok", pc[h])
    /\ Go(h, IF pc[h] = "ok" THEN "grant" ELSE "idle")
    /\ UNCHANGED <<now, started, alerts, req, loggedIn>>

\* _rotate_session and the UPDATE of last_login_at; the cookie is set even when
\* the UPDATE fails and the answer is 500.
Grant(h) ==
    /\ pc[h] = "grant"
    /\ loggedIn' = loggedIn \union {req[h].user}
    /\ Go(h, "idle")
    /\ UNCHANGED <<now, started, attempts, nextId, alerts, req>>

\* /auth/logout of the last browser, or the cookie expires.
Logout(user) ==
    /\ user \in loggedIn
    /\ loggedIn' = loggedIn \ {user}
    /\ UNCHANGED <<now, started, attempts, nextId, alerts, pc, req>>

Tick ==
    /\ now < MaxTime
    /\ now' = now + 1
    /\ UNCHANGED <<started, attempts, nextId, alerts, pc, req, loggedIn>>

Handle(h) == Count(h) \/ Refuse(h) \/ Alert(h) \/ Verify(h) \/ Record(h) \/ Grant(h)

Next ==
    \/ \E h \in Handlers :
          \/ \E ip \in Ips, user \in Users : Login(h, ip, user)
          \/ Handle(h)
    \/ \E user \in Users : Logout(user)
    \/ Tick

Spec == Init /\ [][Next]_vars

----------------------------------------------------------------------------
(* Properties.                                                             *)

\* Types; row ids are given once, in order, and no row is dated in the future.
TypeOK ==
    /\ now \in 0..MaxTime
    /\ started \in 0..MaxLogins
    /\ attempts \subseteq Attempt
    /\ \A a \in attempts : a.id < nextId /\ a.ts <= now
    /\ nextId \in Nat \ {0}
    /\ alerts \in Nat
    /\ pc \in [Handlers -> {"idle", "count", "refuse", "alert", "verify", "grant"} \union Verdict]
    /\ req \in [Handlers -> Request]
    /\ \A h \in Handlers : req[h].since <= now - Window \/ pc[h] = "idle"
    /\ loggedIn \subseteq Users

Recent(a) == a.ts >= now - Window

\* Passwords judged wrong within the window for one account (key = "user") or
\* one address (key = "ip"), and the handlers that may still add one: they
\* passed the count and have not recorded.
Judged(key, value) ==
    {a \in attempts : a[key] = value /\ a.reason = "failed" /\ Recent(a)}
InFlight(key, value) ==
    {h \in Handlers : req[h][key] = value /\ pc[h] \in Verdict \union {"verify"}}

Bounded(J, F) ==
    Cardinality(J) + Cardinality(F) <= MaxAttempts - 1 + Cardinality(Handlers)

\* The count is read long before the attempt is recorded, so requests that
\* overlap can pass it together; but never more of them than there are request
\* threads: within any window at most MaxAttempts - 1 + |Handlers| passwords of
\* one account are judged wrong and recorded, over any interleaving, and of one
\* address, over all the accounts it tries.
BoundedGuesses ==
    /\ \A user \in Users : Bounded(Judged("user", user), InFlight("user", user))
    /\ \A ip \in Ips : Bounded(Judged("ip", ip), InFlight("ip", ip))

\* tests/test_app.py, test_bruteforce_lockout_engages: a request that arrives
\* when the account had the threshold of failures before its arrival is never
\* let through to the password, from any address and whatever it overlaps.
\* (now moves on between such a failure and the arrival, since + Window.)
BeforeArrival(r) ==
    {a \in attempts : a.user = r.user /\ ~a.success /\ a.ts \in r.since..(r.since + Window - 1)}
LockEngages ==
    \A h \in Handlers :
        pc[h] \in Verdict \union {"verify", "grant"} =>
            Cardinality(BeforeArrival(req[h])) < MaxAttempts

\* "Too many attempts, try again in N minutes": a client that was told so more
\* than N minutes ago, and since then no wrong password was sent from its address
\* or for its account, is not refused again.
ToldToWait(r) ==
    \E a \in attempts :
        a.reason = "locked" /\ a.ip = r.ip /\ a.user = r.user /\ a.ts < r.since
LockEnds ==
    \A h \in Handlers :
        pc[h] = "refuse" /\ ToldToWait(req[h]) =>
            \E a \in Fails(req[h]) : a.reason = "failed"
=============================================================================
