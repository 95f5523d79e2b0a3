-------------------------------- MODULE Pool --------------------------------
(***************************************************************************)
(* The connection pool of one worker (app/core/db.py): init_db at boot,    *)
(* get_cursor around every statement.  The pool blocks at its limit, has   *)
(* no timeout, and is shared by the request threads of gunicorn (four) and *)
(* the writer of the access log (DB_POOL_SIZE is five).                    *)
(***************************************************************************)
EXTENDS Integers, FiniteSets

CONSTANTS Thread,       \* request threads and the writer
          PoolSize,     \* DB_POOL_SIZE
          MaxAttempts   \* attempts of init_db

\* What gunicorn.conf.py and config.py give: a connection for each thread.
ASSUME PoolAssumption ==
    /\ IsFiniteSet(Thread)
    /\ PoolSize \in Nat
    /\ Cardinality(Thread) <= PoolSize
    /\ MaxAttempts \in Nat

VARIABLES up,         \* the database answers
          attempts,   \* of init_db, which has no pool yet
          boot,       \* "tries", "ready", "failed"
          lent,       \* connections the pool counts as given away
          phase       \* where each thread is in get_cursor

poolVars == <<up, attempts, boot, lent, phase>>

PoolInit ==
    /\ up = FALSE
    /\ attempts = 0
    /\ boot = "tries"
    /\ lent = 0
    /\ phase = [t \in Thread |-> "idle"]

\* The database stops or starts.
Toggle ==
    /\ up' = ~up
    /\ UNCHANGED <<attempts, boot, lent, phase>>

\* One attempt of init_db: the pool and SELECT 1, or two seconds of sleep, or
\* after the last one a RuntimeError that ends the worker.
Attempt ==
    /\ boot = "tries"
    /\ attempts' = attempts + 1
    /\ boot' = IF up THEN "ready" ELSE IF attempts + 1 = MaxAttempts THEN "failed" ELSE "tries"
    /\ UNCHANGED <<up, lent, phase>>

Ask(t) ==
    /\ boot = "ready"
    /\ phase[t] = "idle"
    /\ phase' = [phase EXCEPT ![t] = "asks"]
    /\ UNCHANGED <<up, attempts, boot, lent>>

\* pool.connection(): the thread sleeps while all are lent; a new connection, or
\* the ping of an old one, may fail, before the pool has counted it.
Take(t) ==
    /\ phase[t] = "asks"
    /\ lent < PoolSize
    /\ IF up THEN lent' = lent + 1 /\ phase' = [phase EXCEPT ![t] = "runs"]
             ELSE phase' = [phase EXCEPT ![t] = "idle"] /\ UNCHANGED lent
    /\ UNCHANGED <<up, attempts, boot>>

\* The statement and the commit succeed; "finally" gives the connection back.
Finish(t) ==
    /\ phase[t] = "runs"
    /\ up
    /\ lent' = lent - 1
    /\ phase' = [phase EXCEPT ![t] = "idle"]
    /\ UNCHANGED <<up, attempts, boot>>

\* Variant: an exception leaves without "finally".
FailKeeps(t) ==
    /\ phase[t] = "runs"
    /\ phase' = [phase EXCEPT ![t] = "idle"]
    /\ UNCHANGED <<up, attempts, boot, lent>>

\* The statement or the commit raises, a lost connection or a bad row: rollback,
\* "finally", and the exception goes on.
Fail(t) ==
    /\ phase[t] = "runs"
    /\ lent' = lent - 1
    /\ phase' = [phase EXCEPT ![t] = "idle"]
    /\ UNCHANGED <<up, attempts, boot>>

PoolNext ==
    \/ Toggle
    \/ Attempt
    \/ \E t \in Thread : Ask(t) \/ Take(t) \/ Finish(t) \/ Fail(t)

----------------------------------------------------------------------------
(* Properties.                                                             *)

\* No thread ever sleeps in the pool, which has no timeout: not after any
\* number of failed statements and restarts of the database.  It rests on a
\* pool as large as the threads, each of which holds one cursor at a time.
NobodySleeps == \A t \in Thread : phase[t] = "asks" => lent < PoolSize
=============================================================================
