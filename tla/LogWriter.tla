------------------------------ MODULE LogWriter ------------------------------
(***************************************************************************)
(* The access-log path of one gunicorn worker (app/core/logging_mw.py).    *)
(* Request threads hand one row per request to a bounded queue and never   *)
(* wait; one daemon thread moves rows from the queue to a local buffer and *)
(* from there to the table access_logs, one multi-row INSERT per batch.    *)
(* The worker may be stopped (atexit runs stop(), which joins the thread   *)
(* for three seconds), or killed, and is then replaced by a new process    *)
(* with an empty queue.                                                    *)
(*                                                                         *)
(* A row is its arrival number; its sixteen columns are left out.          *)
(***************************************************************************)
EXTENDS Integers, Sequences, FiniteSets

CONSTANTS Threads,        \* request threads of the worker (gunicorn "threads")
          QueueSize,      \* max_queue
          BatchSize,      \* batch_size
          FlushInterval,  \* flush_interval, in ticks
          MaxTries,       \* times DBUtils sends one statement before it raises
          MaxRows,        \* bound: rows produced in a behaviour
          MaxLives        \* bound: worker processes in a behaviour

ASSUME LogWriterAssumption ==
    /\ QueueSize \in Nat \ {0}
    /\ BatchSize \in Nat \ {0}
    /\ FlushInterval \in Nat
    /\ MaxTries \in Nat \ {0}
    /\ MaxRows \in Nat
    /\ MaxLives \in Nat

VARIABLES arrived,   \* rows produced so far: the rows are 1..arrived
          queue,     \* self.q
          buffer,    \* the local list of _run
          pc,        \* next step of _run
          closing,   \* _run has left its loop
          tries,     \* attempts of the statement being sent
          stop,      \* self._stop
          elapsed,   \* time.monotonic() - last_flush, in ticks, up to FlushInterval
          stored,    \* access_logs, one element per INSERT that committed
          dropped,   \* the rows counted in self.dropped
          reported,  \* the rows a log line names as lost
          vanished,  \* history: rows a dying process took with it, in no log
          proc,      \* the worker process
          lives,     \* worker processes started so far
          thread     \* what each request thread is doing

writerVars == <<buffer, pc, closing, tries, elapsed, stored, reported>>
vars == <<arrived, queue, dropped, vanished, stop, proc, lives, thread, writerVars>>

Row == 1..MaxRows
Rows(s) == {s[i] : i \in DOMAIN s}
StoredRows == UNION {Rows(stored[i]) : i \in DOMAIN stored}

\* The batch being sent is already in the table (an attempt of it committed).
BatchStored == stored # <<>> /\ stored[Len(stored)] = buffer

\* Rows the process holds and nobody else does, oldest first.
Pending == IF BatchStored THEN queue ELSE buffer \o queue

----------------------------------------------------------------------------
Init ==
    /\ arrived = 0
    /\ queue = <<>>
    /\ buffer = <<>>
    /\ pc = "test"
    /\ closing = FALSE
    /\ tries = 0
    /\ stop = FALSE
    /\ elapsed = 0
    /\ stored = <<>>
    /\ dropped = {}
    /\ reported = {}
    /\ vanished = {}
    /\ proc = "serving"
    /\ lives = 1
    /\ thread = [t \in Threads |-> "idle"]

Alive == proc \in {"serving", "stopping"}

----------------------------------------------------------------------------
(* Request threads.                                                        *)

\* before_request: the request is taken by a free thread of the pool.
StartTimer(t) ==
    /\ proc = "serving"
    /\ thread[t] = "idle"
    /\ thread' = [thread EXCEPT ![t] = "busy"]
    /\ UNCHANGED <<arrived, queue, dropped, vanished, stop, proc, lives, writerVars>>

\* Variant: the bound of the queue off by one.
PutOneTooMany(row) ==
    \/ /\ Len(queue) <= QueueSize
       /\ queue' = Append(queue, row)
       /\ UNCHANGED dropped
    \/ /\ Len(queue) > QueueSize
       /\ dropped' = dropped \union {row}
       /\ UNCHANGED queue

\* put: put_nowait, and on queue.Full only the counter moves.  The increment is
\* one step: CPython 3.12, that of the image, changes threads at calls and
\* backward jumps only.
Put(row) ==
    \/ /\ Len(queue) < QueueSize
       /\ queue' = Append(queue, row)
       /\ UNCHANGED dropped
    \/ /\ Len(queue) = QueueSize
       /\ dropped' = dropped \union {row}
       /\ UNCHANGED queue

\* after_request: one row per request; a row that scored as a threat is also
\* written to security_events before the thread is free (next = "alert").
WriteAccessLog(t) ==
    /\ Alive
    /\ thread[t] = "busy"
    /\ arrived < MaxRows
    /\ arrived' = arrived + 1
    /\ Put(arrived + 1)
    /\ \E next \in {"idle", "alert"} : thread' = [thread EXCEPT ![t] = next]
    /\ UNCHANGED <<vanished, stop, proc, lives, writerVars>>

\* after_request of an excluded path leaves no row; the synchronous INSERT of
\* the alert ends the handler whether it succeeded or its error was swallowed.
EndRequest(t) ==
    /\ Alive
    /\ thread[t] \in {"busy", "alert"}
    /\ thread' = [thread EXCEPT ![t] = "idle"]
    /\ UNCHANGED <<arrived, queue, dropped, vanished, stop, proc, lives, writerVars>>

----------------------------------------------------------------------------
(* The writer thread, _run.                                                *)

Goto(next) == pc' = next /\ UNCHANGED <<closing, tries>>

\* The statement for the whole buffer goes out; the first attempt of it.
Send == pc' = "flush" /\ tries' = 1

\* Variant: while not self._stop.is_set(), what is still queued forgotten.
TestLoopStopOnly ==
    /\ Alive
    /\ pc = "test"
    /\ \/ ~stop /\ Goto("get")
       \/ /\ stop
          /\ closing' = TRUE
          /\ IF buffer # <<>> THEN Send ELSE pc' = "done" /\ UNCHANGED tries
    /\ UNCHANGED <<arrived, queue, dropped, vanished, stop, proc, lives, thread,
                   buffer, elapsed, stored, reported>>

\* while not self._stop.is_set() or not self.q.empty(), then the last flush.
TestLoop ==
    /\ Alive
    /\ pc = "test"
    /\ \/ /\ ~stop \/ queue # <<>>
          /\ Goto("get")
       \/ /\ stop /\ queue = <<>>
          /\ closing' = TRUE
          /\ IF buffer # <<>> THEN Send ELSE pc' = "done" /\ UNCHANGED tries
    /\ UNCHANGED <<arrived, queue, dropped, vanished, stop, proc, lives, thread,
                   buffer, elapsed, stored, reported>>

Get ==
    /\ Alive
    /\ pc = "get"
    /\ queue # <<>>
    /\ buffer' = Append(buffer, Head(queue))
    /\ queue' = Tail(queue)
    /\ Goto("due")
    /\ UNCHANGED <<arrived, dropped, vanished, stop, proc, lives, thread,
                   elapsed, stored, reported>>

\* q.get raises Empty only after the wait, which ends once the interval since
\* the last flush is over, and only if the queue is empty then.
GetTimeout ==
    /\ Alive
    /\ pc = "get"
    /\ queue = <<>>
    /\ elapsed >= FlushInterval
    /\ Goto("due")
    /\ UNCHANGED <<arrived, queue, dropped, vanished, stop, proc, lives, thread,
                   buffer, elapsed, stored, reported>>

\* Variant: the batch goes out only once it is full.
DueWhenFull == Len(buffer) >= BatchSize

Due == \/ Len(buffer) >= BatchSize
       \/ buffer # <<>> /\ elapsed >= FlushInterval

TestDue ==
    /\ Alive
    /\ pc = "due"
    /\ IF Due THEN Send ELSE pc' = "test" /\ UNCHANGED tries
    /\ UNCHANGED <<arrived, queue, dropped, vanished, stop, proc, lives, thread,
                   buffer, closing, elapsed, stored, reported>>

\* The server commits the multi-row INSERT (the pool runs with autocommit).
Commit ==
    /\ Alive
    /\ pc = "flush"
    /\ stored' = Append(stored, buffer)
    /\ Goto("applied")
    /\ UNCHANGED <<arrived, queue, dropped, vanished, stop, proc, lives, thread,
                   buffer, elapsed, reported>>

\* The connection is lost, before or after the commit, and DBUtils sends the
\* statement again on a new one: it is outside any explicit transaction.
Retry ==
    /\ Alive
    /\ pc \in {"flush", "applied"}
    /\ tries < MaxTries
    /\ tries' = tries + 1
    /\ pc' = "flush"
    /\ UNCHANGED <<arrived, queue, dropped, vanished, stop, proc, lives, thread,
                   buffer, closing, elapsed, stored, reported>>

\* Variant: buffer.clear() only when the INSERT succeeded.
FlushReturnsKeepsBuffer(raised) ==
    /\ Alive
    /\ pc = "applied" \/ (pc = "flush" /\ raised)
    /\ buffer' = IF raised THEN buffer ELSE <<>>
    /\ tries' = 0
    /\ UNCHANGED reported
    /\ IF closing
       THEN pc' = "done" /\ UNCHANGED elapsed
       ELSE pc' = "test" /\ elapsed' = 0
    /\ UNCHANGED <<arrived, queue, dropped, vanished, stop, proc, lives, thread,
                   closing, stored>>

\* Variant: the error of the INSERT swallowed.
FlushReturnsSilently(raised) ==
    /\ Alive
    /\ pc = "applied" \/ (pc = "flush" /\ raised)
    /\ buffer' = <<>>
    /\ tries' = 0
    /\ UNCHANGED reported
    /\ IF closing
       THEN pc' = "done" /\ UNCHANGED elapsed
       ELSE pc' = "test" /\ elapsed' = 0
    /\ UNCHANGED <<arrived, queue, dropped, vanished, stop, proc, lives, thread,
                   closing, stored>>

\* execute_many returns or raises; the finally clause runs either way. It may
\* raise after the commit too: the answer, or conn.commit(), may be lost.
FlushReturns(raised) ==
    /\ Alive
    /\ \/ pc = "applied"
       \/ pc = "flush" /\ raised
    /\ buffer' = <<>>
    /\ tries' = 0
    /\ reported' = IF raised THEN reported \union Rows(buffer) ELSE reported
    /\ IF closing
       THEN pc' = "done" /\ UNCHANGED elapsed
       ELSE pc' = "test" /\ elapsed' = 0
    /\ UNCHANGED <<arrived, queue, dropped, vanished, stop, proc, lives, thread,
                   closing, stored>>

Tick ==
    /\ Alive
    /\ elapsed < FlushInterval
    /\ elapsed' = elapsed + 1
    /\ UNCHANGED <<arrived, queue, dropped, vanished, stop, proc, lives, thread,
                   buffer, pc, closing, tries, stored, reported>>

----------------------------------------------------------------------------
(* The worker process.                                                     *)

\* Variant: stop() joins the thread without setting the event.
StopWithoutEvent ==
    /\ proc = "serving"
    /\ \A t \in Threads : thread[t] = "idle"
    /\ proc' = "stopping"
    /\ UNCHANGED <<arrived, queue, dropped, vanished, stop, lives, thread, writerVars>>

\* The interpreter joins the request threads and then runs the atexit hook.
Stop ==
    /\ proc = "serving"
    /\ \A t \in Threads : thread[t] = "idle"
    /\ proc' = "stopping"
    /\ stop' = TRUE
    /\ UNCHANGED <<arrived, queue, dropped, vanished, lives, thread, writerVars>>

\* The process ends and what it held in memory is gone.
End(how) ==
    /\ proc' = how
    /\ vanished' = vanished \union Rows(Pending)
    /\ queue' = <<>>
    /\ buffer' = <<>>
    /\ thread' = [t \in Threads |-> "idle"]
    /\ UNCHANGED <<arrived, dropped, stop, lives, pc, closing, tries, elapsed,
                   stored, reported>>

JoinReturns == proc = "stopping" /\ pc = "done" /\ End("exited")

\* join(timeout=3) gives up, wherever the thread is by then: in a slow database
\* call, or behind several. The daemon thread dies with the interpreter.
JoinTimeout == proc = "stopping" /\ pc # "done" /\ End("exited")

\* SIGKILL: the master's graceful_timeout, the OOM killer, docker.
Kill == Alive /\ End("killed")

\* The master forks a new worker: module state is built anew.
Respawn ==
    /\ ~Alive
    /\ lives < MaxLives
    /\ lives' = lives + 1
    /\ proc' = "serving"
    /\ stop' = FALSE
    /\ pc' = "test"
    /\ closing' = FALSE
    /\ tries' = 0
    /\ elapsed' = 0
    /\ UNCHANGED <<arrived, queue, buffer, dropped, vanished, thread, stored, reported>>

----------------------------------------------------------------------------
Writer ==
    \/ TestLoop \/ Get \/ GetTimeout \/ TestDue \/ Commit \/ Retry
    \/ \E raised \in BOOLEAN : FlushReturns(raised)

Next ==
    \/ \E t \in Threads : StartTimer(t) \/ WriteAccessLog(t) \/ EndRequest(t)
    \/ Writer \/ Tick
    \/ Stop \/ JoinReturns \/ JoinTimeout \/ Kill \/ Respawn

Spec == Init /\ [][Next]_vars

\* The scheduler runs the writer thread, time passes, execute_many returns or
\* raises (Retry is bounded), and a join whose thread has ended returns.
FairSpec ==
    /\ Spec
    /\ WF_vars(Writer)
    /\ WF_vars(Tick)
    /\ WF_vars(JoinReturns)

----------------------------------------------------------------------------
(* Properties.                                                             *)

\* The variables have their types, the queue stays within max_queue and the
\* local list within batch_size (put_nowait; the flush test after every get).
TypeOK ==
    /\ arrived \in 0..MaxRows
    /\ queue \in Seq(Row) /\ Len(queue) <= QueueSize
    /\ buffer \in Seq(Row) /\ Len(buffer) <= BatchSize
    /\ pc \in {"test", "get", "due", "flush", "applied", "done"}
    /\ closing \in BOOLEAN
    /\ tries \in 0..MaxTries
    /\ stop \in BOOLEAN
    /\ elapsed \in 0..FlushInterval
    /\ stored \in Seq(Seq(Row))
    /\ dropped \subseteq Row /\ reported \subseteq Row /\ vanished \subseteq Row
    /\ proc \in {"serving", "stopping", "exited", "killed"}
    /\ lives \in Nat
    /\ thread \in [Threads -> {"idle", "busy", "alert"}]

\* Every row of s is older than every row of u.
Older(s, u) == \A i \in DOMAIN s, j \in DOMAIN u : s[i] < u[j]

Increasing(s) == \A i, j \in DOMAIN s : i < j => s[i] < s[j]

\* The table holds the requests in the order they ended, over every failure,
\* retry and replacement of the worker: each INSERT is a run of rows newer
\* than all rows before it, or the repetition of the INSERT just before it.
InsertOrder ==
    /\ \A i \in DOMAIN stored : Increasing(stored[i])
    /\ \A i, j \in DOMAIN stored :
          i < j => stored[i] = stored[j] \/ Older(stored[i], stored[j])

\* No row is lost without trace while its process lives: a row that entered
\* put() is in memory, in the table, in the dropped counter or in a warning,
\* or it went down with a process.
Accounted ==
    1..arrived \subseteq Rows(queue) \union Rows(buffer) \union StoredRows
                        \union dropped \union reported \union vanished

\* A worker that stops in order, its writer ended in time, loses no row: the
\* loop drains the queue after the stop event and the last batch is flushed.
DrainedExit ==
    [][proc = "stopping" /\ pc = "done" /\ proc' = "exited" => vanished' = vanished]_vars


\* A row that was accepted does not stay in memory: it reaches the table or a
\* warning, even a single row on an idle site, unless its process ends.
Delivered ==
    \A r \in Row : (r \in Rows(Pending)) ~> (r \in StoredRows \union reported \union vanished)

\* stop() ends: the writer sees the event and leaves its loop.
StopEnds == (proc = "stopping") ~> (proc # "stopping")

\* The path keeps the promise of a best-effort log.
Log == INSTANCE BestEffortLog WITH pending <- Pending
ImplementsLog == Log!Spec
=============================================================================
