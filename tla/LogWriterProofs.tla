--------------------------- MODULE LogWriterProofs ---------------------------
(* Theorems of LogWriter: types, the order of the table, the refinement.   *)
EXTENDS LogWriter, SequenceTheorems, TLAPS

\* The steps of the writer that begin with a batch still to be filled.
Filling == pc \in {"test", "get", "due"}

\* What the writer holds, by the place of _run it is at: after the flush test
\* the local list is below batch_size, and a statement is never empty.
WriterInv ==
    /\ pc \in {"test", "get"} => Len(buffer) < BatchSize
    /\ Alive /\ pc \in {"flush", "applied"} => buffer # <<>>
    /\ Alive /\ pc = "applied" => BatchStored
    /\ pc = "done" => buffer = <<>>
    /\ ~Alive => buffer = <<>> /\ queue = <<>>

\* Rows are older in the table than in the local list, and older there than
\* in the queue; only a batch already sent may be in two of these places.
OrderInv ==
    /\ \A i \in DOMAIN stored : stored[i] # <<>>
    /\ \A i \in DOMAIN stored : \A k \in DOMAIN stored[i] : stored[i][k] <= arrived
    /\ \A k \in DOMAIN buffer : buffer[k] <= arrived
    /\ \A k \in DOMAIN queue : queue[k] <= arrived
    /\ Increasing(buffer)
    /\ Increasing(queue)
    /\ Older(buffer, queue)
    /\ \A i \in DOMAIN stored : Older(stored[i], queue)
    /\ \A i \in DOMAIN stored : Older(stored[i], buffer) \/ (~Filling /\ stored[i] = buffer)
    /\ InsertOrder

IInv == TypeOK /\ WriterInv /\ OrderInv

----------------------------------------------------------------------------
\* One element added to a sequence, and the first one removed.
LEMMA AppendFacts ==
    ASSUME NEW S, NEW s \in Seq(S), NEW x \in S
    PROVE  /\ Append(s, x) \in Seq(S)
           /\ Len(Append(s, x)) = Len(s) + 1
           /\ DOMAIN Append(s, x) = DOMAIN s \union {Len(s) + 1}
           /\ \A k \in DOMAIN s : Append(s, x)[k] = s[k]
           /\ Append(s, x)[Len(s) + 1] = x
    OBVIOUS

LEMMA TailFacts ==
    ASSUME NEW S, NEW s \in Seq(S), s # <<>>
    PROVE  /\ Head(s) \in S
           /\ Head(s) = s[1]
           /\ Tail(s) \in Seq(S)
           /\ Len(Tail(s)) = Len(s) - 1
           /\ DOMAIN Tail(s) = 1..(Len(s) - 1)
           /\ \A k \in DOMAIN Tail(s) : Tail(s)[k] = s[k + 1]
    OBVIOUS

----------------------------------------------------------------------------
\* The types and the bounds of the queue and of the local list (the queue is
\* bounded by max_queue in put(), the list by the flush test of _run).
TypeInv == TypeOK /\ WriterInv

LEMMA TypeInit == Init => TypeInv
<1> SUFFICES ASSUME Init PROVE TypeInv
    OBVIOUS
<1> USE LogWriterAssumption DEF Init
<1>1. TypeOK
    <2>1. queue \in Seq(Row) /\ buffer \in Seq(Row) /\ stored \in Seq(Seq(Row))
        OBVIOUS
    <2>2. thread \in [Threads -> {"idle", "busy", "alert"}]
        OBVIOUS
    <2>3. closing \in BOOLEAN /\ stop \in BOOLEAN
        OBVIOUS
    <2>4. Len(queue) <= QueueSize /\ Len(buffer) <= BatchSize
        OBVIOUS
    <2>5. QED
        BY <2>1, <2>2, <2>3, <2>4 DEF TypeOK
<1>2. WriterInv
    BY DEF WriterInv, Alive
<1>3. QED
    BY <1>1, <1>2 DEF TypeInv

LEMMA TypeStep == TypeInv /\ [Next]_vars => TypeInv'
<1> SUFFICES ASSUME TypeInv, [Next]_vars PROVE TypeInv'
    OBVIOUS
<1> USE LogWriterAssumption DEF TypeInv, TypeOK, WriterInv, Alive, BatchStored
<1>1. ASSUME NEW t \in Threads, StartTimer(t) PROVE TypeInv'
    BY <1>1 DEF StartTimer, writerVars
<1>2. ASSUME NEW t \in Threads, WriteAccessLog(t) PROVE TypeInv'
    <2>1. arrived' \in 0..MaxRows /\ arrived + 1 \in Row
        BY <1>2 DEF WriteAccessLog, Row
    <2>2. /\ queue' \in Seq(Row) /\ Len(queue') <= QueueSize
          /\ dropped' \subseteq Row
        <3>1. PICK row \in Row : Put(row)
            BY <1>2, <2>1 DEF WriteAccessLog
        <3>2. CASE Len(queue) < QueueSize /\ queue' = Append(queue, row) /\ UNCHANGED dropped
            BY <3>2, AppendFacts
        <3>3. CASE Len(queue) = QueueSize /\ dropped' = dropped \union {row} /\ UNCHANGED queue
            BY <3>3
        <3>4. QED
            BY <3>1, <3>2, <3>3 DEF Put
    <2>3. thread' \in [Threads -> {"idle", "busy", "alert"}]
        BY <1>2 DEF WriteAccessLog
    <2>4. QED
        BY <1>2, <2>1, <2>2, <2>3 DEF WriteAccessLog, writerVars
<1>3. ASSUME NEW t \in Threads, EndRequest(t) PROVE TypeInv'
    <2>1. thread' \in [Threads -> {"idle", "busy", "alert"}]
        BY <1>3 DEF EndRequest
    <2>2. UNCHANGED <<arrived, queue, dropped, vanished, stop, proc, lives, writerVars>>
        BY <1>3 DEF EndRequest
    <2>3. QED
        BY <2>1, <2>2 DEF writerVars
<1>4. CASE TestLoop
    <2>1. closing' \in BOOLEAN
        BY <1>4, Zenon DEF TestLoop, Goto
    <2>2. tries' \in 0..MaxTries
        BY <1>4 DEF TestLoop, Goto, Send
    <2>3. \/ pc' = "get"
          \/ pc' = "flush" /\ buffer # <<>>
          \/ pc' = "done" /\ buffer = <<>>
        BY <1>4 DEF TestLoop, Goto, Send
    <2>4. pc = "test" /\ Alive
        BY <1>4 DEF TestLoop
    <2>5. UNCHANGED <<arrived, queue, dropped, vanished, stop, proc, lives, thread,
                      buffer, elapsed, stored, reported>>
        BY <1>4 DEF TestLoop
    <2>6. QED
        BY <2>1, <2>2, <2>3, <2>4, <2>5
<1>5. CASE Get
    <2>1. /\ queue' \in Seq(Row) /\ Len(queue') <= QueueSize
          /\ buffer' \in Seq(Row) /\ Len(buffer') <= BatchSize
        BY <1>5, TailFacts, AppendFacts DEF Get
    <2>2. QED
        BY <1>5, <2>1 DEF Get, Goto
<1>6. CASE GetTimeout
    BY <1>6 DEF GetTimeout, Goto
<1>7. CASE TestDue
    BY <1>7 DEF TestDue, Due, Send
<1>8. CASE Commit
    <2>1. stored' \in Seq(Seq(Row)) /\ stored' # <<>> /\ stored'[Len(stored')] = buffer
        BY <1>8, AppendFacts DEF Commit
    <2>2. QED
        BY <1>8, <2>1 DEF Commit, Goto
<1>9. CASE Retry
    BY <1>9 DEF Retry
<1>10. ASSUME NEW raised \in BOOLEAN, FlushReturns(raised) PROVE TypeInv'
    <2>1. reported' \subseteq Row
        BY <1>10 DEF FlushReturns, Rows
    <2>2. buffer' = <<>> /\ pc' \in {"test", "done"}
        BY <1>10 DEF FlushReturns
    <2>3. QED
        BY <1>10, <2>1, <2>2 DEF FlushReturns
<1>11. CASE Tick
    BY <1>11 DEF Tick
<1>12. CASE Stop
    BY <1>12 DEF Stop, writerVars
<1>13. ASSUME NEW how \in {"exited", "killed"}, End(how) PROVE TypeInv'
    <2>1. Rows(Pending) \subseteq Row
        <3>1. buffer \o queue \in Seq(Row)
            OBVIOUS
        <3>2. QED
            BY <3>1 DEF Rows, Pending
    <2>2. QED
        BY <1>13, <2>1 DEF End
<1>14. CASE Respawn
    <2>1. /\ buffer' = <<>> /\ queue' = <<>>
          /\ UNCHANGED <<arrived, dropped, vanished, thread, stored, reported>>
        BY <1>14 DEF Respawn
    <2>2. /\ pc' = "test" /\ proc' = "serving"
          /\ tries' = 0 /\ elapsed' = 0 /\ lives' \in Nat
        BY <1>14 DEF Respawn
    <2>3. stop' \in BOOLEAN /\ closing' \in BOOLEAN
        BY <1>14 DEF Respawn
    <2>4. TypeOK'
        BY <2>1, <2>2, <2>3
    <2>5. WriterInv'
        BY <2>1, <2>2
    <2>6. QED
        BY <2>4, <2>5
<1>15. CASE UNCHANGED vars
    BY <1>15 DEF vars, writerVars
<1>16. QED
    BY <1>1, <1>2, <1>3, <1>4, <1>5, <1>6, <1>7, <1>8, <1>9, <1>10, <1>11,
       <1>12, <1>13, <1>14, <1>15
       DEF Next, Writer, JoinReturns, JoinTimeout, Kill

\* The variables keep their types and their bounds, for any number of threads
\* and any sizes.
THEOREM TypeCorrect == Spec => []TypeOK
<1>1. TypeInv => TypeOK
    BY DEF TypeInv
<1>2. QED
    BY <1>1, TypeInit, TypeStep, PTL DEF Spec

----------------------------------------------------------------------------
\* Steps that leave the table, the list and the queue alone preserve the order
\* whenever they do not send the writer back to filling a batch already sent.
LEMMA OrderFrame ==
    ASSUME OrderInv,
           UNCHANGED <<arrived, queue, buffer, stored>>,
           Filling' => Filling \/ buffer = <<>>
    PROVE  OrderInv'
<1>1. \A i \in DOMAIN stored :
        Older(stored[i], buffer) \/ (~Filling' /\ stored[i] = buffer)
    BY DEF OrderInv, Older
<1>2. QED
    BY <1>1 DEF OrderInv, Older, Increasing, InsertOrder

\* A row enters the queue: it is newer than every row before it.
LEMMA OrderPut ==
    ASSUME TypeInv, OrderInv, NEW t \in Threads, WriteAccessLog(t)
    PROVE  OrderInv'
<1>1. /\ UNCHANGED <<buffer, stored, pc>>
      /\ arrived' = arrived + 1 /\ arrived \in Nat /\ arrived + 1 \in Row
    BY LogWriterAssumption DEF WriteAccessLog, writerVars, TypeInv, TypeOK, Row
<1>2. /\ \A k \in DOMAIN queue : queue[k] \in Int
      /\ \A k \in DOMAIN buffer : buffer[k] \in Int
      /\ \A i \in DOMAIN stored : \A k \in DOMAIN stored[i] : stored[i][k] \in Int
    BY LogWriterAssumption DEF TypeInv, TypeOK, Row
<1>3. \A n \in Int : n <= arrived => n < arrived + 1 /\ n <= arrived'
    BY <1>1
<1>4. /\ \A i \in DOMAIN stored : \A k \in DOMAIN stored[i] :
            stored[i][k] <= arrived' /\ stored[i][k] < arrived + 1
      /\ \A k \in DOMAIN buffer : buffer[k] <= arrived' /\ buffer[k] < arrived + 1
      /\ \A k \in DOMAIN queue : queue[k] <= arrived' /\ queue[k] < arrived + 1
    BY <1>2, <1>3 DEF OrderInv
<1>5. CASE UNCHANGED queue
    BY <1>1, <1>4, <1>5 DEF OrderInv, Older, Increasing, InsertOrder, Filling
<1>6. CASE queue' = Append(queue, arrived + 1)
    <2>1. /\ DOMAIN queue' = DOMAIN queue \union {Len(queue) + 1}
          /\ \A k \in DOMAIN queue : queue'[k] = queue[k]
          /\ queue'[Len(queue) + 1] = arrived + 1
          /\ DOMAIN queue = 1..Len(queue) /\ Len(queue) \in Nat
        BY <1>1, <1>6, AppendFacts DEF TypeInv, TypeOK
    <2>2. \A k \in DOMAIN queue' : queue'[k] <= arrived'
        BY <1>1, <1>4, <2>1
    <2>3. Increasing(queue')
        BY <1>4, <2>1 DEF OrderInv, Increasing
    <2>4. Older(buffer, queue')
        BY <1>4, <2>1 DEF OrderInv, Older
    <2>5. \A i \in DOMAIN stored : Older(stored[i], queue')
        BY <1>4, <2>1 DEF OrderInv, Older
    <2>6. QED
        BY <1>1, <1>4, <2>2, <2>3, <2>4, <2>5
           DEF OrderInv, InsertOrder, Filling, Older, Increasing
<1>7. QED
    BY <1>5, <1>6 DEF WriteAccessLog, Put

\* A row moves from the queue to the list, which is being filled.
LEMMA OrderGet ==
    ASSUME TypeInv, OrderInv, Get
    PROVE  OrderInv'
<1> USE DEF TypeInv, TypeOK, Row
<1>1. UNCHANGED <<arrived, stored>> /\ Filling /\ Filling'
    BY DEF Get, Goto, Filling
<1>2. /\ queue # <<>> /\ 1 \in DOMAIN queue
      /\ DOMAIN buffer' = DOMAIN buffer \union {Len(buffer) + 1}
      /\ \A k \in DOMAIN buffer : buffer'[k] = buffer[k]
      /\ buffer'[Len(buffer) + 1] = queue[1]
      /\ DOMAIN buffer = 1..Len(buffer)
    BY AppendFacts, TailFacts DEF Get
<1>3. \A k \in DOMAIN queue' : k + 1 \in DOMAIN queue /\ queue'[k] = queue[k + 1] /\ k \in Nat \ {0}
    BY TailFacts DEF Get
<1>4. \A k \in DOMAIN queue' : queue[1] < queue'[k]
    BY <1>2, <1>3 DEF OrderInv, Increasing
<1>5. Increasing(buffer')
    BY <1>2 DEF OrderInv, Increasing, Older
<1>6. Increasing(queue')
    BY <1>3 DEF OrderInv, Increasing
<1>7. Older(buffer', queue')
    BY <1>2, <1>3, <1>4 DEF OrderInv, Older
<1>8. \A i \in DOMAIN stored : Older(stored[i], queue') /\ Older(stored[i], buffer')
    BY <1>1, <1>2, <1>3 DEF OrderInv, Older
<1>9. /\ \A k \in DOMAIN buffer' : buffer'[k] <= arrived
      /\ \A k \in DOMAIN queue' : queue'[k] <= arrived
    BY <1>2, <1>3 DEF OrderInv
<1>10. QED
    BY <1>1, <1>5, <1>6, <1>7, <1>8, <1>9 DEF OrderInv, InsertOrder, Older, Increasing

\* An INSERT commits: its rows are newer than the table, or it is a repetition.
LEMMA OrderCommit ==
    ASSUME TypeInv, OrderInv, Commit
    PROVE  OrderInv'
<1> USE DEF TypeInv, TypeOK, Row
<1>1. /\ UNCHANGED <<arrived, queue, buffer>>
      /\ ~Filling /\ ~Filling'
      /\ buffer # <<>>
    BY DEF Commit, Goto, Filling, WriterInv
<1>2. /\ DOMAIN stored' = DOMAIN stored \union {Len(stored) + 1}
      /\ \A i \in DOMAIN stored : stored'[i] = stored[i]
      /\ stored'[Len(stored) + 1] = buffer
      /\ DOMAIN stored = 1..Len(stored)
    BY AppendFacts DEF Commit
<1>3. \A i \in DOMAIN stored' : i \in DOMAIN stored \/ stored'[i] = buffer
    BY <1>2
<1>4. InsertOrder'
    <2>1. \A i \in DOMAIN stored' : Increasing(stored'[i])
        BY <1>2 DEF OrderInv, InsertOrder
    <2>2. ASSUME NEW i \in DOMAIN stored', NEW j \in DOMAIN stored', i < j
          PROVE  stored'[i] = stored'[j] \/ Older(stored'[i], stored'[j])
        <3>1. i \in DOMAIN stored
            BY <1>2, <2>2
        <3>2. CASE j \in DOMAIN stored
            BY <1>2, <2>2, <3>1, <3>2 DEF OrderInv, InsertOrder
        <3>3. CASE stored'[j] = buffer
            BY <1>2, <3>1, <3>3 DEF OrderInv
        <3>4. QED
            BY <1>3, <3>2, <3>3
    <2>3. QED
        BY <2>1, <2>2 DEF InsertOrder, Increasing, Older
<1>5. /\ \A i \in DOMAIN stored' : stored'[i] # <<>>
      /\ \A i \in DOMAIN stored' : \A k \in DOMAIN stored'[i] : stored'[i][k] <= arrived
    BY <1>1, <1>2 DEF OrderInv
<1>6. \A i \in DOMAIN stored' : Older(stored'[i], queue)
    BY <1>2 DEF OrderInv
<1>7. \A i \in DOMAIN stored' : Older(stored'[i], buffer) \/ stored'[i] = buffer
    BY <1>2 DEF OrderInv
<1>8. QED
    BY <1>1, <1>4, <1>5, <1>6, <1>7 DEF OrderInv, Older, Increasing

\* The list is emptied, and at the end of a process the queue with it.
LEMMA OrderClear ==
    ASSUME TypeInv, OrderInv,
           UNCHANGED <<arrived, stored>>, buffer' = <<>>, queue' \in {queue, <<>>}
    PROVE  OrderInv'
<1>1. DOMAIN buffer' = {} /\ (queue' = queue \/ DOMAIN queue' = {})
    OBVIOUS
<1>2. /\ \A i \in DOMAIN stored : Older(stored[i], buffer') /\ Older(stored[i], queue')
      /\ Older(buffer', queue')
    BY <1>1 DEF OrderInv, Older
<1>3. QED
    BY <1>1, <1>2 DEF OrderInv, InsertOrder, Older, Increasing

LEMMA OrderStep == TypeInv /\ OrderInv /\ [Next]_vars => OrderInv'
<1> SUFFICES ASSUME TypeInv, OrderInv, [Next]_vars PROVE OrderInv'
    OBVIOUS
<1>1. CASE \E t \in Threads : StartTimer(t) \/ EndRequest(t)
    BY <1>1, OrderFrame DEF StartTimer, EndRequest, writerVars, Filling
<1>2. CASE \E t \in Threads : WriteAccessLog(t)
    BY <1>2, OrderPut
<1>3. CASE TestLoop \/ GetTimeout \/ TestDue \/ Retry \/ Tick \/ Stop
    BY <1>3, OrderFrame
       DEF TestLoop, GetTimeout, TestDue, Retry, Tick, Stop, Goto, Send, writerVars, Filling
<1>4. CASE Get
    BY <1>4, OrderGet
<1>5. CASE Commit
    BY <1>5, OrderCommit
<1>6. CASE \E raised \in BOOLEAN : FlushReturns(raised)
    BY <1>6, OrderClear DEF FlushReturns
<1>7. CASE JoinReturns \/ JoinTimeout \/ Kill
    BY <1>7, OrderClear DEF JoinReturns, JoinTimeout, Kill, End
<1>8. CASE Respawn
    BY <1>8, OrderFrame DEF Respawn, TypeInv, WriterInv
<1>9. CASE UNCHANGED vars
    BY <1>9, OrderFrame DEF vars, writerVars, Filling
<1>10. QED
    BY <1>1, <1>2, <1>3, <1>4, <1>5, <1>6, <1>7, <1>8, <1>9 DEF Next, Writer

LEMMA OrderInit == Init => OrderInv
BY DEF Init, OrderInv, Older, Increasing, InsertOrder, Filling

\* Over any run of failures, retries and worker replacements the table holds
\* the rows in arrival order, repetitions of a whole INSERT aside.
THEOREM TableOrdered == Spec => []InsertOrder
<1>1. OrderInv => InsertOrder
    BY DEF OrderInv
<1>2. QED
    BY <1>1, TypeInit, TypeStep, OrderInit, OrderStep, PTL DEF Spec

----------------------------------------------------------------------------
(* The refinement: every step is a step of BestEffortLog or leaves arrived, *)
(* Pending and stored as they are.                                         *)

\* What is newer than the whole table is not its last piece.
LEMMA NewerNotStored ==
    ASSUME NEW st \in Seq(Seq(Row)), st # <<>>,
           NEW b \in Seq(Row), b # <<>>,
           \A i \in DOMAIN st : Older(st[i], b)
    PROVE  st[Len(st)] # b
<1> SUFFICES ASSUME st[Len(st)] = b PROVE FALSE
    OBVIOUS
<1>1. Older(b, b)
    OBVIOUS
<1>2. 1 \in DOMAIN b /\ b[1] \in Int
    BY LogWriterAssumption DEF Row
<1>3. QED
    BY <1>1, <1>2 DEF Older

\* The two ends of a concatenation.
LEMMA ConcatEnds ==
    ASSUME NEW S, NEW s \in Seq(S), NEW u \in Seq(S)
    PROVE  /\ SubSeq(s \o u, 1, Len(s)) = s
           /\ SubSeq(s \o u, Len(s) + 1, Len(s \o u)) = u
           /\ Len(s \o u) = Len(s) + Len(u)
           /\ s \o u \in Seq(S)
    OBVIOUS

LEMMA ConcatAppend ==
    ASSUME NEW S, NEW s \in Seq(S), NEW u \in Seq(S), NEW x \in S
    PROVE  Append(s \o u, x) = s \o Append(u, x)
    OBVIOUS

LEMMA ConcatMove ==
    ASSUME NEW S, NEW s \in Seq(S), NEW u \in Seq(S), u # <<>>
    PROVE  Append(s, Head(u)) \o Tail(u) = s \o u
    OBVIOUS

\* Dropping the oldest n rows, for the n that a flush or the end of a process takes.
LEMMA LosePrefix ==
    ASSUME TypeInv, UNCHANGED <<arrived, stored>>,
           NEW n \in 0..Len(Pending),
           Pending' = SubSeq(Pending, n + 1, Len(Pending))
    PROVE  [Log!Next]_(Log!vars)
<1>1. Pending \in Seq(Row)
    BY ConcatEnds DEF TypeInv, TypeOK, Pending
<1>2. CASE n = 0
    BY <1>1, <1>2 DEF Log!vars
<1>3. CASE n # 0
    BY <1>1, <1>3 DEF Log!Next, Log!Lose, Log!Leave
<1>4. QED
    BY <1>2, <1>3

LEMMA RefineInit == Init => Log!Init
BY DEF Init, Log!Init, Pending, BatchStored

LEMMA RefineStep ==
    ASSUME TypeInv, OrderInv, TypeInv', OrderInv', [Next]_vars
    PROVE  [Log!Next]_(Log!vars)
<1> DEFINE Goal == [Log!Next]_(Log!vars)
<1>0. /\ buffer \in Seq(Row) /\ queue \in Seq(Row) /\ stored \in Seq(Seq(Row))
      /\ arrived \in Nat
    BY DEF TypeInv, TypeOK
<1>1. ASSUME UNCHANGED <<arrived, queue, buffer, stored>> PROVE Goal
    BY <1>1 DEF Log!vars, Pending, BatchStored
<1>2. ASSUME NEW t \in Threads, WriteAccessLog(t) PROVE Goal
    <2>1. UNCHANGED <<buffer, stored>> /\ arrived' = arrived + 1 /\ arrived < MaxRows
          /\ arrived + 1 \in Row
        BY <1>0, <1>2, LogWriterAssumption DEF WriteAccessLog, writerVars, Row
    <2>2. Pending' \in {Append(Pending, arrived + 1), Pending}
        <3>1. BatchStored' = BatchStored
            BY <2>1 DEF BatchStored
        <3>2. queue' = queue \/ queue' = Append(queue, arrived + 1)
            BY <1>2 DEF WriteAccessLog, Put
        <3>3. CASE BatchStored
            BY <3>1, <3>2, <3>3 DEF Pending
        <3>4. CASE ~BatchStored
            <4>1. Pending = buffer \o queue /\ Pending' = buffer \o queue'
                BY <2>1, <3>1, <3>4 DEF Pending
            <4>2. buffer \o Append(queue, arrived + 1) = Append(buffer \o queue, arrived + 1)
                BY <1>0, <2>1, ConcatAppend
            <4>3. QED
                BY <3>2, <4>1, <4>2
        <3>5. QED
            BY <3>3, <3>4
    <2>3. QED
        BY <2>1, <2>2 DEF Log!Next, Log!Arrive
<1>3. CASE Get
    <2>1. UNCHANGED <<arrived, stored>> /\ Filling /\ Filling'
        BY <1>3 DEF Get, Goto, Filling
    <2>2. /\ \A i \in DOMAIN stored : Older(stored[i], buffer) /\ stored[i] # <<>>
          /\ \A i \in DOMAIN stored : Older(stored[i], buffer')
        BY <2>1 DEF OrderInv
    <2>3. buffer' \in Seq(Row) /\ buffer' # <<>>
        BY <1>0, <1>3, TailFacts, AppendFacts DEF Get
    <2>4. ~BatchStored
        BY <1>0, <2>2, NewerNotStored DEF BatchStored
    <2>5. ~BatchStored'
        BY <1>0, <2>1, <2>2, <2>3, NewerNotStored DEF BatchStored
    <2>6. Pending' = Pending
        BY <1>0, <1>3, <2>4, <2>5, ConcatMove DEF Get, Pending
    <2>7. QED
        BY <1>3, <2>6 DEF Get, Log!vars
<1>4. CASE Commit
    <2>1. /\ buffer # <<>> /\ BatchStored'
          /\ stored' = Append(stored, buffer)
          /\ UNCHANGED <<arrived, buffer, queue>>
        BY <1>4 DEF Commit, Goto, TypeInv, WriterInv, Alive
    <2>2. Pending' = queue
        BY <2>1 DEF Pending
    <2>3. CASE BatchStored
        BY <2>1, <2>2, <2>3 DEF Pending, BatchStored, Log!Next, Log!Repeat
    <2>4. CASE ~BatchStored
        <3>1. Pending = buffer \o queue
            BY <2>4 DEF Pending
        <3>2. Len(buffer) \in 1..Len(Pending)
            BY <1>0, <2>1, <3>1, ConcatEnds
        <3>3. /\ SubSeq(Pending, 1, Len(buffer)) = buffer
              /\ SubSeq(Pending, Len(buffer) + 1, Len(Pending)) = queue
            BY <1>0, <3>1, ConcatEnds
        <3>4. Log!Persist(Len(buffer))
            BY <2>1, <2>2, <3>3 DEF Log!Persist, Log!Leave
        <3>5. QED
            BY <3>2, <3>4 DEF Log!Next
    <2>5. QED
        BY <2>3, <2>4
<1>5. ASSUME NEW raised \in BOOLEAN, FlushReturns(raised) PROVE Goal
    <2>1. buffer' = <<>> /\ UNCHANGED <<arrived, stored, queue>>
        BY <1>5 DEF FlushReturns
    <2>2. Pending' = queue
        <3>1. CASE BatchStored'
            BY <2>1, <3>1 DEF Pending
        <3>2. CASE ~BatchStored'
            BY <1>0, <2>1, <3>2 DEF Pending
        <3>3. QED
            BY <3>1, <3>2
    <2>3. PICK n \in 0..Len(Pending) : queue = SubSeq(Pending, n + 1, Len(Pending))
        <3>1. CASE BatchStored
            BY <1>0, <3>1 DEF Pending
        <3>2. CASE ~BatchStored
            <4>1. Len(buffer) \in 0..Len(Pending)
                  /\ queue = SubSeq(Pending, Len(buffer) + 1, Len(Pending))
                BY <1>0, <3>2, ConcatEnds DEF Pending
            <4>2. QED
                BY <4>1
        <3>3. QED
            BY <3>1, <3>2
    <2>4. QED
        BY <2>1, <2>2, <2>3, LosePrefix
<1>6. ASSUME NEW how \in {"exited", "killed"}, End(how) PROVE Goal
    <2>1. buffer' = <<>> /\ queue' = <<>> /\ UNCHANGED <<arrived, stored>>
        BY <1>6 DEF End
    <2>2. Pending' = <<>>
        BY <2>1 DEF Pending
    <2>3. Pending \in Seq(Row)
        BY <1>0, ConcatEnds DEF Pending
    <2>4. Len(Pending) \in 0..Len(Pending)
          /\ <<>> = SubSeq(Pending, Len(Pending) + 1, Len(Pending))
        BY <2>3
    <2>5. QED
        BY <2>1, <2>2, <2>4, LosePrefix
<1>7. CASE \/ \E t \in Threads : StartTimer(t) \/ EndRequest(t)
           \/ TestLoop \/ GetTimeout \/ TestDue \/ Retry \/ Tick \/ Stop \/ Respawn
           \/ UNCHANGED vars
    BY <1>1, <1>7
       DEF StartTimer, EndRequest, TestLoop, GetTimeout, TestDue, Retry, Tick, Stop,
           Respawn, Goto, Send, vars, writerVars
<1>8. QED
    BY <1>2, <1>3, <1>4, <1>5, <1>6, <1>7
       DEF Next, Writer, JoinReturns, JoinTimeout, Kill

\* The worker's path, with its threads, batches, retries, stops and kills, does
\* nothing that a log losing and repeating only from the front would not do.
THEOREM Refinement == Spec => ImplementsLog
<1>1. TypeInv /\ OrderInv /\ [Next]_vars => TypeInv' /\ OrderInv'
    BY TypeStep, OrderStep
<1>2. TypeInv /\ OrderInv /\ TypeInv' /\ OrderInv' /\ [Next]_vars => [Log!Next]_(Log!vars)
    BY RefineStep
<1>3. QED
    BY <1>1, <1>2, TypeInit, OrderInit, RefineInit, PTL DEF Spec, ImplementsLog, Log!Spec

----------------------------------------------------------------------------
\* Once stop() ran no request thread is left to put a row, so that the queue
\* the writer found empty when it left its loop stays empty.
DrainInv ==
    /\ proc = "serving" => ~stop
    /\ Alive /\ stop => \A t \in Threads : thread[t] = "idle"
    /\ Alive /\ closing => stop /\ queue = <<>>
    /\ Alive /\ pc = "done" => closing

LEMMA DrainInit == Init => DrainInv
BY DEF Init, DrainInv, Alive

LEMMA DrainStep == TypeInv /\ DrainInv /\ [Next]_vars => DrainInv'
<1> SUFFICES ASSUME TypeInv, DrainInv, [Next]_vars PROVE DrainInv'
    OBVIOUS
<1> USE DEF DrainInv, Alive
<1>1. CASE \E t \in Threads : StartTimer(t)
    BY <1>1 DEF StartTimer, writerVars, TypeInv, TypeOK
<1>2. CASE \E t \in Threads : WriteAccessLog(t)
    BY <1>2 DEF WriteAccessLog, writerVars
<1>3. CASE \E t \in Threads : EndRequest(t)
    BY <1>3 DEF EndRequest, writerVars, TypeInv, TypeOK
<1>4. CASE TestLoop
    BY <1>4 DEF TestLoop, Goto, Send
<1>5. CASE Get \/ GetTimeout \/ TestDue \/ Commit \/ Retry \/ Tick
    BY <1>5 DEF Get, GetTimeout, TestDue, Commit, Retry, Tick, Goto, Send
<1>6. CASE \E raised \in BOOLEAN : FlushReturns(raised)
    BY <1>6 DEF FlushReturns
<1>7. CASE Stop
    BY <1>7 DEF Stop, writerVars
<1>8. CASE JoinReturns \/ JoinTimeout \/ Kill
    BY <1>8 DEF JoinReturns, JoinTimeout, Kill, End
<1>9. CASE Respawn
    BY <1>9 DEF Respawn
<1>10. CASE UNCHANGED vars
    BY <1>10 DEF vars, writerVars
<1>11. QED
    BY <1>1, <1>2, <1>3, <1>4, <1>5, <1>6, <1>7, <1>8, <1>9, <1>10 DEF Next, Writer

\* A worker whose writer ended within the join of stop() loses no row.
THEOREM DrainedOnExit == Spec => DrainedExit
<1> DEFINE A == proc = "stopping" /\ pc = "done" /\ proc' = "exited" => vanished' = vanished
<1>1. TypeInv /\ DrainInv /\ [Next]_vars => A
    <2> SUFFICES ASSUME TypeInv, DrainInv, [Next]_vars,
                        proc = "stopping", pc = "done", proc' = "exited"
                 PROVE  vanished' = vanished
        OBVIOUS
    <2>1. queue = <<>> /\ buffer = <<>>
        BY DEF DrainInv, Alive, TypeInv, WriterInv
    <2>2. Rows(Pending) = {}
        BY <2>1 DEF Rows, Pending
    <2>3. End("exited")
        BY DEF Next, Writer, StartTimer, WriteAccessLog, EndRequest, TestLoop, Get,
               GetTimeout, TestDue, Commit, Retry, FlushReturns, Tick, Stop, JoinReturns,
               JoinTimeout, Kill, End, Respawn, Alive, vars
    <2>4. QED
        BY <2>2, <2>3 DEF End
<1>2. QED
    BY <1>1, TypeInit, TypeStep, DrainInit, DrainStep, PTL DEF Spec, DrainedExit

----------------------------------------------------------------------------
(* No row is lost without trace.                                           *)

\* The rows of a sequence that grows, moves its head, or is two in one.
LEMMA RowsAppend ==
    ASSUME NEW s \in Seq(Row), NEW x \in Row
    PROVE  Rows(Append(s, x)) = Rows(s) \union {x}
BY AppendFacts DEF Rows

LEMMA RowsHeadTail ==
    ASSUME NEW s \in Seq(Row), s # <<>>
    PROVE  Rows(s) \subseteq {Head(s)} \union Rows(Tail(s))
<1> SUFFICES ASSUME NEW k \in DOMAIN s PROVE s[k] = Head(s) \/ s[k] \in Rows(Tail(s))
    BY DEF Rows
<1>1. CASE k = 1
    BY <1>1, TailFacts
<1>2. CASE k # 1
    <2>1. k - 1 \in DOMAIN Tail(s) /\ Tail(s)[k - 1] = s[k]
        BY <1>2, TailFacts
    <2>2. QED
        BY <2>1 DEF Rows
<1>3. QED
    BY <1>1, <1>2

LEMMA RowsConcat ==
    ASSUME NEW s \in Seq(Row), NEW u \in Seq(Row)
    PROVE  Rows(s) \union Rows(u) \subseteq Rows(s \o u)
<1>1. /\ \A k \in DOMAIN s : k \in DOMAIN (s \o u) /\ (s \o u)[k] = s[k]
      /\ \A k \in DOMAIN u : /\ Len(s) + k \in DOMAIN (s \o u)
                              /\ (s \o u)[Len(s) + k] = u[k]
    OBVIOUS
<1>2. QED
    BY <1>1 DEF Rows

\* The batch that is in the table already is found there.
LEMMA StoredBatch ==
    ASSUME TypeInv, BatchStored
    PROVE  Rows(buffer) \subseteq StoredRows
<1>1. Len(stored) \in DOMAIN stored /\ stored[Len(stored)] = buffer
    BY DEF TypeInv, TypeOK, BatchStored
<1>2. QED
    BY <1>1 DEF StoredRows

\* The places a row may be, and may not leave but for another of them.
Places == Rows(queue) \union Rows(buffer) \union StoredRows
                      \union dropped \union reported \union vanished

LEMMA PlacesStep ==
    ASSUME TypeInv, [Next]_vars
    PROVE  Places \union ((arrived + 1)..arrived') \subseteq Places'
<1> DEFINE Goal == Places \union ((arrived + 1)..arrived') \subseteq Places'
<1>0. /\ buffer \in Seq(Row) /\ queue \in Seq(Row) /\ stored \in Seq(Seq(Row))
      /\ arrived \in Nat
    BY DEF TypeInv, TypeOK
<1>1. ASSUME UNCHANGED <<arrived, queue, buffer, stored, dropped, reported, vanished>>
      PROVE  Goal
    BY <1>0, <1>1 DEF Places, StoredRows, Rows
<1>2. ASSUME NEW t \in Threads, WriteAccessLog(t) PROVE Goal
    <2>1. /\ UNCHANGED <<buffer, stored, reported, vanished>>
          /\ arrived' = arrived + 1 /\ arrived + 1 \in Row
          /\ Put(arrived + 1)
        BY <1>0, <1>2, LogWriterAssumption DEF WriteAccessLog, writerVars, Row
    <2>2. Rows(queue) \union dropped \union {arrived + 1} \subseteq Rows(queue') \union dropped'
        BY <1>0, <2>1, RowsAppend DEF Put
    <2>3. (arrived + 1)..arrived' = {arrived + 1}
        BY <1>0, <2>1
    <2>4. Rows(buffer') = Rows(buffer) /\ StoredRows' = StoredRows
        BY <2>1 DEF Rows, StoredRows
    <2>5. QED
        BY <2>1, <2>2, <2>3, <2>4 DEF Places
<1>3. ASSUME UNCHANGED arrived PROVE (arrived + 1)..arrived' = {}
    BY <1>0, <1>3
<1>4. CASE Get
    <2>1. /\ queue # <<>> /\ queue' = Tail(queue) /\ buffer' = Append(buffer, Head(queue))
          /\ UNCHANGED <<arrived, stored, dropped, reported, vanished>>
        BY <1>4 DEF Get
    <2>2. Head(queue) \in Row
        BY <1>0, <2>1, TailFacts
    <2>3. Rows(queue) \union Rows(buffer) \subseteq Rows(queue') \union Rows(buffer')
        BY <1>0, <2>1, <2>2, RowsAppend, RowsHeadTail
    <2>4. StoredRows' = StoredRows
        BY <2>1 DEF StoredRows, Rows
    <2>5. QED
        BY <1>3, <2>1, <2>3, <2>4 DEF Places
<1>5. CASE Commit
    <2>1. /\ stored' = Append(stored, buffer)
          /\ UNCHANGED <<arrived, queue, buffer, dropped, reported, vanished>>
        BY <1>5 DEF Commit
    <2>2. \A i \in DOMAIN stored : i \in DOMAIN stored' /\ stored'[i] = stored[i]
        BY <1>0, <2>1, AppendFacts
    <2>3. StoredRows \subseteq StoredRows'
        BY <2>2 DEF StoredRows, Rows
    <2>4. Rows(queue') = Rows(queue) /\ Rows(buffer') = Rows(buffer)
        BY <2>1
    <2>5. QED
        BY <1>3, <2>1, <2>3, <2>4 DEF Places
<1>6. ASSUME NEW raised \in BOOLEAN, FlushReturns(raised) PROVE Goal
    <2>1. UNCHANGED <<arrived, queue, stored, dropped, vanished>>
        BY <1>6 DEF FlushReturns
    <2>2. reported \subseteq reported' /\ Rows(buffer) \subseteq StoredRows \union reported'
        <3>1. CASE raised
            BY <1>6, <3>1 DEF FlushReturns
        <3>2. CASE ~raised
            <4>1. BatchStored /\ reported' = reported
                BY <1>6, <3>2 DEF FlushReturns, TypeInv, WriterInv
            <4>2. QED
                BY <4>1, StoredBatch
        <3>3. QED
            BY <3>1, <3>2
    <2>3. Rows(queue') = Rows(queue) /\ StoredRows' = StoredRows
        BY <2>1 DEF StoredRows, Rows
    <2>4. QED
        BY <1>3, <2>1, <2>2, <2>3 DEF Places
<1>7. ASSUME NEW how \in {"exited", "killed"}, End(how) PROVE Goal
    <2>1. /\ UNCHANGED <<arrived, stored, dropped, reported>>
          /\ vanished' = vanished \union Rows(Pending)
        BY <1>7 DEF End
    <2>2. Rows(queue) \union Rows(buffer) \subseteq Rows(Pending) \union StoredRows
        <3>1. CASE BatchStored
            BY <3>1, StoredBatch DEF Pending
        <3>2. CASE ~BatchStored
            BY <1>0, <3>2, RowsConcat DEF Pending
        <3>3. QED
            BY <3>1, <3>2
    <2>3. StoredRows' = StoredRows
        BY <2>1 DEF StoredRows, Rows
    <2>4. QED
        BY <1>3, <2>1, <2>2, <2>3 DEF Places
<1>8. CASE \/ \E t \in Threads : StartTimer(t) \/ EndRequest(t)
           \/ TestLoop \/ GetTimeout \/ TestDue \/ Retry \/ Tick \/ Stop \/ Respawn
           \/ UNCHANGED vars
    BY <1>1, <1>8
       DEF StartTimer, EndRequest, TestLoop, GetTimeout, TestDue, Retry, Tick, Stop,
           Respawn, Goto, Send, vars, writerVars
<1>9. QED
    BY <1>2, <1>4, <1>5, <1>6, <1>7, <1>8
       DEF Next, Writer, JoinReturns, JoinTimeout, Kill

\* A row that entered put() (logging_mw.py) stays in memory, or is in the table,
\* the dropped counter or a warning, or went down with its process, over any
\* retry, error, stop and kill, for any sizes.
THEOREM NoTracelessLoss == Spec => []Accounted
<1>1. Init => Accounted
    BY DEF Init, Accounted
<1>2. TypeInv /\ Accounted /\ [Next]_vars => Accounted'
    <2> SUFFICES ASSUME TypeInv, Accounted, [Next]_vars PROVE Accounted'
        OBVIOUS
    <2>1. arrived \in Nat /\ arrived' \in Nat
        BY TypeStep DEF TypeInv, TypeOK
    <2>2. 1..arrived' \subseteq 1..arrived \union ((arrived + 1)..arrived')
        BY <2>1
    <2>3. QED
        BY <2>2, PlacesStep DEF Accounted, Places
<1>3. QED
    BY <1>1, <1>2, TypeInit, TypeStep, PTL DEF Spec

----------------------------------------------------------------------------
(* What Delivered and StopEnds rest on besides fairness: every step of the *)
(* writer brings the oldest row nearer to its end, and after stop() the    *)
(* writer nearer to the end of _run.                                       *)

\* How far the oldest pending row is from the table: is another batch before
\* it, how many rows may still join its own, how long may it still wait, and
\* how many steps of _run are there to its INSERT.
Stage == IF BatchStored THEN 1 ELSE 0
Room == BatchSize - Len(buffer)
Wait == FlushInterval - elapsed

SendsLeft == 2 * (MaxTries - tries) + (IF pc = "flush" THEN 2 ELSE 1)

StepsLeft ==
    CASE pc = "done" -> 0
      [] pc \in {"flush", "applied"} -> SendsLeft
      [] pc = "due" /\ Due -> 2 * MaxTries + 3
      [] pc = "get" -> 2 * MaxTries + 4
      [] pc = "test" -> 2 * MaxTries + 5
      [] pc = "due" /\ ~Due -> 2 * MaxTries + 6

Nearer ==
    \/ Stage' < Stage
    \/ Stage' = Stage /\ Room' < Room
    \/ UNCHANGED <<Stage, Room>> /\ Wait' < Wait
    \/ UNCHANGED <<Stage, Room, Wait>> /\ StepsLeft' < StepsLeft

\* The oldest pending row is in the table or in a warning, or still the oldest.
Served == Head(Pending) \in StoredRows' \union reported'
KeepsHead == Pending' # <<>> /\ Head(Pending') = Head(Pending)

\* The distance is bounded, and while a row waits the writer has not ended.
HeadWaits ==
    /\ Stage \in 0..1 /\ Room \in 0..BatchSize /\ Wait \in 0..FlushInterval
    /\ StepsLeft \in 0..(2 * MaxTries + 6)
    /\ Pending # <<>> => Alive /\ pc # "done"

\* As long as the process lives every step of the writer and of the clock serves
\* the row or brings it nearer, and no other step takes it farther.
HeadAdvances ==
    Pending # <<>> /\ Alive' =>
        \/ Served
        \/ KeepsHead /\ Nearer
        \/ KeepsHead /\ UNCHANGED <<Stage, Room, Wait, StepsLeft>> /\ ~(Writer \/ Tick)

LEMMA FillingNotStored ==
    ASSUME TypeInv, OrderInv, Filling \/ buffer = <<>>
    PROVE  ~BatchStored
<1>1. stored \in Seq(Seq(Row)) /\ buffer \in Seq(Row)
    BY DEF TypeInv, TypeOK
<1>2. CASE stored = <<>>
    BY <1>2 DEF BatchStored
<1>3. CASE stored # <<>> /\ buffer = <<>>
    <2>1. Len(stored) \in DOMAIN stored
        BY <1>1, <1>3
    <2> QED
        BY <1>3, <2>1 DEF BatchStored, OrderInv
<1>4. CASE stored # <<>> /\ buffer # <<>>
    <2>1. \A i \in DOMAIN stored : Older(stored[i], buffer)
        BY <1>4 DEF OrderInv
    <2> QED
        BY <1>1, <1>4, <2>1, NewerNotStored DEF BatchStored
<1> QED
    BY <1>2, <1>3, <1>4

\* The same of the state after a step.
LEMMA FillingNotStoredAfter ==
    ASSUME TypeInv', OrderInv', (Filling \/ buffer = <<>>)'
    PROVE  ~BatchStored'
<1>1. stored' \in Seq(Seq(Row)) /\ buffer' \in Seq(Row)
    BY DEF TypeInv, TypeOK
<1>2. CASE stored' = <<>>
    BY <1>2 DEF BatchStored
<1>3. CASE stored' # <<>> /\ buffer' = <<>>
    <2>1. Len(stored') \in DOMAIN stored'
        BY <1>1, <1>3
    <2> QED
        BY <1>3, <2>1 DEF BatchStored, OrderInv
<1>4. CASE stored' # <<>> /\ buffer' # <<>>
    <2>1. \A i \in DOMAIN stored' : Older(stored'[i], buffer')
        BY <1>4 DEF OrderInv
    <2> QED
        BY <1>1, <1>4, <2>1, NewerNotStored DEF BatchStored
<1> QED
    BY <1>2, <1>3, <1>4

\* The head of what is pending.
LEMMA HeadOfPending ==
    ASSUME TypeInv, Pending # <<>>
    PROVE  /\ queue \in Seq(Row) /\ buffer \in Seq(Row) /\ stored \in Seq(Seq(Row))
           /\ Alive
           /\ ~BatchStored /\ buffer # <<>> => Head(Pending) = Head(buffer)
<1>1. queue \in Seq(Row) /\ buffer \in Seq(Row) /\ stored \in Seq(Seq(Row))
    BY DEF TypeInv, TypeOK
<1>2. Alive
    <2> SUFFICES ASSUME ~Alive PROVE Pending = <<>>
        OBVIOUS
    <2>1. queue = <<>> /\ buffer = <<>>
        BY DEF TypeInv, WriterInv
    <2>2. <<>> \o <<>> = <<>>
        OBVIOUS
    <2> QED
        BY <2>1, <2>2 DEF Pending
<1>3. ASSUME ~BatchStored, buffer # <<>> PROVE Head(Pending) = Head(buffer)
    <2>1. Head(buffer \o queue) = Head(buffer)
        BY <1>1, <1>3
    <2> QED
        BY <1>3, <2>1 DEF Pending
<1> QED
    BY <1>1, <1>2, <1>3

LEMMA HeadWaitsNow == TypeInv /\ OrderInv /\ DrainInv => HeadWaits
<1> SUFFICES ASSUME TypeInv, OrderInv, DrainInv PROVE HeadWaits
    OBVIOUS
<1> USE LogWriterAssumption
<1>1. TypeOK
    BY DEF TypeInv
<1>2. Stage \in 0..1 /\ Room \in 0..BatchSize /\ Wait \in 0..FlushInterval
    BY <1>1 DEF Stage, Room, Wait, TypeOK
<1>3. StepsLeft \in 0..(2 * MaxTries + 6)
    <2>1. SendsLeft \in 1..(2 * MaxTries + 2)
        BY <1>1 DEF SendsLeft, TypeOK
    <2>2. StepsLeft \in {0, SendsLeft, 2 * MaxTries + 3, 2 * MaxTries + 4,
                        2 * MaxTries + 5, 2 * MaxTries + 6}
        BY <1>1 DEF StepsLeft, TypeOK
    <2> QED
        BY <2>1, <2>2
<1>4. ASSUME Pending # <<>> PROVE Alive /\ pc # "done"
    <2>1. Alive
        BY <1>4, HeadOfPending
    <2>2. ASSUME pc = "done" PROVE FALSE
        <3>1. queue = <<>> /\ buffer = <<>>
            BY <2>1, <2>2 DEF DrainInv, TypeInv, WriterInv
        <3>2. <<>> \o <<>> = <<>>
            OBVIOUS
        <3> QED
            BY <1>4, <3>1, <3>2 DEF Pending
    <2> QED
        BY <2>1, <2>2
<1> QED
    BY <1>2, <1>3, <1>4 DEF HeadWaits

LEMMA HeadStep ==
    ASSUME TypeInv, OrderInv, TypeInv', OrderInv', [Next]_vars
    PROVE  HeadAdvances
<1> SUFFICES ASSUME Pending # <<>>, Alive'
             PROVE  \/ Served
                    \/ KeepsHead /\ Nearer
                    \/ /\ KeepsHead /\ UNCHANGED <<Stage, Room, Wait, StepsLeft>>
                       /\ ~(Writer \/ Tick)
    BY DEF HeadAdvances
<1> USE LogWriterAssumption
<1>0. /\ TypeOK /\ WriterInv /\ Alive
      /\ queue \in Seq(Row) /\ buffer \in Seq(Row) /\ stored \in Seq(Seq(Row))
      /\ ~BatchStored /\ buffer # <<>> => Head(Pending) = Head(buffer)
    BY HeadOfPending DEF TypeInv
<1>1. ASSUME UNCHANGED <<buffer, queue, stored>>
      PROVE  KeepsHead /\ UNCHANGED <<Stage, Room>>
    BY <1>1 DEF KeepsHead, Pending, Stage, Room, BatchStored
<1>2. CASE TestLoop
    <2>1. KeepsHead /\ UNCHANGED <<Stage, Room>> /\ UNCHANGED Wait
        BY <1>1, <1>2 DEF TestLoop, Wait
    <2>2. pc = "test" /\ (pc' = "get" \/ (pc' = "flush" /\ tries' = 1) \/ pc' = "done")
        BY <1>2 DEF TestLoop, Goto, Send
    <2>3. StepsLeft = 2 * MaxTries + 5
        BY <2>2 DEF StepsLeft
    <2>4. StepsLeft' \in {0, 2 * (MaxTries - 1) + 2, 2 * MaxTries + 4}
        BY <2>2 DEF StepsLeft, SendsLeft
    <2>5. StepsLeft' < StepsLeft
        BY <2>3, <2>4
    <2> QED
        BY <2>1, <2>5 DEF Nearer
<1>3. CASE Get
    <2>1. ~BatchStored /\ ~BatchStored'
        BY <1>3, FillingNotStored, FillingNotStoredAfter DEF Get, Goto, Filling
    <2>2. Pending' = Pending
        BY <1>0, <1>3, <2>1, ConcatMove DEF Get, Pending
    <2>3. Room' < Room
        BY <1>0, <1>3 DEF Get, Room
    <2> QED
        BY <2>1, <2>2, <2>3 DEF KeepsHead, Nearer, Stage
<1>4. CASE GetTimeout
    <2>1. KeepsHead /\ UNCHANGED <<Stage, Room>> /\ UNCHANGED Wait
        BY <1>1, <1>4 DEF GetTimeout, Wait
    <2>2. buffer # <<>>
        <3>1. ~BatchStored
            BY <1>4, FillingNotStored DEF GetTimeout, Filling
        <3>2. <<>> \o <<>> = <<>>
            OBVIOUS
        <3> QED
            BY <1>4, <3>1, <3>2 DEF GetTimeout, Pending
    <2>3. Due' /\ pc' = "due" /\ pc = "get"
        BY <1>4, <2>2 DEF GetTimeout, Goto, Due
    <2>4. StepsLeft' < StepsLeft
        BY <2>3 DEF StepsLeft
    <2> QED
        BY <2>1, <2>4 DEF Nearer
<1>5. CASE TestDue
    <2>1. KeepsHead /\ UNCHANGED <<Stage, Room>> /\ UNCHANGED Wait
        BY <1>1, <1>5 DEF TestDue, Wait
    <2>2. StepsLeft' < StepsLeft
        BY <1>0, <1>5 DEF TestDue, Send, StepsLeft, SendsLeft, TypeOK
    <2> QED
        BY <2>1, <2>2 DEF Nearer
<1>6. CASE Commit
    <2>1. /\ stored' = Append(stored, buffer) /\ UNCHANGED <<buffer, queue, elapsed, tries>>
          /\ pc = "flush" /\ pc' = "applied" /\ buffer # <<>>
        BY <1>0, <1>6 DEF Commit, Goto, WriterInv
    <2>2. Len(stored) + 1 \in DOMAIN stored' /\ stored'[Len(stored) + 1] = buffer
        BY <1>0, <2>1, AppendFacts
    <2>3. CASE BatchStored
        <3>1. BatchStored'
            BY <1>0, <2>1, AppendFacts DEF BatchStored
        <3>2. KeepsHead /\ UNCHANGED <<Stage, Room, Wait>>
            BY <2>1, <2>3, <3>1 DEF KeepsHead, Pending, Stage, Room, Wait
        <3>3. StepsLeft' < StepsLeft
            BY <1>0, <2>1 DEF StepsLeft, SendsLeft, TypeOK
        <3> QED
            BY <3>2, <3>3 DEF Nearer
    <2>4. CASE ~BatchStored
        <3>1. Head(Pending) = buffer[1] /\ 1 \in DOMAIN buffer
            BY <1>0, <2>1, <2>4
        <3>2. Head(Pending) \in StoredRows'
            BY <2>2, <3>1 DEF StoredRows, Rows
        <3> QED
            BY <3>2 DEF Served
    <2> QED
        BY <2>3, <2>4
<1>7. CASE Retry
    <2>1. KeepsHead /\ UNCHANGED <<Stage, Room>> /\ UNCHANGED Wait
        BY <1>1, <1>7 DEF Retry, Wait
    <2>2. StepsLeft' < StepsLeft
        BY <1>0, <1>7 DEF Retry, StepsLeft, SendsLeft, TypeOK
    <2> QED
        BY <2>1, <2>2 DEF Nearer
<1>8. ASSUME NEW raised \in BOOLEAN, FlushReturns(raised)
      PROVE  Served \/ (KeepsHead /\ Nearer)
    <2>1. buffer' = <<>> /\ UNCHANGED <<queue, stored>>
        BY <1>8 DEF FlushReturns
    <2>2. CASE BatchStored
        <3>1. ~BatchStored'
            BY <2>1, FillingNotStoredAfter
        <3>2. Pending = queue /\ Pending' = <<>> \o queue
            BY <2>1, <2>2, <3>1 DEF Pending
        <3>3. <<>> \o queue = queue
            BY <1>0
        <3>4. Stage' < Stage
            BY <2>2, <3>1 DEF Stage
        <3> QED
            BY <3>2, <3>3, <3>4 DEF KeepsHead, Nearer
    <2>3. CASE ~BatchStored
        <3>1. pc = "flush" /\ raised /\ buffer # <<>>
            BY <1>0, <1>8, <2>3 DEF FlushReturns, WriterInv
        <3>2. reported' = reported \union Rows(buffer)
            BY <1>8, <3>1 DEF FlushReturns
        <3>3. Head(Pending) = buffer[1] /\ 1 \in DOMAIN buffer
            BY <1>0, <2>3, <3>1
        <3> QED
            BY <3>2, <3>3 DEF Served, Rows
    <2> QED
        BY <2>2, <2>3
<1>9. CASE Tick
    <2>1. KeepsHead /\ UNCHANGED <<Stage, Room>>
        BY <1>1, <1>9 DEF Tick
    <2>2. Wait' < Wait
        BY <1>0, <1>9 DEF Tick, Wait, TypeOK
    <2> QED
        BY <2>1, <2>2 DEF Nearer
<1>10. CASE ~(Writer \/ Tick)
    <2>1. UNCHANGED writerVars
        BY <1>0, <1>10 DEF Next, StartTimer, WriteAccessLog, EndRequest, Stop, JoinReturns,
           JoinTimeout, Kill, End, Respawn, Alive, vars
    <2>2. UNCHANGED <<Stage, Room, Wait, StepsLeft>>
        BY <2>1 DEF writerVars, Stage, BatchStored, Room, Wait, StepsLeft, SendsLeft, Due
    <2>3. KeepsHead
        <3>1. CASE queue' = queue
            BY <1>1, <2>1, <3>1 DEF writerVars
        <3>2. CASE \E row \in Row : queue' = Append(queue, row)
            <4>1. PICK row \in Row : queue' = Append(queue, row)
                BY <3>2
            <4>2. Pending \in Seq(Row)
                BY <1>0, ConcatEnds DEF Pending
            <4>3. buffer' = buffer /\ (BatchStored' <=> BatchStored)
                BY <2>1 DEF BatchStored, writerVars
            <4>4. buffer \o Append(queue, row) = Append(buffer \o queue, row)
                BY <1>0, <4>1, ConcatAppend
            <4>5. Pending' = Append(Pending, row)
                BY <4>1, <4>3, <4>4 DEF Pending
            <4> QED
                BY <4>2, <4>5 DEF KeepsHead
        <3>3. queue' = queue \/ \E row \in Row : queue' = Append(queue, row)
            BY <1>0, <1>10 DEF Next, StartTimer, WriteAccessLog, Put, EndRequest, Stop,
               JoinReturns, JoinTimeout, Kill, End, Respawn, Alive, vars, Row, TypeOK
        <3> QED
            BY <3>1, <3>2, <3>3
    <2> QED
        BY <1>10, <2>2, <2>3
<1> QED
    BY <1>2, <1>3, <1>4, <1>5, <1>6, <1>7, <1>8, <1>9, <1>10 DEF Writer

\* The half of Delivered that is no liveness: while a row waits the writer has
\* not ended, and each of its steps brings the oldest row to the table or to a
\* warning or lowers a bounded distance from there, whatever errors, retries and
\* new rows come in between (_run, flush).
THEOREM RowsComeNearer == Spec => []HeadWaits /\ [][HeadAdvances]_vars
<1> DEFINE I == TypeInv /\ OrderInv /\ DrainInv
<1>1. Init => I
    BY TypeInit, OrderInit, DrainInit
<1>2. I /\ [Next]_vars => I'
    BY TypeStep, OrderStep, DrainStep
<1>3. I => HeadWaits
    BY HeadWaitsNow
<1>4. I /\ I' /\ [Next]_vars => HeadAdvances
    BY HeadStep
<1> HIDE DEF I
<1> QED
    BY <1>1, <1>2, <1>3, <1>4, PTL DEF Spec

\* How far the writer is from its end once nothing is put any more.
ExitSteps ==
    CASE pc = "done" -> 0
      [] pc \in {"flush", "applied"} /\ closing -> SendsLeft
      [] pc = "get" /\ queue # <<>> -> 2 * MaxTries + 3
      [] pc = "test" -> 2 * MaxTries + 4
      [] pc \in {"flush", "applied"} /\ ~closing -> 2 * MaxTries + 4 + SendsLeft
      [] pc = "due" -> 4 * MaxTries + 7
      [] pc = "get" /\ queue = <<>> -> 4 * MaxTries + 8

ExitBounded ==
    /\ ExitSteps \in 0..(4 * MaxTries + 8)
    /\ ExitSteps = 0 <=> pc = "done"

NearerExit ==
    \/ Len(queue') < Len(queue)
    \/ queue' = queue /\ ExitSteps' < ExitSteps

\* After stop() the queue only shrinks, and every step of the writer shortens it
\* or lowers the steps that are left.
ExitAdvances ==
    stop /\ Alive /\ Alive' =>
        NearerExit \/ (UNCHANGED <<queue, ExitSteps>> /\ ~Writer)

LEMMA SendsBounded == TypeOK => SendsLeft \in 1..(2 * MaxTries + 2)
BY LogWriterAssumption DEF TypeOK, SendsLeft

LEMMA ExitIsBounded == TypeOK => ExitBounded
<1> SUFFICES ASSUME TypeOK PROVE ExitBounded
    OBVIOUS
<1>1. SendsLeft \in 1..(2 * MaxTries + 2) /\ MaxTries \in Nat
    BY SendsBounded, LogWriterAssumption
<1>2. pc \in {"test", "get", "due", "flush", "applied", "done"} /\ closing \in BOOLEAN
    BY DEF TypeOK
<1>3. CASE pc = "done"
    BY <1>1, <1>3 DEF ExitSteps, ExitBounded
<1>4. CASE pc # "done"
    <2>1. ExitSteps \in {SendsLeft, 2 * MaxTries + 3, 2 * MaxTries + 4,
                        2 * MaxTries + 4 + SendsLeft, 4 * MaxTries + 7, 4 * MaxTries + 8}
        BY <1>2, <1>4 DEF ExitSteps
    <2>2. ExitSteps \in 1..(4 * MaxTries + 8)
        BY <1>1, <2>1
    <2> QED
        BY <1>4, <2>2 DEF ExitBounded
<1> QED
    BY <1>3, <1>4

LEMMA ExitStep ==
    ASSUME TypeInv, DrainInv, TypeInv', [Next]_vars
    PROVE  ExitAdvances
<1> SUFFICES ASSUME stop, Alive, Alive'
             PROVE  NearerExit \/ (UNCHANGED <<queue, ExitSteps>> /\ ~Writer)
    BY DEF ExitAdvances
<1> USE LogWriterAssumption
<1>0. /\ TypeOK /\ queue \in Seq(Row)
      /\ SendsLeft \in 1..(2 * MaxTries + 2) /\ SendsLeft' \in 1..(2 * MaxTries + 2)
    <2>1. TypeOK /\ TypeOK'
        BY DEF TypeInv
    <2>2. queue \in Seq(Row)
        BY <2>1 DEF TypeOK
    <2>3. tries' \in 0..MaxTries /\ MaxTries \in Nat
        BY <2>1 DEF TypeOK
    <2>4. \/ SendsLeft' = 2 * (MaxTries - tries') + 2
          \/ SendsLeft' = 2 * (MaxTries - tries') + 1
        BY DEF SendsLeft
    <2>5. SendsLeft' \in 1..(2 * MaxTries + 2)
        BY <2>3, <2>4
    <2> QED
        BY <2>1, <2>2, <2>5, SendsBounded
<1>1. CASE TestLoop
    <2>1. queue' = queue /\ pc = "test"
        BY <1>1 DEF TestLoop
    <2>2. \/ pc' = "get" /\ queue # <<>>
          \/ pc' = "flush" /\ closing' /\ tries' = 1
          \/ pc' = "done"
        BY <1>1 DEF TestLoop, Goto, Send
    <2>3. pc' = "flush" /\ tries' = 1 => SendsLeft' = 2 * (MaxTries - 1) + 2
        BY DEF SendsLeft
    <2>4. ExitSteps' < ExitSteps
        BY <2>1, <2>2, <2>3 DEF ExitSteps
    <2> QED
        BY <2>1, <2>4 DEF NearerExit
<1>2. CASE Get
    <2>1. Len(queue') < Len(queue)
        BY <1>0, <1>2, TailFacts DEF Get
    <2> QED
        BY <2>1 DEF NearerExit
<1>3. CASE GetTimeout
    BY <1>3 DEF GetTimeout, Goto, NearerExit, ExitSteps
<1>4. CASE TestDue
    <2>1. queue' = queue /\ pc = "due" /\ closing' = closing
        BY <1>4 DEF TestDue
    <2>2. pc' = "test" \/ pc' = "flush"
        BY <1>4 DEF TestDue, Send
    <2>3. ExitSteps' < ExitSteps
        BY <1>0, <2>1, <2>2 DEF ExitSteps
    <2> QED
        BY <2>1, <2>3 DEF NearerExit
<1>5. CASE Commit \/ Retry
    <2>1. /\ queue' = queue /\ closing' = closing
          /\ pc \in {"flush", "applied"} /\ pc' \in {"flush", "applied"}
        BY <1>5 DEF Commit, Retry, Goto
    <2>2. SendsLeft' < SendsLeft
        <3>1. tries \in 0..MaxTries /\ MaxTries \in Nat
            BY <1>0 DEF TypeOK
        <3>2. CASE Commit
            <4>1. tries' = tries /\ pc = "flush" /\ pc' = "applied"
                BY <3>2 DEF Commit, Goto
            <4> QED
                BY <3>1, <4>1 DEF SendsLeft
        <3>3. CASE Retry
            <4>1. tries < MaxTries /\ tries' = tries + 1 /\ pc' = "flush"
                BY <3>3 DEF Retry
            <4>2. SendsLeft' = 2 * (MaxTries - (tries + 1)) + 2
                BY <4>1 DEF SendsLeft
            <4>3. SendsLeft >= 2 * (MaxTries - tries) + 1
                BY <3>1 DEF SendsLeft
            <4> QED
                BY <1>0, <3>1, <4>2, <4>3
        <3> QED
            BY <1>5, <3>2, <3>3
    <2>3. ExitSteps' < ExitSteps
        <3>1. closing \in BOOLEAN
            BY <1>0 DEF TypeOK
        <3> QED
            BY <1>0, <2>1, <2>2, <3>1 DEF ExitSteps
    <2> QED
        BY <2>1, <2>3 DEF NearerExit
<1>6. ASSUME NEW raised \in BOOLEAN, FlushReturns(raised) PROVE NearerExit
    <2>1. /\ queue' = queue /\ pc \in {"flush", "applied"}
          /\ IF closing THEN pc' = "done" ELSE pc' = "test"
        BY <1>6 DEF FlushReturns
    <2>2. ExitSteps' < ExitSteps
        BY <1>0, <2>1 DEF ExitSteps
    <2> QED
        BY <2>1, <2>2 DEF NearerExit
<1>7. CASE ~Writer
    <2>1. queue' = queue
        BY <1>7 DEF DrainInv, Alive, Next, StartTimer, WriteAccessLog, EndRequest, Tick,
           Stop, JoinReturns, JoinTimeout, Kill, End, Respawn, vars
    <2>2. UNCHANGED <<pc, closing, tries>>
        BY <1>7 DEF Alive, Next, StartTimer, WriteAccessLog, EndRequest, Tick,
           Stop, JoinReturns, JoinTimeout, Kill, End, Respawn, vars, writerVars
    <2>3. UNCHANGED ExitSteps
        BY <2>1, <2>2 DEF ExitSteps, SendsLeft
    <2> QED
        BY <1>7, <2>1, <2>3
<1> QED
    BY <1>1, <1>2, <1>3, <1>4, <1>5, <1>6, <1>7 DEF Writer

\* The half of StopEnds that is no liveness: after stop() every step of the writer
\* shortens the queue or lowers a bounded number of steps to the end of _run, and
\* no other step raises either (stop, _run).
THEOREM StopComesNearer == Spec => []ExitBounded /\ [][ExitAdvances]_vars
<1> DEFINE I == TypeInv /\ DrainInv
<1>1. Init => I
    BY TypeInit, DrainInit
<1>2. I /\ [Next]_vars => I'
    BY TypeStep, DrainStep
<1>3. I => ExitBounded
    BY ExitIsBounded DEF TypeInv
<1>4. I /\ I' /\ [Next]_vars => ExitAdvances
    BY ExitStep
<1> HIDE DEF I
<1> QED
    BY <1>1, <1>2, <1>3, <1>4, PTL DEF Spec
=============================================================================
