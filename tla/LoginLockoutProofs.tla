------------------------- MODULE LoginLockoutProofs -------------------------
(* Theorems of LoginLockout: the bound on overlapping guesses.             *)
EXTENDS LoginLockout, FiniteSetTheorems, TLAPS

\* The table is finite and a failed password is recorded with success=0.
TableInv ==
    /\ IsFiniteSet(attempts)
    /\ \A a \in attempts : a.reason = "failed" => ~a.success

Inv == TypeOK /\ TableInv

\* The row a handler inserts.
NewAttempt(r, success, reason) ==
    [id |-> nextId, ip |-> r.ip, user |-> r.user, success |-> success,
     reason |-> reason, ts |-> now]

----------------------------------------------------------------------------
LEMMA InvInit == Init => Inv
<1> SUFFICES ASSUME Init PROVE Inv
    OBVIOUS
<1> USE LockoutAssumption DEF Init
<1>1. attempts \subseteq Attempt /\ IsFiniteSet(attempts)
    BY FS_EmptySet
<1>2. req \in [Handlers -> Request]
    BY DEF Request
<1>3. QED
    BY <1>1, <1>2 DEF Inv, TypeOK, TableInv

\* An attempt is recorded, or its INSERT failed.
LEMMA RecordKeepsTable ==
    ASSUME Inv, UNCHANGED now, NEW r \in Request,
           NEW success \in BOOLEAN, NEW reason \in Verdict \union {"locked"},
           reason = "failed" => ~success,
           RecordAttempt(r, success, reason)
    PROVE  /\ attempts' \subseteq Attempt
           /\ \A a \in attempts' : a.id < nextId' /\ a.ts <= now'
           /\ nextId' \in Nat \ {0}
           /\ TableInv'
           /\ attempts' \subseteq attempts \union {NewAttempt(r, success, reason)}
<1> USE DEF Inv, TypeOK, TableInv
<1>1. CASE UNCHANGED <<attempts, nextId>>
    BY <1>1
<1>2. CASE /\ attempts' = attempts \union {NewAttempt(r, success, reason)}
           /\ nextId' = nextId + 1
    <2>1. NewAttempt(r, success, reason) \in Attempt
        BY DEF NewAttempt, Attempt, Request
    <2>2. /\ NewAttempt(r, success, reason).id = nextId
          /\ NewAttempt(r, success, reason).ts = now
          /\ NewAttempt(r, success, reason).reason = reason
          /\ NewAttempt(r, success, reason).success = success
        BY DEF NewAttempt
    <2>3. IsFiniteSet(attempts')
        BY <1>2, FS_AddElement
    <2>4. \A a \in attempts : a.id \in Nat /\ a.ts \in Int
        BY DEF Attempt
    <2>5. \A a \in attempts' : a.id < nextId' /\ a.ts <= now'
        BY <1>2, <2>2, <2>4
    <2>6. \A a \in attempts' : a.reason = "failed" => ~a.success
        BY <1>2, <2>2
    <2>7. QED
        BY <1>2, <2>1, <2>3, <2>5, <2>6
<1>3. QED
    BY <1>1, <1>2 DEF RecordAttempt, NewAttempt

LEMMA InvStep == Inv /\ [Next]_vars => Inv'
<1> SUFFICES ASSUME Inv, [Next]_vars PROVE Inv'
    OBVIOUS
<1> USE LockoutAssumption DEF Inv, TypeOK
<1>1. ASSUME NEW h \in Handlers, NEW ip \in Ips, NEW user \in Users, Login(h, ip, user)
      PROVE  Inv'
    <2>1. [ip |-> ip, user |-> user, since |-> now - Window] \in Request
        BY DEF Request
    <2>2. req' \in [Handlers -> Request]
        BY <1>1, <2>1 DEF Login
    <2>3. \A g \in Handlers : req'[g].since <= now - Window \/ pc'[g] = "idle"
        BY <1>1 DEF Login, Go
    <2>4. QED
        BY <1>1, <2>2, <2>3 DEF Login, Go, TableInv
<1>2. ASSUME NEW h \in Handlers, Count(h) \/ Verify(h) PROVE Inv'
    BY <1>2 DEF Count, Verify, Go, TableInv, Verdict
<1>3. ASSUME NEW h \in Handlers, Refuse(h) PROVE Inv'
    <2>1. req[h] \in Request
        OBVIOUS
    <2>2. /\ attempts' \subseteq Attempt
          /\ \A a \in attempts' : a.id < nextId' /\ a.ts <= now'
          /\ nextId' \in Nat \ {0}
          /\ TableInv'
        BY <1>3, <2>1, RecordKeepsTable DEF Refuse
    <2>3. QED
        BY <1>3, <2>2 DEF Refuse, Go
<1>4. ASSUME NEW h \in Handlers, Record(h) PROVE Inv'
    <2>1. req[h] \in Request /\ (pc[h] = "ok") \in BOOLEAN
        OBVIOUS
    <2>2. /\ attempts' \subseteq Attempt
          /\ \A a \in attempts' : a.id < nextId' /\ a.ts <= now'
          /\ nextId' \in Nat \ {0}
          /\ TableInv'
        BY <1>4, <2>1, RecordKeepsTable DEF Record
    <2>3. QED
        BY <1>4, <2>2 DEF Record, Go
<1>5. ASSUME NEW h \in Handlers, Alert(h) \/ Grant(h) PROVE Inv'
    <2>1. UNCHANGED <<now, started, attempts, nextId, req>>
        BY <1>5 DEF Alert, Grant
    <2>2. alerts' \in Nat /\ loggedIn' \subseteq Users
        BY <1>5 DEF Alert, Grant, Request
    <2>3. pc' = [pc EXCEPT ![h] = "idle"]
        BY <1>5 DEF Alert, Grant, Go
    <2>4. QED
        BY <2>1, <2>2, <2>3 DEF TableInv
<1>6. CASE (\E user \in Users : Logout(user)) \/ UNCHANGED vars
    BY <1>6 DEF Logout, vars, TableInv
<1>7. CASE Tick
    <2>1. \A a \in attempts : a.ts \in Int
        BY DEF Attempt
    <2>2. \A g \in Handlers : req[g].since \in Int
        BY DEF Request
    <2>3. QED
        BY <1>7, <2>1, <2>2 DEF Tick, TableInv
<1>8. QED
    BY <1>1, <1>2, <1>3, <1>4, <1>5, <1>6, <1>7 DEF Next, Handle

\* Types, for any handlers, accounts and addresses.
THEOREM TypeCorrect == Spec => []TypeOK
<1>1. Inv => TypeOK
    BY DEF Inv
<1>2. QED
    BY <1>1, InvInit, InvStep, PTL DEF Spec

----------------------------------------------------------------------------
(* The bound, for a set J of recorded failures and a set F of handlers that *)
(* may still record one.                                                   *)
B == MaxAttempts - 1 + Cardinality(Handlers)

\* Failures leave the window and handlers finish.
LEMMA BoundShrinks ==
    ASSUME NEW J, IsFiniteSet(J), NEW F \in SUBSET Handlers, Bounded(J, F),
           NEW J2 \in SUBSET J, NEW F2 \in SUBSET F
    PROVE  Bounded(J2, F2)
<1>1. IsFiniteSet(F)
    BY LockoutAssumption, FS_Subset
<1>2. Cardinality(J2) <= Cardinality(J) /\ Cardinality(F2) <= Cardinality(F)
    BY <1>1, FS_Subset
<1>3. /\ IsFiniteSet(J2) /\ IsFiniteSet(F2)
    BY <1>1, FS_Subset
<1>4. /\ Cardinality(J) \in Nat /\ Cardinality(F) \in Nat
      /\ Cardinality(J2) \in Nat /\ Cardinality(F2) \in Nat
      /\ B \in Int
    BY <1>1, <1>3, LockoutAssumption, FS_CardinalityType DEF B
<1>5. QED
    BY <1>2, <1>4 DEF Bounded, B

\* A handler passes the count: all recorded failures were below the threshold.
LEMMA BoundCount ==
    ASSUME NEW K, IsFiniteSet(K), Cardinality(K) < MaxAttempts,
           NEW J \in SUBSET K, NEW F \in SUBSET Handlers
    PROVE  Bounded(J, F)
<1>1. Cardinality(J) <= Cardinality(K) /\ Cardinality(F) <= Cardinality(Handlers)
    BY LockoutAssumption, FS_Subset
<1>2. IsFiniteSet(J) /\ IsFiniteSet(F)
    BY LockoutAssumption, FS_Subset
<1>3. /\ Cardinality(J) \in Nat /\ Cardinality(F) \in Nat
      /\ Cardinality(K) \in Nat /\ Cardinality(Handlers) \in Nat
    BY <1>2, LockoutAssumption, FS_CardinalityType
<1>4. QED
    BY <1>1, <1>3, LockoutAssumption DEF Bounded, B

\* A handler records its failure: one of F becomes one of J.
LEMMA BoundRecord ==
    ASSUME NEW J, IsFiniteSet(J), NEW F \in SUBSET Handlers, Bounded(J, F),
           NEW a, NEW h \in F,
           NEW J2 \in SUBSET (J \union {a}), NEW F2 \in SUBSET (F \ {h})
    PROVE  Bounded(J2, F2)
<1>1. IsFiniteSet(F) /\ IsFiniteSet(J \union {a}) /\ IsFiniteSet(F \ {h})
    BY LockoutAssumption, FS_Subset, FS_AddElement
<1>2. /\ Cardinality(J \union {a}) <= Cardinality(J) + 1
      /\ Cardinality(F \ {h}) = Cardinality(F) - 1
      /\ Cardinality(J) \in Nat /\ Cardinality(F) \in Nat
    <2>1. Cardinality(J) \in Nat /\ Cardinality(F) \in Nat
        BY <1>1, FS_CardinalityType
    <2>2. Cardinality(J \union {a}) <= Cardinality(J) + 1
        <3>1. Cardinality(J \union {a}) = IF a \in J THEN Cardinality(J) ELSE Cardinality(J) + 1
            BY FS_AddElement, Zenon
        <3>2. QED
            BY <2>1, <3>1
    <2>3. Cardinality(F \ {h}) = Cardinality(F) - 1
        BY <1>1, FS_RemoveElement
    <2>4. QED
        BY <2>1, <2>2, <2>3
<1>3. Cardinality(J2) <= Cardinality(J \union {a}) /\ Cardinality(F2) <= Cardinality(F \ {h})
    BY <1>1, FS_Subset
<1>4. IsFiniteSet(J2) /\ IsFiniteSet(F2)
    BY <1>1, FS_Subset
<1>5. /\ Cardinality(J2) \in Nat /\ Cardinality(F2) \in Nat
      /\ Cardinality(J \union {a}) \in Nat /\ Cardinality(F \ {h}) \in Nat
      /\ B \in Int
    BY <1>1, <1>4, LockoutAssumption, FS_CardinalityType DEF B
<1>6. QED
    BY <1>2, <1>3, <1>5 DEF Bounded, B

Key == {"user", "ip"}

\* No step but Record adds a judged failure, and none but Count a handler that
\* may add one.
LEMMA GuessStep ==
    ASSUME Inv, Inv', [Next]_vars, NEW key \in Key, NEW value,
           Bounded(Judged(key, value), InFlight(key, value))
    PROVE  Bounded(Judged(key, value), InFlight(key, value))'
<1> DEFINE J == Judged(key, value)
           F == InFlight(key, value)
           J2 == {a \in attempts' : a[key] = value /\ a.reason = "failed" /\ a.ts >= now' - Window}
           F2 == {h \in Handlers : req'[h][key] = value /\ pc'[h] \in Verdict \union {"verify"}}
<1>1. /\ IsFiniteSet(J) /\ F \in SUBSET Handlers /\ Bounded(J, F)
      /\ F2 \in SUBSET Handlers
    BY FS_Subset DEF Inv, TableInv, Judged, InFlight
<1> SUFFICES Bounded(J2, F2)
    BY DEF Judged, InFlight, Recent, Bounded
<1>2. ASSUME UNCHANGED <<attempts, now>> PROVE J2 = J
    BY <1>2 DEF Judged, Recent
<1>3. ASSUME J2 \subseteq J, F2 \subseteq F PROVE Bounded(J2, F2)
    BY <1>1, <1>3, BoundShrinks
<1>4. ASSUME NEW h \in Handlers, NEW ip \in Ips, NEW user \in Users, Login(h, ip, user)
      PROVE  F2 \subseteq F /\ J2 = J
    BY <1>2, <1>4 DEF Login, Go, InFlight, Inv, TypeOK, Verdict
<1>5. ASSUME NEW h \in Handlers, Count(h) PROVE Bounded(J2, F2)
    <2>1. CASE F2 \subseteq F
        BY <1>2, <1>3, <1>5, <2>1 DEF Count
    <2>2. CASE ~(F2 \subseteq F)
        <3>1. ~IsLockedOut(req[h]) /\ req[h][key] = value
            BY <1>5, <2>2 DEF Count, Go, InFlight, Inv, TypeOK, Verdict
        <3>2. J \subseteq Fails(req[h])
            <4>1. req[h].since <= now - Window /\ req[h].since \in Int /\ now \in Int /\ Window \in Int
                BY <1>5, LockoutAssumption DEF Count, Inv, TypeOK, Request
            <4>2. \A a \in J : a.ts \in Int /\ ~a.success /\ a.ts >= now - Window
                BY DEF Judged, Recent, Inv, TypeOK, TableInv, Attempt
            <4>3. \A a \in J : a.ip = req[h].ip \/ a.user = req[h].user
                BY <3>1 DEF Judged, Key
            <4>4. QED
                BY <4>1, <4>2, <4>3 DEF Fails, Judged
        <3>3. IsFiniteSet(Fails(req[h]))
            BY FS_Subset DEF Fails, Inv, TableInv
        <3>4. Cardinality(Fails(req[h])) < MaxAttempts
            BY <3>1, <3>3, FS_CardinalityType, LockoutAssumption DEF IsLockedOut
        <3>5. QED
            BY <1>1, <1>2, <1>5, <3>2, <3>3, <3>4, BoundCount DEF Count
    <2>3. QED
        BY <2>1, <2>2
<1>6. ASSUME NEW h \in Handlers, Refuse(h) PROVE F2 \subseteq F /\ J2 \subseteq J
    <2>1. attempts' \subseteq attempts \union {NewAttempt(req[h], FALSE, "locked")}
        BY <1>6 DEF Refuse, RecordAttempt, NewAttempt
    <2>2. NewAttempt(req[h], FALSE, "locked").reason = "locked"
        BY DEF NewAttempt
    <2>3. J2 \subseteq J
        BY <1>6, <2>1, <2>2 DEF Refuse, Judged, Recent
    <2>4. F2 \subseteq F
        BY <1>6 DEF Refuse, Go, InFlight, Inv, TypeOK, Verdict
    <2>5. QED
        BY <2>3, <2>4
<1>7. ASSUME NEW h \in Handlers, Verify(h) PROVE F2 \subseteq F /\ J2 = J
    BY <1>2, <1>7 DEF Verify, Go, InFlight, Inv, TypeOK
<1>8. ASSUME NEW h \in Handlers, Record(h) PROVE Bounded(J2, F2)
    <2> DEFINE new == NewAttempt(req[h], pc[h] = "ok", pc[h])
    <2>1. attempts' \subseteq attempts \union {new} /\ UNCHANGED <<now, req>>
        BY <1>8 DEF Record, RecordAttempt, NewAttempt
    <2>2. F2 \subseteq F \ {h} /\ pc[h] \in Verdict
        BY <1>8 DEF Record, Go, InFlight, Inv, TypeOK, Verdict
    <2>3. CASE h \in F
        <3>1. J2 \subseteq J \union {new}
            BY <2>1 DEF Judged, Recent
        <3>2. QED
            BY <1>1, <2>2, <2>3, <3>1, BoundRecord
    <2>4. CASE h \notin F
        <3>1. new[key] = req[h][key]
            BY DEF NewAttempt, Key
        <3>2. new[key] # value
            BY <2>2, <2>4, <3>1 DEF InFlight
        <3>3. J2 \subseteq J
            BY <2>1, <3>2 DEF Judged, Recent
        <3>4. QED
            BY <1>3, <2>2, <3>3
    <2>5. QED
        BY <2>3, <2>4
<1>9. ASSUME NEW h \in Handlers, Alert(h) \/ Grant(h) PROVE F2 \subseteq F /\ J2 = J
    BY <1>2, <1>9 DEF Alert, Grant, Go, InFlight, Inv, TypeOK, Verdict
<1>10. ASSUME (\E user \in Users : Logout(user)) \/ UNCHANGED vars PROVE F2 \subseteq F /\ J2 = J
    BY <1>2, <1>10 DEF Logout, vars, InFlight
<1>11. ASSUME Tick PROVE F2 \subseteq F /\ J2 \subseteq J
    <2>1. \A a \in attempts : a.ts \in Int
        BY DEF Inv, TypeOK, Attempt
    <2>2. J2 \subseteq J
        BY <1>11, <2>1, LockoutAssumption DEF Tick, Judged, Recent, Inv, TypeOK
    <2>3. F2 \subseteq F
        BY <1>11 DEF Tick, InFlight
    <2>4. QED
        BY <2>2, <2>3
<1>12. QED
    BY <1>3, <1>4, <1>5, <1>6, <1>7, <1>8, <1>9, <1>10, <1>11 DEF Next, Handle

LEMMA GuessInit ==
    ASSUME Init, NEW key, NEW value
    PROVE  Bounded(Judged(key, value), InFlight(key, value))
<1>1. Judged(key, value) = {} /\ InFlight(key, value) = {}
    BY DEF Init, Judged, InFlight, Verdict
<1>2. Cardinality({}) = 0 /\ Cardinality(Handlers) \in Nat
    BY FS_EmptySet, FS_CardinalityType, LockoutAssumption
<1>3. QED
    BY <1>1, <1>2, LockoutAssumption DEF Bounded

\* However many handlers overlap, at most MaxAttempts - 1 + |Handlers| failed
\* passwords of one account are recorded within the lockout window.
THEOREM GuessesBounded == Spec => []BoundedGuesses
<1>1. Init => BoundedGuesses
    BY GuessInit DEF BoundedGuesses
<1>2. Inv /\ Inv' /\ BoundedGuesses /\ [Next]_vars => BoundedGuesses'
    <2> SUFFICES ASSUME Inv, Inv', BoundedGuesses, [Next]_vars PROVE BoundedGuesses'
        OBVIOUS
    <2>1. ASSUME NEW user \in Users
          PROVE  Bounded(Judged("user", user), InFlight("user", user))'
        <3>1. Bounded(Judged("user", user), InFlight("user", user))
            BY DEF BoundedGuesses
        <3>2. QED
            BY <3>1, GuessStep DEF Key
    <2>2. ASSUME NEW ip \in Ips
          PROVE  Bounded(Judged("ip", ip), InFlight("ip", ip))'
        <3>1. Bounded(Judged("ip", ip), InFlight("ip", ip))
            BY DEF BoundedGuesses
        <3>2. QED
            BY <3>1, GuessStep DEF Key
    <2>3. QED
        BY <2>1, <2>2 DEF BoundedGuesses
<1>3. QED
    BY <1>1, <1>2, InvInit, InvStep, PTL DEF Spec

----------------------------------------------------------------------------
\* The handlers that are past the count.
Passed == Verdict \union {"verify", "grant"}

\* What was recorded before a request came does not change once it is counting:
\* every later row is dated later, and its request stays the same.
LEMMA BeforeArrivalKept ==
    ASSUME Inv, Inv', NEW h \in Handlers, pc[h] # "idle", req'[h] = req[h],
           now' \in {now, now + 1},
           \A a \in attempts' : a \in attempts \/ a.ts = now
    PROVE  BeforeArrival(req[h])' \subseteq BeforeArrival(req[h])
<1> DEFINE r == req[h]
           After == {a \in attempts' : /\ a.user = r.user /\ ~a.success
                                       /\ a.ts \in r.since..(r.since + Window - 1)}
<1>1. BeforeArrival(req[h])' = After
    BY DEF BeforeArrival
<1>2. r.since <= now - Window /\ r.since \in Int /\ now \in Int /\ Window \in Int
    BY LockoutAssumption DEF Inv, TypeOK, Request
<1>3. \A a \in After : a.ts # now
    BY <1>2
<1>4. After \subseteq BeforeArrival(r)
    BY <1>3 DEF BeforeArrival
<1>5. QED
    BY <1>1, <1>4

\* A row is added with the present time, by a handler that keeps its request.
LEMMA StepAdds ==
    ASSUME Inv, [Next]_vars
    PROVE  /\ now' \in {now, now + 1}
           /\ \A a \in attempts' : a \in attempts \/ a.ts = now
           /\ \A h \in Handlers : pc[h] # "idle" => req'[h] = req[h]
<1> USE DEF Inv, TypeOK
<1>1. ASSUME NEW h \in Handlers, NEW ip \in Ips, NEW user \in Users, Login(h, ip, user)
      PROVE  /\ UNCHANGED <<now, attempts>>
             /\ \A g \in Handlers : pc[g] # "idle" => req'[g] = req[g]
    BY <1>1 DEF Login
<1>2. ASSUME NEW h \in Handlers, Handle(h)
      PROVE  UNCHANGED <<now, req>> /\ \A a \in attempts' : a \in attempts \/ a.ts = now
    BY <1>2 DEF Handle, Count, Refuse, Alert, Verify, Record, Grant, RecordAttempt
<1>3. QED
    BY <1>1, <1>2 DEF Next, Logout, Tick, vars

\* A handler gets past the count only by Count, which found it not locked out.
LEMMA PassesByCount ==
    ASSUME Inv, [Next]_vars, NEW h \in Handlers, pc'[h] \in Passed, pc[h] \notin Passed
    PROVE  ~IsLockedOut(req[h]) /\ UNCHANGED <<attempts, req>> /\ pc[h] = "count"
<1> USE DEF Inv, TypeOK, Passed, Verdict, Go
<1>1. ASSUME NEW g \in Handlers, Count(g)
      PROVE  ~IsLockedOut(req[h]) /\ UNCHANGED <<attempts, req>> /\ pc[h] = "count"
    <2>1. g = h
        BY <1>1 DEF Count
    <2>2. QED
        BY <1>1, <2>1 DEF Count
<1>2. ASSUME NEW g \in Handlers, Verify(g) \/ Record(g) \/ Grant(g) \/ Refuse(g) \/ Alert(g)
      PROVE  FALSE
    BY <1>2 DEF Verify, Record, Grant, Refuse, Alert
<1>3. ASSUME NEW g \in Handlers, NEW ip \in Ips, NEW user \in Users, Login(g, ip, user)
      PROVE  FALSE
    BY <1>3 DEF Login
<1>4. CASE (\E user \in Users : Logout(user)) \/ Tick \/ UNCHANGED vars
    BY <1>4 DEF Logout, Tick, vars
<1>5. QED
    BY <1>1, <1>2, <1>3, <1>4 DEF Next, Handle

LEMMA LockStep == Inv /\ Inv' /\ LockEngages /\ [Next]_vars => LockEngages'
<1> SUFFICES ASSUME Inv, Inv', LockEngages, [Next]_vars,
                    NEW h \in Handlers, pc'[h] \in Passed
             PROVE  (Cardinality(BeforeArrival(req[h])) < MaxAttempts)'
    BY DEF LockEngages, Passed
<1> DEFINE Before == BeforeArrival(req[h])
<1>1. IsFiniteSet(Before)
    BY FS_Subset DEF BeforeArrival, Inv, TableInv
<1>2. Cardinality(Before) < MaxAttempts /\ pc[h] # "idle"
    <2>1. CASE pc[h] \in Passed
        BY <2>1 DEF LockEngages, Passed, Verdict
    <2>2. CASE pc[h] \notin Passed
        <3>1. ~IsLockedOut(req[h]) /\ pc[h] = "count"
            BY <2>2, PassesByCount
        <3>2. Before \subseteq Fails(req[h])
            BY DEF BeforeArrival, Fails, Inv, TypeOK, Request, Attempt
        <3>3. IsFiniteSet(Fails(req[h]))
            BY FS_Subset DEF Fails, Inv, TableInv
        <3>4. Cardinality(Before) <= Cardinality(Fails(req[h]))
            BY <3>2, <3>3, FS_Subset
        <3>5. QED
            BY <1>1, <3>1, <3>3, <3>4, FS_CardinalityType, LockoutAssumption DEF IsLockedOut
    <2>3. QED
        BY <2>1, <2>2
<1>3. Before' \subseteq Before
    BY <1>2, StepAdds, BeforeArrivalKept
<1>4. Cardinality(Before') <= Cardinality(Before) /\ IsFiniteSet(Before')
    BY <1>1, <1>3, FS_Subset
<1>5. Cardinality(Before') < MaxAttempts
    BY <1>1, <1>2, <1>4, FS_CardinalityType, LockoutAssumption
<1>6. QED
    BY <1>5

\* Whatever overlaps: a request that came when its account had the threshold of
\* failures is not let through to the password.
THEOREM LockHolds == Spec => []LockEngages
<1>1. Init => LockEngages
    BY DEF Init, LockEngages, Verdict
<1>2. QED
    BY <1>1, InvInit, InvStep, LockStep, PTL DEF Spec
=============================================================================
