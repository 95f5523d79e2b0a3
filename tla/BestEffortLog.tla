---------------------------- MODULE BestEffortLog ----------------------------
(***************************************************************************)
(* What the access log promises, without threads, batches or processes:    *)
(* rows wait in arrival order and leave from the front.  What leaves is    *)
(* stored in one piece or lost; only the piece stored last may be stored   *)
(* again; nothing overtakes.                                               *)
(***************************************************************************)
EXTENDS Integers, Sequences

CONSTANTS MaxRows   \* bound: rows produced in a behaviour

VARIABLES arrived,  \* rows produced: 1..arrived
          pending,  \* accepted rows, oldest first
          stored    \* the pieces stored, in order

vars == <<arrived, pending, stored>>

Init == arrived = 0 /\ pending = <<>> /\ stored = <<>>

\* A row arrives and is kept, or refused.
Arrive ==
    /\ arrived < MaxRows
    /\ arrived' = arrived + 1
    /\ pending' \in {Append(pending, arrived + 1), pending}
    /\ UNCHANGED stored

\* The oldest n rows leave.
Leave(n) == pending' = SubSeq(pending, n + 1, Len(pending))

Persist(n) ==
    /\ stored' = Append(stored, SubSeq(pending, 1, n))
    /\ Leave(n)
    /\ UNCHANGED arrived

Repeat ==
    /\ stored # <<>>
    /\ stored' = Append(stored, stored[Len(stored)])
    /\ UNCHANGED <<arrived, pending>>

Lose(n) == Leave(n) /\ UNCHANGED <<arrived, stored>>

Next ==
    \/ Arrive
    \/ \E n \in 1..Len(pending) : Persist(n) \/ Lose(n)
    \/ Repeat

Spec == Init /\ [][Next]_vars
=============================================================================
