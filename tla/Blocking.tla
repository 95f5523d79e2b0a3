------------------------------ MODULE Blocking ------------------------------
(***************************************************************************)
(* The block list of the administration (admin.py admin_required, block_ip *)
(* and unblock_ip).  Blocking an address is two transactions, the row of   *)
(* the list and its event, and handlers of several users interleave.       *)
(***************************************************************************)
EXTENDS Integers, FiniteSets

CONSTANTS User,     \* who sends requests
          Admins,   \* those whose session has the role
          Reason,   \* texts of a block
          MaxRequests   \* bound: requests to block or unblock

ASSUME BlockingAssumption == Admins \subseteq User /\ MaxRequests \in Nat

VARIABLES blocked,   \* the row of the address: its reason and who made it, or NoRow
          events,    \* set of the events: their type, whose, what
          asking,    \* the block each user's handler is between two commits of
          gaps,      \* history: blocks whose event failed, or whose handler died
          requests   \* requests so far

blockVars == <<blocked, events, asking, gaps, requests>>

None == "none"
NoRow == [reason |-> None, by |-> None]

BlockingInit ==
    /\ blocked = NoRow
    /\ events = {}
    /\ asking = [u \in User |-> None]
    /\ gaps = {}
    /\ requests = 0

\* A request of u reaches a handler.
Asks(u) ==
    /\ asking[u] = None
    /\ requests < MaxRequests
    /\ requests' = requests + 1

\* admin_required: 403 and an event, whose failure is only logged.
Forbid(u) ==
    /\ u \notin Admins
    /\ Asks(u)
    /\ events' \in {events, events \union {[type |-> "escalation", by |-> u, reason |-> None]}}
    /\ UNCHANGED <<blocked, asking, gaps>>

\* The row of the upsert: who made it first stays.
Upsert(u, reason) ==
    [reason |-> reason, by |-> IF blocked = NoRow THEN u ELSE blocked.by]

\* Variant: an event only for an address not yet blocked.
BlockNewOnly(u, reason) ==
    /\ u \in Admins
    /\ Asks(u)
    /\ blocked' = Upsert(u, reason)
    /\ asking' = [asking EXCEPT ![u] = IF blocked = NoRow THEN reason ELSE None]
    /\ UNCHANGED <<events, gaps>>

\* block_ip up to its first commit.
Block(u, reason) ==
    /\ u \in Admins
    /\ Asks(u)
    /\ blocked' = Upsert(u, reason)
    /\ asking' = [asking EXCEPT ![u] = reason]
    /\ UNCHANGED <<events, gaps>>

\* block_ip to its end.
Audit(u) ==
    /\ asking[u] # None
    /\ events' = events \union {[type |-> "blocked", by |-> u, reason |-> asking[u]]}
    /\ asking' = [asking EXCEPT ![u] = None]
    /\ UNCHANGED <<blocked, gaps, requests>>

\* The INSERT of the event raises, or the worker dies before it.
AuditFails(u) ==
    /\ asking[u] # None
    /\ gaps' = gaps \union {asking[u]}
    /\ asking' = [asking EXCEPT ![u] = None]
    /\ UNCHANGED <<blocked, events, requests>>

\* unblock_ip: the row goes, and no event says so.
Unblock(u) ==
    /\ u \in Admins
    /\ Asks(u)
    /\ blocked' = NoRow
    /\ UNCHANGED <<events, asking, gaps>>

BlockingNext ==
    \E u \in User :
        \/ Forbid(u) \/ Audit(u) \/ AuditFails(u) \/ Unblock(u)
        \/ \E reason \in Reason : Block(u, reason)

----------------------------------------------------------------------------
(* Properties.                                                             *)

\* Every block in force can be explained: an event of an administrator has its
\* reason, whoever blocked, unblocked and blocked again in between; the only
\* exceptions are a handler between its two commits and one that failed there.
BlockAudited ==
    blocked # NoRow =>
        \/ \E e \in events : e.type = "blocked" /\ e.reason = blocked.reason
        \/ \E u \in User : asking[u] = blocked.reason
        \/ blocked.reason \in gaps
=============================================================================
