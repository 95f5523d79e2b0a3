------------------------------ MODULE Console ------------------------------
(***************************************************************************)
(* Parts of the application that share no state, side by side: a behaviour *)
(* is one of Sessions, Lists, Seeding, AiRelay, Blocking, Pool or          *)
(* CanvasHistory, or one input of a pure function of Security or           *)
(* SqlScript.  The others keep their initial values: state spaces add up   *)
(* and do not multiply.                                                    *)
(***************************************************************************)
EXTENDS Sessions, Lists, Seeding, AiRelay, Blocking, Pool, CanvasHistory,
        Security, SqlScript

VARIABLES part,   \* which of the parts the behaviour is of
          input   \* the input of a function, <<>> for a part that has none

consoleVars == <<part, input, sessionVars, listVars, seedVars, relayVars, blockVars, poolVars,
                 canvasVars>>

\* A list nobody looks at.
ListsIdle ==
    /\ list = "logs" /\ narrow = FALSE /\ rows = <<>> /\ there = {}
    /\ walk = [at |-> "end", page |-> 1, total |-> 0, seen |-> {}]
    /\ slipped = FALSE /\ shrunk = FALSE

ConsoleInit ==
    /\ SessionsInit /\ SeedInit /\ RelayInit /\ BlockingInit /\ PoolInit
    /\ CanvasInit
    /\ \/ /\ part \in {"sessions", "seeding", "relay", "blocking", "pool", "canvas"}
          /\ input = <<>> /\ ListsIdle
       \/ part = "lists" /\ input = <<>> /\ ListsInit
       \/ part = "script" /\ input \in Scripts /\ ListsIdle
       \/ part = "request" /\ input \in Requests /\ ListsIdle
       \/ part = "chain" /\ input \in Chains /\ ListsIdle
       \/ part = "file" /\ input \in Files /\ ListsIdle

ConsoleNext ==
    /\ UNCHANGED <<part, input>>
    /\ \/ /\ part = "sessions" /\ SessionsNext
          /\ UNCHANGED <<listVars, seedVars, relayVars, blockVars, poolVars, canvasVars>>
       \/ /\ part = "lists" /\ ListsNext
          /\ UNCHANGED <<sessionVars, seedVars, relayVars, blockVars, poolVars, canvasVars>>
       \/ /\ part = "seeding" /\ SeedNext
          /\ UNCHANGED <<sessionVars, listVars, relayVars, blockVars, poolVars, canvasVars>>
       \/ /\ part = "relay" /\ RelayNext
          /\ UNCHANGED <<sessionVars, listVars, seedVars, blockVars, poolVars, canvasVars>>
       \/ /\ part = "blocking" /\ BlockingNext
          /\ UNCHANGED <<sessionVars, listVars, seedVars, relayVars, poolVars, canvasVars>>
       \/ /\ part = "pool" /\ PoolNext
          /\ UNCHANGED <<sessionVars, listVars, seedVars, relayVars, blockVars, canvasVars>>
       \/ /\ part = "canvas" /\ CanvasNext
          /\ UNCHANGED <<sessionVars, listVars, seedVars, relayVars, blockVars, poolVars>>

\* An answer that is there is received, and nginx waits sixty seconds, no more;
\* the browser decodes an image it was given.
ConsoleSpec ==
    /\ ConsoleInit /\ [][ConsoleNext]_consoleVars
    /\ \A c \in Call : /\ WF_relayVars(Receive(c))
                       /\ WF_relayVars(NginxTimesOut(c))
    /\ WF_canvasVars(\E i \in DOMAIN loading : Loaded(i))

----------------------------------------------------------------------------
(* Properties of the pure functions, input by input.                       *)

\* migrate.py sends the database the statements its file means.
SplitsRight ==
    part = "script" => Means(input, SplitStatements(FlattenSeq(input)))

\* What core/security.py computes of a request: score, severity and type of its
\* event fit what it contains, the address for logs, lockout and events is the
\* visitor's, and its upload is accepted exactly when it should be.
SecurityRight ==
    /\ part = "request" => RightAlert(input)
    /\ part = "chain" => RightAddress(input)
    /\ part = "file" => RightUpload(input)
=============================================================================
