----------------------------- MODULE Migrations -----------------------------
(***************************************************************************)
(* The migration runner (scripts/migrate.py): the files NNNN_*.sql of an   *)
(* image, applied in order, one statement at a time, each version recorded *)
(* in schema_migrations.  The runner of commit n runs in a container of    *)
(* its own (docker compose run --rm), made from the image of commit n.     *)
(*                                                                         *)
(* MariaDB commits every DDL statement by itself, so a file is not atomic; *)
(* the statements may be run again (IF NOT EXISTS, INSERT IGNORE).         *)
(***************************************************************************)
EXTENDS Host, FiniteSetsExt

CONSTANTS MaxFiles,    \* bound: migration files in the repository
          Statements   \* statements of a file

ASSUME MigrationsAssumption ==
    /\ MaxFiles \in Nat \ {0}
    /\ Statements \in Nat \ {0}

VARIABLES files,       \* the number of migration files of each commit
          migration,   \* the runner of each commit
          applied,     \* the statements the database has seen, <<file, number>>
          versions     \* the rows of schema_migrations

migrationVars == <<files, migration, applied, versions>>

NoRunner == [pc |-> "none", todo |-> {}, next |-> 0]

MigrationsInit ==
    /\ files = [n \in Commit |-> 0]
    /\ migration = [n \in Commit |-> NoRunner]
    /\ applied = {}
    /\ versions = {}

\* A commit keeps the files of its parent and may add one (the first has one).
AddFiles(n) ==
    \E k \in {0, 1} :
        LET old == IF n = 1 THEN 1 ELSE files[n - 1]
        IN  old + k <= MaxFiles /\ files' = [files EXCEPT ![n] = old + k]

Running(n) == migration[n].pc \in {"connect", "read", "apply"}

Launch(n) ==
    /\ migration[n].pc = "none"
    /\ migration' = [migration EXCEPT ![n].pc = "connect"]
    /\ UNCHANGED <<files, applied, versions>>

Connect(n) ==
    /\ migration[n].pc = "connect"
    /\ db
    /\ migration' = [migration EXCEPT ![n].pc = "read"]
    /\ UNCHANGED <<files, applied, versions>>

\* The runner goes on with the files of todo, from their first statement.
Pending(n, todo) ==
    migration' = [migration EXCEPT ![n] =
        IF todo = {} THEN [NoRunner EXCEPT !.pc = "done"]
                     ELSE [pc |-> "apply", todo |-> todo, next |-> 1]]

\* The versions are read once, before the loop.
Read(n) ==
    /\ migration[n].pc = "read"
    /\ db
    /\ Pending(n, (1..files[n]) \ versions)
    /\ UNCHANGED <<files, applied, versions>>

\* Variant: the version is inserted before the statements; the first of them
\* commits it.
ExecuteRecorded(n) ==
    LET file == Min(migration[n].todo) IN
    /\ migration[n].pc = "apply"
    /\ db
    /\ migration[n].next <= Statements
    /\ applied' = applied \union {<<file, migration[n].next>>}
    /\ migration' = [migration EXCEPT ![n].next = @ + 1]
    /\ versions' = versions \union {file}
    /\ UNCHANGED files

\* Variant: a statement that fails is skipped.
ExecuteLenient(n) ==
    /\ migration[n].pc = "apply"
    /\ db
    /\ migration[n].next <= Statements
    /\ applied' \in {applied, applied \union {<<Min(migration[n].todo), migration[n].next>>}}
    /\ migration' = [migration EXCEPT ![n].next = @ + 1]
    /\ UNCHANGED <<files, versions>>

Execute(n) ==
    /\ migration[n].pc = "apply"
    /\ db
    /\ migration[n].next <= Statements
    /\ applied' = applied \union {<<Min(migration[n].todo), migration[n].next>>}
    /\ migration' = [migration EXCEPT ![n].next = @ + 1]
    /\ UNCHANGED <<files, versions>>

RecordVersion(n) ==
    LET file == Min(migration[n].todo) IN
    /\ migration[n].pc = "apply"
    /\ db
    /\ migration[n].next > Statements
    /\ versions' = versions \union {file}
    /\ Pending(n, migration[n].todo \ {file})
    /\ UNCHANGED <<files, applied>>

\* Thirty attempts to connect, or one with a wrong password; a statement that
\* fails, a connection that is lost, a container that is killed.  What has been
\* applied stays: rollback() has nothing to undo but the row of the version.
Break(n) ==
    /\ Running(n)
    /\ migration' = [migration EXCEPT ![n] = [NoRunner EXCEPT !.pc = "failed"]]
    /\ UNCHANGED <<files, applied, versions>>

\* The container is removed when it has ended (--rm).
Remove(n) ==
    /\ migration[n].pc \in {"done", "failed"}
    /\ migration' = [migration EXCEPT ![n] = NoRunner]
    /\ UNCHANGED <<files, applied, versions>>

RunnerStep(n) ==
    Connect(n) \/ Read(n) \/ Execute(n) \/ RecordVersion(n) \/ Break(n)

----------------------------------------------------------------------------
(* Properties.                                                             *)

Whole(file) == \A s \in 1..Statements : <<file, s>> \in applied

\* A version is never recorded before all its statements are applied, however
\* the runners of several commits break off, repeat and overlap: the next one
\* would skip a half-applied file for ever.
RecordedApplied == \A file \in versions : Whole(file)
=============================================================================
