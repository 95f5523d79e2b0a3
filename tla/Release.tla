------------------------------ MODULE Release ------------------------------
(***************************************************************************)
(* The deployment workflow with its migration step in detail: the workflow *)
(* starts the runner of its commit and waits for the exit code.  When the  *)
(* runner service dies, the container may live on and migrate beside the   *)
(* runner of the next workflow run.  Release implements Deploy.            *)
(***************************************************************************)
EXTENDS Deploy, Migrations

releaseVars == <<vars, migrationVars>>

ReleaseInit == Init /\ MigrationsInit

ReleasePush == Push /\ AddFiles(main + 1) /\ UNCHANGED <<migration, applied, versions>>

\* Variant: docker compose run -d.
StartMigrationDetached ==
    /\ At("migrate")
    /\ Launch(run.commit)
    /\ GoTo("bootstrap")
    /\ UNCHANGED <<pending, before, hostVars>>

StartMigration ==
    /\ At("migrate")
    /\ Launch(run.commit)
    /\ UNCHANGED vars

\* The workflow that waits for runner n.
Waits(n) == At("migrate") /\ run.commit = n

\* schema is history: the last commit whose workflow run saw it migrated.
MigrationStep(n) ==
    /\ RunnerStep(n)
    /\ schema' = IF Waits(n) /\ migration'[n].pc = "done" THEN n ELSE schema
    /\ UNCHANGED <<deployVars, main, runner, env, images, stack, tunnels>>

\* Variant: the step ends in "|| true".
SeeExitIgnored ==
    /\ At("migrate")
    /\ Remove(run.commit)
    /\ GoTo("bootstrap")
    /\ UNCHANGED <<pending, before, hostVars>>

SeeExit ==
    /\ At("migrate")
    /\ Remove(run.commit)
    /\ IF migration[run.commit].pc = "done" THEN GoTo("bootstrap") ELSE Fail
    /\ UNCHANGED <<pending, before, hostVars>>

\* A container whose workflow run is gone.
Orphan(n) == Remove(n) /\ ~Waits(n) /\ UNCHANGED vars

ReleaseNext ==
    \/ ReleasePush
    \/ StartMigration
    \/ SeeExit
    \/ \E n \in Commit : MigrationStep(n) \/ Orphan(n)
    \/ /\ \/ Start \/ RunnerDies \/ Prepare \/ Rollout \/ QuickByHand
          \/ Surroundings /\ UNCHANGED deployVars
       /\ UNCHANGED migrationVars

ReleaseSpec == ReleaseInit /\ [][ReleaseNext]_releaseVars

----------------------------------------------------------------------------
(* Properties.                                                             *)

\* The workflow as Deploy knows it: past the migration once it is committed.
RunSeen ==
    IF At("migrate") /\ migration[run.commit].pc = "done"
    THEN [run EXCEPT !.pc = "bootstrap"]
    ELSE run

D == INSTANCE Deploy WITH run <- RunSeen

\* Release implements Deploy: to the rest of the workflow a migration looks
\* like one step that needs the database, although its container makes many,
\* may outlive the run and may migrate beside the next one.
ImplementsDeploy == D!Spec

\* The application that runs finds every statement of its own migration files
\* applied: after failures half-way, rollbacks and overlapping runners.
ServedSchema ==
    web.image # 0 => \A file \in 1..files[web.image] : Whole(file)
=============================================================================
