------------------------------- MODULE Deploy -------------------------------
(***************************************************************************)
(* The deployment workflow (.github/workflows/deploy.yml) and its rollout  *)
(* (scripts/deploy.sh): write .env, build, migrate, replace the container, *)
(* wait for /healthz, roll back if it does not answer.                     *)
(***************************************************************************)
EXTENDS Host

VARIABLES run,      \* the workflow run in progress
          pending,  \* the commit waiting for a run, 0 for none
          before    \* history: what the rollout found to go back to

deployVars == <<run, pending, before>>

Steps == {"idle", "env", "build", "db", "migrate", "bootstrap", "point", "recreate",
          "gate", "rollback", "regate", "mode", "restore", "reopen", "record",
          "verify", "tunnel"}

\* The image of the web container, 0 for none, and whether this run gave it the
\* rollback tag.
NoPoint == [image |-> 0, saved |-> FALSE]

DeployInit ==
    /\ run = [pc |-> "idle", commit |-> 0, failed |-> FALSE, mode |-> "secure"]
    /\ pending = 0
    /\ before = NoPoint

At(step) == run.pc = step
GoTo(step) == run' = [run EXCEPT !.pc = step]

\* A step fails: the others are skipped, except "if: always()".
Fail == run' = [run EXCEPT !.pc = "record", !.failed = TRUE]

----------------------------------------------------------------------------
(* GitHub.                                                                 *)

\* Variant: CI of any branch starts a run.
PushBranch ==
    /\ main < MaxCommits
    /\ pending' = main + 1
    /\ main' \in {main, main + 1}
    /\ UNCHANGED <<run, before, runner, env, images, stack, schema, tunnels>>

\* A push to main; CI passes it or not.  The group deploy-vm keeps one run
\* in progress and the newest one waiting.
Push ==
    /\ main < MaxCommits
    /\ main' = main + 1
    /\ pending' \in {main + 1, pending}
    /\ UNCHANGED <<run, before, runner, env, images, stack, schema, tunnels>>

\* The checkout cleans the work directory: the .env of the last run is gone.
Start ==
    /\ At("idle")
    /\ runner
    /\ pending # 0
    /\ run' = [pc |-> "env", commit |-> pending, failed |-> FALSE, mode |-> "secure"]
    /\ pending' = 0
    /\ before' = NoPoint
    /\ env' = NoEnv
    /\ UNCHANGED <<main, runner, images, stack, schema, tunnels>>

\* The runner dies, and the run with it.
RunnerDies ==
    /\ runner
    /\ runner' = FALSE
    /\ GoTo("idle")
    /\ UNCHANGED <<pending, before, main, env, images, stack, schema, tunnels>>

----------------------------------------------------------------------------
(* Before the rollout.                                                     *)

\* .env is written anew: mode secure, hard-coded.
WriteEnv ==
    /\ At("env")
    /\ env' = [commit |-> run.commit, mode |-> "secure", token |-> TokenSecret]
    /\ GoTo("build")
    /\ UNCHANGED <<pending, before, main, runner, images, stack, schema, tunnels>>

BuildImage ==
    /\ At("build")
    /\ \/ Build /\ GoTo("db")
       \/ Fail /\ UNCHANGED <<tag, broken>>
    /\ UNCHANGED <<pending, before, main, runner, env, rollbackTag, stack,
                   schema, tunnels>>

\* up -d db, and up to a minute for it; not an error if it is still down.
StartDb ==
    /\ At("db")
    /\ db' \in {db, TRUE}
    /\ GoTo("migrate")
    /\ UNCHANGED <<pending, before, main, runner, env, images, web, nginx,
                   schema, tunnels>>

Migrate ==
    /\ At("migrate")
    /\ \/ db /\ schema' = run.commit /\ GoTo("bootstrap")
       \/ Fail /\ UNCHANGED schema
    /\ UNCHANGED <<pending, before, main, runner, env, images, stack, tunnels>>

\* bootstrap_admin.py
Bootstrap ==
    /\ At("bootstrap")
    /\ \/ db /\ GoTo("point")
       \/ Fail
    /\ UNCHANGED <<pending, before, hostVars>>

----------------------------------------------------------------------------
(* The rollout, deploy.sh.                                                 *)

\* Variant: the image of the name compose refers to, which was just built.
SavePointOfName ==
    /\ At("point")
    /\ rollbackTag' = tag[run.commit]
    /\ before' = [image |-> web.image, saved |-> TRUE]
    /\ GoTo("recreate")
    /\ UNCHANGED <<pending, main, runner, env, tag, broken, stack, schema, tunnels>>

\* The image of the web container gets the rollback tag.  Without a container, or
\* when docker image inspect does not find its image any more, the tag of an
\* earlier run stays.
SavePoint ==
    /\ At("point")
    /\ \/ /\ web.state # "absent"
          /\ rollbackTag' = web.image
          /\ before' = [image |-> web.image, saved |-> TRUE]
       \/ /\ before' = [image |-> web.image, saved |-> FALSE]
          /\ UNCHANGED rollbackTag
    /\ GoTo("recreate")
    /\ UNCHANGED <<pending, main, runner, env, tag, broken, stack, schema, tunnels>>

\* up --force-recreate web nginx ai-proxy; if it fails half-way, set -e ends the
\* script there, before the gate and its rollback, whichever containers are made.
Recreate ==
    /\ At("recreate")
    /\ \/ UpWeb /\ GoTo("gate")
       \/ Fail /\ nginx' \in BOOLEAN /\ MakeWeb
       \/ Fail /\ nginx' \in BOOLEAN /\ web' \in {web, NoWeb} /\ UNCHANGED <<tag, broken>>
    /\ UNCHANGED <<pending, before, main, runner, env, rollbackTag, db, schema,
                   tunnels>>

\* /healthz answered ok within HEALTH_TIMEOUT; the answer is kept.
GatePasses ==
    /\ At("gate")
    /\ Healthy
    /\ run' = [run EXCEPT !.pc = "mode", !.mode = web.mode]
    /\ UNCHANGED <<pending, before, hostVars>>

\* It did not in all that time.
GateTimeout ==
    /\ At("gate")
    /\ GoTo("rollback")
    /\ UNCHANGED <<pending, before, hostVars>>

\* The tag of this version is moved to the rollback image.
Rollback ==
    /\ At("rollback")
    /\ rollbackTag # 0
    /\ tag' = [tag EXCEPT ![run.commit] = rollbackTag]
    /\ \/ web' = WebOf(rollbackTag) /\ nginx' = TRUE /\ GoTo("regate")
       \/ Fail /\ web' \in {web, NoWeb, WebOf(rollbackTag)} /\ nginx' \in BOOLEAN
    /\ UNCHANGED <<pending, before, main, runner, env, rollbackTag, broken, db,
                   schema, tunnels>>

NoRollback ==
    /\ At("rollback")
    /\ rollbackTag = 0
    /\ Fail
    /\ UNCHANGED <<pending, before, hostVars>>

\* Sixty more seconds; the script fails whatever /healthz says.
Regate ==
    /\ At("regate")
    /\ Fail
    /\ UNCHANGED <<pending, before, hostVars>>

\* The mode of the answer that passed the gate, not of the moment.
CheckMode ==
    /\ At("mode")
    /\ IF run.mode = "secure"
       THEN GoTo("restore") /\ UNCHANGED <<nginx, tunnels>>
       ELSE Fail /\ nginx' = FALSE /\ StopTunnels
    /\ UNCHANGED <<pending, before, main, runner, env, images, web, db, schema>>

\* A quick tunnel that exists and is not running is brought back.
Restore ==
    /\ At("restore")
    /\ GoTo(IF quick = "stopped" THEN "reopen" ELSE "record")
    /\ UNCHANGED <<pending, before, hostVars>>

Reopen ==
    /\ At("reopen")
    /\ UpQuick \/ UNCHANGED quick
    /\ GoTo("record")
    /\ UNCHANGED <<pending, before, main, runner, env, images, stack, schema, named>>

----------------------------------------------------------------------------
(* After the rollout.                                                      *)

\* record_deploy.py runs in every case and its failure is ignored.
Record ==
    /\ At("record")
    /\ GoTo(IF run.failed THEN "idle" ELSE "verify")
    /\ UNCHANGED <<pending, before, hostVars>>

Verify ==
    /\ At("verify")
    /\ LET right == Healthy /\ web.commit = run.commit /\ web.mode = "secure"
       IN  GoTo(IF right THEN "tunnel" ELSE "idle")
    /\ UNCHANGED <<pending, before, hostVars>>

\* --profile tunnel up -d cloudflared, with what it depends on.
OpenTunnel ==
    /\ At("tunnel")
    /\ \/ TokenSecret /\ UpWeb /\ db' = TRUE /\ UpNamed
       \/ UNCHANGED <<tag, broken, stack, named>>
    /\ GoTo("idle")
    /\ UNCHANGED <<pending, before, main, runner, env, rollbackTag, schema, quick>>

Prepare == WriteEnv \/ BuildImage \/ StartDb

Rollout ==
    \/ Bootstrap
    \/ SavePoint \/ Recreate \/ GatePasses \/ GateTimeout \/ Rollback \/ NoRollback
    \/ Regate \/ CheckMode \/ Restore \/ Reopen \/ Record \/ Verify \/ OpenTunnel

Workflow == Prepare \/ Migrate \/ Rollout
DeployNext == Push \/ Start \/ RunnerDies \/ Workflow

\* setup_tunnel.sh --quick by hand, in one step (SetupTunnel has them all).
QuickByHand ==
    /\ env.mode = "secure"
    /\ UpQuick
    /\ named' = IF NamedOpen THEN "absent" ELSE named
    /\ UNCHANGED <<deployVars, main, runner, env, images, stack, schema>>

\* The workflow on a machine without autoheal, where nobody edits .env.
Init == HostInit /\ DeployInit
Next == DeployNext \/ QuickByHand \/ (Surroundings /\ UNCHANGED deployVars)
vars == <<hostVars, deployVars>>
Spec == Init /\ [][Next]_vars

----------------------------------------------------------------------------
(* Properties.                                                             *)

DeployTypeOK ==
    /\ run \in [pc : Steps, commit : 0..main, failed : BOOLEAN, mode : Mode]
    /\ pending \in 0..main
    /\ before \in [image : 0..main, saved : BOOLEAN]

\* Types; no run, image or container is of a commit that was not pushed.
TypeOK == HostTypeOK /\ DeployTypeOK

\* "Migrations run before the rollout": the application never serves on a
\* schema older than itself, whatever fails, rolls back or dies on the way.
SchemaReady == web.image <= schema

\* The rollback point is older than the run that may need it: SavePoint sees
\* the container of an earlier run, over failed, aborted and rolled-back runs.
RollbackTarget ==
    run.pc \in {"recreate", "gate", "rollback"} => rollbackTag < run.commit

\* A rollback starts the image the rollout found running, when this run could give
\* it the rollback tag.  Otherwise it starts what an earlier run tagged, although the
\* script had announced that there is nothing to go back to: an image of an earlier
\* commit, and never a newer one than the container had.
RollbackRestores ==
    [][run.pc = "rollback" /\ run'.pc = "regate" =>
          IF before.saved THEN web'.image = before.image
          ELSE /\ web'.image < run.commit
               /\ before.image # 0 => web'.image <= before.image]_vars
=============================================================================
