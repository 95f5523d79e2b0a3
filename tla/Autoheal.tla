------------------------------ MODULE Autoheal ------------------------------
(***************************************************************************)
(* The self-healing script scripts/autoheal.sh, started every minute by a  *)
(* systemd timer that never runs two of it at once (Type=oneshot).  It     *)
(* closes the tunnels of a vulnerable machine, brings the stack and the    *)
(* tunnels back up, and compares the running commit with main.             *)
(* --dry-run, which changes nothing, is left out.                          *)
(***************************************************************************)
EXTENDS Host

VARIABLES heal,    \* where the cycle is, and the answer of /healthz it keeps
          report   \* what the last comparison with main said

healVars == <<heal, report>>

HealInit ==
    /\ heal = [pc |-> "idle", mode |-> "secure", commit |-> 0]
    /\ report = "none"

HealAt(step) == heal.pc = step
HealGoTo(step) == heal' = [heal EXCEPT !.pc = step]

\* /tmp/autoheal_health.json
KeepAnswer(step) == heal' = [pc |-> step, mode |-> web.mode, commit |-> web.commit]

----------------------------------------------------------------------------
\* The timer fires; without a .env the script has no work directory.
Wake ==
    /\ HealAt("idle")
    /\ HealGoTo(IF env.commit = 0 THEN "idle" ELSE "guard")
    /\ UNCHANGED <<report, hostVars>>

\* 1. SECURITY_MODE of .env.
Guard ==
    /\ HealAt("guard")
    /\ HealGoTo(IF env.mode = "vulnerable" THEN "close" ELSE "app")
    /\ UNCHANGED <<report, hostVars>>

\* A running tunnel is stopped, the quick one first, and the cycle ends, here and
\* after 3.  A stop that docker refuses is passed over.
CloseQuick ==
    /\ HealAt("close")
    /\ quick' \in {quick, Stopped(quick)}
    /\ HealGoTo("closeNamed")
    /\ UNCHANGED <<report, main, runner, env, images, stack, schema, named>>

CloseNamed ==
    /\ HealAt("closeNamed")
    /\ named' \in {named, Stopped(named)}
    /\ HealGoTo("idle")
    /\ UNCHANGED <<report, main, runner, env, images, stack, schema, quick>>

\* 2. The application: db, web and nginx are brought up if it does not answer.
AppOk ==
    /\ HealAt("app")
    /\ Healthy
    /\ KeepAnswer("mode")
    /\ UNCHANGED <<report, hostVars>>

UpStack ==
    /\ HealAt("app")
    /\ ~Healthy
    /\ UpWeb
    /\ db' = TRUE
    /\ HealGoTo("wait")
    /\ UNCHANGED <<report, main, runner, env, rollbackTag, schema, tunnels>>

\* The command fails (db does not become healthy): a warning, and the wait.
UpStackFails ==
    /\ HealAt("app")
    /\ ~Healthy
    /\ db' \in {db, TRUE}
    /\ HealGoTo("wait")
    /\ UNCHANGED <<report, main, runner, env, images, web, nginx, schema, tunnels>>

AppBack ==
    /\ HealAt("wait")
    /\ Healthy
    /\ KeepAnswer("mode")
    /\ UNCHANGED <<report, hostVars>>

\* exit 1: the rest of the cycle is left out.
AppStaysDown ==
    /\ HealAt("wait")
    /\ ~Healthy
    /\ HealGoTo("idle")
    /\ UNCHANGED <<report, hostVars>>

\* Variant: only .env decides.
LiveModeUnread ==
    /\ HealAt("mode")
    /\ HealGoTo("tunnel")
    /\ UNCHANGED <<report, hostVars>>

\* 3. The mode of the running application, from the kept answer.
LiveMode ==
    /\ HealAt("mode")
    /\ HealGoTo(IF heal.mode = "secure" THEN "tunnel" ELSE "close")
    /\ UNCHANGED <<report, hostVars>>

\* An answer that python3 cannot read has no mode, which is not secure.
NoMode ==
    /\ HealAt("mode")
    /\ HealGoTo("close")
    /\ UNCHANGED <<report, hostVars>>

\* Variant: a quick tunnel that is not there is brought up like a stopped one.
WhichTunnelAlways ==
    IF env.token THEN IF NamedOpen THEN "drift" ELSE "upNamed"
    ELSE CASE quick = "running" -> "drift"
           [] quick = "mute"    -> "renew"
           [] quick \in {"stopped", "absent"} -> "upQuick"

\* Variant: a stopped quick tunnel taken for one that is not wanted.
WhichTunnelIdle ==
    IF env.token THEN IF NamedOpen THEN "drift" ELSE "upNamed"
    ELSE IF quick = "mute" THEN "renew" ELSE "drift"

\* 4. The tunnels.
WhichTunnel ==
    IF env.token THEN IF NamedOpen THEN "drift" ELSE "upNamed"
    ELSE CASE quick = "running" -> "drift"
           [] quick = "mute"    -> "renew"
           [] quick = "stopped" -> "upQuick"
           [] quick = "absent"  -> "drift"

Tunnel ==
    /\ HealAt("tunnel")
    /\ HealGoTo(WhichTunnel)
    /\ UNCHANGED <<report, hostVars>>

ReviveNamed ==
    /\ HealAt("upNamed")
    /\ UpNamed \/ UNCHANGED named
    /\ HealGoTo("drift")
    /\ UNCHANGED <<report, main, runner, env, images, stack, schema, quick>>

ReviveQuick ==
    /\ HealAt("upQuick")
    /\ UpQuick \/ UNCHANGED quick
    /\ HealGoTo("drift")
    /\ UNCHANGED <<report, main, runner, env, images, stack, schema, named>>

\* rm -sf and up of a quick tunnel without an address; either may fail.
RenewQuick ==
    /\ HealAt("renew")
    /\ UpQuick \/ UNCHANGED quick \/ (ComposeWorks /\ quick' = "absent")
    /\ HealGoTo("drift")
    /\ UNCHANGED <<report, main, runner, env, images, stack, schema, named>>

\* Variant: the drift is reported and the runner left alone.
CompareOnly ==
    /\ HealAt("drift")
    /\ report' = IF heal.commit = main THEN "match" ELSE "drift"
    /\ HealGoTo("idle")
    /\ UNCHANGED <<main, runner, env, images, stack, schema, tunnels>>

\* 5. git ls-remote against the commit of the kept answer; a dead runner is
\* started again when they differ.
Compare ==
    /\ HealAt("drift")
    /\ report' = IF heal.commit = main THEN "match" ELSE "drift"
    /\ runner' \in IF heal.commit = main THEN {runner} ELSE {runner, TRUE}
    /\ HealGoTo("idle")
    /\ UNCHANGED <<main, env, images, stack, schema, tunnels>>

CompareFails ==
    /\ HealAt("drift")
    /\ HealGoTo("idle")
    /\ UNCHANGED <<report, hostVars>>

HealNext ==
    \/ Wake \/ Guard \/ CloseQuick \/ CloseNamed \/ AppOk \/ UpStack \/ UpStackFails
    \/ AppBack \/ AppStaysDown \/ LiveMode \/ NoMode \/ Tunnel \/ ReviveNamed
    \/ ReviveQuick \/ RenewQuick \/ Compare \/ CompareFails

\* What a cycle asks of docker, of systemd and of GitHub, when it is granted.
CloseQuickOk == CloseQuick /\ ~QuickOpen'
CloseNamedOk == CloseNamed /\ ~NamedOpen'
ReviveQuickOk == ReviveQuick /\ QuickOpen'
CompareOk == Compare /\ (runner' \/ report' = "match")
=============================================================================
