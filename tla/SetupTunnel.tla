---------------------------- MODULE SetupTunnel ----------------------------
(***************************************************************************)
(* The operator at the machine: scripts/setup_tunnel.sh in its three forms *)
(* (--down, --quick, and the named tunnel), and the lab, for which he puts *)
(* SECURITY_MODE into .env by hand and runs docker compose up -d.          *)
(***************************************************************************)
EXTENDS Host

CONSTANTS MaxCommands   \* bound: commands of the operator in a behaviour

ASSUME SetupTunnelAssumption == MaxCommands \in Nat

VARIABLES op,        \* next step of the command in progress
          form,      \* which tunnel it is to open
          commands,  \* commands so far
          wanted,    \* history: the tunnels somebody ever asked for
          off        \* history: --down reported that nothing is exposed

opVars == <<op, form, commands, wanted, off>>

OpInit ==
    /\ op = "idle"
    /\ form = "quick"
    /\ commands = 0
    /\ wanted = IF TokenSecret THEN {"named"} ELSE {}
    /\ off = FALSE

Then(step) == op' = step /\ UNCHANGED <<form, commands, wanted, off>>

Command(step) ==
    /\ op = "idle"
    /\ commands < MaxCommands
    /\ commands' = commands + 1
    /\ op' = step

----------------------------------------------------------------------------
(* The lab.                                                                *)

EditMode ==
    /\ Command("idle")
    /\ env.commit # 0
    /\ \E mode \in Mode : env' = [env EXCEPT !.mode = mode]
    /\ UNCHANGED <<form, wanted, off, main, runner, images, stack, schema, tunnels>>

\* docker compose up -d: the services outside any profile.
UpByHand ==
    /\ Command("idle")
    /\ UpWeb
    /\ db' = TRUE
    /\ UNCHANGED <<form, wanted, off, main, runner, env, rollbackTag, schema, tunnels>>

----------------------------------------------------------------------------
(* --down: both tunnels, each stopped and then removed.                    *)

Down ==
    /\ Command("stopNamed")
    /\ UNCHANGED <<form, off, wanted, hostVars>>

StopNamed ==
    /\ op = "stopNamed"
    /\ named' = IF ComposeWorks THEN Stopped(named) ELSE named
    /\ Then("rmNamed")
    /\ UNCHANGED <<main, runner, env, images, stack, schema, quick>>

\* rm -f without -s removes a stopped container only.
Removed(t) == IF t = "stopped" /\ ComposeWorks THEN "absent" ELSE t

RmNamed ==
    /\ op = "rmNamed"
    /\ named' = Removed(named)
    /\ Then("stopQuick")
    /\ UNCHANGED <<main, runner, env, images, stack, schema, quick>>

StopQuick ==
    /\ op = "stopQuick"
    /\ quick' = IF ComposeWorks THEN Stopped(quick) ELSE quick
    /\ Then("rmQuick")
    /\ UNCHANGED <<main, runner, env, images, stack, schema, named>>

RmQuick ==
    /\ op = "rmQuick"
    /\ quick' = Removed(quick)
    /\ Then("report")
    /\ UNCHANGED <<main, runner, env, images, stack, schema, named>>

\* "No exposure", or die if a tunnel still runs.
Report ==
    /\ op = "report"
    /\ off' = ~(NamedOpen \/ QuickOpen)
    /\ op' = "idle"
    /\ UNCHANGED <<form, commands, wanted, hostVars>>

----------------------------------------------------------------------------
(* Opening a tunnel.                                                       *)

Open ==
    /\ Command("checkEnv")
    /\ form' \in {"quick", "named"}
    /\ off' = FALSE
    /\ UNCHANGED <<wanted, hostVars>>

\* It dies without a .env, or when SECURITY_MODE is not secure in it.
CheckEnv ==
    /\ op = "checkEnv"
    /\ Then(IF env.commit # 0 /\ env.mode = "secure" THEN "checkLive" ELSE "idle")
    /\ UNCHANGED hostVars

\* It dies when /healthz says vulnerable; no answer is only a warning.
CheckLive ==
    /\ op = "checkLive"
    /\ IF Healthy /\ web.mode # "secure" THEN Then("idle")
       ELSE Then(IF form = "quick" THEN "dropNamed" ELSE "token")
    /\ UNCHANGED hostVars

\* --quick keeps one path of exposure: a running named tunnel is stopped, and
\* then removed.
DropNamed ==
    /\ op = "dropNamed"
    /\ named' = IF ComposeWorks THEN Stopped(named) ELSE named
    /\ Then(IF NamedOpen THEN "rmOld" ELSE "dropQuick")
    /\ UNCHANGED <<main, runner, env, images, stack, schema, quick>>

RmDropped ==
    /\ op = "rmOld"
    /\ named' = Removed(named)
    /\ Then("dropQuick")
    /\ UNCHANGED <<main, runner, env, images, stack, schema, quick>>

DropQuick ==
    /\ op = "dropQuick"
    /\ quick' = IF ComposeWorks THEN "absent" ELSE quick
    /\ Then("upQuick")
    /\ UNCHANGED <<main, runner, env, images, stack, schema, named>>

OpenQuick ==
    /\ op = "upQuick"
    /\ UpQuick \/ UNCHANGED quick
    /\ op' = "idle"
    /\ wanted' = wanted \union {"quick"}
    /\ UNCHANGED <<form, commands, off, main, runner, env, images, stack, schema, named>>

\* A token that .env lacks is asked for and saved there.
SaveToken ==
    /\ op = "token"
    /\ env' = [env EXCEPT !.token = TRUE]
    /\ op' = "upNamed"
    /\ wanted' = wanted \union {"named"}
    /\ UNCHANGED <<form, commands, off, main, runner, images, stack, schema, tunnels>>

OpenNamed ==
    /\ op = "upNamed"
    /\ UpNamed \/ UNCHANGED named
    /\ Then("idle")
    /\ UNCHANGED <<main, runner, env, images, stack, schema, quick>>

SetupNext ==
    \/ StopNamed \/ RmNamed \/ StopQuick \/ RmQuick \/ Report
    \/ CheckEnv \/ CheckLive \/ DropNamed \/ RmDropped \/ DropQuick
    \/ OpenQuick \/ SaveToken \/ OpenNamed

OpNext == EditMode \/ UpByHand \/ Down \/ Open \/ SetupNext
=============================================================================
