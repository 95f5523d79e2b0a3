-------------------------------- MODULE Host --------------------------------
(***************************************************************************)
(* The virtual machine the deployment, self-healing and tunnel scripts all *)
(* work on, as docker compose and the files show it to them                *)
(* (docker-compose.yml, .env).  Each script is a module of its own that    *)
(* extends this one; Vm composes them.                                     *)
(*                                                                         *)
(* A commit of main is deployed by one workflow run: commit, run number    *)
(* (APP_VERSION) and the image its build makes are the same number n >= 1. *)
(* The tag vmlab-web:v<n> may later be moved to another image.             *)
(***************************************************************************)
EXTENDS Integers, FiniteSets

CONSTANTS MaxCommits,   \* bound: commits pushed to main
          TokenSecret   \* the GitHub secret CLOUDFLARE_TUNNEL_TOKEN is set

ASSUME HostAssumption ==
    /\ MaxCommits \in Nat
    /\ TokenSecret \in BOOLEAN

VARIABLES main,         \* head of the branch main on GitHub
          runner,       \* the self-hosted runner service is up
          env,          \* .env of the runner's work directory
          tag,          \* the image each tag vmlab-web:v<n> names, 0 for none
          rollbackTag,  \* the image vmlab-web:rollback names, 0 for none
          broken,       \* images whose application never answers /healthz
          web,          \* container vmlab-web
          nginx,        \* container vmlab-nginx is running
          db,           \* the database answers
          schema,       \* the last commit whose migrations are applied
          named,        \* container vmlab-tunnel
          quick         \* container vmlab-quicktunnel

tunnels == <<named, quick>>
stack == <<web, nginx, db>>
images == <<tag, rollbackTag, broken>>
hostVars == <<main, runner, env, images, stack, schema, tunnels>>

Commit == 1..MaxCommits
Mode == {"secure", "vulnerable"}

\* No .env, or none readable: its keys read as empty, which is not "vulnerable".
NoEnv == [commit |-> 0, mode |-> "secure", token |-> FALSE]
NoWeb == [state |-> "absent", image |-> 0, commit |-> 0, mode |-> "secure"]

HostInit ==
    /\ main = 0
    /\ runner = TRUE
    /\ env = NoEnv
    /\ tag = [n \in Commit |-> 0]
    /\ rollbackTag = 0
    /\ broken = {}
    /\ web = NoWeb
    /\ nginx = FALSE
    /\ db = FALSE
    /\ schema = 0
    /\ named = "absent"
    /\ quick = "absent"

----------------------------------------------------------------------------
(* What the scripts ask.                                                   *)

\* GET /healthz through nginx answers 200 and status "ok".
Healthy == nginx /\ db /\ web.state = "running" /\ web.image \notin broken

\* The vulnerable application answers on a public address.
NamedOpen == named = "running"
QuickOpen == quick \in {"running", "mute"}
Exposed == /\ web.state = "running" /\ web.mode = "vulnerable" /\ nginx
           /\ NamedOpen \/ QuickOpen

----------------------------------------------------------------------------
(* What docker compose does.                                               *)

\* No compose command works without the variables .env must define.
ComposeWorks == env.commit # 0

\* docker compose build web.
Build ==
    /\ tag' = [tag EXCEPT ![env.commit] = env.commit]
    /\ broken' \in {broken, broken \union {env.commit}}

\* The container as .env describes it: the image by APP_VERSION, everything
\* the process sees (mode, the commit it reports) by env_file.
WebOf(image) ==
    [state |-> "running", image |-> image, commit |-> env.commit, mode |-> env.mode]

\* up web: a container whose configuration or image changed is made anew, and
\* an image that does not exist is built first (web has build:).
MakeWeb ==
    /\ ComposeWorks
    /\ \/ tag[env.commit] # 0 /\ UNCHANGED <<tag, broken>>
       \/ tag[env.commit] = 0 /\ Build
    /\ web' = WebOf(tag'[env.commit])

\* up web nginx
UpWeb == nginx' = TRUE /\ MakeWeb

\* up quicktunnel: it may run without ever getting an address ("mute").
UpQuick == ComposeWorks /\ quick' \in {"running", "mute"}
UpNamed == ComposeWorks /\ named' = "running"

\* docker stop of the tunnels that are running.
Stopped(t) == IF t = "absent" THEN t ELSE "stopped"
StopTunnels == named' = Stopped(named) /\ quick' = Stopped(quick)

----------------------------------------------------------------------------
(* The surroundings.                                                       *)

\* The database stops answering, or answers again (restart policy).
Outage ==
    /\ db' = ~db
    /\ web.state # "absent"
    /\ UNCHANGED <<main, runner, env, images, web, nginx, schema, tunnels>>

\* docker compose stop web, by hand.
StopWeb ==
    /\ web.state = "running"
    /\ web' = [web EXCEPT !.state = "stopped"]
    /\ UNCHANGED <<main, runner, env, images, nginx, db, schema, tunnels>>

\* docker compose rm -sf web, by hand.
RemoveWeb ==
    /\ web.state # "absent"
    /\ web' = NoWeb
    /\ UNCHANGED <<main, runner, env, images, nginx, db, schema, tunnels>>

\* A tunnel container stopped by hand, or its log lost the address.
TunnelFails ==
    /\ \/ named = "running" /\ named' = "stopped" /\ UNCHANGED quick
       \/ quick = "running" /\ quick' \in {"stopped", "mute"} /\ UNCHANGED named
    /\ UNCHANGED <<main, runner, env, images, stack, schema>>

Surroundings == Outage \/ StopWeb \/ RemoveWeb \/ TunnelFails

----------------------------------------------------------------------------
HostTypeOK ==
    /\ main \in 0..MaxCommits
    /\ runner \in BOOLEAN
    /\ env \in [commit : 0..main, mode : Mode, token : BOOLEAN]
    /\ tag \in [Commit -> 0..main]
    /\ rollbackTag \in 0..main
    /\ broken \subseteq 1..main
    /\ web \in [state : {"absent", "running", "stopped"}, image : 0..main,
                commit : 0..main, mode : Mode]
    /\ nginx \in BOOLEAN
    /\ db \in BOOLEAN
    /\ schema \in 0..main
    /\ named \in {"absent", "stopped", "running"}
    /\ quick \in {"absent", "stopped", "running", "mute"}
=============================================================================
