------------------------------ MODULE VmProofs ------------------------------
(***************************************************************************)
(* Theorems about the machine with the workflow, the timer and the         *)
(* operator on it, for every number of commits and commands.               *)
(***************************************************************************)
EXTENDS Vm, TLAPS

----------------------------------------------------------------------------
(* Tunnels nobody asked for.                                               *)

\* Who is about to open a tunnel, on what he read some steps ago, does so for a
\* kind of tunnel that was asked for: a quick tunnel that was there, or a token
\* in .env, which comes from the secret or from the operator.
AskedFor ==
    /\ TokenSecret => "named" \in wanted
    /\ env.token => "named" \in wanted
    /\ run.pc = "reopen" => "quick" \in wanted
    /\ heal.pc \in {"upQuick", "renew"} => "quick" \in wanted
    /\ heal.pc = "upNamed" => "named" \in wanted
    /\ op = "upNamed" => "named" \in wanted

\* The records have the fields the scripts assign, and docker shows the quick
\* tunnel in one of four states.
Fields ==
    /\ {"pc", "mode", "failed"} \subseteq DOMAIN run
    /\ {"pc", "mode"} \subseteq DOMAIN heal
    /\ {"mode", "token"} \subseteq DOMAIN env
    /\ quick \in {"absent", "stopped", "running", "mute"}

WantedInv == Fields /\ AskedFor /\ OnlyWanted

LEMMA WantedInit == VmInit => WantedInv
BY DEF VmInit, HostInit, DeployInit, HealInit, OpInit, NoEnv, WantedInv, Fields, AskedFor,
       OnlyWanted

LEMMA WantedDeploy ==
    ASSUME WantedInv, DeployNext, UNCHANGED <<healVars, opVars>>
    PROVE  WantedInv'
<1> USE DEF WantedInv, Fields, AskedFor, OnlyWanted, opVars, healVars
<1>1. CASE Push \/ RunnerDies
  BY <1>1 DEF Push, RunnerDies, GoTo, tunnels
<1>2. CASE Start
  BY <1>2 DEF Start, NoEnv, tunnels
<1>3. CASE WriteEnv
  BY <1>3 DEF WriteEnv, GoTo, tunnels
<1>4. CASE BuildImage \/ StartDb \/ Migrate
  BY <1>4 DEF BuildImage, StartDb, Migrate, GoTo, Fail, tunnels
<1>5. CASE \/ Bootstrap \/ SavePoint \/ Recreate \/ GatePasses \/ GateTimeout
           \/ Rollback \/ NoRollback \/ Regate \/ Record \/ Verify
  BY <1>5 DEF Bootstrap, SavePoint, Recreate, GatePasses, GateTimeout, Rollback,
              NoRollback, Regate, Record, Verify, GoTo, Fail, hostVars, tunnels
<1>6. CASE CheckMode
  BY <1>6 DEF CheckMode, GoTo, Fail, StopTunnels, Stopped, tunnels
<1>7. CASE Restore
  BY <1>7 DEF Restore, GoTo, hostVars, tunnels
<1>8. CASE Reopen
  BY <1>8 DEF Reopen, At, GoTo, UpQuick
<1>9. CASE OpenTunnel
  BY <1>9 DEF OpenTunnel, GoTo, UpNamed
<1> QED BY <1>1, <1>2, <1>3, <1>4, <1>5, <1>6, <1>7, <1>8, <1>9
        DEF DeployNext, Workflow, Prepare, Rollout

LEMMA WantedHeal ==
    ASSUME WantedInv, HealNext, UNCHANGED <<deployVars, opVars>>
    PROVE  WantedInv'
<1> USE DEF WantedInv, Fields, AskedFor, OnlyWanted, opVars, deployVars
<1>1. CASE Wake \/ Guard \/ AppOk \/ AppBack \/ AppStaysDown \/ LiveMode \/ NoMode
           \/ CompareFails
  BY <1>1 DEF Wake, Guard, AppOk, AppBack, AppStaysDown, LiveMode, NoMode, CompareFails,
              HealGoTo, KeepAnswer, hostVars, tunnels
<1>2. CASE CloseQuick \/ CloseNamed
  BY <1>2 DEF CloseQuick, CloseNamed, HealGoTo, Stopped
<1>3. CASE UpStack \/ UpStackFails \/ Compare
  BY <1>3 DEF UpStack, UpStackFails, Compare, HealGoTo, tunnels
<1>4. CASE Tunnel
  BY <1>4 DEF Tunnel, WhichTunnel, HealGoTo, hostVars, tunnels
<1>5. CASE ReviveNamed
  BY <1>5 DEF ReviveNamed, HealAt, HealGoTo, UpNamed
<1>6. CASE ReviveQuick \/ RenewQuick
  BY <1>6 DEF ReviveQuick, RenewQuick, HealAt, HealGoTo, UpQuick
<1> QED BY <1>1, <1>2, <1>3, <1>4, <1>5, <1>6 DEF HealNext

LEMMA WantedOp ==
    ASSUME WantedInv, OpNext, UNCHANGED <<deployVars, healVars>>
    PROVE  WantedInv'
<1> USE DEF WantedInv, Fields, AskedFor, OnlyWanted, deployVars, healVars
<1>1. CASE EditMode
  <2>1. env'.token = env.token /\ {"mode", "token"} \subseteq DOMAIN env'
    BY <1>1 DEF EditMode
  <2> QED BY <1>1, <2>1 DEF EditMode, Command, tunnels
<1>2. CASE UpByHand \/ Down \/ Open
  BY <1>2 DEF UpByHand, Down, Open, Command, hostVars, tunnels
<1>3. CASE StopNamed \/ RmNamed \/ StopQuick \/ RmQuick \/ DropNamed \/ RmDropped \/ DropQuick
  BY <1>3 DEF StopNamed, RmNamed, StopQuick, RmQuick, DropNamed, RmDropped, DropQuick, Then,
              Stopped, Removed
<1>4. CASE Report \/ CheckEnv \/ CheckLive
  BY <1>4 DEF Report, CheckEnv, CheckLive, Then, hostVars, tunnels
<1>5. CASE OpenQuick
  BY <1>5 DEF OpenQuick, UpQuick
<1>6. CASE SaveToken
  BY <1>6 DEF SaveToken, tunnels
<1>7. CASE OpenNamed
  BY <1>7 DEF OpenNamed, UpNamed, Then
<1> QED BY <1>1, <1>2, <1>3, <1>4, <1>5, <1>6, <1>7 DEF OpNext, SetupNext

LEMMA WantedOther ==
    ASSUME WantedInv,
           OutsideStep \/ Reboot \/ UNCHANGED vmVars
    PROVE  WantedInv'
<1> USE DEF WantedInv, Fields, AskedFor, OnlyWanted, deployVars, healVars, opVars
<1>1. CASE OutsideStep
  BY <1>1 DEF OutsideStep, Surroundings, Outage, StopWeb, RemoveWeb, TunnelFails, tunnels
<1>2. CASE Reboot
  BY <1>2 DEF Reboot, tunnels
<1>3. CASE UNCHANGED vmVars
  BY <1>3 DEF vmVars, hostVars, tunnels
<1> QED BY <1>1, <1>2, <1>3

\* No script brings up a tunnel of a kind nobody asked for (autoheal.sh,
\* setup_tunnel.sh, deploy.sh, deploy.yml), however their checks and their
\* compose commands interleave, die and restart with the machine.
THEOREM NoUnwantedTunnel == VmSpec => []OnlyWanted
<1>1. WantedInv /\ [VmNext]_vmVars => WantedInv'
  BY WantedDeploy, WantedHeal, WantedOp, WantedOther
     DEF VmNext, DeployStep, HealStep, OpStep
<1>2. WantedInv => OnlyWanted
  BY DEF WantedInv
<1> QED BY <1>1, <1>2, WantedInit, PTL DEF VmSpec
----------------------------------------------------------------------------
(* What Contained, QuickReturns and PushTaken rest on besides fairness: no *)
(* cycle takes a wrong turn, and what the operator, the deployment and the *)
(* containers do meanwhile does not send it back.                          *)

\* The steps of a cycle, and the records they read, as docker and the files
\* hold them.
HealSteps == {"idle", "guard", "close", "closeNamed", "app", "wait", "mode", "tunnel", "upNamed",
              "upQuick", "renew", "drift"}

CycleTypes ==
    /\ {"pc", "mode", "commit"} \subseteq DOMAIN heal
    /\ heal.pc \in HealSteps
    /\ {"commit", "mode", "token"} \subseteq DOMAIN env
    /\ {"commit", "mode"} \subseteq DOMAIN web
    /\ quick \in {"absent", "stopped", "running", "mute"}

\* How many steps are left to the last of the two that close the tunnels.
ClosingIn ==
    CASE HealAt("closeNamed")                        -> 1
      [] HealAt("close")                             -> 2
      [] HealAt("mode") /\ heal.mode # "secure"      -> 3
      [] HealAt("wait")                              -> 4
      [] HealAt("app")                               -> 5
      [] HealAt("guard")                             -> 6
      [] HealAt("idle")                              -> 7
      [] HealAt("drift")                             -> 8
      [] heal.pc \in {"upNamed", "upQuick", "renew"} -> 9
      [] HealAt("tunnel")                            -> 10
      [] HealAt("mode") /\ heal.mode = "secure"      -> 11

\* While the machine stays exposed each step of the timer brings the close
\* nearer or is the last of it, unless the application does not answer, and
\* nobody else's step takes it farther.
ClosingAdvances ==
    Exposed /\ Exposed' =>
        /\ HealNext => ClosingIn' < ClosingIn \/ CloseNamed \/ AppStaysDown
        /\ ~HealNext => UNCHANGED ClosingIn

\* A quick tunnel that the next cycle owes the machine.
Owed == /\ quick = "stopped"
        /\ Healthy /\ web.mode = "secure" /\ env.mode = "secure" /\ ~env.token

\* How many steps are left to the one that brings it up.
RevivalIn ==
    CASE HealAt("upQuick")                       -> 1
      [] HealAt("tunnel")                        -> 2
      [] HealAt("mode") /\ heal.mode = "secure"  -> 3
      [] heal.pc \in {"app", "wait"}             -> 4
      [] HealAt("guard")                         -> 5
      [] HealAt("idle")                          -> 6
      [] heal.pc \in {"closeNamed", "drift"}     -> 7
      [] heal.pc \in {"close", "upNamed", "renew"} -> 8
      [] HealAt("mode") /\ heal.mode # "secure"  -> 9

RevivalAdvances ==
    Owed /\ Owed' =>
        /\ HealNext => RevivalIn' < RevivalIn \/ ReviveQuick \/ NoMode
        /\ ~HealNext => UNCHANGED RevivalIn

\* A commit waits for the runner, on a machine in order.
Waiting == /\ pending # 0 /\ env.commit # 0
           /\ Healthy /\ web.mode = "secure" /\ env.mode = "secure"

\* How many steps are left to the comparison with main.
ComparisonIn ==
    CASE HealAt("drift")                             -> 1
      [] heal.pc \in {"upNamed", "upQuick", "renew"} -> 2
      [] HealAt("tunnel")                            -> 3
      [] HealAt("mode") /\ heal.mode = "secure"      -> 4
      [] heal.pc \in {"app", "wait"}                 -> 5
      [] HealAt("guard")                             -> 6
      [] HealAt("idle")                              -> 7
      [] HealAt("closeNamed")                        -> 8
      [] HealAt("close")                             -> 9
      [] HealAt("mode") /\ heal.mode # "secure"      -> 10

\* The comparison that ends the cycle sees a drift, whichever answer it kept.
ComparisonAdvances ==
    Waiting /\ Waiting' =>
        /\ HealStep => \/ ComparisonIn' < ComparisonIn
                       \/ Compare /\ report' = "drift"
                       \/ CompareFails \/ NoMode
        /\ ~HealStep => UNCHANGED ComparisonIn \/ Reboot

\* Everything on the machine, and every answer a cycle keeps, is of the commit
\* of the last run or older, and what waits is newer.
Commits ==
    /\ main \in Nat /\ run.commit \in 0..main /\ pending \in 0..main
    /\ env.commit \in {0, run.commit}
    /\ web.commit \in 0..run.commit
    /\ heal.commit \in 0..run.commit
    /\ pending # 0 => run.commit < pending
    /\ {"pc", "commit", "mode", "failed"} \subseteq DOMAIN run

\* An answer a cycle keeps names an older commit than the one that waits.
KeptIsOld == pending # 0 => heal.commit < main

----------------------------------------------------------------------------
\* One step of a cycle leaves its records in order.
LEMMA TypesHeal ==
    ASSUME CycleTypes, HealNext
    PROVE  CycleTypes'
<1> USE DEF CycleTypes, HealSteps
<1>1. CASE Wake \/ Guard \/ AppOk \/ AppBack \/ AppStaysDown \/ LiveMode \/ NoMode
           \/ CompareFails
  BY <1>1 DEF Wake, Guard, AppOk, AppBack, AppStaysDown, LiveMode, NoMode, CompareFails,
              HealGoTo, KeepAnswer, hostVars, stack, tunnels
<1>2. CASE CloseQuick \/ CloseNamed
  BY <1>2 DEF CloseQuick, CloseNamed, HealGoTo, Stopped, stack
<1>3. CASE UpStack
  <2>1. web' = WebOf(tag'[env.commit])
    BY <1>3 DEF UpStack, UpWeb, MakeWeb
  <2> QED BY <1>3, <2>1 DEF UpStack, WebOf, HealGoTo, tunnels
<1>4. CASE UpStackFails \/ Compare
  BY <1>4 DEF UpStackFails, Compare, HealGoTo, stack, tunnels
<1>5. CASE Tunnel
  BY <1>5 DEF Tunnel, WhichTunnel, HealGoTo, hostVars, stack, tunnels
<1>6. CASE ReviveNamed \/ ReviveQuick \/ RenewQuick
  BY <1>6 DEF ReviveNamed, ReviveQuick, RenewQuick, HealGoTo, UpQuick, stack
<1> QED BY <1>1, <1>2, <1>3, <1>4, <1>5, <1>6 DEF HealNext

\* So do the operator's commands, and what else happens to the containers.
LEMMA TypesOp ==
    ASSUME CycleTypes, OpNext \/ Surroundings, UNCHANGED healVars
    PROVE  CycleTypes'
<1> USE DEF CycleTypes, HealSteps, healVars
<1>1. CASE EditMode \/ SaveToken
  <2>1. {"commit", "mode", "token"} \subseteq DOMAIN env'
    BY <1>1 DEF EditMode, SaveToken
  <2> QED BY <1>1, <2>1 DEF EditMode, SaveToken, stack, tunnels
<1>2. CASE UpByHand
  <2>1. web' = WebOf(tag'[env.commit])
    BY <1>2 DEF UpByHand, UpWeb, MakeWeb
  <2> QED BY <1>2, <2>1 DEF UpByHand, WebOf, tunnels
<1>3. CASE StopNamed \/ RmNamed \/ StopQuick \/ RmQuick \/ DropNamed \/ RmDropped \/ DropQuick
  BY <1>3 DEF StopNamed, RmNamed, StopQuick, RmQuick, DropNamed, RmDropped, DropQuick,
              Stopped, Removed, stack
<1>4. CASE Down \/ Open \/ Report \/ CheckEnv \/ CheckLive
  BY <1>4 DEF Down, Open, Report, CheckEnv, CheckLive, hostVars, stack, tunnels
<1>5. CASE OpenQuick \/ OpenNamed
  BY <1>5 DEF OpenQuick, OpenNamed, UpQuick, stack
<1>6. CASE Surroundings
  <2>1. {"commit", "mode"} \subseteq DOMAIN web'
    BY <1>6 DEF Surroundings, Outage, StopWeb, RemoveWeb, NoWeb, TunnelFails, stack
  <2> QED BY <1>6, <2>1 DEF Surroundings, Outage, StopWeb, RemoveWeb, TunnelFails, tunnels
<1> QED BY <1>1, <1>2, <1>3, <1>4, <1>5, <1>6 DEF OpNext, SetupNext

\* The distances have bounds.
LEMMA CycleBounds ==
    CycleTypes => ClosingIn \in 1..11 /\ RevivalIn \in 1..9 /\ ComparisonIn \in 1..10
BY DEF CycleTypes, HealSteps, HealAt, ClosingIn, RevivalIn, ComparisonIn

\* They depend on the cycle alone.
LEMMA CycleAlone ==
    UNCHANGED heal => UNCHANGED <<ClosingIn, RevivalIn, ComparisonIn>>
BY DEF HealAt, ClosingIn, RevivalIn, ComparisonIn

\* An exposed machine: each step but that of an application that stays down.
LEMMA HealCloses ==
    ASSUME CycleTypes, HealNext, Exposed, Exposed', env.commit # 0
    PROVE  ClosingIn' < ClosingIn \/ CloseNamed \/ AppStaysDown
<1> USE DEF CycleTypes, HealAt, HealGoTo, ClosingIn
<1>1. CASE Wake \/ Guard
  BY <1>1 DEF Wake, Guard
<1>2. CASE LiveMode
  <2>1. HealAt("mode") /\ heal' = [heal EXCEPT !.pc =
                                      IF heal.mode = "secure" THEN "tunnel" ELSE "close"]
    BY <1>2 DEF LiveMode
  <2>2. CASE heal.mode = "secure"
    BY <2>1, <2>2
  <2>3. CASE heal.mode # "secure"
    BY <2>1, <2>3
  <2> QED BY <2>2, <2>3
<1>3. CASE CompareFails \/ Compare
  <2>1. HealAt("drift") /\ heal' = [heal EXCEPT !.pc = "idle"]
    BY <1>3 DEF CompareFails, Compare
  <2> QED BY <2>1
<1>4. CASE AppOk \/ AppBack
  BY <1>4 DEF AppOk, AppBack, KeepAnswer, Exposed
<1>5. CASE UpStack \/ UpStackFails
  <2>1. HealAt("app") /\ heal' = [heal EXCEPT !.pc = "wait"]
    BY <1>5 DEF UpStack, UpStackFails
  <2> QED BY <2>1
<1>6. CASE Tunnel
  BY <1>6 DEF Tunnel, WhichTunnel
<1>7. CASE ReviveNamed \/ ReviveQuick \/ RenewQuick
  BY <1>7 DEF ReviveNamed, ReviveQuick, RenewQuick
<1>8. CASE CloseQuick \/ NoMode
  BY <1>8 DEF CloseQuick, NoMode
<1> QED BY <1>1, <1>2, <1>3, <1>4, <1>5, <1>6, <1>7, <1>8 DEF HealNext

\* A machine that is owed its quick tunnel.
LEMMA HealRevives ==
    ASSUME CycleTypes, HealNext, Owed, Owed', env.commit # 0
    PROVE  RevivalIn' < RevivalIn \/ ReviveQuick \/ NoMode
<1> USE DEF CycleTypes, HealAt, HealGoTo, RevivalIn, Owed
<1>1. CASE Wake \/ Guard
  BY <1>1 DEF Wake, Guard
<1>2. CASE LiveMode
  <2>1. HealAt("mode") /\ heal' = [heal EXCEPT !.pc =
                                      IF heal.mode = "secure" THEN "tunnel" ELSE "close"]
    BY <1>2 DEF LiveMode
  <2>2. CASE heal.mode = "secure"
    BY <2>1, <2>2
  <2>3. CASE heal.mode # "secure"
    BY <2>1, <2>3
  <2> QED BY <2>2, <2>3
<1>3. CASE CompareFails \/ Compare
  <2>1. HealAt("drift") /\ heal' = [heal EXCEPT !.pc = "idle"]
    BY <1>3 DEF CompareFails, Compare
  <2> QED BY <2>1
<1>4. CASE AppOk \/ AppBack
  BY <1>4 DEF AppOk, AppBack, KeepAnswer
<1>5. CASE UpStack \/ UpStackFails \/ AppStaysDown
  BY <1>5 DEF UpStack, UpStackFails, AppStaysDown
<1>6. CASE Tunnel
  BY <1>6 DEF Tunnel, WhichTunnel
<1>7. CASE ReviveNamed \/ RenewQuick
  BY <1>7 DEF ReviveNamed, RenewQuick
<1>8. CASE CloseQuick \/ CloseNamed
  <2>1. heal' = [heal EXCEPT !.pc = IF heal.pc = "close" THEN "closeNamed" ELSE "idle"]
        /\ heal.pc \in {"close", "closeNamed"}
    BY <1>8 DEF CloseQuick, CloseNamed
  <2> QED BY <2>1
<1> QED BY <1>1, <1>2, <1>3, <1>4, <1>5, <1>6, <1>7, <1>8 DEF HealNext

\* The machine after its first deployment keeps its .env.
ExposureInv == CycleTypes /\ env.commit # 0

LEMMA ExposureStart == ExposureInit => ExposureInv
BY DEF ExposureInit, Deployed, HealInit, WebOf, ExposureInv, CycleTypes, HealSteps

LEMMA ExposureStep == ExposureInv /\ [ExposureNext]_exposureVars => ExposureInv'
<1> SUFFICES ASSUME ExposureInv, [ExposureNext]_exposureVars PROVE ExposureInv'
  OBVIOUS
<1>1. CycleTypes'
  <2>1. CASE UNCHANGED exposureVars
    BY <2>1 DEF exposureVars, hostVars, stack, tunnels, healVars, ExposureInv, CycleTypes
  <2> QED BY <2>1, TypesHeal, TypesOp DEF ExposureNext, ExposureInv
<1>2. env'.commit = env.commit
  <2>1. CASE EditMode \/ SaveToken
    BY <2>1 DEF EditMode, SaveToken, ExposureInv, CycleTypes
  <2>2. CASE ~(EditMode \/ SaveToken)
    BY <2>2 DEF ExposureNext, HealNext, Wake, Guard, CloseQuick, CloseNamed, AppOk, UpStack,
       UpStackFails, AppBack, AppStaysDown, LiveMode, NoMode, Tunnel, ReviveNamed, ReviveQuick, RenewQuick,
       Compare, CompareFails, OpNext, UpByHand, Down, Open, SetupNext, StopNamed, RmNamed,
       StopQuick, RmQuick, Report, CheckEnv, CheckLive, DropNamed, RmDropped, DropQuick, OpenQuick,
       OpenNamed, Surroundings, Outage, StopWeb, RemoveWeb, TunnelFails, exposureVars,
       hostVars
  <2> QED BY <2>1, <2>2
<1> QED BY <1>1, <1>2 DEF ExposureInv

\* Only a step of the timer changes where the cycle is.
LEMMA OnlyTimer ==
    ASSUME [ExposureNext]_exposureVars, ~HealNext
    PROVE  UNCHANGED heal
BY DEF ExposureNext, exposureVars, healVars

\* The half of Contained that is no liveness: as long as the machine stays exposed,
\* each step of a cycle of autoheal.sh, whatever it had read before the tunnel was
\* opened or the mode changed, brings the last step of its close nearer, and no
\* command of the operator or failure of a container takes it farther; only an
\* application that does not answer ends a cycle before it.
THEOREM CloseComesNearer ==
    ExposureSpec => [](ClosingIn \in 1..11) /\ [][ClosingAdvances]_exposureVars
<1>1. ExposureInv => ClosingIn \in 1..11
  BY CycleBounds DEF ExposureInv
<1>2. ExposureInv /\ [ExposureNext]_exposureVars => ClosingAdvances
  BY HealCloses, OnlyTimer, CycleAlone DEF ExposureInv, ClosingAdvances
<1> QED
  BY <1>1, <1>2, ExposureStart, ExposureStep, PTL DEF ExposureSpec

\* The half of QuickReturns that is no liveness: while a stopped quick tunnel is
\* owed, each step of a cycle brings its revival nearer or is an attempt of it
\* (autoheal.sh, section 4), unless the mode of the answer cannot be read.
THEOREM RevivalComesNearer ==
    ExposureSpec => [](RevivalIn \in 1..9) /\ [][RevivalAdvances]_exposureVars
<1>1. ExposureInv => RevivalIn \in 1..9
  BY CycleBounds DEF ExposureInv
<1>2. ExposureInv /\ [ExposureNext]_exposureVars => RevivalAdvances
  BY HealRevives, OnlyTimer, CycleAlone DEF ExposureInv, RevivalAdvances
<1> QED
  BY <1>1, <1>2, ExposureStart, ExposureStep, PTL DEF ExposureSpec
----------------------------------------------------------------------------
\* The deployment leaves the records of a cycle in order.
LEMMA TypesDeploy ==
    ASSUME CycleTypes, DeployNext, UNCHANGED healVars
    PROVE  CycleTypes'
<1> USE DEF CycleTypes, HealSteps, healVars
<1>1. CASE Push \/ RunnerDies \/ BuildImage \/ StartDb \/ Migrate
  BY <1>1 DEF Push, RunnerDies, BuildImage, StartDb, Migrate, stack, tunnels
<1>2. CASE Start \/ WriteEnv
  BY <1>2 DEF Start, WriteEnv, NoEnv, stack, tunnels
<1>3. CASE Recreate \/ Rollback \/ OpenTunnel
  <2>1. {"commit", "mode"} \subseteq DOMAIN web'
    BY <1>3 DEF Recreate, Rollback, OpenTunnel, UpWeb, MakeWeb, WebOf, NoWeb, stack
  <2> QED BY <1>3, <2>1 DEF Recreate, Rollback, OpenTunnel, tunnels
<1>4. CASE \/ Bootstrap \/ SavePoint \/ GatePasses \/ GateTimeout \/ NoRollback
           \/ Regate \/ Restore \/ Record \/ Verify
  BY <1>4 DEF Bootstrap, SavePoint, GatePasses, GateTimeout, NoRollback, Regate,
              Restore, Record, Verify, hostVars, stack, tunnels
<1>5. CASE CheckMode
  BY <1>5 DEF CheckMode, StopTunnels, Stopped, tunnels
<1>6. CASE Reopen
  BY <1>6 DEF Reopen, UpQuick, stack
<1> QED BY <1>1, <1>2, <1>3, <1>4, <1>5, <1>6 DEF DeployNext, Workflow, Prepare, Rollout

CommitsInv == CycleTypes /\ Commits

LEMMA CommitsInit == VmInit => CommitsInv
BY DEF VmInit, HostInit, DeployInit, HealInit, NoEnv, NoWeb, CommitsInv, CycleTypes,
       HealSteps, Commits

\* A push makes main newer; a run that starts takes what waited, and is newer
\* than all there is.
LEMMA CommitsDeploy ==
    ASSUME CommitsInv, DeployNext, UNCHANGED healVars
    PROVE  Commits'
<1> USE DEF CommitsInv, CycleTypes, Commits, healVars
<1>1. CASE Push
  <2>1. /\ UNCHANGED <<run, env, web, heal>>
        /\ main' = main + 1 /\ (pending' = main + 1 \/ pending' = pending)
    BY <1>1 DEF Push, stack
  <2>2. pending' \in 0..main' /\ (pending' # 0 => run.commit < pending')
    BY <2>1
  <2> QED BY <2>1, <2>2
<1>2. CASE Start
  BY <1>2 DEF Start, NoEnv, stack
<1>3. CASE RunnerDies
  BY <1>3 DEF RunnerDies, GoTo, stack
<1>4. CASE WriteEnv
  BY <1>4 DEF WriteEnv, GoTo, stack
<1>5. CASE BuildImage \/ StartDb \/ Migrate
  BY <1>5 DEF BuildImage, StartDb, Migrate, GoTo, Fail, stack
<1>6. CASE Recreate \/ Rollback \/ OpenTunnel
  <2>1. web' = web \/ web' = NoWeb \/ \E image : web' = WebOf(image)
    BY <1>6 DEF Recreate, Rollback, OpenTunnel, UpWeb, MakeWeb, stack
  <2>2. web'.commit \in {web.commit, 0, env.commit}
    BY <2>1 DEF NoWeb, WebOf
  <2>3. /\ UNCHANGED <<main, pending, env>>
        /\ run'.commit = run.commit /\ {"pc", "commit", "mode", "failed"} \subseteq DOMAIN run'
    BY <1>6 DEF Recreate, Rollback, OpenTunnel, GoTo, Fail
  <2> QED BY <2>2, <2>3
<1>7. CASE \/ Bootstrap \/ SavePoint \/ GateTimeout \/ NoRollback
           \/ Regate \/ Restore \/ Record \/ Verify \/ Reopen
  BY <1>7 DEF Bootstrap, SavePoint, GateTimeout, NoRollback, Regate,
              Restore, Record, Verify, Reopen, GoTo, Fail, hostVars, stack
<1>8. CASE GatePasses \/ CheckMode
  BY <1>8 DEF GatePasses, CheckMode, GoTo, Fail, hostVars, stack
<1> QED BY <1>1, <1>2, <1>3, <1>4, <1>5, <1>6, <1>7, <1>8
        DEF DeployNext, Workflow, Prepare, Rollout

\* A cycle and the operator make containers of the commit of .env, and an answer
\* that is kept is that of the container.
LEMMA CommitsHeal ==
    ASSUME CommitsInv, HealNext, UNCHANGED deployVars
    PROVE  Commits'
<1> USE DEF CommitsInv, CycleTypes, Commits, deployVars
<1>1. CASE Wake \/ Guard \/ AppStaysDown \/ LiveMode \/ NoMode \/ CompareFails \/ Tunnel
  BY <1>1 DEF Wake, Guard, AppStaysDown, LiveMode, NoMode, CompareFails, Tunnel,
              HealGoTo, hostVars, stack
<1>2. CASE AppOk \/ AppBack
  BY <1>2 DEF AppOk, AppBack, KeepAnswer, hostVars, stack
<1>3. CASE UpStack
  <2>1. web' = WebOf(tag'[env.commit]) /\ UNCHANGED <<main, env>>
    BY <1>3 DEF UpStack, UpWeb, MakeWeb
  <2>2. heal'.commit = heal.commit
    BY <1>3 DEF UpStack, HealGoTo
  <2>3. web'.commit = env.commit
    BY <2>1 DEF WebOf
  <2> QED BY <2>1, <2>2, <2>3
<1>4. CASE \/ CloseQuick \/ CloseNamed \/ UpStackFails \/ Compare
           \/ ReviveNamed \/ ReviveQuick \/ RenewQuick
  BY <1>4 DEF CloseQuick, CloseNamed, UpStackFails, Compare, ReviveNamed, ReviveQuick, RenewQuick,
              HealGoTo, stack
<1> QED BY <1>1, <1>2, <1>3, <1>4 DEF HealNext

LEMMA CommitsOp ==
    ASSUME CommitsInv, OpNext \/ Surroundings, UNCHANGED <<deployVars, healVars>>
    PROVE  Commits'
<1> USE DEF CommitsInv, CycleTypes, Commits, deployVars, healVars
<1>1. CASE EditMode \/ SaveToken
  <2>1. env'.commit = env.commit
    BY <1>1 DEF EditMode, SaveToken
  <2> QED BY <1>1, <2>1 DEF EditMode, SaveToken, stack
<1>2. CASE UpByHand
  <2>1. web' = WebOf(tag'[env.commit]) /\ UNCHANGED <<main, env>>
    BY <1>2 DEF UpByHand, UpWeb, MakeWeb
  <2>2. web'.commit = env.commit
    BY <2>1 DEF WebOf
  <2> QED BY <2>1, <2>2
<1>3. CASE StopNamed \/ RmNamed \/ StopQuick \/ RmQuick \/ DropNamed \/ RmDropped \/ DropQuick
           \/ OpenQuick \/ OpenNamed
  BY <1>3 DEF StopNamed, RmNamed, StopQuick, RmQuick, DropNamed, RmDropped, DropQuick, OpenQuick,
              OpenNamed, stack
<1>4. CASE Down \/ Open \/ Report \/ CheckEnv \/ CheckLive
  BY <1>4 DEF Down, Open, Report, CheckEnv, CheckLive, hostVars, stack
<1>5. CASE Surroundings
  <2>1. web'.commit \in {web.commit, 0}
    BY <1>5 DEF Surroundings, Outage, StopWeb, RemoveWeb, NoWeb, TunnelFails, stack
  <2>2. UNCHANGED <<main, env>>
    BY <1>5 DEF Surroundings, Outage, StopWeb, RemoveWeb, TunnelFails
  <2> QED BY <2>1, <2>2
<1> QED BY <1>1, <1>2, <1>3, <1>4, <1>5 DEF OpNext, SetupNext

LEMMA CommitsStep == CommitsInv /\ [VmNext]_vmVars => CommitsInv'
<1> SUFFICES ASSUME CommitsInv, [VmNext]_vmVars PROVE CommitsInv'
  OBVIOUS
<1>1. CASE DeployStep
  BY <1>1, TypesDeploy, CommitsDeploy DEF DeployStep, CommitsInv
<1>2. CASE HealStep
  BY <1>2, TypesHeal, CommitsHeal DEF HealStep, CommitsInv
<1>3. CASE OpStep \/ OutsideStep
  BY <1>3, TypesOp, CommitsOp DEF OpStep, OutsideStep, CommitsInv
<1>4. CASE Reboot
  BY <1>4 DEF Reboot, stack, tunnels, CommitsInv, Commits, CycleTypes, HealSteps
<1>5. CASE UNCHANGED vmVars
  BY <1>5 DEF vmVars, hostVars, stack, tunnels, healVars, deployVars, CommitsInv, Commits,
              CycleTypes
<1> QED BY <1>1, <1>2, <1>3, <1>4, <1>5 DEF VmNext

\* A commit waits: each step of a cycle leads to the comparison, which says drift.
LEMMA HealCompares ==
    ASSUME CommitsInv, HealNext, Waiting, Waiting'
    PROVE  \/ ComparisonIn' < ComparisonIn
           \/ Compare /\ report' = "drift"
           \/ CompareFails \/ NoMode
<1> USE DEF CycleTypes, CommitsInv, HealAt, HealGoTo, ComparisonIn, Waiting
<1>1. CASE Wake \/ Guard
  BY <1>1 DEF Wake, Guard
<1>2. CASE LiveMode
  <2>1. HealAt("mode") /\ heal' = [heal EXCEPT !.pc =
                                      IF heal.mode = "secure" THEN "tunnel" ELSE "close"]
    BY <1>2 DEF LiveMode
  <2>2. CASE heal.mode = "secure"
    BY <2>1, <2>2
  <2>3. CASE heal.mode # "secure"
    BY <2>1, <2>3
  <2> QED BY <2>2, <2>3
<1>3. CASE Compare
  <2>1. heal.commit # main
    BY DEF Commits
  <2> QED BY <1>3, <2>1 DEF Compare
<1>4. CASE AppOk \/ AppBack
  BY <1>4 DEF AppOk, AppBack, KeepAnswer
<1>5. CASE UpStack \/ UpStackFails \/ AppStaysDown
  BY <1>5 DEF UpStack, UpStackFails, AppStaysDown
<1>6. CASE Tunnel
  BY <1>6 DEF Tunnel, WhichTunnel
<1>7. CASE ReviveNamed \/ ReviveQuick \/ RenewQuick
  BY <1>7 DEF ReviveNamed, ReviveQuick, RenewQuick
<1>8. CASE CloseQuick \/ CloseNamed
  <2>1. heal' = [heal EXCEPT !.pc = IF heal.pc = "close" THEN "closeNamed" ELSE "idle"]
        /\ heal.pc \in {"close", "closeNamed"}
    BY <1>8 DEF CloseQuick, CloseNamed
  <2> QED BY <2>1
<1> QED BY <1>1, <1>2, <1>3, <1>4, <1>5, <1>6, <1>7, <1>8 DEF HealNext

\* No answer that a cycle keeps, however old, names the head of main while a commit
\* waits for a run, whatever was deployed, rolled back or started by hand before: the
\* blind spot of vm_drift is only there when nothing waits (autoheal.sh, section 5).
THEOREM WaitingIsDrift == VmSpec => []KeptIsOld
<1>1. CommitsInv => KeptIsOld
  BY DEF CommitsInv, Commits, KeptIsOld
<1> QED
  BY <1>1, CommitsInit, CommitsStep, PTL DEF VmSpec

\* The half of PushTaken that is no liveness: while a commit waits on a machine in
\* order, each step of a cycle brings the comparison nearer or is the comparison, which
\* reports a drift unless git fails or the answer cannot be read, and nothing but a
\* reboot takes it farther.
THEOREM ComparisonComesNearer ==
    VmSpec => [](ComparisonIn \in 1..10) /\ [][ComparisonAdvances]_vmVars
<1>1. CommitsInv => ComparisonIn \in 1..10
  BY CycleBounds DEF CommitsInv
<1>2. ASSUME [VmNext]_vmVars, ~HealStep, ~Reboot PROVE UNCHANGED heal
  BY <1>2 DEF VmNext, DeployStep, OpStep, OutsideStep, vmVars, healVars
<1>3. CommitsInv /\ [VmNext]_vmVars => ComparisonAdvances
  BY <1>2, HealCompares, CycleAlone DEF ComparisonAdvances, HealStep
<1> QED
  BY <1>1, <1>3, CommitsInit, CommitsStep, PTL DEF VmSpec
=============================================================================
