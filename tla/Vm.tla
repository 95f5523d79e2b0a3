---------------------------------- MODULE Vm ----------------------------------
(***************************************************************************)
(* The machine with everything that acts on it: the deployment workflow,   *)
(* the self-healing timer and the operator, interleaved.  No lock is held  *)
(* by any of them against the others; each reads .env, docker and /healthz *)
(* and acts on what it read.                                               *)
(***************************************************************************)
EXTENDS Deploy, Exposure

vmVars == <<hostVars, deployVars, healVars, opVars>>

VmInit == HostInit /\ DeployInit /\ HealInit /\ OpInit

\* The machine restarts: every script dies, docker starts again what ran, and
\* the runner service comes back.
Reboot ==
    /\ runner' = TRUE
    /\ run' = [run EXCEPT !.pc = "idle"]
    /\ heal' = [heal EXCEPT !.pc = "idle"]
    /\ op' = "idle"
    /\ UNCHANGED <<main, env, images, stack, schema, tunnels, pending, before,
                   report, form, commands, wanted, off>>

DeployStep == DeployNext /\ UNCHANGED <<healVars, opVars>>
HealStep == HealNext /\ UNCHANGED <<deployVars, opVars>>
OpStep == OpNext /\ UNCHANGED <<deployVars, healVars>>
OutsideStep == Surroundings /\ UNCHANGED <<deployVars, healVars, opVars>>

VmNext == DeployStep \/ HealStep \/ OpStep \/ OutsideStep \/ Reboot

VmSpec == VmInit /\ [][VmNext]_vmVars

\* The timer goes on; python3, docker, systemd and GitHub grant again and again what
\* autoheal asks again and again; a runner that is alive again and again takes
\* the waiting run, and works through it; the operator's scripts go on.
VmFairSpec ==
    /\ VmSpec
    /\ WF_vmVars(HealStep)
    /\ SF_vmVars(UpStack /\ UNCHANGED <<deployVars, opVars>>)
    /\ SF_vmVars(LiveMode /\ UNCHANGED <<deployVars, opVars>>)
    /\ SF_vmVars(ReviveQuickOk /\ UNCHANGED <<deployVars, opVars>>)
    /\ SF_vmVars(CompareOk /\ UNCHANGED <<deployVars, opVars>>)
    /\ WF_vmVars(Workflow /\ UNCHANGED <<healVars, opVars>>)
    /\ SF_vmVars(Start /\ UNCHANGED <<healVars, opVars>>)
    /\ WF_vmVars(SetupNext /\ UNCHANGED <<deployVars, healVars>>)

----------------------------------------------------------------------------
(* Properties.                                                             *)

\* A commit waiting for a run is taken although the runner died: autoheal sees
\* the drift and starts the runner, as long as the application answers.
PushTaken ==
    (pending # 0 /\ run.pc = "idle") ~>
        \/ pending = 0 \/ run.pc # "idle"
        \/ ~Healthy \/ web.mode # "secure" \/ env.mode # "secure" \/ env.commit = 0

\* "The machine left on an old commit (drift)": while it is, the answer kept
\* for the comparison does not name the head of main.
DriftVisible ==
    [][heal.pc \in {"app", "wait"} /\ heal'.pc = "mode" /\ web.image # main =>
          heal'.commit # main]_vmVars
===============================================================================
