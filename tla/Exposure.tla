------------------------------ MODULE Exposure ------------------------------
(***************************************************************************)
(* Who opens and closes the machine to the internet: autoheal, the operator*)
(* with setup_tunnel.sh and his lab, and failing containers, on a machine  *)
(* whose first deployment succeeded and has no other on its way.           *)
(***************************************************************************)
EXTENDS Autoheal, SetupTunnel

exposureVars == <<hostVars, healVars, opVars>>

\* After the first deployment: everything of commit 1, its tunnel if the
\* secret is set.
Deployed ==
    /\ main = 1
    /\ runner = TRUE
    /\ env = [commit |-> 1, mode |-> "secure", token |-> TokenSecret]
    /\ tag = [n \in Commit |-> IF n = 1 THEN 1 ELSE 0]
    /\ rollbackTag = 0
    /\ broken = {}
    /\ web = WebOf(1)
    /\ nginx = TRUE
    /\ db = TRUE
    /\ schema = 1
    /\ named = IF TokenSecret THEN "running" ELSE "absent"
    /\ quick = "absent"

ExposureInit == Deployed /\ HealInit /\ OpInit

ExposureNext ==
    \/ HealNext /\ UNCHANGED opVars
    \/ OpNext /\ UNCHANGED healVars
    \/ Surroundings /\ UNCHANGED <<healVars, opVars>>

ExposureSpec == ExposureInit /\ [][ExposureNext]_exposureVars

\* The timer goes on, python3 and docker grant again and again what autoheal
\* asks again and again, and a script of the operator goes on.
ExposureFairSpec ==
    /\ ExposureSpec
    /\ WF_exposureVars(HealNext /\ UNCHANGED opVars)
    /\ SF_exposureVars(UpStack /\ UNCHANGED opVars)
    /\ SF_exposureVars(LiveMode /\ UNCHANGED opVars)
    /\ SF_exposureVars(ReviveQuickOk /\ UNCHANGED opVars)
    /\ SF_exposureVars(CloseQuickOk /\ UNCHANGED opVars)
    /\ SF_exposureVars(CloseNamedOk /\ UNCHANGED opVars)
    /\ WF_exposureVars(SetupNext /\ UNCHANGED healVars)

----------------------------------------------------------------------------
(* Properties.                                                             *)

\* "A tunnel that was never turned on is not turned on": whichever script
\* revives a tunnel, somebody had asked for that kind of tunnel before.
OnlyWanted ==
    /\ quick # "absent" => "quick" \in wanted
    /\ named # "absent" => "named" \in wanted

\* "Whatever the path, vulnerable is not left exposed": the machine does not
\* stay exposed, whoever opened the tunnel and however the mode changed.
Contained == Exposed ~> ~Exposed

\* A stopped quick tunnel of a machine that serves in secure mode, with no
\* named tunnel to take its place, comes back.
QuickReturns ==
    (quick = "stopped") ~>
        \/ quick # "stopped"
        \/ ~Healthy \/ web.mode # "secure" \/ env.mode # "secure"
        \/ env.token \/ env.commit = 0

\* "--down and self-healing do not conflict": no cycle reopens what --down
\* reported as closed.
DownStaysDown ==
    [][off /\ heal' # heal => (NamedOpen' => NamedOpen) /\ (QuickOpen' => QuickOpen)]_exposureVars
=============================================================================
