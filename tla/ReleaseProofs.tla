--------------------------- MODULE ReleaseProofs ---------------------------
(***************************************************************************)
(* Theorems about the migrations within the deployment, for every number   *)
(* of commits, files and statements.                                       *)
(***************************************************************************)
EXTENDS Release, TLAPS

RunnerState == [pc : {"none", "connect", "read", "apply", "done", "failed"},
                todo : SUBSET Nat, next : Nat]

\* What the runner has done of the file it is at is in the database: without it
\* nothing says that a version about to be recorded is whole.
Progress ==
    \A n \in Commit : migration[n].pc = "apply" =>
        \A s \in 1..(migration[n].next - 1) : <<Min(migration[n].todo), s>> \in applied

MigrationInv ==
    /\ migration \in [Commit -> RunnerState]
    /\ Progress
    /\ RecordedApplied

\* A step that starts or removes a runner tells nothing of files and rows.
LEMMA ResetKeeps ==
    ASSUME MigrationInv, NEW n \in Commit, NEW r \in RunnerState, r.pc # "apply",
           migration' = [migration EXCEPT ![n] = r], UNCHANGED <<applied, versions>>
    PROVE  MigrationInv'
<1>1. migration' \in [Commit -> RunnerState]
  BY DEF MigrationInv
<1>2. Progress'
  BY DEF MigrationInv, Progress
<1>3. RecordedApplied'
  BY DEF MigrationInv, RecordedApplied, Whole
<1> QED BY <1>1, <1>2, <1>3 DEF MigrationInv

LEMMA NoRunnerState == NoRunner \in RunnerState
BY DEF NoRunner, RunnerState

LEMMA LaunchKeeps ==
    ASSUME MigrationInv, NEW n \in Commit, Launch(n)
    PROVE  MigrationInv'
<1>1. PICK r : r = [migration[n] EXCEPT !.pc = "connect"]
  OBVIOUS
<1>2. r \in RunnerState /\ r.pc = "connect"
  BY <1>1 DEF MigrationInv, RunnerState
<1>3. migration' = [migration EXCEPT ![n] = r]
  BY <1>1 DEF Launch, MigrationInv
<1> QED BY <1>2, <1>3, ResetKeeps DEF Launch

LEMMA RemoveKeeps ==
    ASSUME MigrationInv, NEW n \in Commit, Remove(n)
    PROVE  MigrationInv'
<1>1. NoRunner.pc # "apply"
  BY DEF NoRunner
<1> QED BY <1>1, NoRunnerState, ResetKeeps DEF Remove

\* The runner turns to the next file, of which it has done nothing yet.
LEMMA PendingKeeps ==
    ASSUME MigrationInv, NEW n \in Commit, NEW todo \in SUBSET Nat, Pending(n, todo),
           applied' = applied, RecordedApplied'
    PROVE  MigrationInv'
<1>1. PICK r : r = IF todo = {} THEN [NoRunner EXCEPT !.pc = "done"]
                                ELSE [pc |-> "apply", todo |-> todo, next |-> 1]
  OBVIOUS
<1>2. r \in RunnerState
  BY <1>1 DEF NoRunner, RunnerState
<1>3. r.pc = "apply" => r.next = 1
  BY <1>1 DEF NoRunner
<1>4. migration' = [migration EXCEPT ![n] = r]
  BY <1>1 DEF Pending
<1>5. migration' \in [Commit -> RunnerState]
  BY <1>2, <1>4 DEF MigrationInv
<1>6. Progress'
  <2> SUFFICES ASSUME NEW m \in Commit, migration'[m].pc = "apply",
                      NEW s \in 1..(migration'[m].next - 1)
               PROVE  <<Min(migration'[m].todo), s>> \in applied
    BY DEF Progress
  <2>1. m # n
    BY <1>3, <1>4 DEF MigrationInv
  <2>2. migration'[m] = migration[m]
    BY <2>1, <1>4 DEF MigrationInv
  <2> QED BY <2>2 DEF MigrationInv, Progress
<1> QED BY <1>5, <1>6 DEF MigrationInv

LEMMA ReadKeeps ==
    ASSUME MigrationInv, NEW n \in Commit, Read(n)
    PROVE  MigrationInv'
<1>1. (1..files[n]) \ versions \in SUBSET Nat
  OBVIOUS
<1>2. RecordedApplied'
  BY DEF Read, MigrationInv, RecordedApplied, Whole
<1> QED BY <1>1, <1>2, PendingKeeps DEF Read

LEMMA ExecuteKeeps ==
    ASSUME MigrationInv, NEW n \in Commit, Execute(n)
    PROVE  MigrationInv'
<1>1. PICK r : r = migration[n]
  OBVIOUS
<1>2. r \in RunnerState /\ r.pc = "apply"
  BY <1>1 DEF MigrationInv, Execute
<1>3. PICK q : q = [r EXCEPT !.next = @ + 1]
  OBVIOUS
<1>4. q \in RunnerState /\ q.pc = "apply" /\ q.todo = r.todo /\ q.next = r.next + 1
  BY <1>2, <1>3 DEF RunnerState
<1>5. migration' = [migration EXCEPT ![n] = q]
  BY <1>1, <1>3 DEF Execute, MigrationInv
<1>6. applied' = applied \union {<<Min(r.todo), r.next>>}
  BY <1>1 DEF Execute
<1>7. migration' \in [Commit -> RunnerState]
  BY <1>4, <1>5 DEF MigrationInv
<1>8. Progress'
  <2> SUFFICES ASSUME NEW m \in Commit, migration'[m].pc = "apply",
                      NEW s \in 1..(migration'[m].next - 1)
               PROVE  <<Min(migration'[m].todo), s>> \in applied'
    BY DEF Progress
  <2>1. CASE m = n
    <3>1. migration'[m] = q
      BY <2>1, <1>5 DEF MigrationInv
    <3>2. s \in 1..(r.next - 1) \/ s = r.next
      BY <3>1, <1>2, <1>4 DEF RunnerState
    <3>3. CASE s \in 1..(r.next - 1)
      BY <3>3, <3>1, <1>1, <1>2, <1>4, <1>6 DEF MigrationInv, Progress
    <3>4. CASE s = r.next
      BY <3>4, <3>1, <1>4, <1>6
    <3> QED BY <3>2, <3>3, <3>4
  <2>2. CASE m # n
    <3>1. migration'[m] = migration[m]
      BY <2>2, <1>5 DEF MigrationInv
    <3> QED BY <3>1, <1>6 DEF MigrationInv, Progress
  <2> QED BY <2>1, <2>2
<1>9. RecordedApplied'
  BY <1>6 DEF Execute, MigrationInv, RecordedApplied, Whole
<1> QED BY <1>7, <1>8, <1>9 DEF MigrationInv

LEMMA RecordKeeps ==
    ASSUME MigrationInv, NEW n \in Commit, RecordVersion(n)
    PROVE  MigrationInv'
<1>1. PICK r : r = migration[n]
  OBVIOUS
<1>2. r \in RunnerState /\ r.pc = "apply" /\ r.next > Statements
  BY <1>1 DEF MigrationInv, RecordVersion
<1>3. versions' = versions \union {Min(r.todo)} /\ applied' = applied
  BY <1>1 DEF RecordVersion
<1>4. Pending(n, r.todo \ {Min(r.todo)})
  BY <1>1 DEF RecordVersion
<1>5. Whole(Min(r.todo))
  <2> SUFFICES ASSUME NEW s \in 1..Statements
               PROVE  <<Min(r.todo), s>> \in applied
    BY DEF Whole
  <2>1. s \in 1..(r.next - 1)
    BY <1>2, MigrationsAssumption DEF RunnerState
  <2> QED BY <2>1, <1>1, <1>2 DEF MigrationInv, Progress
<1>6. RecordedApplied'
  BY <1>3, <1>5 DEF MigrationInv, RecordedApplied, Whole
<1>7. r.todo \ {Min(r.todo)} \in SUBSET Nat
  BY <1>2 DEF RunnerState
<1> QED BY <1>3, <1>4, <1>6, <1>7, PendingKeeps

LEMMA ConnectKeeps ==
    ASSUME MigrationInv, NEW n \in Commit, Connect(n)
    PROVE  MigrationInv'
<1>1. PICK r : r = [migration[n] EXCEPT !.pc = "read"]
  OBVIOUS
<1>2. r \in RunnerState /\ r.pc = "read"
  BY <1>1 DEF MigrationInv, RunnerState
<1>3. migration' = [migration EXCEPT ![n] = r]
  BY <1>1 DEF Connect, MigrationInv
<1> QED BY <1>2, <1>3, ResetKeeps DEF Connect

LEMMA BreakKeeps ==
    ASSUME MigrationInv, NEW n \in Commit, Break(n)
    PROVE  MigrationInv'
<1>1. PICK r : r = [NoRunner EXCEPT !.pc = "failed"]
  OBVIOUS
<1>2. r \in RunnerState /\ r.pc = "failed"
  BY <1>1 DEF NoRunner, RunnerState
<1> QED BY <1>1, <1>2, ResetKeeps DEF Break

LEMMA MigrationInvInit == ReleaseInit => MigrationInv
BY NoRunnerState DEF ReleaseInit, MigrationsInit, MigrationInv, Progress,
   RecordedApplied, NoRunner

LEMMA MigrationInvStep == MigrationInv /\ [ReleaseNext]_releaseVars => MigrationInv'
<1> SUFFICES ASSUME MigrationInv, [ReleaseNext]_releaseVars
             PROVE  MigrationInv'
  OBVIOUS
<1>1. CASE UNCHANGED <<migration, applied, versions>>
  BY <1>1 DEF MigrationInv, Progress, RecordedApplied, Whole
<1>2. CASE ReleasePush
  BY <1>1, <1>2 DEF ReleasePush
<1>3. CASE StartMigration
  <2>1. CASE run.commit \in Commit
    BY <1>3, <2>1, LaunchKeeps DEF StartMigration
  <2>2. CASE run.commit \notin Commit
    BY <1>3, <2>2, <1>1 DEF StartMigration, Launch, MigrationInv
  <2> QED BY <2>1, <2>2
<1>4. CASE SeeExit
  <2>1. CASE run.commit \in Commit
    BY <1>4, <2>1, RemoveKeeps DEF SeeExit
  <2>2. CASE run.commit \notin Commit
    BY <1>4, <2>2, <1>1 DEF SeeExit, Remove, MigrationInv
  <2> QED BY <2>1, <2>2
<1>5. ASSUME NEW n \in Commit, MigrationStep(n) PROVE MigrationInv'
  BY <1>5, ConnectKeeps, ReadKeeps, ExecuteKeeps, RecordKeeps, BreakKeeps
     DEF MigrationStep, RunnerStep
<1>6. ASSUME NEW n \in Commit, Orphan(n) PROVE MigrationInv'
  BY <1>6, RemoveKeeps DEF Orphan
<1>7. CASE UNCHANGED migrationVars
  BY <1>1, <1>7 DEF migrationVars
<1>8. CASE UNCHANGED releaseVars
  BY <1>7, <1>8 DEF releaseVars
<1> QED BY <1>2, <1>3, <1>4, <1>5, <1>6, <1>7, <1>8 DEF ReleaseNext

\* Recorded versions are applied in whole (migrate.py main), for every number
\* of runners that break off and overlap, files and statements.
THEOREM MigrationsWhole == ReleaseSpec => []RecordedApplied
<1>1. MigrationInv => RecordedApplied
  BY DEF MigrationInv
<1> QED BY <1>1, MigrationInvInit, MigrationInvStep, PTL DEF ReleaseSpec

----------------------------------------------------------------------------
(* Release implements Deploy.                                              *)

\* A runner belongs to the last workflow run or an older one, and the last run
\* has none before its migration step.
RunnersOld ==
    \A n \in Commit : migration[n].pc # "none" =>
        /\ n <= run.commit
        /\ n = run.commit => run.pc \notin {"env", "build", "db"}

RunOrder ==
    /\ run \in [pc : Steps, commit : 0..main, failed : BOOLEAN, mode : {run.mode}]
    /\ run.pc # "idle" => run.commit # 0
    /\ main \in 0..MaxCommits
    /\ pending \in 0..main
    /\ pending = 0 \/ run.commit < pending

ReleaseInv == MigrationInv /\ RunOrder /\ RunnersOld

\* The steps before and after the migration keep the commit of the run, and
\* lead neither back before it nor to it, but for the last one before it.
LEMMA StepsOfRun ==
    ASSUME RunOrder, Prepare \/ Rollout
    PROVE  /\ run' \in [pc : Steps, commit : {run.commit}, failed : BOOLEAN, mode : {run'.mode}]
           /\ UNCHANGED <<main, pending>>
           /\ run.pc # "migrate"
           /\ run.pc \notin {"env", "build", "db"} =>
                  run'.pc \notin {"env", "build", "db", "migrate"}
<1> USE DEF RunOrder, Steps, At, GoTo, Fail, hostVars, tunnels, stack, images
<1>1. CASE Prepare
  BY <1>1 DEF Prepare, WriteEnv, BuildImage, StartDb
<1>2. CASE Bootstrap \/ SavePoint \/ Recreate \/ GatePasses \/ GateTimeout
  BY <1>2 DEF Bootstrap, SavePoint, Recreate, GatePasses, GateTimeout
<1>3. CASE Rollback \/ NoRollback \/ Regate \/ CheckMode \/ Restore \/ Reopen
  BY <1>3 DEF Rollback, NoRollback, Regate, CheckMode, Restore, Reopen
<1>4. CASE Record \/ Verify \/ OpenTunnel
  BY <1>4 DEF Record, Verify, OpenTunnel
<1> QED BY <1>1, <1>2, <1>3, <1>4 DEF Rollout

\* Where Deploy sees the run as it is, a step of the run is a step of Deploy.
LEMMA PrepareSeen ==
    ASSUME RunSeen = run, RunSeen' = run', Prepare
    PROVE  D!Prepare
BY DEF Prepare, WriteEnv, BuildImage, StartDb, At, GoTo, Fail, Build, hostVars,
   tunnels, stack, images, D!Prepare, D!WriteEnv, D!BuildImage, D!StartDb, D!At,
   D!GoTo, D!Fail, D!Build, D!hostVars, D!tunnels, D!stack, D!images

LEMMA RolloutSeen ==
    ASSUME RunSeen = run, RunSeen' = run', Rollout
    PROVE  D!Rollout
<1> USE DEF At, GoTo, Fail, hostVars, tunnels, stack, images, D!At, D!GoTo, D!Fail,
        D!hostVars, D!tunnels, D!stack, D!images
<1>1. CASE Bootstrap \/ SavePoint
  BY <1>1 DEF Bootstrap, SavePoint, D!Rollout, D!Bootstrap, D!SavePoint
<1>2. CASE Recreate
  BY <1>2 DEF Recreate, UpWeb, MakeWeb, Build, WebOf, ComposeWorks, NoWeb, D!Rollout, D!Recreate,
     D!UpWeb, D!MakeWeb, D!Build, D!WebOf, D!ComposeWorks, D!NoWeb
<1>3. CASE GatePasses \/ GateTimeout
  BY <1>3 DEF GatePasses, GateTimeout, Healthy, D!Rollout, D!GatePasses, D!GateTimeout,
     D!Healthy
<1>4. CASE Rollback \/ NoRollback
  BY <1>4 DEF Rollback, NoRollback, WebOf, NoWeb, D!Rollout, D!Rollback, D!NoRollback,
     D!WebOf, D!NoWeb
<1>5. CASE Regate \/ Restore
  BY <1>5 DEF Regate, Restore, D!Rollout, D!Regate, D!Restore
<1>6. CASE CheckMode
  BY <1>6 DEF CheckMode, StopTunnels, Stopped, D!Rollout, D!CheckMode, D!StopTunnels,
     D!Stopped
<1>7. CASE Reopen
  BY <1>7 DEF Reopen, UpQuick, ComposeWorks, D!Rollout, D!Reopen, D!UpQuick,
     D!ComposeWorks
<1>8. CASE Record \/ Verify
  BY <1>8 DEF Record, Verify, Healthy, D!Rollout, D!Record, D!Verify, D!Healthy
<1>9. CASE OpenTunnel
  BY <1>9 DEF OpenTunnel, UpWeb, MakeWeb, UpNamed, Build, WebOf, ComposeWorks, D!Rollout,
     D!OpenTunnel, D!UpWeb, D!MakeWeb, D!UpNamed, D!Build, D!WebOf, D!ComposeWorks
<1> QED BY <1>1, <1>2, <1>3, <1>4, <1>5, <1>6, <1>7, <1>8, <1>9 DEF Rollout

\* What leaves the run alone looks to Deploy as it is.
LEMMA OthersSeen ==
    ASSUME RunSeen' = RunSeen, run' = run,
           QuickByHand \/ (Surroundings /\ UNCHANGED deployVars)
    PROVE  D!Next
<1> USE DEF hostVars, deployVars, tunnels, stack, images, D!hostVars, D!deployVars,
        D!tunnels, D!stack, D!images
<1>1. CASE QuickByHand
  BY <1>1 DEF QuickByHand, UpQuick, ComposeWorks, NamedOpen, D!Next, D!QuickByHand,
     D!UpQuick, D!ComposeWorks, D!NamedOpen
<1>2. CASE Surroundings /\ UNCHANGED deployVars
  BY <1>2 DEF Surroundings, Outage, StopWeb, RemoveWeb, TunnelFails, NoWeb, D!Next,
     D!Surroundings, D!Outage, D!StopWeb, D!RemoveWeb, D!TunnelFails, D!NoWeb
<1> QED BY <1>1, <1>2

\* A step of the runner of commit n leaves the others alone and makes it end
\* well only while the database answers.
LEMMA RunnerSteps ==
    ASSUME MigrationInv, NEW n \in Commit, RunnerStep(n)
    PROVE  /\ migration[n].pc \in {"connect", "read", "apply"}
           /\ migration'[n].pc \in {"read", "apply", "done", "failed"}
           /\ migration'[n].pc = "done" => db
           /\ \A m \in Commit \ {n} : migration'[m] = migration[m]
<1> USE DEF MigrationInv, RunnerState
<1>1. CASE Connect(n)
  BY <1>1 DEF Connect
<1>2. CASE Read(n)
  BY <1>2 DEF Read, Pending, NoRunner
<1>3. CASE Execute(n)
  BY <1>3 DEF Execute
<1>4. CASE RecordVersion(n)
  BY <1>4 DEF RecordVersion, Pending, NoRunner
<1>5. CASE Break(n)
  BY <1>5 DEF Break, Running, NoRunner
<1> QED BY <1>1, <1>2, <1>3, <1>4, <1>5 DEF RunnerStep

LEMMA RemoveSteps ==
    ASSUME MigrationInv, NEW n, Remove(n)
    PROVE  /\ \A m \in Commit : migration'[m].pc # "none" => migration[m].pc # "none"
           /\ \A m \in Commit \ {n} : migration'[m] = migration[m]
BY DEF MigrationInv, Remove, NoRunner

LEMMA ReleaseInvInit == ReleaseInit => ReleaseInv
<1> SUFFICES ASSUME ReleaseInit PROVE ReleaseInv
  OBVIOUS
<1>1. RunOrder
  BY HostAssumption DEF ReleaseInit, Init, HostInit, DeployInit, RunOrder, Steps
<1>2. RunnersOld
  BY DEF ReleaseInit, MigrationsInit, NoRunner, RunnersOld
<1> QED BY <1>1, <1>2, MigrationInvInit DEF ReleaseInv

\* The order of pushes, runs and runners is kept.
LEMMA OrderStep == ReleaseInv /\ [ReleaseNext]_releaseVars => RunOrder' /\ RunnersOld'
<1> SUFFICES ASSUME ReleaseInv, [ReleaseNext]_releaseVars
             PROVE  RunOrder' /\ RunnersOld'
  OBVIOUS
<1> USE HostAssumption DEF ReleaseInv
<1>1. CASE UNCHANGED <<run, main, pending>> /\
           \A n \in Commit : migration'[n].pc # "none" => migration[n].pc # "none"
  BY <1>1 DEF RunOrder, RunnersOld
<1>2. CASE ReleasePush
  <2>1. RunnersOld'
    BY <1>2 DEF ReleasePush, Push, RunnersOld
  <2>2. RunOrder'
    BY <1>2 DEF ReleasePush, Push, RunOrder
  <2> QED BY <2>1, <2>2
<1>3. CASE StartMigration
  <2>1. UNCHANGED <<run, main, pending>> /\ run.pc = "migrate"
    BY <1>3 DEF StartMigration, vars, hostVars, deployVars, At
  <2>2. \A n \in Commit : n # run.commit => migration'[n] = migration[n]
    BY <1>3 DEF StartMigration, Launch, MigrationInv
  <2> QED BY <2>1, <2>2 DEF RunOrder, RunnersOld, Commit
<1>4. CASE SeeExit
  <2>1. /\ run' \in [pc : {"bootstrap", "record"}, commit : {run.commit}, failed : BOOLEAN,
                     mode : {run'.mode}]
        /\ UNCHANGED <<main, pending>>
    BY <1>4 DEF SeeExit, At, GoTo, Fail, RunOrder, hostVars
  <2>2. \A n \in Commit : migration'[n].pc # "none" => migration[n].pc # "none"
    BY <1>4, RemoveSteps DEF SeeExit
  <2>3. RunOrder'
    BY <1>4, <2>1 DEF RunOrder, Steps, SeeExit, At
  <2>4. RunnersOld'
    BY <2>1, <2>2 DEF RunnersOld
  <2> QED BY <2>3, <2>4
<1>5. ASSUME NEW n \in Commit, MigrationStep(n) PROVE RunOrder' /\ RunnersOld'
  <2>1. UNCHANGED <<run, main, pending>>
    BY <1>5 DEF MigrationStep, deployVars
  <2>2. \A m \in Commit : migration'[m].pc # "none" => migration[m].pc # "none"
    BY <1>5, RunnerSteps DEF MigrationStep
  <2> QED BY <1>1, <2>1, <2>2
<1>6. ASSUME NEW n \in Commit, Orphan(n) PROVE RunOrder' /\ RunnersOld'
  BY <1>1, <1>6, RemoveSteps DEF Orphan, vars, deployVars, hostVars
<1>7. CASE Start /\ UNCHANGED migrationVars
  <2>1. /\ run' = [pc |-> "env", commit |-> pending, failed |-> FALSE, mode |-> "secure"]
        /\ pending' = 0 /\ main' = main /\ migration' = migration /\ pending # 0
    BY <1>7 DEF Start, migrationVars
  <2>2. RunOrder'
    BY <2>1 DEF RunOrder, Steps
  <2>3. RunnersOld'
    BY <2>1 DEF RunOrder, RunnersOld, Commit
  <2> QED BY <2>2, <2>3
<1>8. CASE RunnerDies /\ UNCHANGED migrationVars
  <2>1. /\ run' \in [pc : {"idle"}, commit : {run.commit}, failed : BOOLEAN, mode : {run'.mode}]
        /\ UNCHANGED <<main, pending, migration>>
    BY <1>8 DEF RunnerDies, GoTo, RunOrder, migrationVars
  <2>2. RunOrder'
    BY <2>1 DEF RunOrder, Steps
  <2>3. RunnersOld'
    BY <2>1 DEF RunnersOld
  <2> QED BY <2>2, <2>3
<1>9. CASE (Prepare \/ Rollout) /\ UNCHANGED migrationVars
  <2>1. /\ run' \in [pc : Steps, commit : {run.commit}, failed : BOOLEAN, mode : {run'.mode}]
        /\ UNCHANGED <<main, pending, migration>>
        /\ run.pc \notin {"env", "build", "db"} => run'.pc \notin {"env", "build", "db"}
    BY <1>9, StepsOfRun DEF migrationVars
  <2>2. run.commit # 0
    BY <1>9 DEF Prepare, Rollout, RunOrder, WriteEnv, BuildImage, StartDb, At, Bootstrap,
       SavePoint, Recreate, GatePasses, GateTimeout, Rollback, NoRollback, Regate, CheckMode,
       Restore, Reopen, Record, Verify, OpenTunnel
  <2>3. RunOrder'
    BY <2>1, <2>2 DEF RunOrder
  <2>4. RunnersOld'
    BY <2>1 DEF RunnersOld
  <2> QED BY <2>3, <2>4
<1>10. CASE QuickByHand /\ UNCHANGED migrationVars
  BY <1>1, <1>10 DEF QuickByHand, deployVars, migrationVars
<1>11. CASE Surroundings /\ UNCHANGED deployVars /\ UNCHANGED migrationVars
  BY <1>1, <1>11 DEF Surroundings, Outage, StopWeb, RemoveWeb, TunnelFails, deployVars,
     migrationVars
<1>12. CASE UNCHANGED releaseVars
  BY <1>1, <1>12 DEF releaseVars, vars, hostVars, deployVars, migrationVars
<1> QED BY <1>2, <1>3, <1>4, <1>5, <1>6, <1>7, <1>8, <1>9, <1>10, <1>11, <1>12
        DEF ReleaseNext

LEMMA ReleaseInvStep == ReleaseInv /\ [ReleaseNext]_releaseVars => ReleaseInv'
BY OrderStep, MigrationInvStep DEF ReleaseInv

LEMMA RefineInit == ReleaseInit => D!Init
<1> SUFFICES ASSUME ReleaseInit PROVE D!Init
  OBVIOUS
<1>1. RunSeen = run
  BY DEF ReleaseInit, Init, DeployInit, RunSeen, At
<1> QED BY <1>1 DEF ReleaseInit, Init, HostInit, DeployInit, NoEnv, NoPoint, NoWeb, Commit, D!Init,
           D!HostInit, D!DeployInit, D!NoEnv, D!NoPoint, D!NoWeb, D!Commit

\* Every step is one of Deploy or one that Deploy does not see.
LEMMA RefineStep ==
    ASSUME ReleaseInv, ReleaseInv', [ReleaseNext]_releaseVars
    PROVE  [D!Next]_(D!vars)
<1> USE DEF ReleaseInv
<1> DEFINE Done == migration[run.commit].pc = "done"
<1>0. ASSUME UNCHANGED vars, RunSeen' = RunSeen PROVE UNCHANGED D!vars
  BY <1>0 DEF vars, deployVars, hostVars, tunnels, stack, images, D!vars, D!deployVars,
     D!hostVars, D!tunnels, D!stack, D!images
<1>1. CASE ReleasePush
  <2>1. RunSeen' = RunSeen
    BY <1>1 DEF ReleasePush, Push, RunSeen, At
  <2>2. D!Push
    BY <1>1, <2>1 DEF ReleasePush, Push, tunnels, stack, images, D!Push, D!tunnels, D!stack,
       D!images
  <2> QED BY <2>2 DEF D!Next, D!DeployNext
<1>2. CASE StartMigration
  <2>1. UNCHANGED vars /\ At("migrate") /\ run' = run
    BY <1>2 DEF StartMigration, vars, deployVars
  <2>2. migration[run.commit].pc = "none"
    BY <1>2 DEF StartMigration, Launch
  <2>3. run.commit \in Commit
    BY <2>1, HostAssumption DEF At, RunOrder, Commit
  <2>4. migration'[run.commit].pc = "connect"
    BY <1>2, <2>2, <2>3 DEF StartMigration, Launch, MigrationInv, RunnerState
  <2>5. RunSeen' = RunSeen
    BY <2>1, <2>2, <2>4 DEF RunSeen, At
  <2> QED BY <1>0, <2>1, <2>5
<1>3. ASSUME NEW n \in Commit, MigrationStep(n) PROVE [D!Next]_(D!vars)
  <2>1. /\ run' = run
        /\ UNCHANGED <<pending, before, main, runner, env, images, stack, tunnels>>
    BY <1>3 DEF MigrationStep, deployVars
  <2>2. /\ migration[n].pc # "done"
        /\ migration'[n].pc = "done" => db
        /\ \A m \in Commit \ {n} : migration'[m] = migration[m]
    BY <1>3, RunnerSteps DEF MigrationStep
  <2>3. CASE Waits(n) /\ migration'[n].pc = "done"
    <3>1. RunSeen = run
      BY <2>2, <2>3 DEF Waits, RunSeen
    <3>2. RunSeen' = [run EXCEPT !.pc = "bootstrap"]
      BY <2>1, <2>3 DEF Waits, RunSeen, At
    <3>3. schema' = run.commit
      BY <1>3, <2>3 DEF MigrationStep, Waits
    <3>4. D!Migrate
      BY <2>1, <2>2, <2>3, <3>1, <3>2, <3>3 DEF Waits, At, images, stack, tunnels,
         D!Migrate, D!At, D!GoTo, D!images, D!stack, D!tunnels
    <3> QED BY <3>4 DEF D!Next, D!DeployNext, D!Workflow
  <2>4. CASE ~(Waits(n) /\ migration'[n].pc = "done")
    <3>1. UNCHANGED vars
      BY <1>3, <2>1, <2>4 DEF MigrationStep, vars, deployVars, hostVars
    <3>2. At("migrate") => run.commit \in Commit
      BY HostAssumption DEF At, RunOrder, Commit
    <3>3. RunSeen' = RunSeen
      BY <2>1, <2>2, <2>4, <3>2 DEF RunSeen, At, Waits
    <3> QED BY <1>0, <3>1, <3>3
  <2> QED BY <2>3, <2>4
<1>4. CASE SeeExit
  <2>1. UNCHANGED <<pending, before, hostVars>> /\ At("migrate")
    BY <1>4 DEF SeeExit
  <2>2. CASE Done
    <3>1. run' = [run EXCEPT !.pc = "bootstrap"]
      BY <1>4, <2>2 DEF SeeExit, GoTo
    <3>2. run'.pc = "bootstrap"
      BY <3>1 DEF RunOrder
    <3>3. RunSeen' = RunSeen
      BY <2>1, <2>2, <3>1, <3>2 DEF RunSeen, At
    <3> QED BY <2>1, <3>3 DEF hostVars, tunnels, stack, images, D!vars, D!deployVars,
               D!hostVars, D!tunnels, D!stack, D!images
  <2>3. CASE ~Done
    <3>1. run' = [run EXCEPT !.pc = "record", !.failed = TRUE]
      BY <1>4, <2>3 DEF SeeExit, Fail
    <3>2. run'.pc = "record"
      BY <3>1 DEF RunOrder
    <3>3. RunSeen = run /\ RunSeen' = run'
      BY <2>3, <3>2 DEF RunSeen, At
    <3>4. D!Migrate
      BY <2>1, <3>1, <3>3 DEF At, hostVars, images, stack, tunnels, D!Migrate, D!At,
         D!Fail, D!images, D!stack, D!tunnels
    <3> QED BY <3>4 DEF D!Next, D!DeployNext, D!Workflow
  <2> QED BY <2>2, <2>3
<1>5. ASSUME NEW n \in Commit, Orphan(n) PROVE [D!Next]_(D!vars)
  <2>1. UNCHANGED vars /\ run' = run
    BY <1>5 DEF Orphan, vars, deployVars
  <2>2. At("migrate") => run.commit \in Commit \ {n}
    BY <1>5, HostAssumption DEF Orphan, Waits, At, RunOrder, Commit
  <2>3. \A m \in Commit \ {n} : migration'[m] = migration[m]
    BY <1>5, RemoveSteps DEF Orphan
  <2>4. RunSeen' = RunSeen
    BY <2>1, <2>2, <2>3 DEF RunSeen, At
  <2> QED BY <1>0, <2>1, <2>4
<1>6. CASE Start
  <2>1. run.pc = "idle" /\ run'.pc = "env"
    BY <1>6 DEF Start, At
  <2>2. RunSeen = run /\ RunSeen' = run'
    BY <2>1 DEF RunSeen, At
  <2>3. D!Start
    BY <1>6, <2>2 DEF Start, At, NoEnv, NoPoint, tunnels, stack, images, D!Start, D!At,
       D!NoEnv, D!NoPoint, D!tunnels, D!stack, D!images
  <2> QED BY <2>3 DEF D!Next, D!DeployNext
<1>7. CASE RunnerDies
  <2>1. run' = [run EXCEPT !.pc = "idle"]
    BY <1>7 DEF RunnerDies, GoTo
  <2>2. run'.pc = "idle"
    BY <2>1 DEF RunOrder
  <2>3. RunSeen' = run'
    BY <2>2 DEF RunSeen, At
  <2>4. RunSeen = run \/ RunSeen = [run EXCEPT !.pc = "bootstrap"]
    BY DEF RunSeen
  <2>5. [[run EXCEPT !.pc = "bootstrap"] EXCEPT !.pc = "idle"] = [run EXCEPT !.pc = "idle"]
    BY Zenon DEF RunOrder
  <2>6. RunSeen' = [RunSeen EXCEPT !.pc = "idle"]
    BY <2>1, <2>3, <2>4, <2>5
  <2>7. D!RunnerDies
    BY <1>7, <2>6 DEF RunnerDies, tunnels, stack, images, D!RunnerDies, D!GoTo, D!tunnels,
       D!stack, D!images
  <2> QED BY <2>7 DEF D!Next, D!DeployNext
<1>8. CASE (Prepare \/ Rollout) /\ UNCHANGED migrationVars
  <2>1. /\ run'.commit = run.commit /\ run.pc # "migrate"
        /\ run.pc \notin {"env", "build", "db"} => run'.pc # "migrate"
    BY <1>8, StepsOfRun
  <2>2. RunSeen = run
    BY <2>1 DEF RunSeen, At
  <2>3. run'.pc = "migrate" => migration'[run'.commit].pc = "none"
    <3> SUFFICES ASSUME run'.pc = "migrate" PROVE migration'[run'.commit].pc = "none"
      OBVIOUS
    <3>1. run.pc \in {"env", "build", "db"}
      BY <2>1
    <3>2. run.commit \in Commit
      BY <3>1, HostAssumption DEF RunOrder, Commit
    <3> QED BY <1>8, <2>1, <3>1, <3>2 DEF RunnersOld, migrationVars
  <2>4. RunSeen' = run'
    BY <2>3 DEF RunSeen, At
  <2>5. D!Prepare \/ D!Rollout
    BY <1>8, <2>2, <2>4, PrepareSeen, RolloutSeen
  <2> QED BY <2>5 DEF D!Next, D!DeployNext, D!Workflow
<1>9. CASE (QuickByHand \/ (Surroundings /\ UNCHANGED deployVars)) /\ UNCHANGED migrationVars
  <2>1. run' = run
    BY <1>9 DEF QuickByHand, deployVars
  <2>2. RunSeen' = RunSeen
    BY <1>9, <2>1 DEF RunSeen, At, migrationVars
  <2> QED BY <1>9, <2>1, <2>2, OthersSeen
<1>10. CASE UNCHANGED releaseVars
  <2>1. UNCHANGED vars /\ run' = run /\ migration' = migration
    BY <1>10 DEF releaseVars, vars, deployVars, migrationVars
  <2>2. RunSeen' = RunSeen
    BY <2>1 DEF RunSeen, At
  <2> QED BY <1>0, <2>1, <2>2
<1> QED BY <1>1, <1>2, <1>3, <1>4, <1>5, <1>6, <1>7, <1>8, <1>9, <1>10 DEF ReleaseNext

\* The workflow with its migrations statement by statement, runners that
\* outlive their run among them, does nothing that Deploy does not allow.
THEOREM Refinement == ReleaseSpec => ImplementsDeploy
<1>1. ReleaseInv /\ ReleaseInv' /\ [ReleaseNext]_releaseVars => [D!Next]_(D!vars)
  BY RefineStep
<1> QED BY <1>1, ReleaseInvInit, ReleaseInvStep, RefineInit, PTL
        DEF ReleaseSpec, ImplementsDeploy, D!Spec

----------------------------------------------------------------------------
(* What is proved of Deploy holds of Release.                              *)

DP == INSTANCE DeployProofs WITH run <- RunSeen

\* D and DP are the same specification.
LEMMA SameSpec == ReleaseSpec => DP!Spec
<1>1. D!Init => DP!Init
  BY DEF D!Init, D!HostInit, D!DeployInit, D!NoEnv, D!NoPoint, D!NoWeb, D!Commit,
         DP!Init, DP!HostInit, DP!DeployInit, DP!NoEnv, DP!NoPoint, DP!NoWeb, DP!Commit
<1>2. [D!Next]_(D!vars) => [DP!Next]_(DP!vars)
  BY DEF D!tunnels, D!stack, D!images, D!hostVars, D!Commit, D!Mode, D!NoEnv, D!NoPoint,
         D!NoWeb, D!Healthy, D!NamedOpen, D!QuickOpen, D!ComposeWorks,
         D!Build, D!WebOf, D!UpWeb, D!MakeWeb, D!UpQuick, D!UpNamed, D!Stopped,
         D!StopTunnels, D!Outage, D!StopWeb, D!RemoveWeb, D!TunnelFails,
         D!Surroundings, D!deployVars, D!At, D!GoTo, D!Fail, D!Push, D!Start,
         D!RunnerDies, D!WriteEnv, D!BuildImage, D!StartDb, D!Migrate,
         D!Bootstrap, D!SavePoint, D!Recreate, D!GatePasses, D!GateTimeout,
         D!Rollback, D!NoRollback, D!Regate, D!CheckMode, D!Restore, D!Reopen,
         D!Record, D!Verify, D!OpenTunnel, D!Prepare, D!Rollout, D!Workflow,
         D!DeployNext, D!QuickByHand, D!Next, D!vars, DP!tunnels, DP!stack,
         DP!images, DP!hostVars, DP!Commit, DP!Mode, DP!NoEnv, DP!NoPoint, DP!NoWeb,
         DP!Healthy, DP!NamedOpen, DP!QuickOpen, DP!ComposeWorks, DP!Build,
         DP!WebOf, DP!UpWeb, DP!MakeWeb, DP!UpQuick, DP!UpNamed, DP!Stopped,
         DP!StopTunnels, DP!Outage, DP!StopWeb, DP!RemoveWeb, DP!TunnelFails,
         DP!Surroundings, DP!deployVars, DP!At, DP!GoTo, DP!Fail, DP!Push,
         DP!Start, DP!RunnerDies, DP!WriteEnv, DP!BuildImage, DP!StartDb,
         DP!Migrate, DP!Bootstrap, DP!SavePoint, DP!Recreate, DP!GatePasses,
         DP!GateTimeout, DP!Rollback, DP!NoRollback, DP!Regate, DP!CheckMode,
         DP!Restore, DP!Reopen, DP!Record, DP!Verify, DP!OpenTunnel,
         DP!Prepare, DP!Rollout, DP!Workflow, DP!DeployNext, DP!QuickByHand,
         DP!Next, DP!vars
<1>3. ImplementsDeploy => DP!Spec
  BY <1>1, <1>2, PTL DEF ImplementsDeploy, D!Spec, DP!Spec
<1> QED BY <1>3, Refinement, PTL

\* The rollout sees the run as it is.
LEMMA RolloutSeesRun ==
    /\ RunSeen.pc # run.pc => run.pc = "migrate"
    /\ run.pc # "migrate" => RunSeen = run
BY DEF RunSeen, At

\* No container runs code newer than the schema (deploy.yml, migrate before
\* deploy), whatever runners of migrations break off, repeat and overlap.
THEOREM SchemaFirst == ReleaseSpec => []SchemaReady
<1>1. DP!SchemaReady => SchemaReady
  BY DEF DP!SchemaReady, SchemaReady
<1>2. DP!Spec => []DP!SchemaReady
  BY DP!SchemaFirst, HostAssumption
<1> QED BY <1>1, <1>2, SameSpec, PTL

\* The rollback point is older than what is rolled out (deploy.sh).
THEOREM RollbackPointOlder == ReleaseSpec => []RollbackTarget
<1>1. DP!RollbackTarget => RollbackTarget
  BY RolloutSeesRun DEF DP!RollbackTarget, RollbackTarget
<1>2. DP!Spec => []DP!RollbackTarget
  BY DP!RollbackPointOlder, HostAssumption
<1> QED BY <1>1, <1>2, SameSpec, PTL

\* A rollback starts the image the rollout found, or an older one when that had no
\* tag (deploy.sh), in the workflow with its migration step in detail.
THEOREM RollbackRestoresBefore == ReleaseSpec => RollbackRestores
<1> DEFINE Restored(commit) ==
               IF before.saved THEN web'.image = before.image
               ELSE /\ web'.image < commit
                    /\ before.image # 0 => web'.image <= before.image
           Restores == run.pc = "rollback" /\ run'.pc = "regate" => Restored(run.commit)
           Seen == RunSeen.pc = "rollback" /\ RunSeen'.pc = "regate"
                       => Restored(RunSeen.commit)
<1>1. RunSeen' = run' \/ run'.pc = "migrate"
  BY DEF RunSeen, At
<1>2. [Seen]_(DP!vars) => [Restores]_vars
  <2> SUFFICES ASSUME [Seen]_(DP!vars), run.pc = "rollback", run'.pc = "regate"
               PROVE  Restored(run.commit)
    OBVIOUS
  <2>1. RunSeen = run /\ RunSeen' = run'
    BY <1>1, RolloutSeesRun
  <2>2. RunSeen' # RunSeen
    BY <2>1
  <2> QED BY <2>1, <2>2 DEF DP!vars, DP!deployVars
<1>3. DP!Spec => [][Seen]_(DP!vars)
  BY DP!RollbackRestoresBefore, HostAssumption DEF DP!RollbackRestores
<1> QED BY <1>2, <1>3, SameSpec, PTL DEF RollbackRestores

\* Types of the machine and of the run.
THEOREM TypeCorrect == ReleaseSpec => []TypeOK
<1>1. ReleaseInv /\ DP!TypeOK => TypeOK
  <2> SUFFICES ASSUME ReleaseInv, DP!TypeOK PROVE TypeOK
    OBVIOUS
  <2>1. HostTypeOK
    BY DEF DP!TypeOK, DP!HostTypeOK, DP!Commit, DP!Mode, HostTypeOK, Commit, Mode
  <2>2. RunSeen \in [pc : Steps, commit : 0..main, failed : BOOLEAN, mode : Mode]
    BY DEF DP!TypeOK, DP!DeployTypeOK, DP!Steps, DP!Mode, Steps, Mode
  <2>3. RunSeen.mode = run.mode
    BY DEF RunSeen, ReleaseInv, RunOrder
  <2>4. run \in [pc : Steps, commit : 0..main, failed : BOOLEAN, mode : Mode]
    BY <2>2, <2>3 DEF ReleaseInv, RunOrder
  <2> QED BY <2>1, <2>4 DEF DP!TypeOK, DP!DeployTypeOK, TypeOK, DeployTypeOK
<1>2. DP!Spec => []DP!TypeOK
  BY DP!TypeCorrect, HostAssumption
<1> QED BY <1>1, <1>2, ReleaseInvInit, ReleaseInvStep, SameSpec, PTL DEF ReleaseSpec

----------------------------------------------------------------------------
(* The schema of the application that runs.                                *)

\* The files of a commit are all recorded, or still to be done by its runner.
Pursued ==
    \A n \in Commit :
        /\ migration[n].pc = "apply" => 1..files[n] \subseteq versions \union migration[n].todo
        /\ migration[n].pc = "done" => 1..files[n] \subseteq versions

FilesGrow ==
    /\ files \in [Commit -> Nat]
    /\ \A m, n \in Commit : m <= n /\ n <= main => files[m] <= files[n]

SchemaInv ==
    /\ FilesGrow
    /\ Pursued
    /\ schema \in Commit => 1..files[schema] \subseteq versions

LEMMA SchemaInit == ReleaseInit => SchemaInv
BY HostAssumption DEF ReleaseInit, Init, HostInit, MigrationsInit, NoRunner, Commit,
   SchemaInv, FilesGrow, Pursued

\* A push adds files to a commit that has no runner and is not the schema.
LEMMA SchemaPush ==
    ASSUME ReleaseInv, TypeOK, SchemaInv, ReleasePush
    PROVE  SchemaInv'
<1> USE HostAssumption
<1>1. /\ main \in Nat /\ main + 1 \in Commit /\ main' = main + 1
      /\ UNCHANGED <<schema, migration, versions>>
  BY DEF ReleasePush, Push, TypeOK, HostTypeOK, Commit
<1>2. PICK k \in {0, 1} :
          files' = [files EXCEPT ![main + 1] = (IF main + 1 = 1 THEN 1 ELSE files[main]) + k]
  <2>1. AddFiles(main + 1) /\ (main + 1) - 1 = main
    BY <1>1 DEF ReleasePush
  <2> QED BY <2>1, Zenon DEF AddFiles
<1>3. main + 1 = 1 \/ main \in Commit
  BY <1>1 DEF Commit
<1>4. FilesGrow'
  <2>1. files' \in [Commit -> Nat]
    BY <1>1, <1>2, <1>3 DEF SchemaInv, FilesGrow
  <2>2. ASSUME NEW m \in Commit, NEW n \in Commit, m <= n, n <= main + 1
        PROVE  files'[m] <= files'[n]
    <3>1. CASE n <= main
      BY <3>1, <2>2, <1>1, <1>2 DEF SchemaInv, FilesGrow, Commit
    <3>2. CASE n = main + 1 /\ m = n
      BY <3>2, <2>1
    <3>3. CASE n = main + 1 /\ m <= main
      <4>1. main \in Commit /\ main + 1 # 1
        BY <3>3, <1>1 DEF Commit
      <4>2. files[m] <= files[main]
        BY <3>3, <4>1, <1>1 DEF SchemaInv, FilesGrow
      <4>3. files'[m] = files[m] /\ files'[n] = files[main] + k
        BY <3>3, <4>1, <1>1, <1>2 DEF SchemaInv, FilesGrow, Commit
      <4> QED BY <4>1, <4>2, <4>3 DEF SchemaInv, FilesGrow
    <3> QED BY <3>1, <3>2, <3>3, <2>2, <1>1 DEF Commit
  <2> QED BY <2>1, <2>2, <1>1 DEF FilesGrow
<1>5. \A n \in Commit : n # main + 1 => files'[n] = files[n]
  BY <1>2 DEF SchemaInv, FilesGrow
<1>6. Pursued'
  <2>1. migration[main + 1].pc = "none"
    BY <1>1 DEF ReleaseInv, RunnersOld, RunOrder
  <2> QED BY <2>1, <1>1, <1>5 DEF SchemaInv, Pursued
<1>7. schema # main + 1
  BY <1>1 DEF TypeOK, HostTypeOK
<1> QED BY <1>1, <1>4, <1>5, <1>6, <1>7 DEF SchemaInv

\* A runner ends well only when all files of its commit are recorded.
LEMMA SchemaMigration ==
    ASSUME ReleaseInv, SchemaInv, NEW n \in Commit, MigrationStep(n)
    PROVE  SchemaInv'
<1> USE DEF ReleaseInv, MigrationInv
<1>1. UNCHANGED <<main, files>>
  BY DEF MigrationStep, RunnerStep, Connect, Read, Execute, RecordVersion, Break
<1>2. versions \subseteq versions'
  BY DEF MigrationStep, RunnerStep, Connect, Read, Execute, RecordVersion, Break
<1>3. \A m \in Commit \ {n} : migration'[m] = migration[m]
  BY RunnerSteps DEF MigrationStep
<1>4. /\ migration'[n].pc = "apply" => 1..files[n] \subseteq versions' \union migration'[n].todo
      /\ migration'[n].pc = "done" => 1..files[n] \subseteq versions'
  <2> USE DEF RunnerState
  <2>1. CASE Connect(n)
    BY <2>1 DEF Connect
  <2>2. CASE Read(n)
    BY <2>2 DEF Read, Pending, NoRunner
  <2>3. CASE Execute(n)
    <3>1. /\ migration[n].pc = "apply" /\ versions' = versions
          /\ migration'[n].pc = "apply" /\ migration'[n].todo = migration[n].todo
      BY <2>3 DEF Execute
    <3> QED BY <3>1 DEF SchemaInv, Pursued
  <2>4. CASE RecordVersion(n)
    <3>1. PICK todo : todo = migration[n].todo
      OBVIOUS
    <3>2. 1..files[n] \subseteq versions \union todo
      BY <2>4, <3>1 DEF RecordVersion, SchemaInv, Pursued
    <3>3. versions' = versions \union {Min(todo)} /\ Pending(n, todo \ {Min(todo)})
      BY <2>4, <3>1 DEF RecordVersion
    <3>4. 1..files[n] \subseteq versions' \union (todo \ {Min(todo)})
      BY <3>2, <3>3
    <3>5. /\ migration'[n].pc = "apply" => migration'[n].todo = todo \ {Min(todo)}
          /\ migration'[n].pc = "done" => todo \ {Min(todo)} = {}
      BY <3>3 DEF Pending, NoRunner
    <3> QED BY <3>4, <3>5
  <2>5. CASE Break(n)
    BY <2>5 DEF Break, NoRunner
  <2> QED BY <2>1, <2>2, <2>3, <2>4, <2>5 DEF MigrationStep, RunnerStep
<1>5. FilesGrow'
  BY <1>1 DEF SchemaInv, FilesGrow
<1>6. Pursued'
  <2> SUFFICES ASSUME NEW m \in Commit
               PROVE  /\ migration'[m].pc = "apply" =>
                             1..files[m] \subseteq versions' \union migration'[m].todo
                      /\ migration'[m].pc = "done" => 1..files[m] \subseteq versions'
    BY <1>1 DEF Pursued
  <2>1. CASE m = n
    BY <2>1, <1>4
  <2>2. CASE m # n
    BY <2>2, <1>2, <1>3 DEF SchemaInv, Pursued
  <2> QED BY <2>1, <2>2
<1>7. schema' \in Commit => 1..files[schema'] \subseteq versions'
  <2>1. schema' = schema \/ (schema' = n /\ migration'[n].pc = "done")
    BY DEF MigrationStep
  <2> QED BY <2>1, <1>2, <1>4 DEF SchemaInv
<1> QED BY <1>1, <1>5, <1>6, <1>7 DEF SchemaInv

\* Starting or removing a runner promises nothing about files.
LEMMA SchemaReset ==
    ASSUME ReleaseInv, SchemaInv, NEW n, Launch(n) \/ Remove(n), UNCHANGED <<main, schema>>
    PROVE  SchemaInv'
<1>1. UNCHANGED <<files, versions>>
  BY DEF Launch, Remove
<1>2. \A m \in Commit : migration'[m] = migration[m] \/ migration'[m].pc \in {"connect", "none"}
  BY DEF Launch, Remove, ReleaseInv, MigrationInv, RunnerState, NoRunner
<1> QED BY <1>1, <1>2 DEF SchemaInv, FilesGrow, Pursued

LEMMA SchemaKept ==
    ASSUME Start \/ RunnerDies \/ Prepare \/ Rollout \/ QuickByHand
             \/ (Surroundings /\ UNCHANGED deployVars)
    PROVE  UNCHANGED <<main, schema>>
<1> USE DEF hostVars
<1>1. CASE Start \/ RunnerDies \/ Prepare \/ QuickByHand
  BY <1>1 DEF Start, RunnerDies, Prepare, WriteEnv, BuildImage, StartDb, QuickByHand
<1>2. CASE Rollout
  BY <1>2 DEF Rollout, Bootstrap, SavePoint, Recreate, GatePasses, GateTimeout, Rollback,
     NoRollback, Regate, CheckMode, Restore, Reopen, Record, Verify, OpenTunnel
<1>3. CASE Surroundings
  BY <1>3 DEF Surroundings, Outage, StopWeb, RemoveWeb, TunnelFails
<1> QED BY <1>1, <1>2, <1>3

LEMMA SchemaStep ==
    ASSUME ReleaseInv, TypeOK, SchemaInv, [ReleaseNext]_releaseVars
    PROVE  SchemaInv'
<1>1. CASE ReleasePush
  BY <1>1, SchemaPush
<1>2. CASE StartMigration
  BY <1>2, SchemaReset DEF StartMigration, vars, hostVars
<1>3. CASE SeeExit
  BY <1>3, SchemaReset DEF SeeExit, hostVars
<1>4. ASSUME NEW n \in Commit, MigrationStep(n) PROVE SchemaInv'
  BY <1>4, SchemaMigration
<1>5. ASSUME NEW n \in Commit, Orphan(n) PROVE SchemaInv'
  BY <1>5, SchemaReset DEF Orphan, vars, hostVars
<1>6. CASE UNCHANGED <<main, schema, migrationVars>>
  BY <1>6 DEF migrationVars, SchemaInv, FilesGrow, Pursued
<1>7. CASE /\ \/ Start \/ RunnerDies \/ Prepare \/ Rollout \/ QuickByHand
              \/ Surroundings /\ UNCHANGED deployVars
           /\ UNCHANGED migrationVars
  BY <1>6, <1>7, SchemaKept
<1>8. CASE UNCHANGED releaseVars
  BY <1>6, <1>8 DEF releaseVars, vars, hostVars
<1> QED BY <1>1, <1>2, <1>3, <1>4, <1>5, <1>7, <1>8 DEF ReleaseNext

\* The application that runs finds every statement of the migration files of
\* its commit in the database (migrate.py, deploy.yml), whatever fails.
THEOREM SchemaServed == ReleaseSpec => []ServedSchema
<1>1. ReleaseInv /\ TypeOK /\ SchemaInv /\ [ReleaseNext]_releaseVars => SchemaInv'
  BY SchemaStep
<1>2. ReleaseInv /\ TypeOK /\ SchemaReady /\ SchemaInv => ServedSchema
  <2> SUFFICES ASSUME ReleaseInv, TypeOK, SchemaReady, SchemaInv, web.image # 0,
                      NEW file \in 1..files[web.image]
               PROVE  Whole(file)
    BY DEF ServedSchema
  <2>1. /\ web.image \in Commit /\ schema \in Commit
        /\ web.image <= schema /\ schema <= main
    BY HostAssumption DEF TypeOK, HostTypeOK, SchemaReady, Commit
  <2>2. files[web.image] \in Nat /\ files[schema] \in Nat /\ files[web.image] <= files[schema]
    BY <2>1 DEF SchemaInv, FilesGrow
  <2>3. file \in versions
    BY <2>1, <2>2 DEF SchemaInv
  <2> QED BY <2>3 DEF ReleaseInv, MigrationInv, RecordedApplied
<1> QED BY <1>1, <1>2, SchemaInit, ReleaseInvInit, ReleaseInvStep, TypeCorrect, SchemaFirst,
           PTL DEF ReleaseSpec
=============================================================================
