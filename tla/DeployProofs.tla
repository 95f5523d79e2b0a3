----------------------------- MODULE DeployProofs -----------------------------
(* Theorems of Deploy: schema before code, and the rollback point.           *)
EXTENDS Deploy, TLAPS

\* Steps up to the rollout, and steps with the migrations behind them.
Preparing == {"env", "build", "db", "migrate", "bootstrap", "point"}
Migrated == {"bootstrap", "point", "recreate", "gate", "rollback", "regate", "mode",
             "restore", "reopen", "verify", "tunnel"}

\* Everything on the machine is of the commit of the last run or older, and
\* what waits is newer.
Versions ==
    /\ schema <= run.commit
    /\ env.commit \in {0, run.commit}
    /\ pending = 0 \/ run.commit < pending
    /\ \A n \in Commit : tag[n] <= n
    /\ rollbackTag <= run.commit
    /\ web.state = "absent" => web.image = 0

\* What holds between two steps of a run.
Sequenced ==
    /\ run.pc \in Preparing => web.image < run.commit /\ rollbackTag < run.commit
    /\ run.pc \notin {"idle", "env"} => env.commit = run.commit
    /\ run.pc \in Migrated => schema = run.commit
    /\ run.pc = "record" /\ ~run.failed => schema = run.commit

Core == TypeOK /\ SchemaReady /\ Versions /\ RollbackTarget /\ Sequenced

\* Steps before a rollback moves the tag, and those that know the rollback point.
Untouched == {"build", "db", "migrate", "bootstrap", "point", "recreate", "gate", "rollback"}
Pointed == {"recreate", "gate", "rollback"}

\* The tag of a commit is empty until its run builds it and names its own image
\* until that run rolls back; no container, and no image up would make one from,
\* is older than the rollback point; the rollback point is what the rollout found.
Point ==
    /\ \A n \in Commit : n > run.commit => tag[n] = 0
    /\ run.pc = "env" => tag[run.commit] = 0
    /\ run.pc \in Untouched => tag[run.commit] \in {0, run.commit}
    /\ env.commit # 0 => tag[env.commit] = 0 \/ rollbackTag <= tag[env.commit]
    /\ web.state # "absent" => rollbackTag <= web.image
    /\ run.pc \in Pointed =>
          IF before.saved THEN rollbackTag = before.image
          ELSE before.image # 0 => rollbackTag <= before.image

Inv == Core /\ Point

----------------------------------------------------------------------------
LEMMA InvInit == Init => Inv
<1> SUFFICES ASSUME Init PROVE Inv
    OBVIOUS
<1> USE HostAssumption DEF Init, HostInit, DeployInit, NoEnv, NoWeb, NoPoint, Commit, Mode
<1>1. HostTypeOK
    <2>1. runner \in BOOLEAN /\ nginx \in BOOLEAN /\ db \in BOOLEAN
        OBVIOUS
    <2>2. env \in [commit : 0..main, mode : Mode, token : BOOLEAN]
        OBVIOUS
    <2>3. web \in [state : {"absent", "running", "stopped"}, image : 0..main,
                   commit : 0..main, mode : Mode]
        OBVIOUS
    <2>4. QED
        BY <2>1, <2>2, <2>3 DEF HostTypeOK
<1>2. DeployTypeOK
    BY DEF DeployTypeOK, Steps
<1>3. SchemaReady /\ Versions /\ RollbackTarget
    BY DEF SchemaReady, Versions, RollbackTarget
<1>4. Sequenced
    BY DEF Sequenced, Preparing, Migrated
<1>5. Point
    BY DEF Point, Untouched, Pointed
<1>6. QED
    BY <1>1, <1>2, <1>3, <1>4, <1>5 DEF Inv, Core, TypeOK

\* What a build of the commit of .env leaves.
LEMMA BuildTypes ==
    ASSUME HostTypeOK, env.commit \in 1..main, Build
    PROVE  /\ tag' \in [Commit -> 0..main]
           /\ broken' \subseteq 1..main
           /\ tag'[env.commit] = env.commit
           /\ (\A n \in Commit : tag[n] <= n) => \A n \in Commit : tag'[n] <= n
<1> USE HostAssumption DEF HostTypeOK, Commit
<1>1. tag' = [tag EXCEPT ![env.commit] = env.commit] /\ env.commit \in Commit
    BY DEF Build
<1>2. tag' \in [Commit -> 0..main] /\ tag'[env.commit] = env.commit
    BY <1>1
<1>3. (\A n \in Commit : tag[n] <= n) => \A n \in Commit : tag'[n] <= n
    BY <1>1
<1>4. broken' \subseteq 1..main
    <2>1. CASE broken' = broken
        BY <2>1
    <2>2. CASE broken' = broken \union {env.commit}
        BY <2>2
    <2>3. QED
        BY <2>1, <2>2 DEF Build
<1>5. QED
    BY <1>2, <1>3, <1>4

\* What up web leaves.
LEMMA MakeWebTypes ==
    ASSUME HostTypeOK, env.commit \in 1..main, MakeWeb
    PROVE  /\ tag' \in [Commit -> 0..main]
           /\ broken' \subseteq 1..main
           /\ web' \in [state : {"absent", "running", "stopped"}, image : 0..main,
                        commit : 0..main, mode : Mode]
           /\ web'.state = "running" /\ web'.image = tag'[env.commit]
           /\ (\A n \in Commit : tag[n] <= n) => \A n \in Commit : tag'[n] <= n
<1> USE HostAssumption
<1>1. /\ tag' \in [Commit -> 0..main]
      /\ broken' \subseteq 1..main
      /\ (\A n \in Commit : tag[n] <= n) => \A n \in Commit : tag'[n] <= n
    <2>1. CASE UNCHANGED <<tag, broken>>
        BY <2>1 DEF HostTypeOK
    <2>2. CASE Build
        BY <2>2, BuildTypes
    <2>3. QED
        BY <2>1, <2>2 DEF MakeWeb
<1>2. web' = [state |-> "running", image |-> tag'[env.commit], commit |-> env.commit,
              mode |-> env.mode]
    BY DEF MakeWeb, WebOf
<1>3. tag'[env.commit] \in 0..main /\ env.mode \in Mode /\ env.commit \in 0..main
    BY <1>1 DEF HostTypeOK, Commit
<1>4. QED
    BY <1>1, <1>2, <1>3

\* A step of the run that leaves its commit, and the versions on the machine.
LEMMA VersionsKept ==
    ASSUME Versions, run'.commit = run.commit, UNCHANGED <<pending, env, rollbackTag>>,
           schema' <= run.commit,
           \A n \in Commit : tag'[n] <= n,
           web'.state = "absent" => web'.image = 0
    PROVE  Versions'
BY DEF Versions, Commit

LEMMA CoreNext == Core /\ [Next]_vars => Core'
<1> SUFFICES ASSUME Core, [Next]_vars PROVE Core'
    OBVIOUS
<1> USE HostAssumption DEF Core, TypeOK, Commit, Mode, Steps, deployVars, hostVars, images,
                           stack, tunnels, At, GoTo, Fail
<1>1. CASE UNCHANGED vars
    BY <1>1 DEF vars, DeployTypeOK, HostTypeOK, SchemaReady, Versions, RollbackTarget,
           Sequenced, Preparing, Migrated
<1>2. CASE Push
    <2>1. DeployTypeOK'
        BY <1>2 DEF DeployTypeOK, HostTypeOK, Push
    <2>2. HostTypeOK'
        BY <1>2 DEF DeployTypeOK, HostTypeOK, Push
    <2>3. SchemaReady' /\ Versions'
        BY <1>2 DEF DeployTypeOK, HostTypeOK, SchemaReady, Versions, RollbackTarget,
           Sequenced, Preparing, Migrated, Push
    <2>4. RollbackTarget' /\ Sequenced'
        BY <1>2 DEF DeployTypeOK, HostTypeOK, SchemaReady, Versions, RollbackTarget,
           Sequenced, Preparing, Migrated, Push
    <2>5. QED
        BY <2>1, <2>2, <2>3, <2>4
<1>3. CASE Start
    <2>1. DeployTypeOK'
        BY <1>3 DEF DeployTypeOK, HostTypeOK, Start, NoEnv, NoPoint
    <2>2. HostTypeOK'
        BY <1>3 DEF DeployTypeOK, HostTypeOK, Start, NoEnv
    <2>3. SchemaReady' /\ Versions'
        BY <1>3 DEF DeployTypeOK, HostTypeOK, SchemaReady, Versions, RollbackTarget,
           Sequenced, Preparing, Migrated, Start, NoEnv
    <2>4. RollbackTarget' /\ Sequenced'
        BY <1>3 DEF DeployTypeOK, HostTypeOK, SchemaReady, Versions, RollbackTarget,
           Sequenced, Preparing, Migrated, Start, NoEnv
    <2>5. QED
        BY <2>1, <2>2, <2>3, <2>4
<1>4. CASE RunnerDies
    <2>1. DeployTypeOK'
        BY <1>4 DEF DeployTypeOK, HostTypeOK, RunnerDies
    <2>2. HostTypeOK'
        BY <1>4 DEF DeployTypeOK, HostTypeOK, RunnerDies
    <2>3. SchemaReady' /\ Versions'
        BY <1>4 DEF DeployTypeOK, HostTypeOK, SchemaReady, Versions, RollbackTarget,
           Sequenced, Preparing, Migrated, RunnerDies
    <2>4. RollbackTarget' /\ Sequenced'
        BY <1>4 DEF DeployTypeOK, HostTypeOK, SchemaReady, Versions, RollbackTarget,
           Sequenced, Preparing, Migrated, RunnerDies
    <2>5. QED
        BY <2>1, <2>2, <2>3, <2>4
<1>5. CASE WriteEnv
    <2>1. DeployTypeOK'
        BY <1>5 DEF DeployTypeOK, HostTypeOK, WriteEnv
    <2>2. HostTypeOK'
        BY <1>5 DEF DeployTypeOK, HostTypeOK, WriteEnv
    <2>3. SchemaReady' /\ Versions'
        BY <1>5 DEF DeployTypeOK, HostTypeOK, SchemaReady, Versions, RollbackTarget,
           Sequenced, Preparing, Migrated, WriteEnv
    <2>4. RollbackTarget' /\ Sequenced'
        BY <1>5 DEF DeployTypeOK, HostTypeOK, SchemaReady, Versions, RollbackTarget,
           Sequenced, Preparing, Migrated, WriteEnv
    <2>5. QED
        BY <2>1, <2>2, <2>3, <2>4
<1>6. CASE BuildImage
    <2>1. env.commit \in 1..main /\ run'.commit = run.commit
        <3>1. env.commit \in 1..main
            BY <1>6 DEF BuildImage, DeployTypeOK, HostTypeOK, Sequenced, Preparing
        <3>2. run'.commit = run.commit
            BY <1>6 DEF BuildImage, DeployTypeOK
        <3>3. QED
            BY <3>1, <3>2
    <2>2. /\ tag' \in [Commit -> 0..main] /\ broken' \subseteq 1..main
          /\ \A m \in Commit : tag'[m] <= m
        <3>1. CASE Build
            BY <3>1, <2>1, BuildTypes DEF Versions
        <3>2. CASE UNCHANGED <<tag, broken>>
            BY <3>2 DEF HostTypeOK, Versions
        <3>3. QED
            BY <1>6, <3>1, <3>2 DEF BuildImage
    <2>3. DeployTypeOK'
        BY <1>6 DEF BuildImage, DeployTypeOK
    <2>4. HostTypeOK'
        BY <1>6, <2>2 DEF BuildImage, HostTypeOK
    <2>5. SchemaReady' /\ Versions'
        BY <1>6, <2>1, <2>2, VersionsKept DEF BuildImage, SchemaReady, Versions
    <2>6. RollbackTarget' /\ Sequenced'
        BY <1>6 DEF BuildImage, DeployTypeOK, HostTypeOK, SchemaReady, Versions, RollbackTarget,
           Sequenced, Preparing, Migrated
    <2>7. QED
        BY <2>3, <2>4, <2>5, <2>6
<1>7. CASE StartDb
    <2>1. DeployTypeOK'
        BY <1>7 DEF DeployTypeOK, HostTypeOK, StartDb
    <2>2. HostTypeOK'
        BY <1>7 DEF DeployTypeOK, HostTypeOK, StartDb
    <2>3. SchemaReady' /\ Versions'
        BY <1>7 DEF DeployTypeOK, HostTypeOK, SchemaReady, Versions, RollbackTarget,
           Sequenced, Preparing, Migrated, StartDb
    <2>4. RollbackTarget' /\ Sequenced'
        BY <1>7 DEF DeployTypeOK, HostTypeOK, SchemaReady, Versions, RollbackTarget,
           Sequenced, Preparing, Migrated, StartDb
    <2>5. QED
        BY <2>1, <2>2, <2>3, <2>4
<1>8. CASE Migrate
    <2>1. DeployTypeOK' /\ run'.commit = run.commit
        BY <1>8 DEF Migrate, DeployTypeOK, HostTypeOK
    <2>2. HostTypeOK'
        BY <1>8 DEF Migrate, DeployTypeOK, HostTypeOK
    <2>3. schema <= schema' /\ schema' <= run.commit
        BY <1>8 DEF Migrate, DeployTypeOK, HostTypeOK, Versions
    <2>4. SchemaReady'
        BY <1>8, <2>3 DEF Migrate, SchemaReady, DeployTypeOK, HostTypeOK
    <2>5. Versions'
        BY <1>8, <2>1, <2>3, VersionsKept DEF Migrate, Versions
    <2>6. RollbackTarget' /\ Sequenced'
        BY <1>8 DEF Migrate, DeployTypeOK, HostTypeOK, SchemaReady, Versions, RollbackTarget,
           Sequenced, Preparing, Migrated
    <2>7. QED
        BY <2>1, <2>2, <2>4, <2>5, <2>6
<1>9. CASE SavePoint
    <2>1. DeployTypeOK'
        <3>1. run' \in [pc : Steps, commit : 0..main, failed : BOOLEAN, mode : Mode]
            BY <1>9 DEF DeployTypeOK, SavePoint
        <3>2. before' \in [image : 0..main, saved : BOOLEAN]
            <4>1. web.image \in 0..main
                BY DEF HostTypeOK
            <4>2. \E b \in BOOLEAN : before' = [image |-> web.image, saved |-> b]
                BY <1>9 DEF SavePoint
            <4>3. QED
                BY <4>1, <4>2
        <3>3. QED
            BY <1>9, <3>1, <3>2 DEF DeployTypeOK, SavePoint
    <2>2. HostTypeOK'
        BY <1>9 DEF DeployTypeOK, HostTypeOK, SavePoint
    <2>3. SchemaReady' /\ Versions'
        BY <1>9 DEF DeployTypeOK, HostTypeOK, SchemaReady, Versions, RollbackTarget,
           Sequenced, Preparing, Migrated, SavePoint
    <2>4. RollbackTarget' /\ Sequenced'
        BY <1>9 DEF DeployTypeOK, HostTypeOK, SchemaReady, Versions, RollbackTarget,
           Sequenced, Preparing, Migrated, SavePoint
    <2>5. QED
        BY <2>1, <2>2, <2>3, <2>4
<1>10. CASE Recreate
    <2>1. /\ env.commit = run.commit /\ schema = run.commit
          /\ env.commit \in 1..main /\ run'.commit = run.commit
        <3>1. env.commit = run.commit /\ schema = run.commit /\ env.commit \in 1..main
            BY <1>10 DEF Recreate, DeployTypeOK, HostTypeOK, RollbackTarget, Sequenced, Migrated
        <3>2. run'.commit = run.commit
            BY <1>10 DEF Recreate, DeployTypeOK
        <3>3. QED
            BY <3>1, <3>2
    <2>2. DeployTypeOK'
        BY <1>10 DEF Recreate, DeployTypeOK
    <2>3. /\ HostTypeOK'
          /\ web'.image <= run.commit
          /\ \A m \in Commit : tag'[m] <= m
          /\ web'.state = "absent" => web'.image = 0
        <3>1. CASE MakeWeb
            <4>1. nginx' \in BOOLEAN
                BY <1>10 DEF Recreate, UpWeb
            <4>2. QED
                BY <1>10, <2>1, <3>1, <4>1, MakeWebTypes DEF Recreate, HostTypeOK, Versions
        <3>2. CASE web' \in {web, NoWeb} /\ nginx' \in BOOLEAN /\ UNCHANGED <<tag, broken>>
            BY <1>10, <2>1, <3>2 DEF Recreate, HostTypeOK, NoWeb, Versions, SchemaReady
        <3>3. QED
            BY <1>10, <3>1, <3>2 DEF Recreate, UpWeb
    <2>4. SchemaReady'
        BY <1>10, <2>1, <2>3 DEF Recreate, SchemaReady
    <2>5. Versions'
        BY <1>10, <2>1, <2>3, VersionsKept DEF Recreate, Versions
    <2>6. RollbackTarget' /\ Sequenced'
        BY <1>10, <2>1 DEF Recreate, DeployTypeOK, HostTypeOK, SchemaReady, Versions, RollbackTarget,
           Sequenced, Preparing, Migrated
    <2>7. QED
        BY <2>2, <2>3, <2>4, <2>5, <2>6
<1>11. CASE Rollback
    <2>1. /\ rollbackTag < run.commit /\ env.commit = run.commit /\ schema = run.commit
          /\ run.commit \in Commit /\ run'.commit = run.commit
        <3>1. /\ rollbackTag < run.commit /\ env.commit = run.commit
              /\ schema = run.commit /\ run.commit \in Commit
            BY <1>11 DEF Rollback, DeployTypeOK, HostTypeOK, RollbackTarget, Sequenced, Migrated
        <3>2. run'.commit = run.commit
            BY <1>11 DEF Rollback, DeployTypeOK
        <3>3. QED
            BY <3>1, <3>2
    <2>2. DeployTypeOK'
        BY <1>11 DEF Rollback, DeployTypeOK
    <2>3. tag' \in [Commit -> 0..main] /\ \A m \in Commit : tag'[m] <= m
        BY <1>11, <2>1 DEF Rollback, HostTypeOK, Versions
    <2>4. /\ web' \in [state : {"absent", "running", "stopped"}, image : 0..main,
                        commit : 0..main, mode : Mode]
          /\ web'.image <= run.commit
          /\ web'.state = "absent" => web'.image = 0
        BY <1>11, <2>1 DEF Rollback, WebOf, NoWeb, HostTypeOK, DeployTypeOK, Versions, SchemaReady
    <2>5. nginx' \in BOOLEAN
        BY <1>11 DEF Rollback, HostTypeOK
    <2>6. HostTypeOK'
        BY <1>11, <2>3, <2>4, <2>5 DEF Rollback, HostTypeOK
    <2>7. SchemaReady'
        BY <1>11, <2>1, <2>4 DEF Rollback, SchemaReady
    <2>8. Versions'
        BY <1>11, <2>1, <2>3, <2>4, VersionsKept DEF Rollback, Versions
    <2>9. RollbackTarget' /\ Sequenced'
        BY <1>11 DEF Rollback, DeployTypeOK, HostTypeOK, SchemaReady, Versions, RollbackTarget,
           Sequenced, Preparing, Migrated
    <2>10. QED
        BY <2>2, <2>6, <2>7, <2>8, <2>9
<1>12. CASE CheckMode
    <2>1. DeployTypeOK'
        BY <1>12 DEF DeployTypeOK, HostTypeOK, CheckMode, StopTunnels, Stopped
    <2>2. HostTypeOK'
        <3>1. nginx' \in BOOLEAN
            BY <1>12 DEF HostTypeOK, CheckMode
        <3>2. named' \in {named, "absent", "stopped"} /\ quick' \in {quick, "absent", "stopped"}
            BY <1>12 DEF CheckMode, StopTunnels, Stopped
        <3>3. UNCHANGED <<main, runner, env, tag, rollbackTag, broken, web, db, schema>>
            BY <1>12 DEF CheckMode
        <3>4. QED
            BY <3>1, <3>2, <3>3 DEF HostTypeOK, Commit, Mode
    <2>3. SchemaReady' /\ Versions'
        BY <1>12 DEF DeployTypeOK, HostTypeOK, SchemaReady, Versions, RollbackTarget,
           Sequenced, Preparing, Migrated, CheckMode, StopTunnels, Stopped
    <2>4. RollbackTarget' /\ Sequenced'
        BY <1>12 DEF DeployTypeOK, HostTypeOK, SchemaReady, Versions, RollbackTarget,
           Sequenced, Preparing, Migrated, CheckMode, StopTunnels, Stopped
    <2>5. QED
        BY <2>1, <2>2, <2>3, <2>4
<1>13. CASE Reopen
    <2>1. DeployTypeOK'
        BY <1>13 DEF DeployTypeOK, HostTypeOK, Reopen, UpQuick
    <2>2. HostTypeOK'
        BY <1>13 DEF DeployTypeOK, HostTypeOK, Reopen, UpQuick
    <2>3. SchemaReady' /\ Versions'
        BY <1>13 DEF DeployTypeOK, HostTypeOK, SchemaReady, Versions, RollbackTarget,
           Sequenced, Preparing, Migrated, Reopen, UpQuick
    <2>4. RollbackTarget' /\ Sequenced'
        BY <1>13 DEF DeployTypeOK, HostTypeOK, SchemaReady, Versions, RollbackTarget,
           Sequenced, Preparing, Migrated, Reopen, UpQuick
    <2>5. QED
        BY <2>1, <2>2, <2>3, <2>4
<1>14. CASE OpenTunnel
    <2>1. env.commit = run.commit /\ schema = run.commit /\ run'.commit = run.commit
        BY <1>14 DEF OpenTunnel, Sequenced, Migrated, DeployTypeOK
    <2>2. DeployTypeOK'
        BY <1>14 DEF OpenTunnel, DeployTypeOK
    <2>3. /\ HostTypeOK'
          /\ web'.image <= run.commit
          /\ \A m \in Commit : tag'[m] <= m
          /\ web'.state = "absent" => web'.image = 0
        <3>1. CASE UpWeb /\ db' = TRUE /\ UpNamed
            <4>1. env.commit \in 1..main
                BY <3>1 DEF UpWeb, MakeWeb, ComposeWorks, HostTypeOK
            <4>2. db' \in BOOLEAN /\ named' = "running" /\ nginx' \in BOOLEAN /\ MakeWeb
                BY <3>1 DEF UpNamed, UpWeb
            <4>3. QED
                BY <1>14, <2>1, <4>1, <4>2, MakeWebTypes DEF OpenTunnel, HostTypeOK, Versions
        <3>2. CASE UNCHANGED <<tag, broken, stack, named>>
            BY <1>14, <2>1, <3>2 DEF OpenTunnel, HostTypeOK, Versions, SchemaReady
        <3>3. QED
            BY <1>14, <3>1, <3>2 DEF OpenTunnel
    <2>4. SchemaReady'
        BY <1>14, <2>1, <2>3 DEF OpenTunnel, SchemaReady
    <2>5. Versions'
        BY <1>14, <2>1, <2>3, VersionsKept DEF OpenTunnel, Versions
    <2>6. RollbackTarget' /\ Sequenced'
        BY <1>14 DEF OpenTunnel, DeployTypeOK, HostTypeOK, SchemaReady, Versions, RollbackTarget,
           Sequenced, Preparing, Migrated
    <2>7. QED
        BY <2>2, <2>3, <2>4, <2>5, <2>6
<1>15. CASE Bootstrap \/ GatePasses \/ GateTimeout \/ NoRollback \/ Regate
    <2>1. DeployTypeOK'
        BY <1>15 DEF DeployTypeOK, HostTypeOK, Bootstrap, GatePasses, GateTimeout,
           NoRollback, Regate
    <2>2. HostTypeOK'
        BY <1>15 DEF DeployTypeOK, HostTypeOK, Bootstrap, GatePasses, GateTimeout,
           NoRollback, Regate
    <2>3. SchemaReady' /\ Versions'
        BY <1>15 DEF DeployTypeOK, HostTypeOK, SchemaReady, Versions, RollbackTarget,
           Sequenced, Preparing, Migrated, Bootstrap, GatePasses, GateTimeout,
           NoRollback, Regate
    <2>4. RollbackTarget' /\ Sequenced'
        BY <1>15 DEF DeployTypeOK, HostTypeOK, SchemaReady, Versions, RollbackTarget,
           Sequenced, Preparing, Migrated, Bootstrap, GatePasses, GateTimeout,
           NoRollback, Regate
    <2>5. QED
        BY <2>1, <2>2, <2>3, <2>4
<1>16. CASE Restore \/ Record \/ Verify
    <2>1. DeployTypeOK'
        BY <1>16 DEF DeployTypeOK, HostTypeOK, Restore, Record, Verify
    <2>2. HostTypeOK'
        BY <1>16 DEF DeployTypeOK, HostTypeOK, Restore, Record, Verify
    <2>3. SchemaReady' /\ Versions'
        BY <1>16 DEF DeployTypeOK, HostTypeOK, SchemaReady, Versions, RollbackTarget,
           Sequenced, Preparing, Migrated, Restore, Record, Verify
    <2>4. RollbackTarget' /\ Sequenced'
        BY <1>16 DEF DeployTypeOK, HostTypeOK, SchemaReady, Versions, RollbackTarget,
           Sequenced, Preparing, Migrated, Restore, Record, Verify
    <2>5. QED
        BY <2>1, <2>2, <2>3, <2>4
<1>17. CASE QuickByHand
    <2>1. DeployTypeOK'
        BY <1>17 DEF DeployTypeOK, HostTypeOK, QuickByHand, UpQuick
    <2>2. HostTypeOK'
        BY <1>17 DEF DeployTypeOK, HostTypeOK, QuickByHand, UpQuick
    <2>3. SchemaReady' /\ Versions'
        BY <1>17 DEF DeployTypeOK, HostTypeOK, SchemaReady, Versions, RollbackTarget,
           Sequenced, Preparing, Migrated, QuickByHand, UpQuick
    <2>4. RollbackTarget' /\ Sequenced'
        BY <1>17 DEF DeployTypeOK, HostTypeOK, SchemaReady, Versions, RollbackTarget,
           Sequenced, Preparing, Migrated, QuickByHand, UpQuick
    <2>5. QED
        BY <2>1, <2>2, <2>3, <2>4
<1>18. CASE Surroundings /\ UNCHANGED deployVars
    <2>1. DeployTypeOK'
        BY <1>18 DEF DeployTypeOK, HostTypeOK, Surroundings, Outage, StopWeb, RemoveWeb,
           TunnelFails, NoWeb
    <2>2. HostTypeOK'
        <3>1. CASE Outage
            <4>1. db' \in BOOLEAN
                BY <3>1 DEF Outage
            <4>2. QED
                BY <3>1, <4>1 DEF Outage, HostTypeOK
        <3>2. CASE StopWeb \/ RemoveWeb
            BY <3>2 DEF StopWeb, RemoveWeb, NoWeb, HostTypeOK
        <3>3. CASE TunnelFails
            BY <3>3 DEF TunnelFails, HostTypeOK
        <3>4. QED
            BY <1>18, <3>1, <3>2, <3>3 DEF Surroundings
    <2>3. SchemaReady' /\ Versions'
        BY <1>18 DEF DeployTypeOK, HostTypeOK, SchemaReady, Versions, RollbackTarget,
           Sequenced, Preparing, Migrated, Surroundings, Outage, StopWeb, RemoveWeb,
           TunnelFails, NoWeb
    <2>4. RollbackTarget' /\ Sequenced'
        BY <1>18 DEF DeployTypeOK, HostTypeOK, SchemaReady, Versions, RollbackTarget,
           Sequenced, Preparing, Migrated, Surroundings, Outage, StopWeb, RemoveWeb,
           TunnelFails, NoWeb
    <2>5. QED
        BY <2>1, <2>2, <2>3, <2>4
<1>19. QED
    BY <1>1, <1>2, <1>3, <1>4, <1>5, <1>6, <1>7, <1>8, <1>9, <1>10, <1>11, <1>12, <1>13,
       <1>14, <1>15, <1>16, <1>17, <1>18
       DEF Next, DeployNext, Workflow, Prepare, Rollout

\* A step that moves no tag and touches neither .env nor the container.
LEMMA PointKept ==
    ASSUME Point, UNCHANGED <<tag, rollbackTag, web, env, before>>, run'.commit = run.commit,
           run'.pc = "env" => run.pc = "env",
           run'.pc \in Untouched => run.pc \in Untouched,
           run'.pc \in Pointed => run.pc \in Pointed
    PROVE  Point'
BY DEF Point

\* A step that makes the container from the image of this commit, or leaves or
\* removes it, builds that image or not, and leaves the rollback point.
LEMMA PointMade ==
    ASSUME Core, Point, UNCHANGED <<rollbackTag, env, before>>, run'.commit = run.commit,
           env.commit = run.commit, run.commit \in Commit,
           Build \/ UNCHANGED tag,
           web' \in {web, NoWeb} \/ (tag'[env.commit] # 0 /\ web' = WebOf(tag'[env.commit])),
           run'.pc # "env",
           run'.pc \in Untouched => run.pc \in Untouched \/ Build,
           run'.pc \in Pointed => run.pc \in Pointed
    PROVE  Point'
<1> USE HostAssumption
<1>1. /\ tag \in [Commit -> 0..main] /\ main \in Nat /\ Commit \subseteq Nat
      /\ rollbackTag \in 0..main /\ rollbackTag <= run.commit
    BY DEF Core, TypeOK, HostTypeOK, Versions, Commit
<1>2. tag' = tag \/ tag' = [tag EXCEPT ![run.commit] = run.commit]
    BY DEF Build
<1>3. /\ \A n \in Commit : n > run.commit => tag'[n] = 0
      /\ tag'[run.commit] \in {tag[run.commit], run.commit}
    BY <1>1, <1>2 DEF Point
<1>4. run'.pc \in Untouched => tag'[run.commit] \in {0, run.commit}
    BY <1>1, <1>2, <1>3 DEF Point, Build
<1>5. tag'[run.commit] = 0 \/ rollbackTag <= tag'[run.commit]
    BY <1>1, <1>3 DEF Point
<1>6. web'.state # "absent" => rollbackTag <= web'.image
    BY <1>5 DEF Point, NoWeb, WebOf
<1>7. QED
    BY <1>3, <1>4, <1>5, <1>6 DEF Point

LEMMA InvNext == Inv /\ [Next]_vars => Inv'
<1> SUFFICES ASSUME Inv, [Next]_vars PROVE Point'
    BY CoreNext DEF Inv
<1> USE HostAssumption DEF At, GoTo, Fail
<1>0. /\ run \in [pc : Steps, commit : 0..main, failed : BOOLEAN, mode : Mode]
      /\ tag \in [Commit -> 0..main] /\ main \in 0..MaxCommits /\ MaxCommits \in Nat
      /\ Commit = 1..MaxCommits /\ rollbackTag \in 0..main
      /\ env.commit \in {0, run.commit} /\ env.commit \in 0..main
      /\ run.pc \notin {"idle", "env"} => env.commit = run.commit
      /\ web.image \in 0..main /\ pending \in 0..main
    BY DEF Inv, Core, TypeOK, DeployTypeOK, HostTypeOK, Versions, Sequenced, Commit
<1>1. CASE UNCHANGED vars
    BY <1>1, PointKept DEF vars, hostVars, deployVars, images, stack, Inv
<1>2. CASE Push
    BY <1>2, PointKept DEF Push, images, stack, Inv
<1>3. CASE Start
    <2>1. run' = [pc |-> "env", commit |-> pending, failed |-> FALSE, mode |-> "secure"]
          /\ env'.commit = 0 /\ UNCHANGED <<tag, rollbackTag, web>> /\ pending # 0
        BY <1>3 DEF Start, NoEnv, images, stack
    <2>2. run.commit < pending
        BY <2>1 DEF Inv, Core, Versions
    <2>3. pending \in Commit /\ tag[pending] = 0 /\ \A n \in Commit : n > pending => tag[n] = 0
        BY <1>0, <2>1, <2>2 DEF Inv, Point
    <2>4. run'.pc = "env" /\ run'.commit = pending
        BY <2>1
    <2>5. QED
        BY <2>1, <2>3, <2>4 DEF Inv, Point, Untouched, Pointed
<1>4. CASE WriteEnv
    <2>1. /\ run.pc = "env" /\ run'.pc = "build" /\ run'.commit = run.commit
          /\ env'.commit = run.commit /\ UNCHANGED <<tag, rollbackTag, web, before>>
        BY <1>0, <1>4 DEF WriteEnv, images, stack
    <2>2. QED
        BY <2>1 DEF Inv, Point, Pointed
<1>5. CASE BuildImage
    <2>1. run.pc = "build" /\ run'.pc \in {"db", "record"} /\ run'.commit = run.commit
        BY <1>0, <1>5 DEF BuildImage
    <2>2. env.commit = run.commit /\ run.commit \in Commit
        BY <1>0, <2>1 DEF Inv, Core, Sequenced, Preparing
    <2>3. QED
        BY <1>5, <2>1, <2>2, PointMade DEF BuildImage, stack, Inv, Untouched, Pointed
<1>6. CASE SavePoint
    <2>1. /\ run.pc = "point" /\ run'.pc = "recreate" /\ run'.commit = run.commit
          /\ UNCHANGED <<tag, web, env>>
        BY <1>0, <1>6 DEF SavePoint, stack
    <2>2. /\ env.commit = run.commit /\ tag[run.commit] \in {0, run.commit}
          /\ web.image < run.commit
          /\ web.state = "absent" => web.image = 0
        BY <1>0, <2>1 DEF Inv, Core, Sequenced, Versions, Preparing, Point, Untouched
    <2>3. CASE /\ rollbackTag' = web.image
               /\ before' = [image |-> web.image, saved |-> TRUE]
        <3>1. before'.saved /\ before'.image = web.image
            BY <2>3
        <3>2. tag[run.commit] = 0 \/ rollbackTag' <= tag[run.commit]
            BY <1>0, <2>2, <2>3
        <3>3. rollbackTag' <= web'.image
            BY <1>0, <2>1, <2>3
        <3>4. QED
            BY <2>1, <2>2, <2>3, <3>1, <3>2, <3>3 DEF Inv, Point
    <2>4. CASE before' = [image |-> web.image, saved |-> FALSE] /\ UNCHANGED rollbackTag
        <3>1. ~before'.saved /\ before'.image = web.image
            BY <2>4
        <3>2. web.image # 0 => rollbackTag <= web.image
            BY <2>2 DEF Inv, Point
        <3>3. QED
            BY <2>1, <2>2, <2>4, <3>1, <3>2 DEF Inv, Point
    <2>5. QED
        BY <1>6, <2>3, <2>4 DEF SavePoint
<1>7. CASE Recreate
    <2>1. /\ run.pc = "recreate" /\ run'.pc \in {"gate", "record"} /\ run'.commit = run.commit
          /\ UNCHANGED <<rollbackTag, env, before>>
        BY <1>0, <1>7 DEF Recreate
    <2>2. env.commit = run.commit /\ run.commit \in Commit
        BY <1>0, <2>1 DEF Inv, Core, RollbackTarget
    <2>3. CASE MakeWeb
        <3>1. tag'[env.commit] # 0
            BY <1>0, <2>2, <2>3 DEF MakeWeb, Build
        <3>2. QED
            BY <2>1, <2>2, <2>3, <3>1, PointMade DEF MakeWeb, Inv, Untouched, Pointed
    <2>4. CASE web' \in {web, NoWeb} /\ UNCHANGED <<tag, broken>>
        BY <2>1, <2>2, <2>4, PointMade DEF Inv, Untouched, Pointed
    <2>5. QED
        BY <1>7, <2>3, <2>4 DEF Recreate, UpWeb
<1>8. CASE Rollback
    <2>1. /\ run.pc = "rollback" /\ run'.pc \in {"regate", "record"} /\ run'.commit = run.commit
          /\ UNCHANGED <<rollbackTag, env, before>>
          /\ tag' = [tag EXCEPT ![run.commit] = rollbackTag]
          /\ web' \in {web, NoWeb, WebOf(rollbackTag)}
        BY <1>0, <1>8 DEF Rollback
    <2>2. env.commit = run.commit /\ run.commit \in Commit
        BY <1>0, <2>1 DEF Inv, Core, RollbackTarget
    <2>3. tag'[run.commit] = rollbackTag /\ \A n \in Commit : n > run.commit => tag'[n] = 0
        BY <1>0, <2>1, <2>2 DEF Inv, Point
    <2>4. web'.state # "absent" => rollbackTag <= web'.image
        BY <1>0, <2>1 DEF Inv, Point, NoWeb, WebOf
    <2>5. rollbackTag <= tag'[run.commit]
        BY <1>0, <2>3
    <2>6. QED
        BY <2>1, <2>2, <2>3, <2>4, <2>5 DEF Point, Untouched, Pointed
<1>9. CASE OpenTunnel
    <2>1. /\ run.pc = "tunnel" /\ run'.pc = "idle" /\ run'.commit = run.commit
          /\ UNCHANGED <<rollbackTag, env, before>>
        BY <1>0, <1>9 DEF OpenTunnel
    <2>2. CASE MakeWeb
        <3>1. env.commit = run.commit /\ run.commit \in Commit
            BY <1>0, <2>1, <2>2 DEF MakeWeb, ComposeWorks
        <3>2. tag'[env.commit] # 0
            BY <1>0, <3>1, <2>2 DEF MakeWeb, Build
        <3>3. QED
            BY <2>1, <2>2, <3>1, <3>2, PointMade DEF MakeWeb, Inv, Untouched, Pointed
    <2>3. CASE UNCHANGED <<tag, broken, stack, named>>
        BY <2>1, <2>3, PointKept DEF Inv, stack, Untouched, Pointed
    <2>4. QED
        BY <1>9, <2>2, <2>3 DEF OpenTunnel, UpWeb
<1>10. CASE \/ RunnerDies \/ StartDb \/ Migrate \/ Bootstrap \/ GatePasses \/ GateTimeout
            \/ NoRollback \/ Regate
    <2>1. /\ UNCHANGED <<tag, rollbackTag, web, env, before>> /\ run'.commit = run.commit
          /\ run'.pc # "env"
          /\ run'.pc \in Untouched => run.pc \in Untouched
          /\ run'.pc \in Pointed => run.pc \in Pointed
        BY <1>0, <1>10 DEF RunnerDies, StartDb, Migrate, Bootstrap, GatePasses, GateTimeout,
           NoRollback, Regate, hostVars, images, stack, Untouched, Pointed
    <2>2. QED
        BY <2>1, PointKept DEF Inv
<1>11. CASE CheckMode \/ Restore \/ Reopen \/ Record \/ Verify
    <2>1. /\ UNCHANGED <<tag, rollbackTag, web, env, before>> /\ run'.commit = run.commit
          /\ run'.pc # "env" /\ run'.pc \notin Untouched /\ run'.pc \notin Pointed
        BY <1>0, <1>11 DEF CheckMode, Restore, Reopen, Record, Verify, hostVars, images,
           stack, Untouched, Pointed
    <2>2. QED
        BY <2>1, PointKept DEF Inv
<1>12. CASE QuickByHand
    BY <1>12, PointKept DEF QuickByHand, deployVars, images, stack, Inv
<1>13. CASE Surroundings /\ UNCHANGED deployVars
    <2>1. /\ UNCHANGED <<tag, rollbackTag, env, before, run>>
          /\ web' \in {web, NoWeb} \/ (web.state # "absent" /\ web'.image = web.image)
        <3>1. CASE StopWeb
            <4>1. web' = [web EXCEPT !.state = "stopped"] /\ web.state = "running"
                BY <3>1 DEF StopWeb
            <4>2. web'.image = web.image
                BY <4>1 DEF Inv, Core, TypeOK, HostTypeOK
            <4>3. QED
                BY <1>13, <3>1, <4>1, <4>2 DEF StopWeb, deployVars, images
        <3>2. CASE Outage \/ RemoveWeb \/ TunnelFails
            BY <1>13, <3>2 DEF Outage, RemoveWeb, TunnelFails, deployVars, images, stack
        <3>3. QED
            BY <1>13, <3>1, <3>2 DEF Surroundings
    <2>2. web'.state # "absent" => rollbackTag <= web'.image
        BY <2>1 DEF Inv, Point, NoWeb
    <2>3. QED
        BY <2>1, <2>2 DEF Inv, Point
<1>14. QED
    BY <1>1, <1>2, <1>3, <1>4, <1>5, <1>6, <1>7, <1>8, <1>9, <1>10, <1>11, <1>12, <1>13
       DEF Next, DeployNext, Workflow, Prepare, Rollout

LEMMA Invariance == Spec => []Inv
<1>1. QED
    BY InvInit, InvNext, PTL DEF Spec

----------------------------------------------------------------------------
\* Types of the machine and of the run; no image, tag, container or .env is of
\* a commit that was not pushed, for any number of commits.
THEOREM TypeCorrect == Spec => []TypeOK
<1>1. Inv => TypeOK
    BY DEF Inv, Core
<1>2. QED
    BY Invariance, <1>1, PTL

\* The application never serves on a schema older than itself, for any number
\* of runs and whichever of their steps fail, roll back or are cut off.
THEOREM SchemaFirst == Spec => []SchemaReady
<1>1. Inv => SchemaReady
    BY DEF Inv, Core
<1>2. QED
    BY Invariance, <1>1, PTL

\* The rollback point is older than the run that may need it.
THEOREM RollbackPointOlder == Spec => []RollbackTarget
<1>1. Inv => RollbackTarget
    BY DEF Inv, Core
<1>2. QED
    BY Invariance, <1>1, PTL

\* A rollback brings back the image the rollout found, when it could be tagged, and
\* otherwise an older one, never a newer; for any number of runs, failures and deaths.
THEOREM RollbackRestoresBefore == Spec => RollbackRestores
<1> DEFINE Restored == IF before.saved THEN web'.image = before.image
                       ELSE /\ web'.image < run.commit
                            /\ before.image # 0 => web'.image <= before.image
<1>1. Inv /\ [Next]_vars =>
        [run.pc = "rollback" /\ run'.pc = "regate" => Restored]_vars
    <2> SUFFICES ASSUME Inv, Next, run.pc = "rollback", run'.pc = "regate"
                 PROVE  Restored
        OBVIOUS
    <2> USE DEF At, GoTo, Fail
    <2>1. run \in [pc : Steps, commit : 0..main, failed : BOOLEAN, mode : Mode]
        BY DEF Inv, Core, TypeOK, DeployTypeOK
    <2>2. CASE Rollback
        <3>1. run'.pc = "record" \/ web' = WebOf(rollbackTag)
            BY <2>1, <2>2 DEF Rollback
        <3>2. web'.image = rollbackTag
            BY <3>1 DEF WebOf
        <3>3. /\ rollbackTag < run.commit
              /\ IF before.saved THEN rollbackTag = before.image
                 ELSE before.image # 0 => rollbackTag <= before.image
            BY DEF Inv, Core, RollbackTarget, Point, Pointed
        <3>4. QED
            BY <3>2, <3>3
    <2>3. CASE NoRollback
        BY <2>1, <2>3 DEF NoRollback
    <2>4. CASE RunnerDies
        BY <2>1, <2>4 DEF RunnerDies
    <2>5. CASE Push \/ QuickByHand \/ (Surroundings /\ UNCHANGED deployVars)
        BY <2>5 DEF Push, QuickByHand, deployVars
    <2>6. QED
        BY <2>2, <2>3, <2>4, <2>5
           DEF Next, DeployNext, Start, Workflow, Prepare, Rollout, WriteEnv, BuildImage, StartDb, Migrate,
               Bootstrap, SavePoint, Recreate, GatePasses, GateTimeout, Regate, CheckMode,
               Restore, Reopen, Record, Verify, OpenTunnel
<1>2. QED
    BY Invariance, <1>1, PTL DEF Spec, RollbackRestores
===============================================================================
