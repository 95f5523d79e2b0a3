# Liinux- : a TLA+ verification project

The repository is a Flask site ("VM Lab") that runs in Docker Compose on one
virtual machine, with the scripts that deploy it, repair it and open it to the
internet. These modules model the parts whose correctness depends on order,
interleaving and failure, model-check them with TLC and prove the central
safety properties with TLAPS for every value of the constants.

## The system

| Component | State it keeps | Operations | Interacts with |
|---|---|---|---|
| Access-log writer (`app/core/logging_mw.py`) | bounded queue, drop counter, stop event, local batch of a daemon thread | request hooks put a row; thread collects a batch and inserts it; `stop()` from atexit | every request thread; MariaDB through the pool; gunicorn starts, recycles and kills the process |
| Login and lockout (`app/blueprints/auth.py`) | table `login_attempts`, session cookie | count recent failures, verify, record, grant; logout; register | other request threads and workers through the table only |
| Deployment (`deploy.yml`, `scripts/deploy.sh`) | `.env`, image tags, rollback tag, containers, schema | .env, build, database, migrate, bootstrap, roll out with a health gate, roll back, verify, tunnel | GitHub (push, CI, queue of runs), docker, `/healthz` |
| Self-healing (`scripts/autoheal.sh`) | nothing between cycles | security gate, restart of the stack, revival of tunnels, drift and runner check | the same `.env`, containers and `/healthz`; the runner service |
| Tunnel setup and lab (`scripts/setup_tunnel.sh`) | `.env`, tunnel containers | `--down`, `--quick`, named tunnel; mode edited by hand | the same containers |
| Database access (`app/core/db.py`) | connection pool per worker | cursor, commit or rollback, `healthcheck` | MariaDB; DBUtils re-sends a statement after a lost connection |
| Migrations (`scripts/migrate.py`) | table `schema_migrations`, what the DDL left | read the versions, split a file, execute its statements, record | the deployment, in a container that may outlive the workflow run |
| Seed script (`scripts/seed_data.py`) | tables it fills once | users, posts with comments, logs, events, attempts, deployments; `--wipe-logs` | visitors and deployments write the same tables |
| CSRF and sessions (`app/__init__.py`, `auth.py`) | everything in the cookie: user and token | make a token, verify, rotate, clear | tabs of one browser share the cookie, answers set it in any order |
| Request classification (`app/core/security.py`) | none | client address, threats and severity, uploads | nginx and Cloudflare headers; log writer |
| Board (`app/blueprints/board.py`) | posts, comments, attachments on disk | create, edit, delete, download | database, disk |
| Administration (`app/blueprints/admin.py`) | block list, events | block, unblock, resolve, purge | reads what the others wrote; no handler reads the block list (`ips.html:36`: a record only) |
| Canvas editor (`app/static/js/canvas-studio.js`) | canvas, undo and redo stacks | draw, erase, undo, redo, clear, load an image, send to the AI | browser events and asynchronous loads |
| AI proxy (`canvas_studio.py`, `ai_proxy_server.py`, nginx) | none | forward a request through four timeouts | external provider |
| Dashboard (`dashboard.js`, `api.py`) | timers, charts | poll, pause on a hidden tab | JSON endpoints |

What is hard in it:

- **Concurrency without locks.** Login reads a count and writes a row much
  later; the workflow, the timer and the operator change the same containers
  and the same `.env`, and no script holds a lock against another.
- **Stale reads.** The rollout keeps the mode of an answer of the gate; autoheal
  keeps the mode and commit of its first answer for the rest of its cycle; the
  rollback tag outlives its run; the commit the container reports is that of
  `.env`, not that of the image.
- **Failure in the middle.** A flush that raises after its commit, a statement
  sent twice, a join that gives up after three seconds, a worker killed; each
  step of a deployment failing, the runner dying, the machine restarting.
- **Things that must happen in the end.** A single row of an idle site is
  written; `stop()` ends; an exposed vulnerable machine is closed; a stopped
  quick tunnel returns; a waiting commit is taken.

What makes each part correct:

- log writer: order, nothing lost without trace, drained exit, delivery in the end;
- login: the threshold holds against overlapping requests, a locked account stays
  locked whatever overlaps, the lock ends when the message says;
- CSRF and sessions: a form acts for the visitor it was rendered for, a logout lasts, a second tab does not break the first;
- registration and accounts: a bootstrap that succeeds leaves its administrator, whoever registers meanwhile; no session claims a role its account lacks;
- deployment: schema before code, a rollback to what ran before where its image could be
  tagged and never to anything newer, a newest version that is taken in the end;
- self-healing: closes an exposed vulnerable machine, revives what was wanted and
  nothing else, sees a drift, does not change the version;
- tunnel setup: no tunnel on a vulnerable application, closed stays closed;
- migrations: a recorded version is whole, the application that runs finds its schema, the splitter cuts where SQL does;
- seeding: each row once, whatever run was broken off; a second run changes nothing but the
  posts whose titles were edited away;
- board: only owners and administrators change a post, no row without its file;
- administration: an event for each block; a list walked page by page shows every row;
- request classification: severity fits what was found, the address is the visitor's behind the trusted
  proxies, nothing executable is taken for an upload;
- pool: no thread sleeps for ever;
- canvas: history and canvas agree, the history is bounded;
- AI relay: a text the page shows as done is that of the last click, and the button comes back.

## Modules

| Module | Models | Role |
|---|---|---|
| `BestEffortLog` | | abstract specification: rows leave oldest first, in one piece, stored or lost |
| `LogWriter` | `logging_mw.py`, `db.py` (commit), gunicorn's worker life | detailed specification, refines `BestEffortLog` |
| `LogWriterProofs` | | its theorems |
| `LoginLockout`, `MCLoginLockout` | `auth.py` login and logout | specification and instance |
| `LoginLockoutProofs` | | its theorems |
| `Host` | `docker-compose.yml`, `.env`, `/healthz` | the state the scripts share and the compose commands as operators |
| `Deploy` | `deploy.yml`, `deploy.sh` | extends `Host`; a specification of its own |
| `DeployProofs` | | its theorems |
| `Migrations` | `migrate.py` main, the `migrate` step | extends `Host`; one runner per commit, statement by statement |
| `Release` | | `Deploy` with `Migrations` in place of its atomic migration step; refines `Deploy` |
| `ReleaseProofs` | | its theorems, the refinement among them |
| `Autoheal` | `autoheal.sh` | extends `Host`; next-state relation of a cycle |
| `SetupTunnel` | `setup_tunnel.sh`, the operator | extends `Host`; next-state relation |
| `Exposure` | | composes `Autoheal` and `SetupTunnel`: who opens and closes the machine |
| `Vm` | | composes all three with reboots |
| `VmProofs` | | theorems of `Exposure` and `Vm` |
| `Accounts` | `auth.py` register, session, logout; `bootstrap_admin.py` | the base of the site: tables and cookies, next-state relation |
| `Board` | `board.py` | extends `Accounts`; next-state relation |
| `Site`, `MCSite` | | composes both into a specification, with the properties; its instance |
| `SiteProofs` | | its theorems |
| `CanvasHistory` | `canvas-studio.js` | undo and redo with asynchronous image loads |
| `Sessions` | `__init__.py` (CSRF), `auth.py` | the cookie of one browser, its tabs and their answers |
| `Lists` | `admin.py` and `board.py` lists, `purge_logs` | a reader who walks the pages of a list that changes |
| `Seeding` | `seed_data.py` | the script, broken off and run again beside visitors |
| `AiRelay` | `sendToAI`, nginx, `canvas_studio.py`, `ai_proxy_server.py` | one button and a chain of four timeouts |
| `Blocking` | `admin.py` block, unblock, `admin_required` | two transactions per block, several administrators |
| `Pool` | `db.py` pool and cursor | threads, connections and failures of one worker |
| `Security` | `core/security.py`, `logging_mw.py` | pure functions against reference definitions |
| `SqlScript` | `migrate.py` `split_statements` | a scanner against the meaning of a script |
| `Console` | | the eight above and `CanvasHistory` side by side |
| `ConsoleProofs` | | theorems of `Sessions`, `Blocking`, `Pool`, `Seeding`, `Lists`, `AiRelay` and `CanvasHistory` within `Console` |
| `FunctionProofs` | | theorems of `Security` and `SqlScript` |

### LogWriter

`queue` is `queue.Queue(maxsize)`, `buffer` the local list of `_run`, `pc` and
`closing` where the thread is in its loop (`closing` is the flush after it),
`elapsed` the time since the last flush up to the interval. `arrived` numbers
the rows in the order they are put. A request thread runs `StartTimer`,
`WriteAccessLog` (whose last step is `Put`) and `EndRequest`. The writer runs
`TestLoop`, `Get` or `GetTimeout`, `TestDue`, `Send`, `Commit`, `FlushReturns`.
`Retry` is DBUtils' re-sending of a statement whose connection was lost: the
table may then hold the batch twice. `FlushReturns(TRUE)` after `Commit` is an
answer lost on the way: the warning names rows that are in the table. `Stop`,
`JoinReturns` and `JoinTimeout` are the atexit hook and its three-second join, which may
expire wherever the thread is;
`Kill` is SIGKILL; `Respawn` a new worker with new module state.

### LoginLockout

A request is four database steps apart: `Login` fixes `since` (computed by the
application before the query), `Count` reads the table, `Verify` decides,
`Record` writes the row and `Grant` sets the session. `RecordAttempt` may fail
and is swallowed, as in the code. Refused requests are recorded as failures
(reason `locked`). Rows are kept with id and time as in the table.

### Host, Deploy, Autoheal, SetupTunnel, Exposure, Vm

A commit, its run number (`APP_VERSION`) and the image its build makes are one
number. `tag` is what `vmlab-web:v<n>` names, `rollbackTag` what
`vmlab-web:rollback` names, `broken` the images that never answer `/healthz`
(decided by the build, nondeterministically). `web` holds the image the
container runs, the commit it *reports* and its mode: both come from `.env`
when the container is made. `Deploy` has one action per step of the workflow and
of the rollout, each with its failure: a failing step jumps to the history step
(`if: always()`). `Push` keeps one running and one waiting run, as the
concurrency group does; `RunnerDies` ends the run where it is; `Start` cleans
the work directory, so `.env` is gone until it is written. `SavePoint` tags the image of
the web container if docker still has it; without a container or its image the tag of
an earlier run stays (`deploy.sh:35-41`), and `before` remembers what the rollout found and
whether it is what the tag names. `Recreate` and `Rollback` may fail with the new container up
(nginx or the proxy failed).

`Autoheal` is one cycle section by section; `heal` keeps what the script keeps
in its shell variables. The two stops of a close are two steps, each of which may fail
(`|| true`); an answer may name no mode, which closes too (`NoMode`). `SetupTunnel` runs a command step by step: `--down` is
four docker commands and a report, `--quick` drops a named tunnel in two. `Surroundings` are outages, containers
stopped or removed by hand and failing tunnels. `Exposure` starts from a
machine whose first deployment succeeded and has no other; `Vm` starts from a
fresh machine.

### Accounts, Board, Site

A request belongs to a tab of a browser and runs on one of `Threads` threads.
`req[t]` is what the handler holds between its statements: the session it came
with, the row it read (`row`), the post and file it works on, and the statement
that comes next (`at`). `Comes` takes a request with the cookie of its browser;
`Answer` sets that cookie again, which is what Flask does for a permanent
session. Each statement of a handler is an action: `ViewPost` and `CountView`,
`EditPost` (read and check) and `UpdatePost`, `SaveFile` and `InsertUpload`.
`StatementFails` is a statement that raises, `Die` a handler that never answers.
A row's id is its place in `users` and `posts`. The text of a post is the
account that wrote it. `bootstrap_admin.py` runs beside the requests (`Boot*`),
for an administrator's name that may change from deployment to deployment; it ends with
success (`done`), on which the workflow goes on, or fails on a taken name or address.
Password and lockout are left to `LoginLockout`.

### CanvasHistory

Handlers of the browser run one after another, so an action is a handler or a
callback. `LoadState` is over at once unless the state holds an image: then
`loadFromJSON` replaces the canvas later (`Loaded`), in any order among loads.
`overlapped` is a history variable: an undo or redo came while a load was under
way. The current tool is left out, since any tool can be chosen before a step;
the content of the canvas is the set of its objects, each named by the edit
that made it.

### Migrations, Release

`migration[n]` is the container that migrates for commit `n` (`docker compose
run --rm`), `applied` the statements the database has seen, `versions` the rows
of `schema_migrations`. `Read` fixes the list of pending versions once, as the
code does before its loop; `Execute` is one statement, which MariaDB commits by
itself when it is DDL; `RecordVersion` the INSERT after the last one; `Break`
every way a runner ends early. Statements done twice are harmless (`IF NOT EXISTS`,
`INSERT IGNORE`), which is why `applied` is a set. In `Release` the workflow
starts the container and waits for its exit code (`SeeExit`); when the runner
service dies, the container lives on (`MigrationStep` of a commit no workflow
waits for) and may migrate beside that of the next run. `RunSeen` is the
refinement mapping: Deploy's migration happens when the container's last
transaction commits, before the workflow learns of it.

### Sessions

`jar` is the cookie (user and CSRF token), `page[t]` what a tab shows and
`reply[t]` the answer on its way to it, with the session its handler ended with.
A handler reads the cookie it was sent with; `Answer` sets the cookie: always
for a signed-in user (permanent session), otherwise when the session was changed.
The first form makes the token, `RotateSession` clears it. `left` and `good` are
history: a logout answered while nothing else was under way, and tabs whose form
was fetched while nothing else was under way.

### Lists, Seeding, Blocking, Pool

`Lists`: `list` chooses the query (newest first or with a filter), `walk` is a
reader who asks for page after page; count and rows are two queries, and between
any two rows come (`Insert`), go (`Hide`, for resolved events and deleted posts)
or are purged. A place of the table that the list shows has a number of others before it
(`Before`), which `OFFSET` passes over. The order is the query's (`ts DESC`); rows of equal time
are taken to keep one order, which the query does not promise. `seen` is what the reader was shown; `slipped` and `shrunk` record that a
row was inserted between the two queries of the last page, or left in front of the reader.
`Seeding`: one action per row or batch, since each is its own commit; `BreakOff`
anywhere; `Visit`, `Register`, `Retitle` (a post created, or its title edited), `PurgeLogs` and
`RecordDeploy` are the others who write the same tables. `gone` counts how often an edit
took a title of `POSTS` from the table.
`Blocking`: `Block` is the upsert and its commit, `Audit` the event after it,
`AuditFails` a failing INSERT or a worker that dies.
`Pool`: `Take` blocks when all connections are lent; `Finish` and `Fail` give one
back (`finally`); `Attempt` is the loop of `init_db`, before there is a pool.

### AiRelay

Each hop has its own action for taking a request, answering and timing out;
nobody cancels the hop behind it, so an abandoned call goes on to the provider.
A call is a click; `Receive` is the end of the fetch in the browser. What it receives with a
success is a text, nothing (a body that breaks off) or a page that is no JSON (a redirect to
the login, `WebRedirects`): the last two are shown as done with an empty output.

### Security, SqlScript

Written as the code computes and checked against a definition of what it should
say: the severity of a request by the weights of what it contains; the address by
the number of trusted hops, or by a `CF-Connecting-IP` that Cloudflare or, without it, the client
sent; an upload by its extensions and signature, of which two stand for the five. `ReadChar` is one turn of the splitter's loop over
characters, its three flags one state of the reader. What a file means is said without
it: a script is a sequence of lexemes (a character of code, a literal with its escapes, a
comment with its end of line, a semicolon), and its statements are what lies between the
semicolons that are lexemes of their own (`Means`). A comment runs from `#` or `--` to
the end of its line, as the code has it. Inputs are enumerated as initial states of
`Console`.

### Console

A behaviour of `Console` is a behaviour of one part (`part`), or one input. The
parts share no state in the code either (tables, cookies and threads of their
own), so nothing is lost by not interleaving them; the state spaces add up
instead of multiplying. It is a run's convenience, not a model of interaction.

## Runs

| Run | Shows |
|---|---|
| `log_writer` | order of the inserts (`InsertOrder`), no row lost without trace (`Accounted`), an orderly exit loses nothing (`DrainedExit`), refinement (`ImplementsLog`); every accepted row is written or reported (`Delivered`) and `stop()` ends (`StopEnds`) |
| `log_silent_loss` | violation: the join gives up during an INSERT and rows vanish with no log line |
| `lockout_race` | overlapping logins let through at most one guess per further request thread (`BoundedGuesses`, per account and per address); a request arriving at a locked account never reaches the password (`LockEngages`) |
| `lockout_outlasts` | violation: refused attempts extend the lock: a client that was told to wait is refused after that time though the last wrong password is older (`LockEnds`) |
| `deploy_safety` | on `Release`: schema before code (`SchemaReady`) and statement by statement (`ServedSchema`), no version recorded before it is whole (`RecordedApplied`), rollback point older than the run (`RollbackTarget`), a rollback restores what the rollout found or, without a tag for it, something older (`RollbackRestores`), refinement of `Deploy` (`ImplementsDeploy`), over failures of every step and statement and runners that outlive their run |
| `exposure_live` | an exposed vulnerable machine is closed (`Contained`), a stopped quick tunnel returns (`QuickReturns`) |
| `exposure_race` | violation: an autoheal cycle that looks between `stop` and `rm` of `--down` reopens the tunnel |
| `vm_safety` | deployment, self-healing and operator together: no script opens a kind of tunnel nobody asked for (`OnlyWanted`) |
| `vm_push` | a waiting commit is taken although the runner dies (`PushTaken`) |
| `vm_drift` | violation: after a rollback the container reports the new commit and no drift is seen |
| `console` | a form acts for the visitor it was rendered for (`SameVisitor`), an undisturbed logout lasts (`LogoutLasts`), a form stays good whatever other tabs open (`FormsStayGood`); who walks a list to its end has seen every row that was there throughout, but for the two gaps `WalkComplete` names; whatever visitors register and retitle, no run writes a row again but posts whose title was edited away (`SeededOnce`) and further runs add nothing else (`RerunsChangeNothing`); what is shown as done is no text of an earlier click (`NoStaleText`) and the button comes back (`ButtonReturns`); every block in force is explained (`BlockAudited`); no thread sleeps in the pool (`NobodySleeps`); canvas and history agree (`Settled`) and recording resumes (`Resumes`); the splitter (`SplitsRight`) and `core/security.py` (`SecurityRight`) on every bounded input |
| `site` | a bootstrap that ended with success left its administrator (`AdminEnsured`), no session claims an administrator who is none (`RoleCurrent`), a post shows what its owner or an administrator wrote (`OwnText`), a deletion is final (`DeletedStays`), no view is lost (`ViewsCounted`), every attachment's row has its file (`RowHasFile`) |

Bounds. `log_writer`: two threads, queue and batch of two, three rows, two
process lives, two sends of a statement; a full queue, a full batch, a partial
batch at the stop event, a kill in every step and a batch stored twice all
occur. `lockout_race`: two handlers, two addresses, two accounts, threshold two,
a window of one tick in two, four requests: enough to pass the threshold, to let
the window move on and to overlap on either key. `lockout_outlasts`: one client, six requests
in three ticks: two wrong passwords, a refusal, two retries and the refusal after the window. `deploy_safety`: three commits,
so that a run may follow a rolled-back run, a push may replace a waiting one and a
migration may outlive its run; two files of two statements, so that a file may stop
half-way and be followed by another.
`exposure_*`: two or three commands of the operator are a lab entered, a tunnel
opened and one taken down. `vm_safety`: one commit and two commands; `vm_push`
and `vm_drift`: two commits, no operator. `console`: a history of three states,
two objects and two images under way (the oldest state is shifted out and two
loads overlap); two users in two tabs and three tokens; pages of two rows over up
to five, so that a page is full, half full and empty; one user, two posts with two
comments each to seed, and one edit that takes a title away; two clicks and one thread of the proxy, so that the second call waits behind the
first; two administrators, a visitor and two reasons; the four request threads and
the writer on a pool of five, as deployed; scripts of four lexemes, requests of
three hits, one or two trusted proxies, file names of four parts. `site`: two requests at a time out of two tabs of one browser, which may be signed in to
different accounts, as one of them keeps the cookie it came with; two names that
both may become the administrator's, one post, two views. A second browser adds
cookies but no new overlap of handlers. Deadlock is not checked where a bound
ends a behaviour (`CHECK_DEADLOCK FALSE`): requests, commits and commands are
bounded in every run.

Fairness. The writer thread is scheduled, time passes, and a join whose thread
ended returns (WF); the database call is assumed to end, which the code does
not enforce (no read timeout is set on the connection): it is an assumption, not
a finding. The timer runs cycles (WF on autoheal's steps; `Persistent=true`
unit). Docker, systemd and GitHub grant again and again what autoheal asks
again and again (SF on `UpStack`, `ReviveQuickOk`, `CloseQuickOk`, `CloseNamedOk`, `CompareOk`), and an
answer of the application names its mode again and again (SF on `LiveMode`): a cycle retries
every five minutes, but a host where docker always fails cannot heal. A runner
that is alive again and again takes the waiting run (SF on `Start`).
A call of the AI button ends because nginx waits sixty seconds and no more, and an
answer that is there is received (WF on `NginxTimesOut` and `Receive`); a browser decodes
an image it was given (WF on `Loaded`). The hops behind nginx need no fairness.
No fairness is assumed of pushes, operators, outages or repairs.

## Proofs

All proofs are complete; TLC checked each statement on the instances above
before it was proved. Assumptions are the named `ASSUME`s of the modules: finite
sets of threads or handlers, natural or positive bounds.

| Module | Theorems | Argument |
|---|---|---|
| `LogWriterProofs` | `TypeCorrect`, `TableOrdered`, `Refinement`, `DrainedOnExit`, `NoTracelessLoss`, `RowsComeNearer`, `StopComesNearer` | `TypeInv` gives the types. `OrderInv`, the strengthening of `InsertOrder`: the rows of table, batch and queue follow each other in time, and a batch already stored is exactly the last insert; without the second half a retried insert could not be told from a disordered one. `DrainInv`: once `stop()` ran no request thread is left, and a writer that left its loop found the queue empty, so that it stays empty. `NoTracelessLoss`: a step takes a row out of queue, batch and table only into another of them or into one of the recorded losses (`PlacesStep`), and the number a new row gets is put in one of them. The refinement maps `pending` to batch followed by queue; every step removes a prefix, appends one row, or stutters. `RowsComeNearer` and `StopComesNearer` are what `Delivered` and `StopEnds` rest on besides fairness: the oldest row waits behind at most one stored batch (`Stage`), in a list with `Room` left, for at most `Wait` ticks and `StepsLeft` steps of `_run`, and each step of the writer or the clock lowers the first of these that changes; after `stop()` it shortens the queue or lowers `ExitSteps`; nobody else raises any of them |
| `LoginLockoutProofs` | `TypeCorrect`, `GuessesBounded` (per account and per address), `LockHolds` | Judged passwords in the window plus handlers between count and record are at most `MaxAttempts - 1 + ` the number of handlers: a handler joins only after counting fewer than `MaxAttempts` rows, all of which include the judged ones since its window starts no later than the present one; recording turns one in flight into one judged; time only shrinks the window. Key and value are parameters of one lemma. `LockHolds`: what a handler counts contains every failure there was when its request came, since later rows are only added and its window does not move |
| `DeployProofs` | `TypeCorrect`, `SchemaFirst`, `RollbackPointOlder`, `RollbackRestoresBefore` | `Versions`: everything on the machine is of the last run's commit or older, what waits is newer, a tag never names an image newer than itself. `Sequenced`: while a run prepares, container and rollback tag are older than the run; from the migration on the schema is the run's. `Point`: during the rollout the rollback tag is what `before` found if this run tagged it, and otherwise no newer, because neither the image of the container nor the tag that `.env` names is ever older than the rollback tag. Needed because the rollback tag and `.env` outlive the runs that wrote them |
| `ReleaseProofs` | `MigrationsWhole`, `Refinement`, `SchemaFirst`, `RollbackPointOlder`, `RollbackRestoresBefore`, `TypeCorrect`, `SchemaServed` | `MigrationInv`: what a runner has passed of its file is applied. `RunnersOld`: no runner belongs to a commit whose workflow run has not reached its migration; without it a new run could find the container of an old one. With it every step of `Release` is one of `Deploy` or a stutter, and the theorems of `DeployProofs` carry over through `INSTANCE DeployProofs WITH run <- RunSeen`. `SchemaInv`: files only grow from commit to commit and a runner that ended well recorded all of its own; with `SchemaReady` the running image's files are among them |
| `VmProofs` | `NoUnwantedTunnel`, `CloseComesNearer`, `RevivalComesNearer`, `WaitingIsDrift`, `ComparisonComesNearer` | `AskedFor`: whoever is about to open a tunnel, in the workflow, a cycle or a command, does so for a kind that was asked for, because what he read steps ago (a stopped container, a token in `.env`) only a request can have put there; so the order of all the others' steps in between does not matter. Also that docker shows the quick tunnel in one of four states: a step of the timer is decided by them. The other four are what `Contained`, `QuickReturns` and `PushTaken` rest on besides fairness: a cycle may be anywhere, with any answer kept from earlier, when its task arises; from there each of its steps leads to the one that does the task (`ClosingIn`, `RevivalIn`, `ComparisonIn`), and no other actor sends it back. `Commits` says that everything on the machine, and every kept answer, is of the last run or older and what waits is newer, so that the comparison of a stale answer still says drift while a commit waits |
| `ConsoleProofs` | `FormsActForTheirVisitor`, `LogoutsLast`, `GoodFormsStay`, `BlocksExplained`, `NobodyEverSleeps`, `SeedsOnce`, `RerunsAddNothing`, `ReaderSeesAll`, `DoneIsNotStale`, `BusyCallEnds`, `HistoryInStep`, `SuppressedWhileLoading` | `OneUser`: a token belongs to one user wherever cookie, page or answer hold it, and the next one made is held by nobody. `LogoutInv`: after a logout that was alone no answer on its way carries a user. `FormsInv`: while a tab has a good form, all sessions on their way hold the cookie's token. `AuditInv` is inductive as it stands. `PoolInv`: what is lent is the number of threads that run a statement, so a thread that asks is not among them. `SeedInv`: what a run has come past is in the tables unless it was edited away since (`Progress`), a title is written once more than it was taken away at most, a run that comes to the logs found the three tables empty (`Regular`), and after a whole run the next finds every table filled (`Completed`). `ListInv`: a row the reader has not seen has at least as many rows before it as his next page skips (`NonePassed`; an insertion moves rows back, never to the front, which is a count of injections), and the total on the page covers the rows (`Covered`), so that behind the last page nothing is left. `RelayInv`: every click but the last was received, so one call is open at most (`OneCallOpen`), and only a text of the provider becomes an answer on the way back through the four hops (`CallOrder`). `CanvasInv`: unless two loads overlapped, either nothing loads and the canvas is the current entry up to what is being dragged, or exactly the current entry loads and recording is off (`InStep`). `BusyCallEnds` and `SuppressedWhileLoading` are what the liveness properties rest on and no fairness gives: a busy page always has somebody who may end its call, suppressed recording always a callback that resumes it. Each part's step is lifted to `Console`, whose other parts leave its variables alone |
| `FunctionProofs` | `AddressRight`, `UploadRight`, `AlertRight`, `ScriptRight`, `SecurityIsRight`, `MigrationFilesRight` | Induction is brought in as a lemma about sets, which follows from the well-foundedness of `<` (`LeastNumber`, `Induction`): the library's own takes a predicate as parameter. `Iterable` then gives the function a recursive definition defines, and each loop of the code its steps. `AddressRight`: without a `CF-Connecting-IP` that is believed, the entry with as many before it as the header had of its own is the first the trusted proxies added. `AlertRight`: the sum of the weights is at least that of any one or two of its patterns and grows with the set, so thresholds and cap decide as they should. `ScriptRight`: at the boundary after each lexeme the reader is back in code, its buffer is the text since the last semicolon that is a lexeme, and what it gave off are the statements before; within a literal the reader leaves it at no earlier quote, because it skips exactly the characters the literal's escapes name. `SecurityIsRight` and `MigrationFilesRight` are these for all inputs `Console` enumerates, whatever its bounds |
| `SiteProofs` | `TypesHold`, `AdminThere`, `RolesTrue`, `TextsOwned`, `ViewsKept`, `AttachmentsThere`, `DeletionFinal` | `Inv` says that whatever a cookie or a handler carries over from an earlier step is still true: sessions name accounts and no role they lack, a handler about to write a post still may, a saved file is still there. It is inductive because every step lets the tables only grow (`UsersGrow`, `PostsGrow`, `FilesKept`), which is proved first, table by table, and then used for the requests. `AdminThere` rests on the same: the row the script found or inserted keeps name and role. `TypesHold` needs besides that rows carried by handlers hold ids of accounts (`RowsRead`), and a count of injections: with unique names there are no more accounts than names, which bounds the ids |

The type theorems of `LoginLockoutProofs` and `SiteProofs` state invariants that no
run lists any more; they carry the other proofs of their modules.

Only model-checked: liveness itself (`Delivered`, `StopEnds`, `Contained`, `QuickReturns`,
`PushTaken`, `ButtonReturns`, `Resumes`), because fairness needs `ENABLED`, which is out
of the prover's reach. What is proved of each is its safety half: a bounded distance to
the goal that the steps under fairness lower and no other step raises (`RowsComeNearer`,
`StopComesNearer`, `CloseComesNearer`, `RevivalComesNearer`, `ComparisonComesNearer`), or
that somebody is always there who may reach it (`BusyCallEnds`, `SuppressedWhileLoading`).
Left to fairness, and so to TLC: that an enabled step is taken; that docker and git grant
in the end what is asked of them; that an application that does not answer, which ends a
cycle before its close, is brought up or replaced. Every safety property of a passing run
is a theorem.

## Disagreements found

1. `stop()` (`logging_mw.py:100`) returns after three seconds whether or not the
   writer ended; the rest of the rows is lost silently (`log_silent_loss`).
2. A refused login is recorded as a failure and counted (`auth.py:165`), so the
   lock outlasts the minutes its message (`auth.py:173`) names for a client that retries
   meanwhile, counted from its last wrong password (`lockout_outlasts`).
3. `--down` stops and removes in two commands; a cycle in between revives the
   tunnel (`exposure_race`).
4. A rolled-back container reports the commit of `.env`, so autoheal finds no
   drift (`vm_drift`).

## Observations

Reached in the models too, without a run of their own:

- The lockout adds failures of the address and of the account in one count
  (`auth.py:82`): it may engage though neither alone reached the threshold.
- `deploy.sh` looks only for the tag `vmlab-web:rollback`; with no web container
  at the start, or one whose image is gone, it announces that a rollback is impossible
  (`deploy.sh:37-40`) and still restores a tag left by an earlier run (`deploy.sh:76`), which
  may be older than what served before (the second half of `RollbackRestores`).
- With `TUNNEL_TOKEN` set, the next cycle reopens a named tunnel that `--down`
  removed (`autoheal.sh:212`), and opening the named tunnel leaves a quick one
  running beside it (`setup_tunnel.sh:530`).
- The second check of `setup_tunnel.sh` passes when `/healthz` does not answer
  (line 323); autoheal checks the mode once per cycle (line 192). A vulnerable
  application can thus be exposed for a while; `Contained` says it ends.
- A cycle whose application stays down ends before it looks at the runner
  (`autoheal.sh:182`); `PushTaken` therefore excepts it.
- A repair (`autoheal.sh:173`) follows the `.env` of a failed run, or of a run in
  progress: it may start the new image ungated, which may then become its own
  rollback point (`deploy.sh:35`).
- Logout clears the cookie (`auth.py:252`), but any answer still under way in
  another tab, such as a poll of the dashboard, sets the cookie it came with:
  the browser is signed in again (`Logout`, then `Answer` in `Site`).
- A post is committed before its attachment (`board.py:181`): when the file cannot
  be saved the visitor sees an error although the post exists; a row that fails
  leaves the file behind. A post deleted after it was read can still be edited and
  commented, unseen.
- The block list (`admin.py:453`) is read by its own page only. Blocking again keeps
  the first administrator in `created_by`; unblocking leaves no event.
- Two tabs that load their first form at once get different tokens, and one of the
  forms is refused (`FormsStayGood` therefore asks that the form came alone).
- Every list is ordered by a time alone (`admin.py:212`, `board.py:111`): rows of equal time may
  change places between two pages, which `Lists` leaves out.
- A row inserted between count and rows of the last page, or one that leaves the list
  in front of the reader, hides another (`WalkComplete` names both).
- Seeding: a run broken off between a post and its comments, or between logs and
  attempts, leaves them unwritten for good; one visitor's row keeps the logs from being seeded;
  broken off inside `--wipe-logs`, the next run may double events; with `--logs 0`, or after
  the log was purged to its last row, events and attempts are added again (`SeededOnce` excepts
  these as `irregular`). Although `seed_data.py:3` calls the script idempotent, a post whose
  title was edited (`board.py:233`) is inserted again with its comments, because it is looked
  up by title (`seed_data.py:152`).
- An AI call given up by nginx or the web application is still made by the proxy and
  paid for.
- The page says "완료됨" with an empty output when the body of a 200 cannot be read
  (`canvas-studio.js:239`, `data.markdown || ""` in line 244) or when the fetch was redirected to
  the login page.
- `is_safe_upload` accepts any known signature for any image extension, although its
  docstring and its message speak of the signature of the extension (`security.py:264`, `284`);
  `RightUpload` says what it accepts. Only the last
  part of a name is trimmed (line 254), so a blank inside it is part of the comparison.
- A valid `CF-Connecting-IP` is believed before everything else (`security.py:79-81`), and nginx
  passes on what it gets (`app.conf:33`): a client that reaches nginx without Cloudflare
  (`BIND_ADDR`) chooses the address in logs and lockout (the exception in `RightAddress`).
- A visitor who registers the address `<ADMIN_USERNAME>@vmlab.local` before the administrator
  exists makes `bootstrap_admin.py`, which looks for the name only, fail, and with it each
  deployment (`BootInsert`).
- The splitter takes `--x` for a comment, which MariaDB does not, and does not know
  `/* */`; no migration of the repository has either.
- `migrate.py:211` reports a rollback, though each DDL statement stays.
- The pool is exactly as large as threads and writer together; one more thread
  and `NobodySleeps` no longer follows.

## Not modelled, and why

- Wording, columns, masking and formatting of rows; `--status` and `--dry-run`,
  which change nothing; a manual run with `skip_migration`.
- `ai-proxy` follows `web` in every compose command and is left out of `Host`.
- Security modes other than secure in login, sessions and board: they leave checks out on
  purpose. Of the administration: statistics and CSV export, which only read.
- Dashboard (`dashboard.js`, `api.py`): it shows what it polled and changes nothing.
- What a text object of the canvas shows while it is typed in: an edit is one step
  (`Modified`).
- CI, diagnostic scripts, Windows batch files: run by hand or stateless. Templates, CSS and rendering.
- nginx' rate limits, Cloudflare and MariaDB: external; MariaDB appears by its
  commits, lost answers and outages.

## Plan

Done: the log writer with its refinement and proofs; login and lockout with
proofs; deployment with the migrations in detail, its refinement and proofs;
self-healing, tunnels and their composition; accounts and board with proofs; and
side by side sessions, lists, seeding, the AI relay, blocking, the pool, the canvas
history and the pure functions.

Done as proofs besides: every invariant and every action property of the passing runs,
for every value of the constants, and the safety half of every liveness property.

Next:

1. `Exposure` as a refinement of a machine that only opens what was asked for.
2. An abstract undo history that `CanvasHistory` implements as long as no two loads
   overlapped.
3. The timer and a running deployment that both run `compose up` on one project
   (`autoheal.sh:173`): docker's own steps, container by container, in place of `UpWeb`.
