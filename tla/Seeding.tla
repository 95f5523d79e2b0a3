------------------------------ MODULE Seeding ------------------------------
(***************************************************************************)
(* The demonstration data (scripts/seed_data.py), run again and again next *)
(* to the application, broken off at any step, with and without            *)
(* --wipe-logs.  Rows are counted by what made them: a user or a post by   *)
(* its place in USERS and POSTS, log rows, events and attempts by the run  *)
(* that wrote them.  Visitors register, write posts and edit titles.       *)
(***************************************************************************)
EXTENDS Integers

CONSTANTS SeedUsers, SeedPosts,  \* the lengths of USERS and POSTS
          MaxComments,           \* comments of a post, at most
          MaxBatches,            \* bound: batches in a table when a run starts
          MaxRetitles            \* bound: when one title was edited away so often, none is again

ASSUME SeedingAssumption ==
    /\ {SeedUsers, SeedPosts, MaxComments, MaxBatches, MaxRetitles} \subseteq Nat \ {0}

VARIABLES seeded,     \* rows the script wrote, by table (comments: of the newest post)
          visits,     \* access_logs has rows of the application
          recorded,   \* record_deploy.py has written to deployments
          names,      \* the names of USERS that some user has
          titles,     \* the titles of POSTS that some post has, a deleted one too
          gone,       \* history: how often an edit took the title from the table
          seeder,     \* the run in progress
          irregular,  \* history: a run broke off or wrote no logs, or logs were purged
          complete    \* history: a run came to its end, and no wipe began since

siteVars == <<visits, recorded, names, titles, gone>>
seedVars == <<seeded, siteVars, seeder, irregular, complete>>

NoSeeder == [at |-> "idle", wipe |-> FALSE, logs |-> FALSE, next |-> 0]

SeedInit ==
    /\ seeded = [users |-> [u \in 1..SeedUsers |-> 0],
                 posts |-> [p \in 1..SeedPosts |-> 0],
                 comments |-> [p \in 1..SeedPosts |-> 0],
                 logs |-> 0, events |-> 0, attempts |-> 0, deployments |-> 0]
    /\ visits = FALSE
    /\ recorded = FALSE
    /\ names = {} /\ titles = {}
    /\ gone = [p \in 1..SeedPosts |-> 0]
    /\ seeder = NoSeeder
    /\ irregular = FALSE
    /\ complete = FALSE

Stage(at) == seeder.at = at
Proceed(at) == seeder' = [seeder EXCEPT !.at = at, !.next = 1]
Repeat == seeder' = [seeder EXCEPT !.next = @ + 1]

\* The next row of a loop of n rows, then the stage after it.
Loop(n, after) == IF seeder.next < n THEN Repeat ELSE Proceed(after)

----------------------------------------------------------------------------
\* main, with or without --wipe-logs and with --logs 0 or more.
StartSeeding ==
    /\ Stage("idle")
    /\ \A table \in {"logs", "events", "attempts"} : seeded[table] < MaxBatches
    /\ \E wipe, logs \in BOOLEAN :
         /\ seeder' = [at |-> IF wipe THEN "wipe" ELSE "users", wipe |-> wipe,
                       logs |-> logs, next |-> 1]
         /\ irregular' = (irregular \/ ~logs)
         /\ complete' = (complete /\ ~wipe)
    /\ UNCHANGED <<seeded, siteVars>>

\* Variant: only the access log is wiped.
WipeLogs ==
    /\ Stage("wipe")
    /\ seeded' = IF seeder.next = 1 THEN [seeded EXCEPT !.logs = 0] ELSE seeded
    /\ visits' = (visits /\ seeder.next # 1)
    /\ Loop(3, "users")
    /\ UNCHANGED <<recorded, names, titles, gone, irregular, complete>>

\* DELETE FROM one table after the other.
Wipe ==
    LET table == <<"logs", "events", "attempts">>[seeder.next] IN
    /\ Stage("wipe")
    /\ seeded' = [seeded EXCEPT ![table] = 0]
    /\ visits' = (visits /\ table # "logs")
    /\ Loop(3, "users")
    /\ UNCHANGED <<recorded, names, titles, gone, irregular, complete>>

\* seed_users: a name that exists is left alone.
SeedUser ==
    LET u == seeder.next IN
    /\ Stage("users")
    /\ seeded' = IF u \in names THEN seeded ELSE [seeded EXCEPT !.users[u] = @ + 1]
    /\ names' = names \cup {u}
    /\ Loop(SeedUsers, "posts")
    /\ UNCHANGED <<visits, recorded, titles, gone, irregular, complete>>

\* seed_posts: so is a title, whoever has it; a new post gets its comments at once.
SeedPost ==
    LET p == seeder.next IN
    /\ Stage("posts")
    /\ \/ /\ p \notin titles
          /\ seeded' = [seeded EXCEPT !.posts[p] = @ + 1, !.comments[p] = 0]
          /\ titles' = titles \cup {p}
          /\ seeder' = [seeder EXCEPT !.at = "comments"]
       \/ p \in titles /\ Loop(SeedPosts, "check") /\ UNCHANGED <<seeded, titles>>
    /\ UNCHANGED <<visits, recorded, names, gone, irregular, complete>>

\* One to MaxComments of them, each a statement of its own.
SeedComment ==
    /\ Stage("comments")
    /\ seeded' = [seeded EXCEPT !.comments[seeder.next] = @ + 1]
    /\ \/ seeded'.comments[seeder.next] < MaxComments /\ UNCHANGED seeder
       \/ IF seeder.next < SeedPosts
          THEN seeder' = [seeder EXCEPT !.at = "posts", !.next = @ + 1]
          ELSE Proceed("check")
    /\ UNCHANGED <<siteVars, irregular, complete>>

\* Variant: the logs are written in any case.
CheckLogsNot ==
    /\ Stage("check")
    /\ Proceed("logs")
    /\ UNCHANGED <<seeded, siteVars, irregular, complete>>

\* Any row of access_logs counts, a visitor's too.
CheckLogs ==
    /\ Stage("check")
    /\ Proceed(IF (seeded.logs > 0 \/ visits) /\ ~seeder.wipe THEN "deployments" ELSE "logs")
    /\ UNCHANGED <<seeded, siteVars, irregular, complete>>

\* seed_access_logs: one transaction.
SeedLogs ==
    /\ Stage("logs")
    /\ seeded' = IF seeder.logs THEN [seeded EXCEPT !.logs = @ + 1] ELSE seeded
    /\ Proceed("events")
    /\ UNCHANGED <<siteVars, irregular, complete>>

\* seed_security_events, from the dangerous rows of the log if there are any.
SeedEvents ==
    /\ Stage("events")
    /\ \/ /\ seeded.logs > 0 \/ visits
          /\ seeded' = [seeded EXCEPT !.events = @ + 1]
       \/ UNCHANGED seeded
    /\ Proceed("attempts")
    /\ UNCHANGED <<siteVars, irregular, complete>>

SeedAttempts ==
    /\ Stage("attempts")
    /\ seeded' = [seeded EXCEPT !.attempts = @ + 1]
    /\ Proceed("deployments")
    /\ UNCHANGED <<siteVars, irregular, complete>>

\* seed_deployments, unless there are any; then main ends.
SeedDeployments ==
    /\ Stage("deployments")
    /\ seeded' = IF seeded.deployments = 0 /\ ~recorded
                 THEN [seeded EXCEPT !.deployments = 1] ELSE seeded
    /\ complete' = (seeded.logs > 0 \/ visits)
    /\ seeder' = NoSeeder
    /\ UNCHANGED <<siteVars, irregular>>

\* The database goes away, the script is interrupted.
BreakOff ==
    /\ ~Stage("idle")
    /\ seeder' = NoSeeder
    /\ irregular' = TRUE
    /\ UNCHANGED <<seeded, siteVars, complete>>

----------------------------------------------------------------------------
(* The site in use, before, between and during the runs.                   *)

\* Every request is logged.
Visit ==
    /\ ~visits
    /\ visits' = TRUE
    /\ UNCHANGED <<seeded, recorded, names, titles, gone, seeder, irregular, complete>>

\* register takes a name the script would use.
Register ==
    /\ \E u \in 1..SeedUsers : names' = names \cup {u}
    /\ UNCHANGED <<seeded, visits, recorded, titles, gone, seeder, irregular, complete>>

\* create_post and edit_post: a post gets the title p of POSTS, 0 for another
\* title, and may have had the title old, the only one that did.
Retitle ==
    /\ \E old \in titles \cup {0}, p \in 0..SeedPosts :
         /\ titles' = (titles \ {old}) \cup ({p} \ {0})
         /\ IF old \in titles \ titles'
            THEN /\ \A q \in 1..SeedPosts : gone[q] < MaxRetitles
                 /\ gone' = [gone EXCEPT ![old] = @ + 1]
            ELSE UNCHANGED gone
    /\ UNCHANGED <<seeded, visits, recorded, names, seeder, irregular, complete>>

\* purge_logs: the rows of access_logs before a date, the script's among them.
PurgeLogs ==
    /\ \E n \in 0..seeded.logs : seeded' = [seeded EXCEPT !.logs = n]
    /\ visits' \in {visits, FALSE}
    /\ irregular' = TRUE
    /\ complete' = (complete /\ (seeded'.logs > 0 \/ visits'))
    /\ UNCHANGED <<recorded, names, titles, gone, seeder>>

\* record_deploy.py: a connection or an insert that fails is not an error.
RecordDeploy ==
    /\ recorded' \in {recorded, TRUE}
    /\ UNCHANGED <<seeded, visits, names, titles, gone, seeder, irregular, complete>>

SeedNext ==
    \/ StartSeeding \/ Wipe \/ SeedUser \/ SeedPost \/ SeedComment \/ CheckLogs
    \/ SeedLogs \/ SeedEvents \/ SeedAttempts \/ SeedDeployments \/ BreakOff
    \/ Visit \/ Register \/ Retitle \/ PurgeLogs \/ RecordDeploy

----------------------------------------------------------------------------
(* Properties.                                                             *)

\* Over runs that break off anywhere and start again, no user and no deployment
\* is written twice, a post once more at most than its title was edited away, and
\* no post gets a second round of comments; and as long as every run comes to its
\* end and writes logs and none are purged, the log, the events and the attempts
\* are those of one run, however often it wiped them.
SeededOnce ==
    /\ \A u \in 1..SeedUsers : seeded.users[u] <= 1
    /\ \A p \in 1..SeedPosts : /\ seeded.posts[p] <= 1 + gone[p]
                               /\ seeded.comments[p] <= MaxComments
    /\ seeded.deployments <= 1
    /\ ~irregular => seeded.logs <= 1 /\ seeded.events <= 1 /\ seeded.attempts <= 1

\* No table gets a row of the script, but for posts whose title was edited away.
NothingAdded ==
    /\ UNCHANGED <<seeded.users, seeded.events, seeded.attempts, seeded.deployments>>
    /\ seeded'.logs <= seeded.logs
    /\ \A p \in 1..SeedPosts : gone[p] = 0 => /\ seeded'.posts[p] = seeded.posts[p]
                                              /\ seeded'.comments[p] = seeded.comments[p]

\* "Idempotent", as far as it goes: when a run has come to its end, one without
\* --wipe-logs adds nothing, also when visitors logged in, registered and wrote
\* or the site was deployed in between, as long as the log has a row left; the
\* post of a title somebody has edited comes back, with its comments.
RerunsChangeNothing == [][complete /\ ~seeder.wipe => NothingAdded]_seedVars
=============================================================================
