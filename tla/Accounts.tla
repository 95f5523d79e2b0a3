------------------------------- MODULE Accounts -------------------------------
(***************************************************************************)
(* Accounts and sessions in secure mode (app/blueprints/auth.py register,  *)
(* _rotate_session, logout; scripts/bootstrap_admin.py).  The session is a *)
(* signed cookie: a request works on the copy it came with, and its answer *)
(* sets the cookie again, also when the browser was given another one in   *)
(* the meantime.  Password and lockout are the subject of LoginLockout.    *)
(***************************************************************************)
EXTENDS Naturals, Sequences, FiniteSets

CONSTANTS Browser,    \* browsers, one cookie each
          Tabs,       \* requests a browser may have under way
          Threads,    \* request threads, over all workers
          Name, Mail, \* usernames and addresses in the forms
          AdminName,  \* values ADMIN_USERNAME takes over the deployments
          BootMail,   \* <ADMIN_USERNAME>@vmlab.local
          MaxPosts    \* bound: posts in a behaviour

ASSUME AccountsAssumption ==
    /\ IsFiniteSet(Browser) /\ IsFiniteSet(Name)
    /\ {Tabs, Threads, MaxPosts} \subseteq Nat \ {0}
    /\ AdminName \subseteq Name /\ AdminName # {}
    /\ BootMail \in [AdminName -> Mail]
    /\ "none" \notin Name \union Mail

VARIABLES users,   \* table users; a row's id is its place
          cookie,  \* the session each browser holds
          req,     \* the request under way of each tab
          boot     \* bootstrap_admin.py: its name, and its next step or success

accountVars == <<users, cookie, req, boot>>

Role == {"user", "admin"}
User == [name : Name, mail : Mail, role : Role]

Tab == Browser \X (1..Tabs)

\* Ids are bounded by the UNIQUE key on the name.
UserId == 1..Cardinality(Name)
PostId == 1..MaxPosts

Anonymous == [user |-> 0, role |-> "none"]
Session == {Anonymous} \union [user : UserId, role : Role]

NoPost == [owner |-> 0, text |-> 0, deletedBy |-> 0, views |-> 0]

\* A tab that waits for nothing.
Idle == [at |-> "idle", sess |-> Anonymous, name |-> "none", mail |-> "none",
         post |-> 0, row |-> NoPost, file |-> "none"]

NoBoot == [name |-> "none", at |-> "idle"]

Busy == {t \in Tab : req[t].at # "idle"}

----------------------------------------------------------------------------
AccountsInit ==
    /\ \E n \in AdminName :
         users = <<[name |-> n, mail |-> BootMail[n], role |-> "admin"]>>
    /\ cookie = [b \in Browser |-> Anonymous]
    /\ req = [t \in Tab |-> Idle]
    /\ boot = NoBoot

\* A request comes with the cookie of its browser.
Comes(t) == req[t].at = "idle" /\ Cardinality(Busy) < Threads
SessionOf(t) == cookie[t[1]]
Signed(t) == SessionOf(t) # Anonymous

\* The route goes on with step at.
Enter(t, at) == [Idle EXCEPT !.at = at, !.sess = SessionOf(t)]
Handle(t, r) == req' = [req EXCEPT ![t] = r]

\* UNIQUE KEY uq_users_username, uq_users_email.
Taken(n, m) == \E i \in DOMAIN users : users[i].name = n \/ users[i].mail = m

\* The statement fails when a key is taken.
InsertUser(n, m, r) ==
    /\ ~Taken(n, m)
    /\ users' = Append(users, [name |-> n, mail |-> m, role |-> r])

----------------------------------------------------------------------------
(* Routes of auth.py.  A visitor who is signed in is sent home.            *)

\* SELECT ... WHERE username OR email: a hit is answered 409.
Register(t, n, m) ==
    /\ Comes(t) /\ ~Signed(t)
    /\ Handle(t, IF Taken(n, m) THEN Enter(t, "answer")
                 ELSE [Enter(t, "register") EXCEPT !.name = n, !.mail = m])
    /\ UNCHANGED <<users, cookie, boot>>

\* The insert; a row that came in between makes it fail, and the answer is 500.
RegisterInsert(t) ==
    /\ req[t].at = "register"
    /\ \/ InsertUser(req[t].name, req[t].mail, "user")
       \/ Taken(req[t].name, req[t].mail) /\ UNCHANGED users
    /\ Handle(t, [Idle EXCEPT !.at = "answer", !.sess = req[t].sess])
    /\ UNCHANGED <<cookie, boot>>

\* session.clear(), then the row that was read.
RotateSession(id) == [user |-> id, role |-> users[id].role]

\* The row of the name is read and its password accepted.
Login(t, id) ==
    /\ Comes(t) /\ ~Signed(t)
    /\ Handle(t, [Enter(t, "answer") EXCEPT !.sess = RotateSession(id)])
    /\ UNCHANGED <<users, cookie, boot>>

Logout(t) ==
    /\ Comes(t)
    /\ Handle(t, [Enter(t, "logout") EXCEPT !.sess = Anonymous])
    /\ UNCHANGED <<users, cookie, boot>>

\* A request that changes nothing: a page, a poll of the dashboard.
Browse(t) ==
    /\ Comes(t)
    /\ Handle(t, Enter(t, "answer"))
    /\ UNCHANGED <<users, cookie, boot>>

\* The answer sets the cookie: always with a permanent session (Flask refreshes
\* it with each request) and after logout; without a session only if a message
\* or a token was put into it.
Answer(t) ==
    /\ req[t].at \in {"answer", "logout"}
    /\ \/ cookie' = [cookie EXCEPT ![t[1]] = req[t].sess]
       \/ /\ req[t].at = "answer" /\ req[t].sess = Anonymous
          /\ UNCHANGED cookie
    /\ Handle(t, Idle)
    /\ UNCHANGED <<users, boot>>

\* The worker is killed or the client goes away: no answer.
Die(t) ==
    /\ req[t].at # "idle"
    /\ Handle(t, Idle)
    /\ UNCHANGED <<users, cookie, boot>>

\* PERMANENT_SESSION_LIFETIME.
Expire(b) ==
    /\ cookie[b] # Anonymous
    /\ cookie' = [cookie EXCEPT ![b] = Anonymous]
    /\ UNCHANGED <<users, req, boot>>

----------------------------------------------------------------------------
(* bootstrap_admin.py, run by every deployment beside the old container.   *)

BootTurns(n, at) == boot' = [name |-> n, at |-> at]
BootStops == boot' = NoBoot

\* SELECT id, role: insert, promote, or end with success.
BootLook(n) ==
    /\ boot.at \in {"idle", "done"}
    /\ LET found == {users[i].role : i \in {j \in DOMAIN users : users[j].name = n}}
       IN \/ found = {} /\ BootTurns(n, "insert")
          \/ "user" \in found /\ BootTurns(n, "promote")
          \/ "admin" \in found /\ BootTurns(n, "done")
    /\ UNCHANGED <<users, cookie, req>>

\* Variant: INSERT IGNORE, a row that is there already is no failure.
BootInsertIgnore ==
    /\ boot.at = "insert"
    /\ \/ InsertUser(boot.name, BootMail[boot.name], "admin")
       \/ Taken(boot.name, BootMail[boot.name]) /\ UNCHANGED users
    /\ BootTurns(boot.name, "done")
    /\ UNCHANGED <<cookie, req>>

\* A key taken since BootLook, or an address no name told of, is an exception.
BootInsert ==
    /\ boot.at = "insert"
    /\ \/ /\ InsertUser(boot.name, BootMail[boot.name], "admin")
          /\ BootTurns(boot.name, "done")
       \/ /\ Taken(boot.name, BootMail[boot.name])
          /\ BootStops
          /\ UNCHANGED users
    /\ UNCHANGED <<cookie, req>>

\* Variant: the other administrators lose their role.
BootPromoteOnly ==
    /\ boot.at = "promote"
    /\ users' = [i \in DOMAIN users |->
                    [users[i] EXCEPT !.role = IF users[i].name = boot.name
                                              THEN "admin" ELSE "user"]]
    /\ BootTurns(boot.name, "done")
    /\ UNCHANGED <<cookie, req>>

BootPromote ==
    /\ boot.at = "promote"
    /\ users' = [i \in DOMAIN users |->
                    IF users[i].name = boot.name
                    THEN [users[i] EXCEPT !.role = "admin"] ELSE users[i]]
    /\ BootTurns(boot.name, "done")
    /\ UNCHANGED <<cookie, req>>

\* The script is killed or its statement fails: the deployment stops there.
BootFails ==
    /\ boot.at \in {"insert", "promote"}
    /\ BootStops
    /\ UNCHANGED <<users, cookie, req>>

----------------------------------------------------------------------------
AccountStep ==
    \/ \E t \in Tab :
         \/ \E n \in Name, m \in Mail : Register(t, n, m)
         \/ \E id \in DOMAIN users : Login(t, id)
         \/ RegisterInsert(t) \/ Logout(t) \/ Browse(t) \/ Answer(t) \/ Die(t)
    \/ \E b \in Browser : Expire(b)
    \/ \E n \in AdminName : BootLook(n)
    \/ BootInsert \/ BootPromote \/ BootFails

AccountsTypeOK ==
    /\ users \in Seq(User)
    /\ Len(users) <= Cardinality(Name)
    /\ cookie \in [Browser -> Session]
    /\ boot \in [name : AdminName, at : {"insert", "promote", "done"}] \union {NoBoot}

Sessions == {cookie[b] : b \in Browser} \union {req[t].sess : t \in Tab}
=============================================================================
