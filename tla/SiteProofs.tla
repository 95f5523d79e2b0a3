------------------------------ MODULE SiteProofs ------------------------------
(***************************************************************************)
(* Theorems of Site: what overlapping requests and scripts cannot break.   *)
(* The invariant says that whatever a handler or a cookie carries over     *)
(* from an earlier step is still true: the tables only grow, a role is     *)
(* never taken back, an owner never changes, a saved file stays.           *)
(***************************************************************************)
EXTENDS Site, FiniteSetTheorems, TLAPS

\* The UNIQUE keys.
OneAccount ==
    \A i, j \in DOMAIN users :
        i # j => users[i].name # users[j].name /\ users[i].mail # users[j].mail

\* A session is of an account, and names no role that the account lacks.
SessionTrue(s) ==
    \/ s = Anonymous
    \/ /\ s \in [user : Nat \ {0}, role : Role]
       /\ s.user \in DOMAIN users
       /\ s.role = "admin" => users[s.user].role = "admin"

\* What a handler found stays true until its next statement.
RequestTrue(r) ==
    /\ SessionTrue(r.sess)
    /\ r.at = "register" => r.name \in Name /\ r.mail \in Mail
    /\ r.at \in {"count", "save", "row", "update", "delete", "comment"} =>
         r.post \in DOMAIN posts
    /\ r.at \in {"update", "delete"} =>
         r.sess # Anonymous /\ MayChange(r.sess, posts[r.post])
    /\ r.at = "row" => r.file \in File /\ files[r.file] = r.post

\* Types, with ids as natural numbers.
Post0 == [owner : Nat \ {0}, text : Nat \ {0}, deletedBy : Nat, views : 0..MaxViews]
Request0 == [at : {"idle", "answer", "logout", "register", "count", "save", "row",
                   "update", "delete", "comment"},
             sess : {Anonymous} \union [user : Nat \ {0}, role : Role],
             name : Name \union {"none"}, mail : Mail \union {"none"},
             post : {0} \union PostId, row : {NoPost} \union Post0, file : File \union {"none"}]

Tables ==
    /\ users \in Seq(User)
    /\ posts \in Seq(Post0) /\ Len(posts) <= MaxPosts
    /\ comments \subseteq PostId
    /\ files \in [File -> {0} \union PostId]
    /\ uploads \subseteq [post : PostId, file : File]
    /\ served \in [PostId -> 0..MaxViews]

Carried ==
    /\ cookie \in [Browser -> {Anonymous} \union [user : Nat \ {0}, role : Role]]
    /\ req \in [Tab -> Request0]
    /\ boot \in [name : AdminName, at : {"insert", "promote", "done"}] \union {NoBoot}

\* Owners, authors and deleters are accounts.
Authors ==
    \A p \in DOMAIN posts :
        /\ posts[p].owner \in DOMAIN users
        /\ posts[p].text \in DOMAIN users
        /\ posts[p].deletedBy \in {0} \union DOMAIN users

\* bootstrap_admin.py promotes an account it found.
PromoteTrue == boot.at = "promote" => \E i \in DOMAIN users : users[i].name = boot.name

Unborn == \A p \in PostId : p \notin DOMAIN posts => served[p] = 0

Inv ==
    /\ Tables /\ Carried
    /\ OneAccount /\ PromoteTrue /\ AdminEnsured
    /\ \A b \in Browser : SessionTrue(cookie[b])
    /\ \A t \in Tab : RequestTrue(req[t])
    /\ Authors /\ OwnText
    /\ Unborn /\ ViewsCounted /\ RowHasFile

----------------------------------------------------------------------------
\* The bound on views, for the statement that counts one.
LEMMA OneMore ==
    ASSUME NEW v \in 0..MaxViews, v < MaxViews
    PROVE  v + 1 \in 0..MaxViews
<1>1. MaxViews \in Nat
    BY BoardAssumption
<1>2. QED
    BY <1>1

USE AccountsAssumption, BoardAssumption

\* The tables are empty but for the administrator, and nobody is signed in.
LEMMA InvInit == Init => Inv
<1> SUFFICES ASSUME Init PROVE Inv
    OBVIOUS
<1> USE DEF Init, AccountsInit, BoardInit
<1>1. PICK n \in AdminName : users = <<[name |-> n, mail |-> BootMail[n], role |-> "admin"]>>
    OBVIOUS
<1>2. [name |-> n, mail |-> BootMail[n], role |-> "admin"] \in User
    BY DEF User, Role
<1>3. Tables
    BY <1>1, <1>2 DEF Tables, PostId
<1>4. Idle \in Request0 /\ RequestTrue(Idle)
    BY DEF Idle, Request0, NoPost, RequestTrue, SessionTrue
<1>5. Carried /\ \A t \in Tab : RequestTrue(req[t])
    BY <1>4 DEF Carried
<1>6. OneAccount
    BY <1>1 DEF OneAccount
<1>7. AdminEnsured /\ PromoteTrue
    BY DEF AdminEnsured, PromoteTrue, NoBoot
<1>8. QED
    BY <1>3, <1>5, <1>6, <1>7 DEF Inv, SessionTrue, Authors, OwnText, Unborn, ViewsCounted,
       RowHasFile

----------------------------------------------------------------------------
(* The tables only grow: rows keep their name, owner and file, and a role is *)
(* never taken back.                                                        *)

UsersGrow ==
    \A i \in DOMAIN users :
        /\ i \in DOMAIN users' /\ users'[i].name = users[i].name
        /\ users[i].role = "admin" => users'[i].role = "admin"

PostsGrow ==
    \A p \in DOMAIN posts : p \in DOMAIN posts' /\ posts'[p].owner = posts[p].owner

FilesKept == \A f \in File : files[f] # 0 => files'[f] = files[f]

\* Inserting keeps the keys, as the statement looks at them itself.
LEMMA InsertKeeps ==
    ASSUME users \in Seq(User), OneAccount,
           NEW n \in Name, NEW m \in Mail, NEW r \in Role, InsertUser(n, m, r)
    PROVE  users' \in Seq(User) /\ OneAccount' /\ UsersGrow
<1> DEFINE u == [name |-> n, mail |-> m, role |-> r]
<1>1. u \in User
    BY DEF User
<1>2. users' = Append(users, u)
    BY DEF InsertUser
<1>3. /\ users' \in Seq(User)
      /\ DOMAIN users' = 1..(Len(users) + 1) /\ DOMAIN users = 1..Len(users)
      /\ Len(users) \in Nat
      /\ \A i \in DOMAIN users : users'[i] = users[i]
      /\ users'[Len(users) + 1] = u
    BY <1>1, <1>2
<1>4. \A i \in DOMAIN users : users[i].name # n /\ users[i].mail # m
    BY DEF InsertUser, Taken
<1>5. OneAccount'
    <2> SUFFICES ASSUME NEW i \in DOMAIN users', NEW j \in DOMAIN users', i # j
                 PROVE  users'[i].name # users'[j].name /\ users'[i].mail # users'[j].mail
        BY DEF OneAccount
    <2>1. CASE i \in DOMAIN users /\ j \in DOMAIN users
        BY <2>1, <1>3 DEF OneAccount
    <2>2. CASE i = Len(users) + 1 /\ j \in DOMAIN users
        BY <2>2, <1>3, <1>4
    <2>3. CASE j = Len(users) + 1 /\ i \in DOMAIN users
        BY <2>3, <1>3, <1>4
    <2>4. QED
        BY <1>3, <2>1, <2>2, <2>3
<1>6. QED
    BY <1>3, <1>5 DEF UsersGrow

\* The script's UPDATE touches roles only, and raises them.
LEMMA PromoteKeeps ==
    ASSUME users \in Seq(User), OneAccount, BootPromote
    PROVE  users' \in Seq(User) /\ OneAccount' /\ UsersGrow
<1>1. /\ DOMAIN users' = DOMAIN users
      /\ \A i \in DOMAIN users :
            /\ users'[i] \in User
            /\ users'[i].name = users[i].name /\ users'[i].mail = users[i].mail
            /\ users[i].role = "admin" => users'[i].role = "admin"
    <2>1. DOMAIN users' = DOMAIN users
        BY DEF BootPromote
    <2>2. ASSUME NEW i \in DOMAIN users
          PROVE  /\ users'[i] \in User
                 /\ users'[i].name = users[i].name /\ users'[i].mail = users[i].mail
                 /\ users[i].role = "admin" => users'[i].role = "admin"
        <3>1. users[i] \in User
            OBVIOUS
        <3>2. users'[i] = users[i] \/ users'[i] = [users[i] EXCEPT !.role = "admin"]
            BY DEF BootPromote
        <3>3. QED
            BY <3>1, <3>2 DEF User, Role
    <2>3. QED
        BY <2>1, <2>2
<1>2. users' \in Seq(User)
    <2>1. DOMAIN users = 1..Len(users) /\ Len(users) \in Nat
        OBVIOUS
    <2>2. users' \in [1..Len(users) -> User]
        BY <1>1, <2>1 DEF BootPromote
    <2>3. QED
        BY <2>1, <2>2 
<1>3. QED
    BY <1>1, <1>2 DEF OneAccount, UsersGrow

\* No step of the system removes an account or takes a role away.
LEMMA UsersStep ==
    ASSUME Inv, [Next]_vars
    PROVE  users' \in Seq(User) /\ OneAccount' /\ UsersGrow
<1> USE DEF Inv, Tables
<1>1. CASE UNCHANGED users
    BY <1>1 DEF OneAccount, UsersGrow
<1>2. ASSUME NEW t \in Tab, RegisterInsert(t)
      PROVE  users' \in Seq(User) /\ OneAccount' /\ UsersGrow
    <2>1. req[t].name \in Name /\ req[t].mail \in Mail
        BY <1>2 DEF RegisterInsert, RequestTrue
    <2>2. QED
        BY <1>1, <1>2, <2>1, InsertKeeps DEF RegisterInsert, Role
<1>3. CASE BootInsert
    <2>1. boot.name \in Name /\ BootMail[boot.name] \in Mail
        BY <1>3 DEF BootInsert, Carried, NoBoot
    <2>2. QED
        BY <1>1, <1>3, <2>1, InsertKeeps DEF BootInsert, Role
<1>4. CASE BootPromote
    BY <1>4, PromoteKeeps
<1>5. QED
    <2>1. CASE AccountStep
        BY <2>1, <1>1, <1>2, <1>3, <1>4 DEF AccountStep, Register, Login, Logout, Browse,
           Answer, Die, Expire, BootLook, BootFails
    <2>2. CASE BoardStep
        BY <2>2, <1>1 DEF BoardStep, ViewPost, EditPost, DeletePost, ReadToChange,
           AddComment, CreatePost, SaveFile, InsertUpload, CountView, UpdatePost,
           MarkDeleted, InsertComment, StatementFails, Elsewhere
    <2>3. QED
        BY <2>1, <2>2, <1>1 DEF Next, vars, accountVars

----------------------------------------------------------------------------
\* A session stays true while accounts only grow.
LEMMA SessionKept ==
    ASSUME UsersGrow, NEW s, SessionTrue(s)
    PROVE  SessionTrue(s)'
BY DEF SessionTrue, UsersGrow

\* So does what a handler found, while the tables only grow.
LEMMA RequestKept ==
    ASSUME Tables, UsersGrow, PostsGrow, FilesKept, NEW r \in Request0, RequestTrue(r)
    PROVE  RequestTrue(r)'
<1>1. SessionTrue(r.sess)'
    BY SessionKept DEF RequestTrue
<1>2. r.at = "row" => files'[r.file] = r.post
    BY DEF RequestTrue, FilesKept, Tables
<1>3. QED
    BY <1>1, <1>2 DEF RequestTrue, PostsGrow, MayChange

\* Statements that write a post.
LEMMA WritePost ==
    ASSUME Inv, UsersGrow, NEW p \in DOMAIN posts, NEW q \in Post0,
           q.owner = posts[p].owner,
           posts' = [posts EXCEPT ![p] = q],
           \A id \in {q.text, q.deletedBy} \ {0} :
               /\ id \in DOMAIN users
               /\ id \in {q.owner, posts[p].text, posts[p].deletedBy} \/ users[id].role = "admin"
    PROVE  /\ posts' \in Seq(Post0) /\ Len(posts') <= MaxPosts
           /\ DOMAIN posts' = DOMAIN posts
           /\ PostsGrow /\ Authors' /\ OwnText'
<1> USE DEF Inv, Tables
<1>1. /\ DOMAIN posts' = DOMAIN posts /\ Len(posts') = Len(posts)
      /\ posts'[p] = q
      /\ \A i \in DOMAIN posts : i # p => posts'[i] = posts[i]
      /\ posts' \in Seq(Post0)
    OBVIOUS
<1>2. PostsGrow
    BY <1>1 DEF PostsGrow
<1>3. Authors'
    BY <1>1 DEF Authors, UsersGrow, Post0
<1>4. OwnText'
    <2> SUFFICES ASSUME NEW i \in DOMAIN posts,
                        NEW id \in {posts'[i].text, posts'[i].deletedBy} \ {0, posts'[i].owner}
                 PROVE  users'[id].role = "admin"
        BY <1>1 DEF OwnText
    <2>1. CASE i # p
        BY <2>1, <1>1 DEF OwnText, UsersGrow, Authors
    <2>2. CASE i = p
        BY <2>2, <1>1 DEF OwnText, UsersGrow, Authors
    <2>3. QED
        BY <2>1, <2>2
<1>5. QED
    BY <1>1, <1>2, <1>3, <1>4

\* The session of a handler that may change a post is of its owner or an
\* administrator.
LEMMA WriterMay ==
    ASSUME Inv, NEW t \in Tab, req[t].at \in {"update", "delete"}
    PROVE  /\ req[t].post \in DOMAIN posts
           /\ req[t].sess.user \in DOMAIN users /\ req[t].sess.user \in Nat \ {0}
           /\ \/ req[t].sess.user = posts[req[t].post].owner
              \/ users[req[t].sess.user].role = "admin"
<1>1. RequestTrue(req[t])
    BY DEF Inv
<1>2. SessionTrue(req[t].sess) /\ req[t].sess # Anonymous
    BY <1>1 DEF RequestTrue
<1>3. QED
    BY <1>1, <1>2 DEF RequestTrue, SessionTrue, MayChange

\* No step removes a post, changes its owner or lets a stranger write it.
LEMMA PostsStep ==
    ASSUME Inv, [Next]_vars, UsersGrow
    PROVE  /\ posts' \in Seq(Post0) /\ Len(posts') <= MaxPosts
           /\ PostsGrow /\ Authors' /\ OwnText'
<1> DEFINE Goal == /\ posts' \in Seq(Post0) /\ Len(posts') <= MaxPosts
                   /\ PostsGrow /\ Authors' /\ OwnText'
<1> USE DEF Inv, Tables
<1>0. \A p \in DOMAIN posts : posts[p] \in Post0
    OBVIOUS
<1>1. CASE UNCHANGED posts
    BY <1>1 DEF PostsGrow, Authors, OwnText, UsersGrow
<1>2. ASSUME NEW t \in Tab, CountView(t) PROVE Goal
    <2> DEFINE p == req[t].post
               q == [posts[p] EXCEPT !.views = posts[p].views + 1]
    <2>1. p \in DOMAIN posts
        BY <1>2 DEF CountView, RequestTrue
    <2>2. posts[p] \in Post0 /\ posts[p].views \in 0..MaxViews /\ posts[p].views < MaxViews
        BY <1>0, <1>2, <2>1 DEF CountView, Post0
    <2>3. posts[p].views + 1 \in 0..MaxViews
        BY <2>2, OneMore
    <2>4. q \in Post0 /\ q.owner = posts[p].owner /\ q.text = posts[p].text
          /\ q.deletedBy = posts[p].deletedBy
        BY <2>2, <2>3 DEF Post0
    <2>5. posts' = [posts EXCEPT ![p] = q]
        BY <1>2, <2>1 DEF CountView
    <2>6. \A id \in {q.text, q.deletedBy} \ {0} :
              id \in DOMAIN users /\ id \in {q.owner, posts[p].text, posts[p].deletedBy}
        BY <2>1, <2>4 DEF Authors
    <2> HIDE DEF p, q
    <2>7. QED
        BY <2>1, <2>4, <2>5, <2>6, WritePost
<1>3. ASSUME NEW t \in Tab, UpdatePost(t) PROVE Goal
    <2> DEFINE p == req[t].post
               q == [posts[p] EXCEPT !.text = req[t].sess.user]
    <2>1. /\ p \in DOMAIN posts
          /\ req[t].sess.user \in DOMAIN users /\ req[t].sess.user \in Nat \ {0}
          /\ req[t].sess.user = posts[p].owner \/ users[req[t].sess.user].role = "admin"
        BY <1>3, WriterMay DEF UpdatePost
    <2>2. q \in Post0 /\ q.owner = posts[p].owner /\ q.text = req[t].sess.user
          /\ q.deletedBy = posts[p].deletedBy
        BY <1>0, <2>1 DEF Post0
    <2>3. posts' = [posts EXCEPT ![p] = q]
        BY <1>3, <2>1 DEF UpdatePost
    <2>4. \A id \in {q.text, q.deletedBy} \ {0} :
              /\ id \in DOMAIN users
              /\ id \in {q.owner, posts[p].text, posts[p].deletedBy} \/ users[id].role = "admin"
        BY <2>1, <2>2 DEF Authors
    <2> HIDE DEF p, q
    <2>5. QED
        BY <2>1, <2>2, <2>3, <2>4, WritePost
<1>4. ASSUME NEW t \in Tab, MarkDeleted(t) PROVE Goal
    <2> DEFINE p == req[t].post
               q == [posts[p] EXCEPT !.deletedBy = req[t].sess.user]
    <2>1. /\ p \in DOMAIN posts
          /\ req[t].sess.user \in DOMAIN users /\ req[t].sess.user \in Nat \ {0}
          /\ req[t].sess.user = posts[p].owner \/ users[req[t].sess.user].role = "admin"
        BY <1>4, WriterMay DEF MarkDeleted
    <2>2. q \in Post0 /\ q.owner = posts[p].owner /\ q.text = posts[p].text
          /\ q.deletedBy = req[t].sess.user
        BY <1>0, <2>1 DEF Post0
    <2>3. posts' = [posts EXCEPT ![p] = q]
        BY <1>4, <2>1 DEF MarkDeleted
    <2>4. \A id \in {q.text, q.deletedBy} \ {0} :
              /\ id \in DOMAIN users
              /\ id \in {q.owner, posts[p].text, posts[p].deletedBy} \/ users[id].role = "admin"
        BY <2>1, <2>2 DEF Authors
    <2> HIDE DEF p, q
    <2>5. QED
        BY <2>1, <2>2, <2>3, <2>4, WritePost
<1>5. ASSUME NEW t \in Tab, CreatePost(t) PROVE Goal
    <2> DEFINE id == SessionOf(t).user
               q == [owner |-> id, text |-> id, deletedBy |-> 0, views |-> 0]
    <2>1. id \in DOMAIN users /\ id \in Nat \ {0}
        BY <1>5 DEF CreatePost, Signed, SessionOf, Tab, SessionTrue
    <2>2. q \in Post0
        BY <2>1 DEF Post0
    <2>3. posts' = Append(posts, q) /\ Len(posts) < MaxPosts
        BY <1>5 DEF CreatePost
    <2>4. /\ posts' \in Seq(Post0) /\ Len(posts') <= MaxPosts
          /\ DOMAIN posts' = DOMAIN posts \union {Len(posts) + 1}
          /\ posts'[Len(posts) + 1] = q
          /\ \A i \in DOMAIN posts : posts'[i] = posts[i]
        BY <2>2, <2>3
    <2>5. q.owner = id /\ q.text = id /\ q.deletedBy = 0
        OBVIOUS
    <2> HIDE DEF id, q
    <2>6. PostsGrow /\ Authors'
        BY <2>1, <2>4, <2>5 DEF PostsGrow, Authors, UsersGrow
    <2>7. OwnText'
        <3>1. ASSUME NEW i \in DOMAIN posts,
                     NEW k \in {posts[i].text, posts[i].deletedBy} \ {0, posts[i].owner}
              PROVE  users'[k].role = "admin"
            BY <3>1 DEF OwnText, UsersGrow, Authors
        <3>2. {q.text, q.deletedBy} \ {0, q.owner} = {}
            BY <2>5
        <3>3. ASSUME NEW i \in DOMAIN posts',
                     NEW k \in {posts'[i].text, posts'[i].deletedBy} \ {0, posts'[i].owner}
              PROVE  users'[k].role = "admin"
            <4>1. CASE i \in DOMAIN posts
                BY <2>4, <3>1, <3>3, <4>1
            <4>2. CASE i = Len(posts) + 1
                BY <2>4, <3>2, <3>3, <4>2
            <4>3. QED
                BY <2>4, <3>3, <4>1, <4>2
        <3>4. QED
            BY <3>3 DEF OwnText
    <2>8. QED
        BY <2>4, <2>6, <2>7
<1>6. QED
    <2>1. CASE AccountStep /\ UNCHANGED boardVars
        BY <2>1, <1>1 DEF boardVars
    <2>2. CASE BoardStep
        BY <2>2, <1>1, <1>2, <1>3, <1>4, <1>5 DEF BoardStep, ViewPost, EditPost,
           DeletePost, ReadToChange, AddComment, SaveFile, InsertUpload,
           InsertComment, StatementFails, boardVars
    <2>3. QED
        BY <2>1, <2>2, <1>1 DEF Next, vars, boardVars

\* Ids are places of the table.
LEMMA PostIds == ASSUME Tables PROVE DOMAIN posts \subseteq PostId
BY DEF Tables, PostId

----------------------------------------------------------------------------
\* A saved file stays where it is, and rows of uploads come after it.
LEMMA FilesStep ==
    ASSUME Inv, [Next]_vars
    PROVE  /\ comments' \subseteq PostId
           /\ files' \in [File -> {0} \union PostId]
           /\ uploads' \subseteq [post : PostId, file : File]
           /\ FilesKept /\ RowHasFile'
<1> DEFINE Goal == /\ comments' \subseteq PostId
                   /\ files' \in [File -> {0} \union PostId]
                   /\ uploads' \subseteq [post : PostId, file : File]
                   /\ FilesKept /\ RowHasFile'
<1>0. /\ comments \subseteq PostId
      /\ files \in [File -> {0} \union PostId]
      /\ uploads \subseteq [post : PostId, file : File]
      /\ RowHasFile /\ DOMAIN posts \subseteq PostId
      /\ \A t \in Tab : RequestTrue(req[t])
    BY PostIds DEF Inv, Tables
<1>1. CASE UNCHANGED <<comments, files, uploads>>
    BY <1>0, <1>1 DEF FilesKept, RowHasFile
<1>2. ASSUME NEW t \in Tab, SaveFile(t) PROVE Goal
    <2>1. CASE UNCHANGED files
        BY <2>1, <1>1, <1>2 DEF SaveFile
    <2>2. ASSUME NEW f \in File, files[f] = 0,
                 files' = [files EXCEPT ![f] = req[t].post]
          PROVE  Goal
        <3>1. req[t].post \in PostId
            BY <1>0, <1>2 DEF SaveFile, RequestTrue
        <3>2. \A u \in uploads : u.post # 0 /\ u.file # f
            BY <1>0, <2>2 DEF RowHasFile, PostId
        <3>3. FilesKept /\ RowHasFile'
            BY <1>0, <1>2, <2>2, <3>2 DEF SaveFile, FilesKept, RowHasFile
        <3>4. QED
            BY <1>0, <1>2, <2>2, <3>1, <3>3 DEF SaveFile
    <2>3. QED
        BY <1>2, <2>1, <2>2 DEF SaveFile
<1>3. ASSUME NEW t \in Tab, InsertUpload(t) PROVE Goal
    <2>1. /\ req[t].post \in PostId /\ req[t].file \in File
          /\ files[req[t].file] = req[t].post
        BY <1>0, <1>3 DEF InsertUpload, RequestTrue
    <2>2. QED
        BY <1>0, <1>3, <2>1 DEF InsertUpload, FilesKept, RowHasFile
<1>4. ASSUME NEW t \in Tab, InsertComment(t) PROVE Goal
    <2>1. req[t].post \in PostId
        BY <1>0, <1>4 DEF InsertComment, RequestTrue
    <2>2. QED
        BY <1>0, <1>4, <2>1 DEF InsertComment, FilesKept, RowHasFile
<1>5. QED
    <2>1. CASE AccountStep /\ UNCHANGED boardVars
        BY <2>1, <1>1 DEF boardVars
    <2>2. CASE BoardStep
        BY <2>2, <1>1, <1>2, <1>3, <1>4 DEF BoardStep, ViewPost, EditPost,
           DeletePost, ReadToChange, AddComment, CreatePost, CountView, UpdatePost,
           MarkDeleted, StatementFails, boardVars
    <2>3. QED
        BY <2>1, <2>2, <1>1 DEF Next, vars, boardVars

----------------------------------------------------------------------------
\* Only the view's own statement counts, in the post and in the history.
LEMMA ViewsStep ==
    ASSUME Inv, [Next]_vars
    PROVE  served' \in [PostId -> 0..MaxViews] /\ Unborn' /\ ViewsCounted'
<1> DEFINE Goal == served' \in [PostId -> 0..MaxViews] /\ Unborn' /\ ViewsCounted'
<1>0. /\ posts \in Seq(Post0) /\ served \in [PostId -> 0..MaxViews]
      /\ Unborn /\ ViewsCounted /\ DOMAIN posts \subseteq PostId
      /\ \A t \in Tab : RequestTrue(req[t])
    BY PostIds DEF Inv, Tables
<1>1. ASSUME UNCHANGED served, DOMAIN posts' = DOMAIN posts,
             \A p \in DOMAIN posts : posts'[p].views = posts[p].views
      PROVE  Goal
    BY <1>0, <1>1 DEF Unborn, ViewsCounted
<1>2. ASSUME NEW t \in Tab, CountView(t) PROVE Goal
    <2> DEFINE p == req[t].post
    <2>1. p \in DOMAIN posts /\ p \in PostId
        BY <1>0, <1>2 DEF CountView, RequestTrue
    <2>2. posts[p].views = served[p] /\ posts[p] \in Post0
        BY <1>0, <2>1 DEF ViewsCounted
    <2>3. /\ DOMAIN posts' = DOMAIN posts
          /\ \A i \in DOMAIN posts : i # p => posts'[i] = posts[i]
          /\ posts'[p].views = posts[p].views + 1
          /\ served' = [served EXCEPT ![p] = served[p] + 1]
        BY <1>0, <1>2, <2>1, <2>2 DEF CountView, Post0
    <2>4. served[p] + 1 \in 0..MaxViews
        BY <1>0, <1>2, <2>1, <2>2, OneMore DEF CountView
    <2> HIDE DEF p
    <2>5. QED
        BY <1>0, <2>1, <2>2, <2>3, <2>4 DEF Unborn, ViewsCounted
<1>3. ASSUME NEW t \in Tab, UpdatePost(t) PROVE Goal
    <2>1. req[t].post \in DOMAIN posts /\ \A p \in DOMAIN posts : posts[p] \in Post0
        BY <1>0, <1>3 DEF UpdatePost, RequestTrue
    <2>2. DOMAIN posts' = DOMAIN posts
          /\ \A p \in DOMAIN posts : posts'[p].views = posts[p].views
        BY <1>0, <1>3, <2>1 DEF UpdatePost, Post0
    <2>3. QED
        BY <1>1, <1>3, <2>2 DEF UpdatePost
<1>4. ASSUME NEW t \in Tab, MarkDeleted(t) PROVE Goal
    <2>1. req[t].post \in DOMAIN posts /\ \A p \in DOMAIN posts : posts[p] \in Post0
        BY <1>0, <1>4 DEF MarkDeleted, RequestTrue
    <2>2. DOMAIN posts' = DOMAIN posts
          /\ \A p \in DOMAIN posts : posts'[p].views = posts[p].views
        BY <1>0, <1>4, <2>1 DEF MarkDeleted, Post0
    <2>3. QED
        BY <1>1, <1>4, <2>2 DEF MarkDeleted
<1>5. ASSUME NEW t \in Tab, CreatePost(t) PROVE Goal
    <2> DEFINE p == Len(posts) + 1
    <2>1. Len(posts) \in Nat /\ DOMAIN posts = 1..Len(posts) /\ Len(posts) < MaxPosts
        BY <1>0, <1>5 DEF CreatePost
    <2>2. p \in PostId \ DOMAIN posts
        BY <2>1 DEF PostId
    <2>3. /\ DOMAIN posts' = DOMAIN posts \union {p}
          /\ posts'[p].views = 0
          /\ \A i \in DOMAIN posts : posts'[i] = posts[i]
        BY <1>0, <1>5, <2>1 DEF CreatePost
    <2> HIDE DEF p
    <2>4. QED
        BY <1>0, <1>5, <2>2, <2>3 DEF CreatePost, Unborn, ViewsCounted
<1>6. CASE UNCHANGED <<posts, served>>
    BY <1>1, <1>6
<1>7. QED
    <2>1. CASE AccountStep /\ UNCHANGED boardVars
        BY <2>1, <1>6 DEF boardVars
    <2>2. CASE BoardStep
        BY <2>2, <1>2, <1>3, <1>4, <1>5, <1>6 DEF BoardStep, ViewPost, EditPost,
           DeletePost, ReadToChange, AddComment, SaveFile, InsertUpload,
           InsertComment, StatementFails, boardVars
    <2>3. QED
        BY <2>1, <2>2, <1>6 DEF Next, vars, boardVars

----------------------------------------------------------------------------
(* The requests: each handler leaves one that is true, and the others stay. *)

\* A handler's step changes its own request; the others stay true.
LEMMA Handled ==
    ASSUME Tables, Carried, \A u \in Tab : RequestTrue(req[u]),
           UsersGrow, PostsGrow, FilesKept,
           NEW t \in Tab, NEW r \in Request0, RequestTrue(r)', Handle(t, r)
    PROVE  req' \in [Tab -> Request0] /\ \A u \in Tab : RequestTrue(req[u])'
<1>1. req \in [Tab -> Request0] /\ req' = [req EXCEPT ![t] = r]
    BY DEF Carried, Handle
<1>2. ASSUME NEW u \in Tab PROVE RequestTrue(req[u])'
    <2>1. CASE u = t
        <3>1. req'[u] = r
            BY <1>1, <2>1
        <3>2. QED
            BY <3>1 DEF RequestTrue, SessionTrue
    <2>2. CASE u # t
        <3> DEFINE q == req[u]
        <3>1. q \in Request0 /\ RequestTrue(q) /\ req'[u] = q
            BY <1>1, <2>2
        <3>2. PICK k : k = q
            OBVIOUS
        <3>3. k \in Request0 /\ RequestTrue(k) /\ req'[u] = k
            BY <3>1, <3>2
        <3>4. RequestTrue(k)'
            BY <3>3, RequestKept
        <3>5. QED
            BY <3>3, <3>4 DEF RequestTrue, SessionTrue
    <2>3. QED
        BY <2>1, <2>2
<1>3. QED
    BY <1>1, <1>2

\* A handler leaves a request that was true when it took the step.
LEMMA Goes ==
    ASSUME Inv, UsersGrow, PostsGrow, FilesKept,
           NEW t \in Tab, NEW r \in Request0, RequestTrue(r), Handle(t, r)
    PROVE  req' \in [Tab -> Request0] /\ \A u \in Tab : RequestTrue(req[u])'
<1>1. RequestTrue(r)'
    BY RequestKept DEF Inv
<1>2. QED
    BY <1>1, Handled DEF Inv

\* A request that enters a route carries the session of its browser.
LEMMA EnterFields ==
    ASSUME Inv, NEW t \in Tab,
           NEW at \in {"answer", "logout", "register", "count", "save", "update", "delete",
                       "comment"}
    PROVE  /\ Enter(t, at) \in Request0 /\ Enter(t, at).at = at
           /\ Enter(t, at).sess = SessionOf(t) /\ SessionTrue(SessionOf(t))
<1>1. SessionTrue(SessionOf(t))
    BY DEF Inv, SessionOf, Tab
<1>2. SessionOf(t) \in {Anonymous} \union [user : Nat \ {0}, role : Role]
    BY <1>1 DEF SessionTrue
<1>3. QED
    BY <1>1, <1>2 DEF Enter, Idle, Request0, NoPost

\* The request keeps its session until its answer.
LEMMA AnsweredGoes ==
    ASSUME Inv, UsersGrow, PostsGrow, FilesKept, NEW t \in Tab, Answered(t)
    PROVE  req' \in [Tab -> Request0] /\ \A u \in Tab : RequestTrue(req[u])'
<1>1. PICK s : s = req[t].sess
    OBVIOUS
<1>2. SessionTrue(s)
    BY <1>1 DEF Inv, RequestTrue
<1>3. PICK r : r = [Idle EXCEPT !.at = "answer", !.sess = s]
    OBVIOUS
<1>4. s \in {Anonymous} \union [user : Nat \ {0}, role : Role]
    BY <1>2 DEF SessionTrue
<1>5. r \in Request0 /\ r.at = "answer" /\ r.sess = s
    BY <1>3, <1>4 DEF Idle, Request0, NoPost
<1>6. RequestTrue(r)
    BY <1>2, <1>5 DEF RequestTrue
<1>7. Handle(t, r)
    BY <1>1, <1>3 DEF Answered
<1>8. QED
    BY <1>5, <1>6, <1>7, Goes

\* The answer was sent, or nobody waits for it.
LEMMA IdleGoes ==
    ASSUME Inv, UsersGrow, PostsGrow, FilesKept, NEW t \in Tab, Handle(t, Idle)
    PROVE  req' \in [Tab -> Request0] /\ \A u \in Tab : RequestTrue(req[u])'
<1>1. Idle \in Request0 /\ RequestTrue(Idle)
    BY DEF Idle, Request0, NoPost, RequestTrue, SessionTrue
<1>2. QED
    BY <1>1, Goes

\* The route has nothing to do but answer.
LEMMA EnterGoes ==
    ASSUME Inv, UsersGrow, PostsGrow, FilesKept, NEW t \in Tab, Handle(t, Enter(t, "answer"))
    PROVE  req' \in [Tab -> Request0] /\ \A u \in Tab : RequestTrue(req[u])'
<1>1. PICK r : r = Enter(t, "answer")
    OBVIOUS
<1>2. r \in Request0 /\ r.at = "answer" /\ SessionTrue(r.sess)
    BY <1>1, EnterFields
<1>3. RequestTrue(r)
    BY <1>2 DEF RequestTrue
<1>4. QED
    BY <1>1, <1>2, <1>3, Goes

\* Routes of accounts, and the steps of browser and script.
LEMMA AccountRequests ==
    ASSUME Inv, UsersGrow, PostsGrow, FilesKept, AccountStep, req \in [Tab -> Request0]
    PROVE  req' \in [Tab -> Request0] /\ \A u \in Tab : RequestTrue(req[u])'
<1> DEFINE Goal == req' \in [Tab -> Request0] /\ \A u \in Tab : RequestTrue(req[u])'
<1>1. ASSUME NEW t \in Tab, NEW n \in Name, NEW m \in Mail, Register(t, n, m) PROVE Goal
    <2>1. CASE Handle(t, Enter(t, "answer"))
        BY <2>1, EnterGoes
    <2>2. CASE Handle(t, [Enter(t, "register") EXCEPT !.name = n, !.mail = m])
        <3>1. PICK r : r = [Enter(t, "register") EXCEPT !.name = n, !.mail = m]
            OBVIOUS
        <3>2. PICK e : e = Enter(t, "register")
            OBVIOUS
        <3>3. e \in Request0 /\ e.at = "register" /\ SessionTrue(e.sess)
            BY <3>2, EnterFields
        <3>4. r = [e EXCEPT !.name = n, !.mail = m]
            BY <3>1, <3>2
        <3>5. /\ r \in Request0 /\ r.at = "register" /\ r.sess = e.sess
              /\ r.name = n /\ r.mail = m
            BY <3>3, <3>4 DEF Request0
        <3>6. RequestTrue(r)
            BY <3>3, <3>5 DEF RequestTrue
        <3>7. QED
            BY <2>2, <3>1, <3>5, <3>6, Goes
    <2>3. QED
        BY <1>1, <2>1, <2>2 DEF Register
<1>2. ASSUME NEW t \in Tab, RegisterInsert(t) PROVE Goal
    BY <1>2, AnsweredGoes DEF RegisterInsert, Answered
<1>3. ASSUME NEW t \in Tab, NEW id \in DOMAIN users, Login(t, id) PROVE Goal
    <2>1. PICK s : s = RotateSession(id)
        OBVIOUS
    <2>2. users[id] \in User /\ id \in Nat \ {0}
        BY DEF Inv, Tables
    <2>3. s \in [user : Nat \ {0}, role : Role] /\ SessionTrue(s)
        BY <2>1, <2>2 DEF RotateSession, SessionTrue, User
    <2>4. PICK e : e = Enter(t, "answer")
        OBVIOUS
    <2>5. PICK r : r = [e EXCEPT !.sess = s]
        OBVIOUS
    <2>6. e \in Request0 /\ e.at = "answer"
        BY <2>4, EnterFields
    <2>7. r \in Request0 /\ r.at = "answer" /\ r.sess = s
        BY <2>3, <2>5, <2>6 DEF Request0
    <2>8. RequestTrue(r)
        BY <2>3, <2>7 DEF RequestTrue
    <2>9. Handle(t, r)
        BY <1>3, <2>1, <2>4, <2>5 DEF Login
    <2>10. QED
        BY <2>7, <2>8, <2>9, Goes
<1>4. ASSUME NEW t \in Tab, Logout(t) PROVE Goal
    <2>1. PICK r : r = [Enter(t, "logout") EXCEPT !.sess = Anonymous]
        OBVIOUS
    <2>2. PICK e : e = Enter(t, "logout")
        OBVIOUS
    <2>3. e \in Request0 /\ e.at = "logout" /\ r = [e EXCEPT !.sess = Anonymous]
        BY <2>1, <2>2, EnterFields
    <2>4. r \in Request0 /\ r.at = "logout" /\ r.sess = Anonymous
        BY <2>3 DEF Request0
    <2>5. RequestTrue(r)
        BY <2>4 DEF RequestTrue, SessionTrue
    <2>6. QED
        BY <1>4, <2>1, <2>4, <2>5, Goes DEF Logout
<1>5. ASSUME NEW t \in Tab, Browse(t) PROVE Goal
    BY <1>5, EnterGoes DEF Browse
<1>6. ASSUME NEW t \in Tab, Answer(t) \/ Die(t) PROVE Goal
    BY <1>6, IdleGoes DEF Answer, Die
<1>7. CASE UNCHANGED req
    <2>1. ASSUME NEW u \in Tab PROVE RequestTrue(req[u])'
        <3>1. PICK k : k = req[u]
            OBVIOUS
        <3>2. k \in Request0 /\ RequestTrue(k) /\ req'[u] = k
            BY <1>7, <3>1 DEF Inv, Carried
        <3>3. RequestTrue(k)'
            BY <3>2, RequestKept DEF Inv
        <3>4. QED
            BY <3>2, <3>3 DEF RequestTrue, SessionTrue
    <2>2. QED
        BY <1>7, <2>1
<1>8. QED
    BY <1>1, <1>2, <1>3, <1>4, <1>5, <1>6, <1>7 DEF AccountStep, Expire, BootLook,
       BootInsert, BootPromote, BootFails

\* Routes of the board.
LEMMA BoardRequests ==
    ASSUME Inv, UsersGrow, PostsGrow, FilesKept, BoardStep
    PROVE  req' \in [Tab -> Request0] /\ \A u \in Tab : RequestTrue(req[u])'
<1> DEFINE Goal == req' \in [Tab -> Request0] /\ \A u \in Tab : RequestTrue(req[u])'
<1>0. /\ posts \in Seq(Post0) /\ \A p \in DOMAIN posts : posts[p] \in Post0
      /\ \A t \in Tab : req[t] \in Request0 /\ RequestTrue(req[t])
    BY DEF Inv, Tables, Carried
<1>1. ASSUME NEW t \in Tab, NEW p \in PostId,
             NEW at \in {"count", "update", "delete"}, p \in DOMAIN posts,
             at \in {"update", "delete"} =>
                 SessionOf(t) # Anonymous /\ MayChange(SessionOf(t), posts[p]),
             Handle(t, [Enter(t, at) EXCEPT !.post = p, !.row = posts[p]])
      PROVE  Goal
    <2>1. PICK e : e = Enter(t, at)
        OBVIOUS
    <2>2. PICK q : q = posts[p]
        OBVIOUS
    <2>3. PICK r : r = [e EXCEPT !.post = p, !.row = q]
        OBVIOUS
    <2>4. e \in Request0 /\ e.at = at /\ e.sess = SessionOf(t) /\ SessionTrue(e.sess)
        BY <2>1, EnterFields
    <2>5. q \in Post0
        BY <1>0, <1>1, <2>2
    <2>6. r \in Request0 /\ r.at = at /\ r.sess = e.sess /\ r.post = p
        BY <2>3, <2>4, <2>5 DEF Request0
    <2>7. RequestTrue(r)
        BY <1>1, <2>4, <2>6 DEF RequestTrue
    <2>8. Handle(t, r)
        BY <1>1, <2>1, <2>2, <2>3
    <2>9. QED
        BY <2>6, <2>7, <2>8, Goes
<1>2. ASSUME NEW t \in Tab, NEW p \in PostId, ViewPost(t, p) PROVE Goal
    BY <1>1, <1>2 DEF ViewPost, Live
<1>3. ASSUME NEW t \in Tab, NEW p \in PostId, NEW at \in {"update", "delete"},
             ReadToChange(t, p, at)
      PROVE  Goal
    <2>1. CASE MayChange(SessionOf(t), posts[p])
        BY <1>1, <1>3, <2>1 DEF ReadToChange, Live, Signed
    <2>2. CASE ~MayChange(SessionOf(t), posts[p])
        BY <1>3, <2>2, EnterGoes DEF ReadToChange
    <2>3. QED
        BY <2>1, <2>2
<1>4. ASSUME NEW t \in Tab, NEW p \in PostId, AddComment(t, p) PROVE Goal
    <2>1. PICK e : e = Enter(t, "comment")
        OBVIOUS
    <2>2. PICK r : r = [e EXCEPT !.post = p]
        OBVIOUS
    <2>3. e \in Request0 /\ e.at = "comment" /\ SessionTrue(e.sess)
        BY <2>1, EnterFields
    <2>4. p \in DOMAIN posts
        BY <1>4 DEF AddComment, Live
    <2>5. r \in Request0 /\ r.at = "comment" /\ r.sess = e.sess /\ r.post = p
        BY <2>2, <2>3, <2>4 DEF Request0
    <2>6. RequestTrue(r)
        BY <2>3, <2>4, <2>5 DEF RequestTrue
    <2>7. QED
        BY <1>4, <2>1, <2>2, <2>5, <2>6, Goes DEF AddComment
<1>5. ASSUME NEW t \in Tab, CreatePost(t) PROVE Goal
    <2>1. CASE Handle(t, Enter(t, "answer"))
        BY <2>1, EnterGoes
    <2>2. CASE Handle(t, [Enter(t, "save") EXCEPT !.post = Len(posts')])
        <3>1. PICK e : e = Enter(t, "save")
            OBVIOUS
        <3>2. PICK p : p = Len(posts')
            OBVIOUS
        <3>3. PICK r : r = [e EXCEPT !.post = p]
            OBVIOUS
        <3>4. e \in Request0 /\ e.at = "save" /\ SessionTrue(e.sess)
            BY <3>1, EnterFields
        <3>5. /\ p = Len(posts) + 1 /\ DOMAIN posts' = 1..(Len(posts) + 1)
              /\ Len(posts) \in Nat /\ Len(posts) < MaxPosts
            BY <1>0, <1>5, <3>2 DEF CreatePost
        <3>6. p \in PostId /\ p \in DOMAIN posts'
            BY <3>5 DEF PostId
        <3>7. /\ r \in Request0 /\ r.at = "save" /\ r.sess = e.sess /\ r.post = p
            BY <3>3, <3>4, <3>6 DEF Request0
        <3>8. PICK s : s = e.sess
            OBVIOUS
        <3>9. SessionTrue(s)'
            BY <3>4, <3>8, SessionKept
        <3>10. RequestTrue(r)'
            BY <3>6, <3>7, <3>8, <3>9 DEF RequestTrue, SessionTrue
        <3>11. Handle(t, r)
            BY <2>2, <3>1, <3>2, <3>3
        <3>12. QED
            BY <3>7, <3>10, <3>11, Handled DEF Inv
    <2>3. QED
        BY <1>5, <2>1, <2>2 DEF CreatePost
<1>6. ASSUME NEW t \in Tab, SaveFile(t) PROVE Goal
    <2>1. CASE Answered(t)
        BY <2>1, AnsweredGoes
    <2>2. ASSUME NEW f \in File, files[f] = 0,
                 files' = [files EXCEPT ![f] = req[t].post],
                 Handle(t, [req[t] EXCEPT !.at = "row", !.file = f])
          PROVE  Goal
        <3>1. PICK e : e = req[t]
            OBVIOUS
        <3>2. e \in Request0 /\ RequestTrue(e) /\ e.at = "save"
            BY <1>0, <1>6, <3>1 DEF SaveFile
        <3>3. PICK r : r = [e EXCEPT !.at = "row", !.file = f]
            OBVIOUS
        <3>4. /\ r \in Request0 /\ r.at = "row" /\ r.sess = e.sess /\ r.post = e.post
              /\ r.file = f
            BY <3>2, <3>3 DEF Request0
        <3>5. files'[f] = e.post
            BY <2>2, <3>1 DEF Inv, Tables
        <3>6. PICK s : s = e.sess
            OBVIOUS
        <3>7. SessionTrue(s)'
            BY <3>2, <3>6, SessionKept DEF RequestTrue
        <3>8. e.post \in DOMAIN posts'
            BY <3>2 DEF RequestTrue, PostsGrow
        <3>9. RequestTrue(r)'
            BY <3>4, <3>5, <3>6, <3>7, <3>8 DEF RequestTrue, SessionTrue
        <3>10. Handle(t, r)
            BY <2>2, <3>1, <3>3
        <3>11. QED
            BY <3>4, <3>9, <3>10, Handled DEF Inv
    <2>3. QED
        BY <1>6, <2>1, <2>2 DEF SaveFile
<1>7. ASSUME NEW t \in Tab, Answered(t) PROVE Goal
    BY <1>7, AnsweredGoes
<1>8. QED
    BY <1>2, <1>3, <1>4, <1>5, <1>6, <1>7 DEF BoardStep, EditPost, DeletePost,
       InsertUpload, CountView, UpdatePost, MarkDeleted, InsertComment, StatementFails

\* Every request under way stays true.
LEMMA RequestsStep ==
    ASSUME Inv, [Next]_vars, UsersGrow, PostsGrow, FilesKept
    PROVE  req' \in [Tab -> Request0] /\ \A u \in Tab : RequestTrue(req[u])'
<1>1. req \in [Tab -> Request0]
    BY DEF Inv, Carried
<1>2. CASE UNCHANGED vars
    BY <1>1, <1>2 DEF Inv, vars, accountVars, boardVars, RequestTrue, SessionTrue
<1>3. CASE Next
    BY <1>1, <1>3, AccountRequests, BoardRequests DEF Next
<1>4. QED
    BY <1>2, <1>3

\* Cookies come from answers, and the script takes a name of its list.
LEMMA CookiesStep ==
    ASSUME Inv, [Next]_vars, UsersGrow
    PROVE  /\ cookie' \in [Browser -> {Anonymous} \union [user : Nat \ {0}, role : Role]]
           /\ \A b \in Browser : SessionTrue(cookie[b])'
           /\ boot' \in [name : AdminName, at : {"insert", "promote", "done"}] \union {NoBoot}
<1> DEFINE Held == {Anonymous} \union [user : Nat \ {0}, role : Role]
<1>0. /\ cookie \in [Browser -> Held]
      /\ boot \in [name : AdminName, at : {"insert", "promote", "done"}] \union {NoBoot}
      /\ \A b \in Browser : SessionTrue(cookie[b])
      /\ \A t \in Tab : SessionTrue(req[t].sess) /\ req[t].sess \in Held
    BY DEF Inv, Carried, RequestTrue, Request0
<1>1. ASSUME NEW b \in Browser, NEW s \in Held, SessionTrue(s),
             cookie'[b] = s
      PROVE  SessionTrue(cookie[b])'
    <2>1. SessionTrue(s)'
        BY <1>1, SessionKept
    <2>2. QED
        BY <1>1, <2>1 DEF SessionTrue
<1>2. ASSUME cookie' \in [Browser -> Held],
             \A b \in Browser : \E s \in Held : SessionTrue(s) /\ cookie'[b] = s
      PROVE  \A b \in Browser : SessionTrue(cookie[b])'
    BY <1>1, <1>2
<1>3. /\ cookie' \in [Browser -> Held]
      /\ \A b \in Browser : \E s \in Held : SessionTrue(s) /\ cookie'[b] = s
    <2>1. CASE UNCHANGED cookie
        BY <1>0, <2>1
    <2>2. ASSUME NEW t \in Tab, cookie' = [cookie EXCEPT ![t[1]] = req[t].sess]
          PROVE  /\ cookie' \in [Browser -> Held]
                 /\ \A b \in Browser : \E s \in Held : SessionTrue(s) /\ cookie'[b] = s
        BY <1>0, <2>2 DEF Tab
    <2>3. ASSUME NEW c \in Browser, Expire(c)
          PROVE  /\ cookie' \in [Browser -> Held]
                 /\ \A b \in Browser : \E s \in Held : SessionTrue(s) /\ cookie'[b] = s
        BY <1>0, <2>3 DEF Expire, SessionTrue
    <2>4. CASE AccountStep
        BY <2>1, <2>2, <2>3, <2>4 DEF AccountStep, Register, RegisterInsert, Login, Logout,
           Browse, Answer, Die, BootLook, BootInsert, BootPromote,
           BootFails
    <2>5. CASE BoardStep
        BY <2>5, <2>1 DEF BoardStep, ViewPost, EditPost, DeletePost, ReadToChange,
           AddComment, CreatePost, SaveFile, InsertUpload, CountView, UpdatePost,
           MarkDeleted, InsertComment, StatementFails, Elsewhere
    <2>6. QED
        BY <2>1, <2>4, <2>5 DEF Next, vars, accountVars
<1>4. boot' \in [name : AdminName, at : {"insert", "promote", "done"}] \union {NoBoot}
    <2>1. CASE UNCHANGED boot
        BY <1>0, <2>1
    <2>2. ASSUME NEW n \in AdminName, BootLook(n)
          PROVE  boot' \in [name : AdminName, at : {"insert", "promote", "done"}] \union {NoBoot}
        BY <2>2 DEF BootLook, BootTurns
    <2>3. CASE BootInsert \/ BootPromote \/ BootFails
        <3>1. boot.at \in {"insert", "promote"} /\ boot # NoBoot
            BY <2>3 DEF BootInsert, BootPromote, BootFails, NoBoot
        <3>2. boot.name \in AdminName
            BY <1>0, <3>1
        <3>3. boot' = NoBoot \/ boot' = [name |-> boot.name, at |-> "done"]
            BY <2>3 DEF BootInsert, BootPromote, BootFails, BootTurns, BootStops
        <3>4. QED
            BY <3>2, <3>3
    <2>4. CASE AccountStep
        BY <2>1, <2>2, <2>3, <2>4 DEF AccountStep, Register, RegisterInsert, Login, Logout,
           Browse, Answer, Die, Expire
    <2>5. CASE BoardStep
        BY <2>5, <2>1 DEF BoardStep, ViewPost, EditPost, DeletePost, ReadToChange,
           AddComment, CreatePost, SaveFile, InsertUpload, CountView, UpdatePost,
           MarkDeleted, InsertComment, StatementFails, Elsewhere
    <2>6. QED
        BY <2>1, <2>4, <2>5 DEF Next, vars, accountVars
<1>5. QED
    BY <1>2, <1>3, <1>4

\* The script ends with success where its name has, at that moment, an
\* administrator, and no account is removed, renamed or demoted later.
LEMMA AdminStep ==
    ASSUME Inv, [Next]_vars, UsersGrow
    PROVE  AdminEnsured'
<1> DEFINE There(n) == \E i \in DOMAIN users' : users'[i].name = n /\ users'[i].role = "admin"
<1>0. users \in Seq(User) /\ DOMAIN users = 1..Len(users) /\ Len(users) \in Nat
    BY DEF Inv, Tables
<1>1. CASE UNCHANGED boot
    BY <1>1 DEF Inv, AdminEnsured, UsersGrow
<1>2. ASSUME NEW n \in AdminName, BootLook(n) PROVE AdminEnsured'
    <2>1. CASE boot' = [name |-> n, at |-> "done"] /\ There(n)
        BY <2>1 DEF AdminEnsured
    <2>2. CASE boot'.at # "done"
        BY <2>2 DEF AdminEnsured
    <2>3. QED
        BY <1>2, <2>1, <2>2 DEF BootLook, BootTurns
<1>3. CASE BootInsert
    <2>1. CASE boot' = NoBoot
        BY <2>1 DEF AdminEnsured, NoBoot
    <2>2. CASE InsertUser(boot.name, BootMail[boot.name], "admin")
               /\ BootTurns(boot.name, "done")
        <3>1. users' = Append(users, [name |-> boot.name, mail |-> BootMail[boot.name],
                                      role |-> "admin"])
            BY <2>2 DEF InsertUser
        <3>2. Len(users) + 1 \in DOMAIN users'
              /\ users'[Len(users) + 1] = [name |-> boot.name, mail |-> BootMail[boot.name],
                                           role |-> "admin"]
            BY <1>0, <3>1
        <3>3. There(boot.name)
            BY <3>2
        <3>4. boot' = [name |-> boot.name, at |-> "done"]
            BY <2>2 DEF BootTurns
        <3>5. QED
            BY <3>3, <3>4 DEF AdminEnsured
    <2>3. QED
        BY <1>3, <2>1, <2>2 DEF BootInsert, BootStops
<1>4. CASE BootPromote
    <2>1. boot' = [name |-> boot.name, at |-> "done"]
        BY <1>4 DEF BootPromote, BootTurns
    <2>2. PICK i \in DOMAIN users : users[i].name = boot.name
        BY <1>4 DEF Inv, PromoteTrue, BootPromote
    <2>3. users'[i] = [users[i] EXCEPT !.role = "admin"] /\ i \in DOMAIN users'
        BY <1>4, <2>2 DEF BootPromote
    <2>4. users[i] \in User
        BY <1>0, <2>2
    <2>5. users'[i].name = boot.name /\ users'[i].role = "admin"
        BY <2>2, <2>3, <2>4 DEF User
    <2>6. There(boot.name)
        BY <2>3, <2>5
    <2>7. QED
        BY <2>1, <2>6 DEF AdminEnsured
<1>5. CASE BootFails
    BY <1>5 DEF BootFails, BootStops, AdminEnsured, NoBoot
<1>6. QED
    <2>1. CASE AccountStep
        BY <2>1, <1>1, <1>2, <1>3, <1>4, <1>5 DEF AccountStep, Register, RegisterInsert,
           Login, Logout, Browse, Answer, Die, Expire
    <2>2. CASE BoardStep
        BY <2>2, <1>1 DEF BoardStep, ViewPost, EditPost, DeletePost, ReadToChange,
           AddComment, CreatePost, SaveFile, InsertUpload, CountView, UpdatePost,
           MarkDeleted, InsertComment, StatementFails, Elsewhere
    <2>3. QED
        BY <2>1, <2>2, <1>1 DEF Next, vars, accountVars

\* What the script read is still there for its UPDATE.
LEMMA PromoteStep ==
    ASSUME Inv, [Next]_vars, UsersGrow
    PROVE  PromoteTrue'
<1>1. CASE UNCHANGED boot
    BY <1>1 DEF Inv, PromoteTrue, UsersGrow
<1>2. ASSUME NEW n \in AdminName, BootLook(n) PROVE PromoteTrue'
    BY <1>2 DEF BootLook, BootTurns, PromoteTrue
<1>3. CASE BootInsert \/ BootPromote \/ BootFails
    BY <1>3 DEF BootInsert, BootPromote, BootFails, BootTurns, BootStops, PromoteTrue, NoBoot
<1>4. QED
    <2>1. CASE AccountStep
        BY <2>1, <1>1, <1>2, <1>3 DEF AccountStep, Register, RegisterInsert,
           Login, Logout, Browse, Answer, Die, Expire
    <2>2. CASE BoardStep
        BY <2>2, <1>1 DEF BoardStep, ViewPost, EditPost, DeletePost, ReadToChange,
           AddComment, CreatePost, SaveFile, InsertUpload, CountView, UpdatePost,
           MarkDeleted, InsertComment, StatementFails, Elsewhere
    <2>3. QED
        BY <2>1, <2>2, <1>1 DEF Next, vars, accountVars

\* The invariant is inductive.
LEMMA InvStep == Inv /\ [Next]_vars => Inv'
<1> SUFFICES ASSUME Inv, [Next]_vars PROVE Inv'
    OBVIOUS
<1>1. users' \in Seq(User) /\ OneAccount' /\ UsersGrow
    BY UsersStep
<1>2. /\ posts' \in Seq(Post0) /\ Len(posts') <= MaxPosts
      /\ PostsGrow /\ Authors' /\ OwnText'
    BY <1>1, PostsStep
<1>3. /\ comments' \subseteq PostId
      /\ files' \in [File -> {0} \union PostId]
      /\ uploads' \subseteq [post : PostId, file : File]
      /\ FilesKept /\ RowHasFile'
    BY FilesStep
<1>4. served' \in [PostId -> 0..MaxViews] /\ Unborn' /\ ViewsCounted'
    BY ViewsStep
<1>5. Tables'
    BY <1>1, <1>2, <1>3, <1>4 DEF Tables, PostId
<1>6. req' \in [Tab -> Request0] /\ \A u \in Tab : RequestTrue(req[u])'
    BY <1>1, <1>2, <1>3, RequestsStep
<1>7. /\ cookie' \in [Browser -> {Anonymous} \union [user : Nat \ {0}, role : Role]]
      /\ \A b \in Browser : SessionTrue(cookie[b])'
      /\ boot' \in [name : AdminName, at : {"insert", "promote", "done"}] \union {NoBoot}
    BY <1>1, CookiesStep
<1>8. Carried'
    BY <1>6, <1>7 DEF Carried
<1>9. (\A b \in Browser : SessionTrue(cookie[b]))' /\ (\A t \in Tab : RequestTrue(req[t]))'
    BY <1>6, <1>7
<1>10. AdminEnsured' /\ PromoteTrue'
    BY <1>1, AdminStep, PromoteStep
<1>11. QED
    BY <1>1, <1>2, <1>3, <1>4, <1>5, <1>8, <1>9, <1>10 DEF Inv

\* Hence it holds throughout.
LEMMA InvHolds == Spec => []Inv
BY InvInit, InvStep, PTL DEF Spec

----------------------------------------------------------------------------
(* Theorems.                                                               *)

\* A deployment goes on only with an administrator of ADMIN_USERNAME in the
\* table, whoever registers that name or its address while bootstrap_admin.py
\* runs: the script's exit status is told by the table, at any later time too.
THEOREM AdminThere == Spec => []AdminEnsured
<1>1. Inv => AdminEnsured
    BY DEF Inv
<1>2. QED
    BY <1>1, InvHolds, PTL

\* Every session held or under way names an account, and no role it lacks.
THEOREM RolesTrue == Spec => []RoleCurrent
<1>1. Inv => RoleCurrent
    <2> SUFFICES ASSUME Inv, NEW s \in Sessions, s # Anonymous
                 PROVE  /\ s.user \in DOMAIN users
                        /\ s.role = "admin" => users[s.user].role = "admin"
        BY DEF RoleCurrent
    <2>1. SessionTrue(s)
        BY DEF Inv, Sessions, RequestTrue
    <2>2. QED
        BY <2>1 DEF SessionTrue
<1>2. QED
    BY <1>1, InvHolds, PTL

\* The check of edit_post and delete_post holds when their statement runs.
THEOREM TextsOwned == Spec => []OwnText
<1>1. Inv => OwnText
    BY DEF Inv
<1>2. QED
    BY <1>1, InvHolds, PTL

\* Overlapping requests count each view once.
THEOREM ViewsKept == Spec => []ViewsCounted
<1>1. Inv => ViewsCounted
    BY DEF Inv
<1>2. QED
    BY <1>1, InvHolds, PTL

\* A row of uploads is preceded by its file, at whichever step requests stop.
THEOREM AttachmentsThere == Spec => []RowHasFile
<1>1. Inv => RowHasFile
    BY DEF Inv
<1>2. QED
    BY <1>1, InvHolds, PTL

\* Of the statements that write a post only the deletion sets deletedBy.
LEMMA DeletionStep ==
    ASSUME Inv, [Next]_vars, NEW p \in DOMAIN posts, posts[p].deletedBy # 0
    PROVE  posts'[p].deletedBy # 0
<1>0. posts \in Seq(Post0) /\ \A i \in DOMAIN posts : posts[i] \in Post0
    BY DEF Inv, Tables
<1>1. CASE UNCHANGED posts
    BY <1>1
<1>2. ASSUME NEW t \in Tab, CountView(t) \/ UpdatePost(t) PROVE posts'[p].deletedBy # 0
    <2>1. posts[p] \in Post0
        BY <1>0
    <2>2. posts'[p].deletedBy = posts[p].deletedBy
        <3>1. CASE CountView(t)
            BY <1>0, <2>1, <3>1 DEF CountView, Post0
        <3>2. CASE UpdatePost(t)
            BY <1>0, <2>1, <3>2 DEF UpdatePost, Post0
        <3>3. QED
            BY <1>2, <3>1, <3>2
    <2>3. QED
        BY <2>2
<1>3. ASSUME NEW t \in Tab, MarkDeleted(t) PROVE posts'[p].deletedBy # 0
    <2>1. req[t].post \in DOMAIN posts /\ req[t].sess.user \in Nat \ {0}
        BY <1>3, WriterMay DEF MarkDeleted
    <2>2. QED
        BY <1>0, <1>3, <2>1 DEF MarkDeleted, Post0
<1>4. ASSUME NEW t \in Tab, CreatePost(t) PROVE posts'[p].deletedBy # 0
    <2>1. posts'[p] = posts[p]
        BY <1>0, <1>4 DEF CreatePost
    <2>2. QED
        BY <2>1
<1>5. QED
    <2>1. CASE AccountStep /\ UNCHANGED boardVars
        BY <2>1, <1>1 DEF boardVars
    <2>2. CASE BoardStep
        BY <2>2, <1>1, <1>2, <1>3, <1>4 DEF BoardStep, ViewPost, EditPost,
           DeletePost, ReadToChange, AddComment, SaveFile, InsertUpload,
           InsertComment, StatementFails, boardVars
    <2>3. QED
        BY <2>1, <2>2, <1>1 DEF Next, vars, boardVars

\* An edit or a view that read the post before its deletion does not undo it.
THEOREM DeletionFinal == Spec => DeletedStays
<1>1. Inv /\ [Next]_vars =>
        [\A p \in DOMAIN posts : posts[p].deletedBy # 0 => posts'[p].deletedBy # 0]_vars
    BY DeletionStep
<1>2. QED
    BY <1>1, InvHolds, PTL DEF Spec, DeletedStays

----------------------------------------------------------------------------
(* The types need the ids in the rows that handlers carry.                  *)

RowRead(w) ==
    \/ w = NoPost
    \/ /\ w \in Post0
       /\ w.owner \in DOMAIN users /\ w.text \in DOMAIN users
       /\ w.deletedBy \in {0} \union DOMAIN users

RowsRead == \A t \in Tab : RowRead(req[t].row)

\* A step leaves the row a handler has, drops it, or reads one of the table.
LEMMA RowFrom ==
    ASSUME Inv, [Next]_vars, NEW u \in Tab
    PROVE  req'[u].row \in {req[u].row, NoPost} \union {posts[p] : p \in DOMAIN posts}
<1> DEFINE Goal == req'[u].row \in {req[u].row, NoPost} \union {posts[p] : p \in DOMAIN posts}
<1>0. req \in [Tab -> Request0] /\ Idle.row = NoPost
    BY DEF Inv, Carried, Idle
<1>1. ASSUME NEW t \in Tab, NEW r, Handle(t, r),
             r.row \in {req[t].row, NoPost} \union {posts[p] : p \in DOMAIN posts}
      PROVE  Goal
    BY <1>0, <1>1 DEF Handle
<1>2. CASE UNCHANGED req
    BY <1>2
<1>3. ASSUME NEW t \in Tab, NEW at PROVE Enter(t, at).row = NoPost
    BY DEF Enter, Idle
<1>4. ASSUME NEW t \in Tab, Answered(t) PROVE Goal
    <2>1. [Idle EXCEPT !.at = "answer", !.sess = req[t].sess].row = NoPost
        BY DEF Idle
    <2>2. QED
        BY <1>1, <1>4, <2>1 DEF Answered
<1>5. CASE AccountStep
    <2>1. ASSUME NEW t \in Tab, NEW n \in Name, NEW m \in Mail, Register(t, n, m) PROVE Goal
        <3>1. [Enter(t, "register") EXCEPT !.name = n, !.mail = m].row = NoPost
            BY DEF Enter, Idle
        <3>2. QED
            BY <1>1, <1>3, <2>1, <3>1 DEF Register
    <2>2. ASSUME NEW t \in Tab, NEW id \in DOMAIN users, Login(t, id) PROVE Goal
        <3>1. [Enter(t, "answer") EXCEPT !.sess = RotateSession(id)].row = NoPost
            BY DEF Enter, Idle
        <3>2. QED
            BY <1>1, <2>2, <3>1 DEF Login
    <2>3. ASSUME NEW t \in Tab, Logout(t) PROVE Goal
        <3>1. [Enter(t, "logout") EXCEPT !.sess = Anonymous].row = NoPost
            BY DEF Enter, Idle
        <3>2. QED
            BY <1>1, <2>3, <3>1 DEF Logout
    <2>4. ASSUME NEW t \in Tab, Browse(t) \/ Answer(t) \/ Die(t) PROVE Goal
        BY <1>0, <1>1, <1>3, <2>4 DEF Browse, Answer, Die
    <2>5. ASSUME NEW t \in Tab, RegisterInsert(t) PROVE Goal
        BY <1>4, <2>5 DEF RegisterInsert, Answered
    <2>6. QED
        BY <1>2, <1>5, <2>1, <2>2, <2>3, <2>4, <2>5 DEF AccountStep, Expire, BootLook,
           BootInsert, BootPromote, BootFails
<1>6. CASE BoardStep
    <2>1. ASSUME NEW t \in Tab, NEW at, NEW p \in DOMAIN posts,
                 Handle(t, [Enter(t, at) EXCEPT !.post = p, !.row = posts[p]])
          PROVE  Goal
        <3>1. [Enter(t, at) EXCEPT !.post = p, !.row = posts[p]].row = posts[p]
            BY DEF Enter, Idle
        <3>2. QED
            BY <1>1, <2>1, <3>1
    <2>2. ASSUME NEW t \in Tab, NEW p \in PostId, ViewPost(t, p) PROVE Goal
        BY <2>1, <2>2 DEF ViewPost, Live
    <2>3. ASSUME NEW t \in Tab, NEW p \in PostId, NEW at, ReadToChange(t, p, at) PROVE Goal
        BY <1>1, <1>3, <2>1, <2>3 DEF ReadToChange, Live
    <2>4. ASSUME NEW t \in Tab, NEW p, NEW at, Handle(t, [Enter(t, at) EXCEPT !.post = p])
          PROVE  Goal
        <3>1. [Enter(t, at) EXCEPT !.post = p].row = NoPost
            BY DEF Enter, Idle
        <3>2. QED
            BY <1>1, <2>4, <3>1
    <2>5. ASSUME NEW t \in Tab, NEW p \in PostId, AddComment(t, p) PROVE Goal
        BY <2>4, <2>5 DEF AddComment
    <2>6. ASSUME NEW t \in Tab, CreatePost(t) PROVE Goal
        BY <1>1, <1>3, <2>4, <2>6 DEF CreatePost
    <2>7. ASSUME NEW t \in Tab, SaveFile(t) PROVE Goal
        <3>1. ASSUME NEW f \in File, Handle(t, [req[t] EXCEPT !.at = "row", !.file = f])
              PROVE  Goal
            <4>1. [req[t] EXCEPT !.at = "row", !.file = f].row = req[t].row
                BY <1>0 DEF Request0
            <4>2. QED
                BY <1>1, <3>1, <4>1
        <3>2. QED
            BY <1>4, <2>7, <3>1 DEF SaveFile
    <2>8. QED
        BY <1>4, <1>6, <2>2, <2>3, <2>5, <2>6, <2>7 DEF BoardStep, EditPost, DeletePost,
           InsertUpload, CountView, UpdatePost, MarkDeleted, InsertComment, StatementFails
<1>7. QED
    BY <1>2, <1>5, <1>6 DEF Next, vars, accountVars

\* The ids in a row that was read stay those of accounts.
LEMMA RowsStep == Inv /\ RowsRead /\ [Next]_vars => RowsRead'
<1> SUFFICES ASSUME Inv, RowsRead, [Next]_vars, NEW u \in Tab PROVE RowRead(req[u].row)'
    BY DEF RowsRead
<1>1. UsersGrow
    BY UsersStep
<1>2. PICK w : w = req'[u].row
    OBVIOUS
<1>3. RowRead(w)
    <2>1. \A p \in DOMAIN posts : posts[p] \in Post0 /\ RowRead(posts[p])
        BY DEF Inv, Tables, Authors, RowRead
    <2>2. QED
        BY <1>2, <2>1, RowFrom DEF RowsRead, RowRead
<1>4. RowRead(w)'
    BY <1>1, <1>3 DEF RowRead, UsersGrow
<1>5. QED
    BY <1>2, <1>4 DEF RowRead

\* Names are unique, so there are no more accounts than names.
LEMMA IdsBounded ==
    ASSUME users \in Seq(User), OneAccount
    PROVE  Len(users) <= Cardinality(Name) /\ DOMAIN users \subseteq UserId
<1> DEFINE f == [i \in DOMAIN users |-> users[i].name]
<1>1. Len(users) \in Nat /\ DOMAIN users = 1..Len(users)
    OBVIOUS
<1>2. f \in [DOMAIN users -> Name]
    <2>1. \A i \in DOMAIN users : users[i] \in User
        OBVIOUS
    <2>2. \A i \in DOMAIN users : users[i].name \in Name
        BY <2>1 DEF User
    <2>3. QED
        BY <2>2
<1>3. \A i, j \in DOMAIN users : f[i] = f[j] => i = j
    BY DEF OneAccount
<1> HIDE DEF f
<1>4. f \in Injection(DOMAIN users, Name)
    BY <1>2, <1>3 DEF Injection, IsInjective
<1>5. Cardinality(DOMAIN users) <= Cardinality(Name)
    BY <1>4, FS_Injection
<1>6. Cardinality(DOMAIN users) = Len(users)
    <2> DEFINE n == Len(users)
    <2>1. 1 \in Int /\ n \in Int /\ n \in Nat
        BY <1>1
    <2> HIDE DEF n
    <2>2. Cardinality(1..n) = IF 1 > n THEN 0 ELSE n - 1 + 1
        BY <2>1, FS_Interval
    <2>3. Cardinality(1..n) = n
        BY <2>1, <2>2
    <2>4. QED
        BY <1>1, <2>3 DEF n
<1>7. Cardinality(Name) \in Nat
    BY FS_CardinalityType
<1>8. QED
    BY <1>1, <1>5, <1>6, <1>7 DEF UserId

\* Types, the bounds on the ids included: the table cannot outgrow its names.
THEOREM TypesHold == Spec => []TypeOK
<1>1. Init => RowsRead
    BY DEF Init, AccountsInit, RowsRead, RowRead, Idle
<1>2. Inv /\ RowsRead => TypeOK
    <2> SUFFICES ASSUME Inv, RowsRead PROVE TypeOK
        OBVIOUS
    <2>1. Tables /\ Carried /\ OneAccount
        BY DEF Inv
    <2>2. Len(users) <= Cardinality(Name) /\ DOMAIN users \subseteq UserId
        BY <2>1, IdsBounded DEF Tables
    <2>3. ASSUME NEW s, SessionTrue(s) PROVE s \in Session
        BY <2>2, <2>3 DEF SessionTrue, Session
    <2>4. AccountsTypeOK
        BY <2>1, <2>2, <2>3 DEF AccountsTypeOK, Inv, Tables, Carried
    <2>5. ASSUME NEW w \in Post0, w.owner \in DOMAIN users, w.text \in DOMAIN users,
                 w.deletedBy \in {0} \union DOMAIN users
          PROVE  w \in Post
        BY <2>2, <2>5 DEF Post0, Post
    <2>6. posts \in Seq(Post)
        <3>1. posts \in Seq(Post0) /\ Authors
            BY DEF Inv, Tables
        <3>2. \A p \in DOMAIN posts : posts[p] \in Post
            BY <2>5, <3>1 DEF Authors
        <3>3. DOMAIN posts = 1..Len(posts) /\ Len(posts) \in Nat
              /\ posts \in [1..Len(posts) -> Post0]
            BY <3>1
        <3>4. posts \in [1..Len(posts) -> Post]
            BY <3>2, <3>3
        <3>5. QED
            BY <3>3, <3>4
    <2>7. ASSUME NEW t \in Tab PROVE req[t] \in Request
        <3>1. /\ req[t] \in Request0 /\ RequestTrue(req[t]) /\ RowRead(req[t].row)
            BY <2>1 DEF Inv, RowsRead, Carried
        <3>2. req[t].sess \in Session
            BY <2>3, <3>1 DEF RequestTrue
        <3>3. req[t].row \in Row
            BY <2>5, <3>1 DEF RowRead, Row
        <3>4. QED
            BY <3>1, <3>2, <3>3 DEF Request0, Request
    <2>8. BoardTypeOK
        BY <2>1, <2>6, <2>7 DEF BoardTypeOK, Tables, Carried
    <2>9. QED
        BY <2>4, <2>8 DEF TypeOK
<1>3. QED
    BY <1>1, <1>2, RowsStep, InvHolds, PTL DEF Spec
=============================================================================
