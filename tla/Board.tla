-------------------------------- MODULE Board --------------------------------
(***************************************************************************)
(* The board in secure mode (app/blueprints/board.py): a handler reads a   *)
(* post, decides, and writes with a statement of its own; in between other *)
(* handlers edit, delete and count.  Attachments are first a file and then *)
(* a row.                                                                  *)
(***************************************************************************)
EXTENDS Accounts

CONSTANTS File,      \* bound: names uuid4 makes
          MaxViews   \* bound: views counted of a post

ASSUME BoardAssumption == IsFiniteSet(File) /\ MaxViews \in Nat

VARIABLES posts,     \* table posts; a row's id is its place
          comments,  \* table comments: the posts with one
          uploads,   \* table uploads
          files,     \* UPLOAD_DIR: the post each file was saved for, 0 without file
          served     \* history: views counted by a statement, by post

boardVars == <<posts, comments, uploads, files, served>>

\* text is the author of the content shown, deletedBy is 0 while is_deleted is.
Post == [owner : UserId, text : UserId, deletedBy : {0} \union UserId, views : 0..MaxViews]

Row == {NoPost} \union Post

\* at names the statement that comes next, or the answer.
Request == [at : {"idle", "answer", "logout", "register", "count", "save", "row",
                  "update", "delete", "comment"},
            sess : Session, name : Name \union {"none"}, mail : Mail \union {"none"},
            post : {0} \union PostId, row : Row, file : File \union {"none"}]

BoardInit ==
    /\ posts = <<>>
    /\ comments = {}
    /\ uploads = {}
    /\ files = [f \in File |-> 0]
    /\ served = [p \in PostId |-> 0]

\* WHERE id = p AND is_deleted = 0; another post is answered 404.
Live(p) == p \in DOMAIN posts /\ posts[p].deletedBy = 0

\* The variables a route of the board leaves to the others.
Elsewhere == UNCHANGED <<users, cookie, boot>>

----------------------------------------------------------------------------
\* The page and its row are read; the view is counted by a second statement.
ViewPost(t, p) ==
    /\ Comes(t) /\ Live(p)
    /\ Handle(t, [Enter(t, "count") EXCEPT !.post = p, !.row = posts[p]])
    /\ Elsewhere /\ UNCHANGED boardVars

\* The answer to t, with nothing else kept of it.
Answered(t) == Handle(t, [Idle EXCEPT !.at = "answer", !.sess = req[t].sess])

\* Variant: the row that was read is written back, one higher.
CountViewRead(t) ==
    /\ req[t].at = "count" /\ posts[req[t].post].views < MaxViews
    /\ posts' = [posts EXCEPT ![req[t].post].views = req[t].row.views + 1]
    /\ served' = [served EXCEPT ![req[t].post] = @ + 1]
    /\ Answered(t)
    /\ Elsewhere /\ UNCHANGED <<comments, uploads, files>>

\* SET view_count = view_count + 1.
CountView(t) ==
    /\ req[t].at = "count" /\ posts[req[t].post].views < MaxViews
    /\ posts' = [posts EXCEPT ![req[t].post].views = @ + 1]
    /\ served' = [served EXCEPT ![req[t].post] = @ + 1]
    /\ Answered(t)
    /\ Elsewhere /\ UNCHANGED <<comments, uploads, files>>

\* INSERT INTO posts; then the attachment, if one came and passes the checks.
CreatePost(t) ==
    /\ Comes(t) /\ Signed(t) /\ Len(posts) < MaxPosts
    /\ LET id == SessionOf(t).user
       IN posts' = Append(posts, [owner |-> id, text |-> id, deletedBy |-> 0, views |-> 0])
    /\ \/ Handle(t, Enter(t, "answer"))
       \/ Handle(t, [Enter(t, "save") EXCEPT !.post = Len(posts')])
    /\ Elsewhere /\ UNCHANGED <<comments, uploads, files, served>>

\* Variant: an error of the disk is ignored, as that of chmod is.
SaveFileTried(t) ==
    /\ req[t].at = "save"
    /\ \E f \in File :
         /\ files[f] = 0
         /\ \/ files' = [files EXCEPT ![f] = req[t].post]
            \/ UNCHANGED files
         /\ Handle(t, [req[t] EXCEPT !.at = "row", !.file = f])
    /\ Elsewhere /\ UNCHANGED <<posts, comments, uploads, served>>

\* upload.save under a fresh name; a full disk is answered 500.
SaveFile(t) ==
    /\ req[t].at = "save"
    /\ \/ \E f \in File :
            /\ files[f] = 0
            /\ files' = [files EXCEPT ![f] = req[t].post]
            /\ Handle(t, [req[t] EXCEPT !.at = "row", !.file = f])
       \/ Answered(t) /\ UNCHANGED files
    /\ Elsewhere /\ UNCHANGED <<posts, comments, uploads, served>>

\* UNIQUE KEY uq_uploads_stored.
InsertUpload(t) ==
    /\ req[t].at = "row"
    /\ \A u \in uploads : u.file # req[t].file
    /\ uploads' = uploads \union {[post |-> req[t].post, file |-> req[t].file]}
    /\ Answered(t)
    /\ Elsewhere /\ UNCHANGED <<posts, comments, files, served>>

----------------------------------------------------------------------------
\* Variant: whoever is signed in.
MayChangeAll(s, row) == s # Anonymous

\* is_owner or is_admin, from the row that was read and the session.
MayChange(s, row) == row.owner = s.user \/ s.role = "admin"

\* SELECT the post, check, and go on to the statement; 403 otherwise.
ReadToChange(t, p, at) ==
    /\ Comes(t) /\ Signed(t) /\ Live(p)
    /\ Handle(t, IF MayChange(SessionOf(t), posts[p])
                 THEN [Enter(t, at) EXCEPT !.post = p, !.row = posts[p]]
                 ELSE Enter(t, "answer"))
    /\ Elsewhere /\ UNCHANGED boardVars

EditPost(t, p) == ReadToChange(t, p, "update")
DeletePost(t, p) == ReadToChange(t, p, "delete")

\* Variant: the whole row that was read is written back.
UpdatePostRow(t) ==
    /\ req[t].at = "update"
    /\ posts' = [posts EXCEPT ![req[t].post] = [req[t].row EXCEPT !.text = req[t].sess.user]]
    /\ Answered(t)
    /\ Elsewhere /\ UNCHANGED <<comments, uploads, files, served>>

\* SET title, content WHERE id: also of a post deleted in the meantime.
UpdatePost(t) ==
    /\ req[t].at = "update"
    /\ posts' = [posts EXCEPT ![req[t].post].text = req[t].sess.user]
    /\ Answered(t)
    /\ Elsewhere /\ UNCHANGED <<comments, uploads, files, served>>

\* SET is_deleted = 1 WHERE id.
MarkDeleted(t) ==
    /\ req[t].at = "delete"
    /\ posts' = [posts EXCEPT ![req[t].post].deletedBy = req[t].sess.user]
    /\ Answered(t)
    /\ Elsewhere /\ UNCHANGED <<comments, uploads, files, served>>

\* SELECT id of a live post, then the insert.
AddComment(t, p) ==
    /\ Comes(t) /\ Signed(t) /\ Live(p)
    /\ Handle(t, [Enter(t, "comment") EXCEPT !.post = p])
    /\ Elsewhere /\ UNCHANGED boardVars

InsertComment(t) ==
    /\ req[t].at = "comment"
    /\ comments' = comments \union {req[t].post}
    /\ Answered(t)
    /\ Elsewhere /\ UNCHANGED <<posts, uploads, files, served>>

\* A statement fails: nothing is changed, the answer is 500.
StatementFails(t) ==
    /\ req[t].at \in {"register", "count", "row", "update", "delete", "comment"}
    /\ Answered(t)
    /\ Elsewhere /\ UNCHANGED boardVars

BoardStep ==
    \E t \in Tab :
        \/ \E p \in PostId : ViewPost(t, p) \/ EditPost(t, p) \/ DeletePost(t, p)
                             \/ AddComment(t, p)
        \/ CreatePost(t) \/ SaveFile(t) \/ InsertUpload(t) \/ CountView(t)
        \/ UpdatePost(t) \/ MarkDeleted(t) \/ InsertComment(t) \/ StatementFails(t)

BoardTypeOK ==
    /\ req \in [Tab -> Request]
    /\ posts \in Seq(Post) /\ Len(posts) <= MaxPosts
    /\ comments \subseteq PostId
    /\ uploads \subseteq [post : PostId, file : File]
    /\ files \in [File -> {0} \union PostId]
    /\ served \in [PostId -> 0..MaxViews]
=============================================================================
