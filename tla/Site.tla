--------------------------------- MODULE Site ---------------------------------
(***************************************************************************)
(* Accounts and board interleaved: request threads and the script of the   *)
(* deployment share only the tables, the upload directory and the cookies  *)
(* of the browsers.                                                        *)
(***************************************************************************)
EXTENDS Board

vars == <<accountVars, boardVars>>

Init == AccountsInit /\ BoardInit

Next == (AccountStep /\ UNCHANGED boardVars) \/ BoardStep

Spec == Init /\ [][Next]_vars

----------------------------------------------------------------------------
(* Properties.                                                             *)

\* Types of accounts and board.
TypeOK == AccountsTypeOK /\ BoardTypeOK

\* bootstrap_admin.py looks and inserts in two statements while visitors
\* register its name or its address: when it ends with success, on which the
\* deployment goes on, there is an administrator of its name.
AdminEnsured ==
    boot.at = "done" =>
        \E i \in DOMAIN users : users[i].name = boot.name /\ users[i].role = "admin"

\* The role is copied into the session at login and read from there until it
\* ends: no session, however old or late, says administrator of an account
\* that is none, and none is of an account that does not exist.
RoleCurrent ==
    \A s \in Sessions \ {Anonymous} :
        /\ s.user \in DOMAIN users
        /\ s.role = "admin" => users[s.user].role = "admin"

\* edit_post and delete_post check a row they read earlier: what a post shows
\* was written by its owner or an administrator, and so was its deletion.
OwnText ==
    \A p \in DOMAIN posts :
        \A id \in {posts[p].text, posts[p].deletedBy} \ {0, posts[p].owner} :
            users[id].role = "admin"

\* No handler that read the post before its deletion brings it back.
DeletedStays ==
    [][\A p \in DOMAIN posts : posts[p].deletedBy # 0 => posts'[p].deletedBy # 0]_vars

\* No view, edit or deletion that overlaps a view loses its count.
ViewsCounted == \A p \in DOMAIN posts : posts[p].views = served[p]

\* Wherever a request stops, a row of uploads names the file saved for its post.
RowHasFile == \A u \in uploads : files[u.file] = u.post
===============================================================================
