------------------------------ MODULE Sessions ------------------------------
(***************************************************************************)
(* The session cookie of one browser and its CSRF token in secure mode     *)
(* (app/__init__.py _get_or_create_csrf_token, _verify_csrf; auth.py       *)
(* login, _rotate_session, logout).  A request works on the cookie it was  *)
(* sent with; its answer may come after that of a later request and sets   *)
(* the cookie again.  A form carries the token its page was rendered with. *)
(***************************************************************************)
EXTENDS Integers, FiniteSets

CONSTANTS Visitor,    \* users, numbers from 1
          Tab,        \* tabs of the browser
          MaxTokens   \* bound: tokens ever generated

ASSUME SessionsAssumption ==
    /\ Visitor \subseteq Nat \ {0}
    /\ IsFiniteSet(Tab)
    /\ MaxTokens \in Nat

VARIABLES jar,       \* the cookie: the user and the token, 0 for none
          page,      \* what each tab shows: for whom it was rendered, its form's token
          reply,     \* the answer on its way to each tab
          made,      \* tokens generated so far
          accepted,  \* history: the last POST a handler ran, for whom and by whom
          left,      \* history: a logout was answered alone, no login since
          good       \* history: tabs whose form came alone, nobody signed in or out since

sessionVars == <<jar, page, reply, made, accepted, left, good>>

Fresh == [user |-> 0, token |-> 0]
NoReply == [kind |-> "none", sess |-> Fresh, form |-> FALSE, new |-> FALSE, alone |-> FALSE]
NoPost == [for |-> 0, by |-> 0]

SessionsInit ==
    /\ jar = Fresh
    /\ page = [t \in Tab |-> Fresh]
    /\ reply = [t \in Tab |-> NoReply]
    /\ made = 0
    /\ accepted = NoPost
    /\ left = FALSE
    /\ good = {}

Free(t) == reply[t].kind = "none"
Alone(t) == \A u \in Tab \ {t} : Free(u)

\* The handler has ended with session sess, and answers with a form or without.
\* (new: it gave the session a token; alone is history: no other request was
\* under way since this one was sent.)
Reply(t, kind, sess, form) ==
    reply' = [u \in Tab |->
        IF u # t THEN [reply[u] EXCEPT !.alone = FALSE]
        ELSE [kind |-> kind, sess |-> sess, form |-> form,
              new |-> form /\ sess.token > made, alone |-> Alone(t)]]

\* Variant: every form gets a new token.
WithTokenAlways(sess) ==
    IF made < MaxTokens THEN [sess EXCEPT !.token = made + 1] ELSE sess

\* _get_or_create_csrf_token: the token a rendered form needs.
WithToken(sess) ==
    IF sess.token = 0 THEN [sess EXCEPT !.token = made + 1] ELSE sess

Generates(sess) == made' = IF sess.token > made THEN sess.token ELSE made

\* A page with a form.
OpenForm(t) ==
    /\ Free(t)
    /\ WithToken(jar).token <= MaxTokens
    /\ Reply(t, "page", WithToken(jar), TRUE)
    /\ Generates(WithToken(jar))
    /\ UNCHANGED <<jar, page, accepted, left, good>>

\* A page without one, a redirect, an error page, a poll of the dashboard.
OpenPlain(t) ==
    /\ Free(t)
    /\ Reply(t, "page", jar, FALSE)
    /\ UNCHANGED <<jar, page, made, accepted, left, good>>

\* _verify_csrf
Verified(t) == jar.token # 0 /\ page[t].token = jar.token

Accept(t) == accepted' = [for |-> page[t].user, by |-> jar.user]

\* A form is sent; without the right token the answer is 400.  A form with
\* errors comes back with the answer.
Post(t) ==
    /\ Free(t)
    /\ page[t].token # 0
    /\ IF Verified(t) THEN Accept(t) ELSE UNCHANGED accepted
    /\ \E again \in BOOLEAN : (again => Verified(t)) /\ Reply(t, "page", jar, again)
    /\ UNCHANGED <<jar, page, made, left, good>>

\* Variant: the session is not cleared.
RotateSessionKept(user) == [jar EXCEPT !.user = user]

\* _rotate_session: session.clear(), then the user.
RotateSession(user) == [Fresh EXCEPT !.user = user]

\* The login form, with the right password; who is signed in is sent home.
Login(t, user) ==
    /\ Free(t)
    /\ page[t].token # 0
    /\ Verified(t)
    /\ Accept(t)
    /\ IF jar.user = 0
       THEN Reply(t, "login", RotateSession(user), FALSE) /\ good' = {} /\ left' = FALSE
       ELSE Reply(t, "page", jar, FALSE) /\ UNCHANGED <<good, left>>
    /\ UNCHANGED <<jar, page, made>>

\* Variant: only the name is forgotten.
LogoutName(t) ==
    /\ Free(t)
    /\ Reply(t, "logout", jar, FALSE)
    /\ good' = {}
    /\ UNCHANGED <<jar, page, made, accepted, left>>

\* GET or POST; the message it leaves makes the answer set the cookie.
Logout(t) ==
    /\ Free(t)
    /\ Reply(t, "logout", Fresh, FALSE)
    /\ good' = {}
    /\ UNCHANGED <<jar, page, made, accepted, left>>

\* Flask sets the cookie with every answer to a signed-in user (the session is
\* permanent), else only when the session was changed.
Answer(t) ==
    LET r == reply[t] IN
    /\ ~Free(t)
    /\ \/ jar' = r.sess
       \/ r.kind = "page" /\ r.sess.user = 0 /\ ~r.new /\ UNCHANGED jar
    /\ page' = [page EXCEPT ![t] = IF r.form THEN r.sess ELSE Fresh]
    /\ left' = IF r.kind = "logout" THEN Alone(t) ELSE left
    /\ good' = IF r.form /\ r.alone THEN good \union {t} ELSE good \ {t}
    /\ reply' = [reply EXCEPT ![t] = NoReply]
    /\ UNCHANGED <<made, accepted>>

\* The tab is closed, the connection breaks, the worker dies.
Lose(t) ==
    /\ ~Free(t)
    /\ page' = [page EXCEPT ![t] = Fresh]
    /\ good' = good \ {t}
    /\ reply' = [reply EXCEPT ![t] = NoReply]
    /\ UNCHANGED <<jar, made, accepted, left>>

\* PERMANENT_SESSION_LIFETIME
Expire ==
    /\ jar # Fresh
    /\ jar' = Fresh
    /\ good' = {}
    /\ reply' = [t \in Tab |-> [reply[t] EXCEPT !.alone = FALSE]]
    /\ UNCHANGED <<page, made, accepted, left>>

SessionsNext ==
    \/ \E t \in Tab :
         \/ OpenForm(t) \/ OpenPlain(t) \/ Post(t) \/ Logout(t) \/ Answer(t) \/ Lose(t)
         \/ \E user \in Visitor : Login(t, user)
    \/ Expire

SessionsSpec == SessionsInit /\ [][SessionsNext]_sessionVars

----------------------------------------------------------------------------
(* Properties.                                                             *)

\* A POST that passes the CSRF check runs as the visitor its page was rendered
\* for, although other tabs sign in and out and late answers restore old
\* cookies: no token outlives a change of user.
SameVisitor == accepted.for = accepted.by

\* After a logout whose answer came while no other request was under way the
\* browser is anonymous until somebody signs in.
LogoutLasts == left => jar.user = 0

\* A form that was asked for and came while nothing else happened is accepted
\* until somebody signs in or out or the session expires, however many forms
\* other tabs open.
FormsStayGood == \A t \in good : Verified(t)
=============================================================================
