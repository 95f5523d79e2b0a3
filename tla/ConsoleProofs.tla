--------------------------- MODULE ConsoleProofs ---------------------------
(***************************************************************************)
(* Theorems about the sessions, the block list, the pool, the              *)
(* demonstration data, the paged lists and the canvas editor, for every    *)
(* number of users, tabs, requests, threads, rows, pages, clicks and       *)
(* states of the history.                                                  *)
(***************************************************************************)
EXTENDS Console, TLAPS, FiniteSetTheorems, SequenceTheorems

\* What a part keeps true in its own steps holds of Console: the steps of the
\* others leave its variables alone.
LEMMA ConsoleSafety == ConsoleSpec => ConsoleInit /\ [][ConsoleNext]_consoleVars
BY PTL DEF ConsoleSpec

----------------------------------------------------------------------------
(* Sessions.                                                               *)

\* The sessions that the cookie, the pages and the answers hold.
Held == {jar} \union {page[t] : t \in Tab} \union {reply[t].sess : t \in Tab}

Session == [user : Nat, token : Nat]

\* A token belongs to one user wherever it is held, and none is from the future:
\* the next one made is held by nobody.
OneUser ==
    /\ \A a \in Held : a.token <= made
    /\ \A a, b \in Held : a.token = b.token /\ a.token # 0 => a.user = b.user

SessionsInv ==
    /\ made \in Nat
    /\ jar \in Session
    /\ page \in [Tab -> Session]
    /\ DOMAIN reply = Tab /\ \A t \in Tab : reply[t].sess \in Session
    /\ OneUser
    /\ SameVisitor

\* Nothing disturbs the ownership of tokens but a session with a token in use.
LEMMA OneUserKept ==
    ASSUME SessionsInv, NEW new \in Session, Held' \subseteq Held \union {new},
           made' \in Nat, made <= made',
           \/ new \in Held
           \/ new.token = 0
           \/ new.token = made + 1 /\ made' = made + 1
    PROVE  OneUser'
<1>1. Held \subseteq Session
  BY DEF SessionsInv, Held
<1> QED BY <1>1 DEF SessionsInv, OneUser, Session

LEMMA FreshSession == Fresh \in Session /\ Fresh.token = 0
BY DEF Fresh, Session

\* A handler that ends with session sess.
LEMMA ReplyHolds ==
    ASSUME SessionsInv, NEW t \in Tab, NEW kind, NEW sess \in Session, NEW form,
           Reply(t, kind, sess, form), UNCHANGED <<jar, page>>
    PROVE  /\ DOMAIN reply' = Tab /\ \A u \in Tab : reply'[u].sess \in Session
           /\ Held' \subseteq Held \union {sess}
<1>1. DOMAIN reply' = Tab
  BY DEF Reply
<1>2. \A u \in Tab : reply'[u].sess = IF u # t THEN reply[u].sess ELSE sess
  <2> SUFFICES ASSUME NEW u \in Tab
               PROVE  reply'[u].sess = IF u # t THEN reply[u].sess ELSE sess
    OBVIOUS
  <2>1. CASE u = t
    BY <2>1 DEF Reply
  <2>2. CASE u # t
    <3>1. reply'[u] = [reply[u] EXCEPT !.alone = FALSE]
      BY <2>2 DEF Reply
    <3> QED BY <3>1, <2>2
  <2> QED BY <2>1, <2>2
<1> QED BY <1>1, <1>2 DEF SessionsInv, Held

\* Handlers that run on the cookie or a session without a token.
LEMMA ReplyKeeps ==
    ASSUME SessionsInv, NEW t \in Tab, NEW kind, NEW sess \in Session, NEW form,
           Reply(t, kind, sess, form), UNCHANGED <<jar, page, made>>,
           sess = jar \/ sess.token = 0, SameVisitor'
    PROVE  SessionsInv'
<1>1. Held' \subseteq Held \union {sess}
  BY ReplyHolds
<1>2. sess \in Held \/ sess.token = 0
  BY DEF Held
<1>3. OneUser'
  BY <1>1, <1>2, OneUserKept DEF SessionsInv
<1> QED BY <1>3, ReplyHolds DEF SessionsInv

LEMMA OpenFormKeeps ==
    ASSUME SessionsInv, NEW t \in Tab, OpenForm(t)
    PROVE  SessionsInv'
<1>1. PICK sess : sess = WithToken(jar)
  OBVIOUS
<1>2. sess \in Session
  BY <1>1 DEF SessionsInv, Session, WithToken
<1>3. Reply(t, "page", sess, TRUE) /\ Generates(sess) /\ UNCHANGED <<jar, page, accepted>>
  BY <1>1 DEF OpenForm
<1>4. sess = jar \/ (sess.token = made + 1 /\ made' = made + 1)
  BY <1>1, <1>3 DEF WithToken, Generates, SessionsInv, Session
<1>5. made' \in Nat /\ made <= made'
  BY <1>2, <1>3 DEF Generates, SessionsInv, Session
<1>6. OneUser'
  BY <1>2, <1>3, <1>4, <1>5, ReplyHolds, OneUserKept DEF Held
<1>7. SameVisitor'
  BY <1>3 DEF SessionsInv, SameVisitor
<1> QED BY <1>2, <1>3, <1>5, <1>6, <1>7, ReplyHolds DEF SessionsInv

\* A form whose token is that of the cookie was rendered for its user.
LEMMA AcceptedRight ==
    ASSUME SessionsInv, NEW t \in Tab, Verified(t), Accept(t)
    PROVE  SameVisitor'
BY DEF SessionsInv, OneUser, Held, Verified, Accept, SameVisitor

LEMMA PostKeeps ==
    ASSUME SessionsInv, NEW t \in Tab, Post(t)
    PROVE  SessionsInv'
<1>1. SameVisitor'
  BY AcceptedRight DEF Post, SessionsInv, SameVisitor
<1>2. jar \in Session
  BY DEF SessionsInv
<1>3. PICK again \in BOOLEAN : Reply(t, "page", jar, again)
  BY DEF Post
<1> QED BY <1>1, <1>2, <1>3, ReplyKeeps DEF Post

LEMMA LoginKeeps ==
    ASSUME SessionsInv, NEW t \in Tab, NEW user \in Visitor, Login(t, user)
    PROVE  SessionsInv'
<1>1. SameVisitor'
  BY AcceptedRight DEF Login
<1>2. RotateSession(user) \in Session /\ RotateSession(user).token = 0
  BY SessionsAssumption DEF RotateSession, Fresh, Session
<1>3. jar \in Session
  BY DEF SessionsInv
<1>4. CASE jar.user = 0
  BY <1>1, <1>2, <1>4, ReplyKeeps DEF Login
<1>5. CASE jar.user # 0
  BY <1>1, <1>3, <1>5, ReplyKeeps DEF Login
<1> QED BY <1>4, <1>5

\* An answer that comes, or is lost, moves a session that was held already.
LEMMA AnswerKeeps ==
    ASSUME SessionsInv, NEW t \in Tab, Answer(t) \/ Lose(t)
    PROVE  SessionsInv'
<1> USE FreshSession DEF SessionsInv
<1>1. jar' \in {jar, reply[t].sess} /\ UNCHANGED <<made, accepted>>
  BY DEF Answer, Lose
<1>2. PICK new : new \in {reply[t].sess, Fresh} /\ page' = [page EXCEPT ![t] = new]
  BY DEF Answer, Lose
<1>3. reply' = [reply EXCEPT ![t] = NoReply] /\ NoReply.sess = Fresh
  BY DEF Answer, Lose, NoReply
<1>4. Held' \subseteq Held \union {Fresh}
  BY <1>1, <1>2, <1>3 DEF Held
<1>5. OneUser'
  BY <1>1, <1>4, OneUserKept
<1> QED BY <1>1, <1>2, <1>3, <1>5 DEF SameVisitor

LEMMA ExpireKeeps ==
    ASSUME SessionsInv, Expire
    PROVE  SessionsInv'
<1> USE FreshSession DEF SessionsInv
<1>1. jar' = Fresh /\ UNCHANGED <<page, made, accepted>>
  BY DEF Expire
<1>2. DOMAIN reply' = Tab /\ \A t \in Tab : reply'[t].sess = reply[t].sess
  <2>1. DOMAIN reply' = Tab
    BY DEF Expire
  <2>2. ASSUME NEW t \in Tab PROVE reply'[t].sess = reply[t].sess
    <3>1. reply'[t] = [reply[t] EXCEPT !.alone = FALSE]
      BY DEF Expire
    <3> QED BY <3>1
  <2> QED BY <2>1, <2>2
<1>3. Held' \subseteq Held \union {Fresh}
  BY <1>1, <1>2 DEF Held
<1>4. OneUser'
  BY <1>1, <1>3, OneUserKept
<1> QED BY <1>1, <1>2, <1>4 DEF SameVisitor

LEMMA SessionsInvStep == SessionsInv /\ [SessionsNext]_sessionVars => SessionsInv'
<1> SUFFICES ASSUME SessionsInv, [SessionsNext]_sessionVars PROVE SessionsInv'
  OBVIOUS
<1>1. ASSUME NEW t \in Tab, OpenPlain(t) PROVE SessionsInv'
  BY <1>1, ReplyKeeps DEF OpenPlain, SessionsInv, SameVisitor
<1>2. ASSUME NEW t \in Tab, Logout(t) PROVE SessionsInv'
  BY <1>2, ReplyKeeps, FreshSession DEF Logout, SessionsInv, SameVisitor
<1>3. CASE UNCHANGED sessionVars
  BY <1>3 DEF sessionVars, SessionsInv, OneUser, Held, SameVisitor
<1> QED BY <1>1, <1>2, <1>3, OpenFormKeeps, PostKeeps, LoginKeeps, AnswerKeeps, ExpireKeeps
        DEF SessionsNext

LEMMA SessionsInvInit == SessionsInit => SessionsInv
BY FreshSession DEF SessionsInit, SessionsInv, NoReply, NoPost, OneUser, Held, SameVisitor

\* The other parts leave the cookie alone.
LEMMA ConsoleSessions == [ConsoleNext]_consoleVars => [SessionsNext]_sessionVars
BY DEF ConsoleNext, consoleVars

\* A POST that passes the CSRF check runs as the visitor its page was rendered
\* for (app/__init__.py _verify_csrf), for any number of tabs and users.
THEOREM FormsActForTheirVisitor == ConsoleSpec => []SameVisitor
<1>1. ConsoleInit => SessionsInit
  BY DEF ConsoleInit
<1>2. SessionsInv => SameVisitor
  BY DEF SessionsInv
<1> QED BY <1>1, <1>2, ConsoleSafety, ConsoleSessions, SessionsInvInit, SessionsInvStep, PTL

\* After a logout nobody holds a session of a user, the answers on their way
\* included.
LogoutInv ==
    /\ DOMAIN reply = Tab
    /\ \A t \in Tab : reply[t].kind \in {"none", "logout"} => reply[t].sess.user = 0
    /\ left => jar.user = 0 /\ \A t \in Tab : reply[t].sess.user = 0

\* What the answers are after a handler has ended.
LEMMA ReplyFields ==
    ASSUME NEW t \in Tab, NEW kind, NEW sess, NEW form \in BOOLEAN, Reply(t, kind, sess, form)
    PROVE  /\ DOMAIN reply' = Tab
           /\ reply'[t].kind = kind /\ reply'[t].sess = sess
           /\ reply'[t].form <=> form
           /\ reply'[t].new <=> form /\ sess.token > made
           /\ reply'[t].alone <=> Alone(t)
           /\ "alone" \in DOMAIN reply'[t]
           /\ \A u \in Tab \ {t} : reply'[u] = [reply[u] EXCEPT !.alone = FALSE]
<1>1. DOMAIN reply' = Tab /\ \A u \in Tab \ {t} : reply'[u] = [reply[u] EXCEPT !.alone = FALSE]
  BY DEF Reply
<1>2. reply'[t] = [kind |-> kind, sess |-> sess, form |-> form,
                   new |-> form /\ sess.token > made, alone |-> Alone(t)]
  BY DEF Reply
<1>3. reply'[t].kind = kind /\ reply'[t].sess = sess
  BY <1>2
<1>4. reply'[t].form <=> form
  BY <1>2
<1>5. reply'[t].new <=> form /\ sess.token > made
  <2>1. PICK n \in BOOLEAN : n <=> form /\ sess.token > made
    OBVIOUS
  <2>2. (form /\ sess.token > made) = n
    BY <2>1
  <2>3. reply'[t] = [kind |-> kind, sess |-> sess, form |-> form, new |-> n,
                     alone |-> Alone(t)]
    BY <1>2, <2>2, Zenon
  <2>4. reply'[t].new <=> n
    BY <2>3
  <2> QED BY <2>1, <2>4, Zenon
<1>6. reply'[t].alone <=> Alone(t)
  BY <1>2
<1>7. "alone" \in DOMAIN reply'[t]
  BY <1>2
<1> QED BY <1>1, <1>3, <1>4, <1>5, <1>6, <1>7

LEMMA LogoutReply ==
    ASSUME LogoutInv, NEW t \in Tab, NEW kind, NEW sess, NEW form \in BOOLEAN,
           Reply(t, kind, sess, form), UNCHANGED jar,
           kind \in {"none", "logout"} => sess.user = 0,
           left' => left /\ sess.user = 0
    PROVE  LogoutInv'
<1>1. DOMAIN reply' = Tab /\ reply'[t].kind = kind /\ reply'[t].sess = sess
  BY ReplyFields
<1>2. ASSUME NEW u \in Tab \ {t}
      PROVE  reply'[u].kind = reply[u].kind /\ reply'[u].sess = reply[u].sess
  <2>1. reply'[u] = [reply[u] EXCEPT !.alone = FALSE]
    BY ReplyFields
  <2> QED BY <2>1
<1> QED BY <1>1, <1>2 DEF LogoutInv

LEMMA LogoutStep ==
    ASSUME LogoutInv, [SessionsNext]_sessionVars
    PROVE  LogoutInv'
<1>1. ASSUME NEW t \in Tab, OpenForm(t) PROVE LogoutInv'
  <2>1. PICK sess : sess = WithToken(jar)
    OBVIOUS
  <2>2. Reply(t, "page", sess, TRUE) /\ UNCHANGED <<jar, left>>
    BY <1>1, <2>1 DEF OpenForm
  <2>3. left => sess.user = 0
    BY <2>1 DEF LogoutInv, WithToken
  <2> QED BY <2>2, <2>3, LogoutReply
<1>2. ASSUME NEW t \in Tab, OpenPlain(t) \/ Post(t) PROVE LogoutInv'
  <2>1. /\ \E form \in BOOLEAN : Reply(t, "page", jar, form)
        /\ UNCHANGED <<jar, left>>
    BY <1>2 DEF OpenPlain, Post
  <2> QED BY <2>1, LogoutReply DEF LogoutInv
<1>3. ASSUME NEW t \in Tab, Logout(t) PROVE LogoutInv'
  <2>1. Reply(t, "logout", Fresh, FALSE) /\ UNCHANGED <<jar, left>>
    BY <1>3 DEF Logout
  <2> QED BY <2>1, LogoutReply DEF Fresh
<1>4. ASSUME NEW t \in Tab, NEW user \in Visitor, Login(t, user) PROVE LogoutInv'
  <2>1. CASE jar.user = 0
    <3>1. Reply(t, "login", RotateSession(user), FALSE) /\ jar' = jar /\ left' = FALSE
      BY <1>4, <2>1 DEF Login
    <3> QED BY <3>1, LogoutReply
  <2>2. CASE jar.user # 0
    <3>1. Reply(t, "page", jar, FALSE) /\ UNCHANGED <<jar, left>>
      BY <1>4, <2>2 DEF Login
    <3> QED BY <3>1, LogoutReply DEF LogoutInv
  <2> QED BY <2>1, <2>2
<1>5. ASSUME NEW t \in Tab, Answer(t) \/ Lose(t) PROVE LogoutInv'
  <2>1. reply' = [reply EXCEPT ![t] = NoReply]
    BY <1>5 DEF Answer, Lose
  <2>2. DOMAIN reply' = Tab /\ \A u \in Tab : reply'[u] = IF u = t THEN NoReply ELSE reply[u]
    BY <2>1 DEF LogoutInv
  <2>3. NoReply.sess.user = 0
    BY DEF NoReply, Fresh
  <2>4. CASE Lose(t)
    BY <2>2, <2>3, <2>4 DEF Lose, LogoutInv
  <2>5. CASE Answer(t)
    <3>1. jar' \in {jar, reply[t].sess}
      BY <2>5 DEF Answer
    <3>2. CASE reply[t].kind = "logout" /\ Alone(t)
      <4>1. jar' = reply[t].sess /\ reply[t].sess.user = 0
        BY <2>5, <3>2 DEF Answer, LogoutInv
      <4>2. \A u \in Tab \ {t} : reply[u].sess.user = 0
        BY <3>2 DEF Alone, Free, LogoutInv
      <4> QED BY <2>2, <2>3, <4>1, <4>2 DEF LogoutInv
    <3>3. CASE ~(reply[t].kind = "logout" /\ Alone(t))
      <4>1. left' => left
        BY <2>5, <3>3 DEF Answer
      <4> QED BY <2>2, <2>3, <3>1, <4>1 DEF LogoutInv
    <3> QED BY <3>2, <3>3
  <2> QED BY <1>5, <2>4, <2>5
<1>6. CASE Expire
  <2>1. jar' = Fresh /\ left' = left /\ DOMAIN reply' = Tab
    BY <1>6 DEF Expire
  <2>2. ASSUME NEW t \in Tab
        PROVE  reply'[t].kind = reply[t].kind /\ reply'[t].sess = reply[t].sess
    <3>1. reply'[t] = [reply[t] EXCEPT !.alone = FALSE]
      BY <1>6 DEF Expire
    <3> QED BY <3>1
  <2> QED BY <2>1, <2>2 DEF LogoutInv, Fresh
<1>7. CASE UNCHANGED sessionVars
  BY <1>7 DEF sessionVars, LogoutInv
<1> QED BY <1>1, <1>2, <1>3, <1>4, <1>5, <1>6, <1>7 DEF SessionsNext

\* After a logout answered while nothing else was under way the browser is
\* anonymous until somebody signs in (auth.py logout).
THEOREM LogoutsLast == ConsoleSpec => []LogoutLasts
<1>1. ConsoleInit => LogoutInv
  BY DEF ConsoleInit, SessionsInit, LogoutInv, NoReply, Fresh
<1>2. LogoutInv /\ [SessionsNext]_sessionVars => LogoutInv'
  BY LogoutStep
<1>3. LogoutInv => LogoutLasts
  BY DEF LogoutInv, LogoutLasts
<1> QED BY <1>1, <1>2, <1>3, ConsoleSafety, ConsoleSessions, PTL

\* While some tab has a good form every session on its way holds the token of
\* the cookie; an answer that is alone brings the cookie's session, or the first
\* token there is.
FormsInv ==
    /\ DOMAIN reply = Tab /\ \A t \in Tab : "alone" \in DOMAIN reply[t]
    /\ good \subseteq Tab
    /\ \A t \in Tab : reply[t].alone => Alone(t)
    /\ \A t \in Tab : ~Free(t) /\ reply[t].alone /\ reply[t].form =>
           /\ reply[t].sess.token # 0
           /\ reply[t].sess = jar \/ (jar.token = 0 /\ reply[t].new)
    /\ good # {} => /\ jar.token # 0
                    /\ \A t \in Tab : ~Free(t) => reply[t].sess.token = jar.token
    /\ \A t \in good : page[t].token = jar.token

LEMMA FormsReply ==
    ASSUME FormsInv, NEW t \in Tab, NEW kind, NEW sess, NEW form \in BOOLEAN,
           Reply(t, kind, sess, form), kind # "none", UNCHANGED <<jar, page>>,
           good' = {} \/ (good' = good /\ (good # {} => sess.token = jar.token)),
           form => /\ sess.token # 0
                   /\ sess = jar \/ (jar.token = 0 /\ sess.token > made)
    PROVE  FormsInv'
<1>1. /\ DOMAIN reply' = Tab /\ reply'[t].kind = kind /\ reply'[t].sess = sess
      /\ reply'[t].form <=> form
      /\ reply'[t].new <=> form /\ sess.token > made
      /\ reply'[t].alone <=> Alone(t)
      /\ "alone" \in DOMAIN reply'[t]
  BY ReplyFields
<1>2. ASSUME NEW u \in Tab \ {t}
      PROVE  /\ reply'[u].kind = reply[u].kind /\ reply'[u].sess = reply[u].sess
             /\ ~reply'[u].alone /\ "alone" \in DOMAIN reply'[u]
  <2>1. reply'[u] = [reply[u] EXCEPT !.alone = FALSE]
    BY ReplyFields
  <2>2. reply'[u].kind = reply[u].kind /\ reply'[u].sess = reply[u].sess
    BY <2>1
  <2>3. "alone" \in DOMAIN reply[u]
    BY DEF FormsInv
  <2>4. ~reply'[u].alone /\ "alone" \in DOMAIN reply'[u]
    BY <2>1, <2>3
  <2> QED BY <2>2, <2>4
<1>3. \A u \in Tab : reply'[u].alone => Alone(u)'
  BY <1>1, <1>2 DEF Alone, Free
<1> QED BY <1>1, <1>2, <1>3 DEF FormsInv, Free

LEMMA FormsAnswer ==
    ASSUME SessionsInv, FormsInv, NEW t \in Tab, Answer(t) \/ Lose(t)
    PROVE  FormsInv'
<1>1. reply' = [reply EXCEPT ![t] = NoReply] /\ ~Free(t) /\ DOMAIN page = Tab
  BY DEF Answer, Lose, SessionsInv
<1>2. DOMAIN reply' = Tab /\ \A u \in Tab : reply'[u] = IF u = t THEN NoReply ELSE reply[u]
  BY <1>1 DEF FormsInv
<1>3. NoReply.kind = "none" /\ ~NoReply.alone /\ "alone" \in DOMAIN NoReply
  BY DEF NoReply
<1>4. \A u \in Tab \ {t} : ~reply[u].alone
  BY <1>1 DEF FormsInv, Alone
<1>5. /\ DOMAIN reply' = Tab /\ \A u \in Tab : "alone" \in DOMAIN reply'[u] /\ ~reply'[u].alone
      /\ \A u \in Tab : ~Free(u)' => u # t /\ ~Free(u) /\ reply'[u] = reply[u]
  BY <1>2, <1>3, <1>4 DEF FormsInv, Free
<1>6. CASE Answer(t) /\ reply[t].form /\ reply[t].alone
  <2>1. Alone(t) /\ reply[t].sess.token # 0
    BY <1>1, <1>6 DEF FormsInv
  <2>2. jar'.token = reply[t].sess.token
    BY <1>1, <1>6 DEF FormsInv, Answer
  <2>3. good # {} => jar.token = reply[t].sess.token
    BY <1>1 DEF FormsInv
  <2>4. good' = good \union {t} /\ page' = [page EXCEPT ![t] = reply[t].sess]
    BY <1>6 DEF Answer
  <2>5. \A u \in good' : page'[u].token = jar'.token
    BY <1>1, <2>2, <2>3, <2>4 DEF FormsInv
  <2>6. \A u \in Tab : Free(u)'
    BY <1>5, <2>1 DEF Alone
  <2> QED BY <1>5, <2>1, <2>2, <2>4, <2>5, <2>6 DEF FormsInv
<1>7. CASE ~(Answer(t) /\ reply[t].form /\ reply[t].alone)
  <2>1. good' = good \ {t} /\ jar' \in {jar, reply[t].sess}
    BY <1>7 DEF Answer, Lose
  <2>2. good # {} => jar'.token = jar.token
    BY <1>1, <2>1 DEF FormsInv
  <2>3. \A u \in Tab \ {t} : page'[u] = page[u]
    BY <1>1 DEF Answer, Lose
  <2> QED BY <1>5, <2>1, <2>2, <2>3 DEF FormsInv
<1> QED BY <1>6, <1>7

LEMMA FormsStep ==
    ASSUME SessionsInv, FormsInv, [SessionsNext]_sessionVars
    PROVE  FormsInv'
<1>1. ASSUME NEW t \in Tab, OpenForm(t) PROVE FormsInv'
  <2>1. PICK sess : sess = WithToken(jar)
    OBVIOUS
  <2>2. Reply(t, "page", sess, TRUE) /\ UNCHANGED <<jar, page, good>>
    BY <1>1, <2>1 DEF OpenForm
  <2>3. \/ jar.token # 0 /\ sess = jar
        \/ jar.token = 0 /\ sess.token = made + 1
    BY <2>1 DEF WithToken, SessionsInv, Session
  <2>4. sess.token # 0 /\ (sess = jar \/ (jar.token = 0 /\ sess.token > made))
    BY <2>3 DEF SessionsInv
  <2>5. good # {} => sess.token = jar.token
    BY <2>3 DEF FormsInv
  <2> QED BY <2>2, <2>4, <2>5, FormsReply
<1>2. ASSUME NEW t \in Tab, OpenPlain(t) \/ Post(t) PROVE FormsInv'
  <2>1. PICK form \in BOOLEAN : Reply(t, "page", jar, form) /\ (form => jar.token # 0)
    BY <1>2 DEF OpenPlain, Post, Verified
  <2> QED BY <1>2, <2>1, FormsReply DEF OpenPlain, Post
<1>3. ASSUME NEW t \in Tab, Logout(t) PROVE FormsInv'
  BY <1>3, FormsReply DEF Logout
<1>4. ASSUME NEW t \in Tab, NEW user \in Visitor, Login(t, user) PROVE FormsInv'
  <2>1. CASE jar.user = 0
    BY <1>4, <2>1, FormsReply DEF Login
  <2>2. CASE jar.user # 0
    BY <1>4, <2>2, FormsReply DEF Login
  <2> QED BY <2>1, <2>2
<1>5. CASE Expire
  <2>1. good' = {} /\ DOMAIN reply' = Tab
    BY <1>5 DEF Expire
  <2>2. ASSUME NEW t \in Tab PROVE ~reply'[t].alone /\ "alone" \in DOMAIN reply'[t]
    <3>1. reply'[t] = [reply[t] EXCEPT !.alone = FALSE]
      BY <1>5 DEF Expire
    <3>2. "alone" \in DOMAIN reply[t]
      BY DEF FormsInv
    <3> QED BY <3>1, <3>2
  <2> QED BY <2>1, <2>2 DEF FormsInv
<1>6. CASE UNCHANGED sessionVars
  BY <1>6 DEF sessionVars, FormsInv, Alone, Free
<1> QED BY <1>1, <1>2, <1>3, <1>4, <1>5, <1>6, FormsAnswer DEF SessionsNext

\* A form that was asked for and came alone stays good until somebody signs in
\* or out or the session expires (app/__init__.py), for any number of tabs.
THEOREM GoodFormsStay == ConsoleSpec => []FormsStayGood
<1>1. ConsoleInit => SessionsInv /\ FormsInv
  <2>1. SessionsInit => FormsInv
    BY DEF SessionsInit, FormsInv, NoReply, Free
  <2> QED BY <2>1, SessionsInvInit DEF ConsoleInit
<1>2. SessionsInv /\ FormsInv /\ [SessionsNext]_sessionVars => SessionsInv' /\ FormsInv'
  BY FormsStep, SessionsInvStep
<1>3. FormsInv => FormsStayGood
  BY DEF FormsInv, FormsStayGood, Verified
<1> QED BY <1>1, <1>2, <1>3, ConsoleSafety, ConsoleSessions, PTL

----------------------------------------------------------------------------
(* The block list.                                                         *)

AuditInv == DOMAIN asking = User /\ BlockAudited

LEMMA AuditStep ==
    ASSUME AuditInv, [BlockingNext]_blockVars
    PROVE  AuditInv'
<1> USE DEF AuditInv, BlockAudited
<1>1. ASSUME NEW u \in User, Forbid(u) PROVE AuditInv'
  BY <1>1 DEF Forbid
<1>2. ASSUME NEW u \in User, NEW reason \in Reason, Block(u, reason) PROVE AuditInv'
  <2>1. blocked'.reason = reason
    BY <1>2 DEF Block, Upsert
  <2>2. DOMAIN asking' = User /\ asking'[u] = reason
    BY <1>2 DEF Block
  <2> QED BY <2>1, <2>2
<1>3. ASSUME NEW u \in User, Audit(u) PROVE AuditInv'
  <2>1. /\ UNCHANGED <<blocked, gaps>> /\ events \subseteq events'
        /\ [type |-> "blocked", by |-> u, reason |-> asking[u]] \in events'
        /\ DOMAIN asking' = User /\ \A v \in User \ {u} : asking'[v] = asking[v]
    BY <1>3 DEF Audit
  <2>2. CASE asking[u] = blocked.reason
    BY <2>1, <2>2
  <2>3. CASE asking[u] # blocked.reason
    BY <2>1, <2>3
  <2> QED BY <2>2, <2>3
<1>4. ASSUME NEW u \in User, AuditFails(u) PROVE AuditInv'
  <2>1. /\ UNCHANGED <<blocked, events>> /\ gaps' = gaps \union {asking[u]}
        /\ DOMAIN asking' = User /\ \A v \in User \ {u} : asking'[v] = asking[v]
    BY <1>4 DEF AuditFails
  <2>2. CASE asking[u] = blocked.reason
    BY <2>1, <2>2
  <2>3. CASE asking[u] # blocked.reason
    BY <2>1, <2>3
  <2> QED BY <2>2, <2>3
<1>5. ASSUME NEW u \in User, Unblock(u) PROVE AuditInv'
  BY <1>5 DEF Unblock
<1>6. CASE UNCHANGED blockVars
  BY <1>6 DEF blockVars
<1> QED BY <1>1, <1>2, <1>3, <1>4, <1>5, <1>6 DEF BlockingNext

\* Every block in force has its event, a handler about to write it, or one that
\* failed there (admin.py block_ip), for any number of administrators.
THEOREM BlocksExplained == ConsoleSpec => []BlockAudited
<1>1. ConsoleInit => AuditInv
  BY DEF ConsoleInit, BlockingInit, AuditInv, BlockAudited
<1>2. AuditInv /\ [BlockingNext]_blockVars => AuditInv'
  BY AuditStep
<1>3. [ConsoleNext]_consoleVars => [BlockingNext]_blockVars
  BY DEF ConsoleNext, consoleVars
<1>4. AuditInv => BlockAudited
  BY DEF AuditInv
<1> QED BY <1>1, <1>2, <1>3, <1>4, ConsoleSafety, PTL

----------------------------------------------------------------------------
(* The pool.                                                               *)

\* The pool has lent exactly what the threads that run a statement hold.
Runs == {t \in Thread : phase[t] = "runs"}

PoolInv == DOMAIN phase = Thread /\ lent = Cardinality(Runs)

LEMMA RunsFinite == IsFiniteSet(Runs) /\ Cardinality(Runs) \in Nat
BY PoolAssumption, FS_Subset, FS_CardinalityType DEF Runs

LEMMA PoolStep ==
    ASSUME PoolInv, [PoolNext]_poolVars
    PROVE  PoolInv'
<1> USE DEF PoolInv
<1>1. CASE UNCHANGED <<lent, phase>>
  BY <1>1 DEF Runs
<1>2. ASSUME NEW t \in Thread, phase[t] # "runs", lent' = lent,
             NEW p, p # "runs", phase' = [phase EXCEPT ![t] = p]
      PROVE  PoolInv'
  <2>1. Runs' = Runs
    BY <1>2 DEF Runs
  <2> QED BY <1>2, <2>1
<1>3. ASSUME NEW t \in Thread, phase[t] = "asks", lent' = lent + 1,
             phase' = [phase EXCEPT ![t] = "runs"]
      PROVE  PoolInv'
  <2>1. Runs' = Runs \union {t} /\ t \notin Runs
    BY <1>3 DEF Runs
  <2>2. Cardinality(Runs \union {t}) = Cardinality(Runs) + 1
    BY <2>1, RunsFinite, FS_AddElement
  <2> QED BY <1>3, <2>1, <2>2
<1>4. ASSUME NEW t \in Thread, phase[t] = "runs", lent' = lent - 1,
             phase' = [phase EXCEPT ![t] = "idle"]
      PROVE  PoolInv'
  <2>1. Runs' = Runs \ {t} /\ t \in Runs
    BY <1>4 DEF Runs
  <2>2. Cardinality(Runs \ {t}) = Cardinality(Runs) - 1
    BY <2>1, RunsFinite, FS_RemoveElement
  <2> QED BY <1>4, <2>1, <2>2
<1>5. ASSUME NEW t \in Thread, Ask(t) PROVE PoolInv'
  BY <1>2, <1>5 DEF Ask
<1>6. ASSUME NEW t \in Thread, Take(t) PROVE PoolInv'
  BY <1>2, <1>3, <1>6 DEF Take
<1>7. ASSUME NEW t \in Thread, Finish(t) \/ Fail(t) PROVE PoolInv'
  BY <1>4, <1>7 DEF Finish, Fail
<1>8. CASE Toggle \/ Attempt
  BY <1>1, <1>8 DEF Toggle, Attempt
<1>9. CASE UNCHANGED poolVars
  BY <1>1, <1>9 DEF poolVars
<1> QED BY <1>5, <1>6, <1>7, <1>8, <1>9 DEF PoolNext

\* No thread sleeps in the pool for want of a connection (db.py get_cursor), for
\* any number of threads a pool is as large as.
THEOREM NobodyEverSleeps == ConsoleSpec => []NobodySleeps
<1>1. ConsoleInit => PoolInv
  <2> SUFFICES ASSUME ConsoleInit PROVE PoolInv
    OBVIOUS
  <2>1. Runs = {}
    BY DEF ConsoleInit, PoolInit, Runs
  <2> QED BY <2>1, FS_EmptySet DEF ConsoleInit, PoolInit, PoolInv
<1>2. PoolInv /\ [PoolNext]_poolVars => PoolInv'
  BY PoolStep
<1>3. [ConsoleNext]_consoleVars => [PoolNext]_poolVars
  BY DEF ConsoleNext, consoleVars
<1>4. PoolInv => NobodySleeps
  <2> SUFFICES ASSUME PoolInv, NEW t \in Thread, phase[t] = "asks"
               PROVE  lent < PoolSize
    BY DEF NobodySleeps
  <2>1. Runs \subseteq Thread \ {t}
    BY DEF Runs
  <2>2. /\ IsFiniteSet(Thread \ {t})
        /\ Cardinality(Thread \ {t}) = Cardinality(Thread) - 1
    BY PoolAssumption, FS_RemoveElement
  <2>3. Cardinality(Runs) <= Cardinality(Thread \ {t})
    BY <2>1, <2>2, FS_Subset
  <2>4. Cardinality(Thread) \in Nat
    BY PoolAssumption, FS_CardinalityType
  <2> QED BY <2>2, <2>3, <2>4, RunsFinite, PoolAssumption DEF PoolInv
<1> QED BY <1>1, <1>2, <1>3, <1>4, ConsoleSafety, PTL

----------------------------------------------------------------------------
(* The demonstration data.                                                 *)

Stages == {"idle", "wipe", "users", "posts", "comments", "check", "logs", "events",
           "attempts", "deployments"}
Tables == {"users", "posts", "comments", "logs", "events", "attempts", "deployments"}

SeederType == [at : Stages, wipe : BOOLEAN, logs : BOOLEAN, next : Nat]

\* A run is in the bounds of the loop it is in, and only one that wipes is at
\* the wipe.
SeederOK ==
    /\ seeder \in SeederType
    /\ seeder.at = "wipe" => seeder.wipe /\ seeder.next \in 1..3
    /\ seeder.at = "users" => seeder.next \in 1..SeedUsers
    /\ seeder.at \in {"posts", "comments"} => seeder.next \in 1..SeedPosts

TablesOK ==
    /\ seeded = [t \in Tables |-> seeded[t]]
    /\ seeded.users \in [1..SeedUsers -> {0, 1}]
    /\ seeded.posts \in [1..SeedPosts -> Nat]
    /\ seeded.comments \in [1..SeedPosts -> 0..MaxComments]
    /\ seeded.logs \in Nat /\ seeded.events \in Nat /\ seeded.attempts \in Nat
    /\ seeded.deployments \in {0, 1}
    /\ visits \in BOOLEAN /\ recorded \in BOOLEAN
    /\ names \subseteq 1..SeedUsers /\ titles \subseteq 1..SeedPosts
    /\ gone \in [1..SeedPosts -> Nat]
    /\ irregular \in BOOLEAN /\ complete \in BOOLEAN

\* What a run has come past is there, or was edited away; each post of the
\* script but one has lost its title.
Progress ==
    /\ \A u \in 1..SeedUsers : seeded.users[u] = 1 => u \in names
    /\ \A p \in 1..SeedPosts :
          seeded.posts[p] <= gone[p] + (IF p \in titles THEN 1 ELSE 0)
    /\ seeder.at = "comments" => seeded.comments[seeder.next] < MaxComments
    /\ \A u \in 1..SeedUsers :
          \/ seeder.at = "users" /\ u < seeder.next
          \/ seeder.at \notin {"idle", "wipe", "users"}
          => u \in names
    /\ \A p \in 1..SeedPosts :
          \/ seeder.at = "posts" /\ p < seeder.next
          \/ seeder.at = "comments" /\ p <= seeder.next
          \/ seeder.at \in {"check", "logs", "events", "attempts", "deployments"}
          => p \in titles \/ gone[p] > 0

\* As long as every run ends and writes logs: one that comes to the logs finds
\* all three tables empty, because they were never written or all were wiped.
Regular ==
    ~irregular =>
        /\ seeder.at # "idle" => seeder.logs
        /\ seeded.logs <= 1 /\ seeded.events <= 1 /\ seeded.attempts <= 1
        /\ seeded.logs = 0 /\ seeder.at # "wipe" => seeded.events = 0 /\ seeded.attempts = 0
        /\ seeder.at = "wipe" => /\ seeder.next > 1 => seeded.logs = 0
                                 /\ seeder.next > 2 => seeded.events = 0
        /\ seeder.wipe /\ seeder.at \in {"users", "posts", "comments", "check"}
              => seeded.logs = 0
        /\ seeder.at = "logs" => seeded.logs = 0
        /\ seeder.at = "events" => seeded.events = 0 /\ seeded.attempts = 0
        /\ seeder.at = "attempts" => seeded.attempts = 0 /\ seeded.logs > 0
        /\ seeder.at = "events" => seeded.logs > 0

\* After a run came to its end the next one, if it does not wipe, finds every
\* table filled and passes it by, but for titles that were edited away.
Completed ==
    complete =>
        /\ ~seeder.wipe
        /\ seeder.at \in {"idle", "users", "posts", "comments", "check", "deployments"}
        /\ seeder.at = "comments" => gone[seeder.next] > 0
        /\ seeded.logs > 0 \/ visits
        /\ \A u \in 1..SeedUsers : u \in names
        /\ \A p \in 1..SeedPosts : p \in titles \/ gone[p] > 0
        /\ seeded.deployments = 1 \/ recorded

SeedInv == SeederOK /\ TablesOK /\ Progress /\ Regular /\ Completed

\* One table of the seven is written.
LEMMA TableSet ==
    ASSUME TablesOK, NEW t \in Tables, NEW v, seeded' = [seeded EXCEPT ![t] = v]
    PROVE  /\ seeded' = [x \in Tables |-> seeded'[x]]
           /\ seeded'[t] = v
           /\ \A x \in Tables \ {t} : seeded'[x] = seeded[x]
BY DEF TablesOK

\* The run comes to another place, with the options it was started with.
LEMMA ProceedSets ==
    ASSUME SeederOK, NEW at \in Stages, Proceed(at)
    PROVE  /\ seeder' \in SeederType /\ seeder'.at = at /\ seeder'.next = 1
           /\ seeder'.wipe = seeder.wipe /\ seeder'.logs = seeder.logs
<1>1. seeder \in SeederType /\ seeder' = [seeder EXCEPT !.at = at, !.next = 1]
  BY DEF SeederOK, Proceed
<1>2. seeder' \in SeederType /\ seeder'.at = at /\ seeder'.next = 1
  BY <1>1 DEF SeederType
<1>3. seeder'.wipe = seeder.wipe
  BY <1>1, Zenon DEF SeederType
<1>4. seeder'.logs = seeder.logs
  BY <1>1, Zenon DEF SeederType
<1> QED BY <1>2, <1>3, <1>4

LEMMA LoopSets ==
    ASSUME SeederOK, NEW n \in Nat, NEW after \in Stages, Loop(n, after)
    PROVE  /\ seeder' \in SeederType
           /\ seeder'.wipe = seeder.wipe /\ seeder'.logs = seeder.logs
           /\ \/ seeder.next < n /\ seeder'.at = seeder.at /\ seeder'.next = seeder.next + 1
              \/ seeder.next >= n /\ seeder'.at = after /\ seeder'.next = 1
<1>1. CASE seeder.next < n
  <2>1. seeder' = [seeder EXCEPT !.next = @ + 1]
    BY <1>1 DEF Loop, Repeat
  <2>2. /\ seeder' \in SeederType /\ seeder'.at = seeder.at
        /\ seeder'.next = seeder.next + 1
    BY <2>1 DEF SeederOK, SeederType
  <2>3. seeder'.wipe = seeder.wipe
    BY <2>1, Zenon DEF SeederOK, SeederType
  <2>4. seeder'.logs = seeder.logs
    BY <2>1, Zenon DEF SeederOK, SeederType
  <2> QED BY <1>1, <2>2, <2>3, <2>4
<1>2. CASE ~(seeder.next < n)
  <2>1. seeder.next >= n
    BY <1>2 DEF SeederOK, SeederType
  <2> QED BY <1>2, <2>1, ProceedSets DEF Loop
<1> QED BY <1>1, <1>2

LEMMA SeedInvInit == SeedInit => SeedInv
<1> SUFFICES ASSUME SeedInit PROVE SeedInv
  OBVIOUS
<1> USE SeedingAssumption DEF SeedInit, NoSeeder
<1>1. SeederOK
  BY DEF SeederOK, SeederType, Stages
<1>2. TablesOK
  <2>1. seeded = [t \in Tables |-> seeded[t]]
    BY DEF Tables
  <2>2. /\ seeded.users \in [1..SeedUsers -> {0, 1}]
        /\ seeded.posts \in [1..SeedPosts -> Nat]
        /\ gone \in [1..SeedPosts -> Nat]
        /\ names \subseteq 1..SeedUsers /\ titles \subseteq 1..SeedPosts
        /\ seeded.comments \in [1..SeedPosts -> 0..MaxComments]
    OBVIOUS
  <2>3. /\ seeded.logs = 0 /\ seeded.events = 0 /\ seeded.attempts = 0
        /\ seeded.deployments = 0
    OBVIOUS
  <2>4. visits \in BOOLEAN /\ recorded \in BOOLEAN /\ irregular \in BOOLEAN /\ complete \in BOOLEAN
    OBVIOUS
  <2> QED BY <2>1, <2>2, <2>3, <2>4 DEF TablesOK
<1>3. Progress /\ Regular /\ Completed
  BY DEF Progress, Regular, Completed
<1> QED BY <1>1, <1>2, <1>3 DEF SeedInv

LEMMA StartKeeps ==
    ASSUME SeedInv, StartSeeding
    PROVE  SeedInv'
<1> USE DEF SeedInv
<1>1. PICK wipe \in BOOLEAN, logs \in BOOLEAN :
        /\ seeder' = [at |-> IF wipe THEN "wipe" ELSE "users", wipe |-> wipe,
                      logs |-> logs, next |-> 1]
        /\ irregular' = (irregular \/ ~logs)
        /\ complete' = (complete /\ ~wipe)
  BY DEF StartSeeding
<1>2. seeder.at = "idle" /\ UNCHANGED <<seeded, visits, recorded, names, titles, gone>>
  BY DEF StartSeeding, Stage, siteVars
<1>3. /\ seeder' \in SeederType
      /\ seeder'.at = IF wipe THEN "wipe" ELSE "users"
      /\ seeder'.next = 1
  BY <1>1 DEF SeederType, Stages
<1>4. seeder'.wipe = wipe
  BY <1>1, Zenon
<1>5. seeder'.logs = logs
  BY <1>1, Zenon
<1>6. SeederOK'
  BY <1>3, <1>4, SeedingAssumption DEF SeederOK
<1>7. irregular' \in BOOLEAN /\ complete' \in BOOLEAN
  BY <1>1
<1>8. TablesOK'
  BY <1>2, <1>7 DEF TablesOK
<1>9. Progress'
  BY <1>2, <1>3 DEF Progress
<1>10. Regular'
  <2>1. ~irregular' => ~irregular /\ seeder'.logs
    BY <1>1, <1>5
  <2> QED BY <1>2, <1>3, <1>4, <2>1, SeedingAssumption DEF Regular
<1>11. Completed'
  BY <1>1, <1>2, <1>3, <1>4 DEF Completed
<1> QED BY <1>6, <1>8, <1>9, <1>10, <1>11

LEMMA WipeKeeps ==
    ASSUME SeedInv, Wipe
    PROVE  SeedInv'
<1> USE SeedingAssumption DEF SeedInv
<1>1. PICK t : t = <<"logs", "events", "attempts">>[seeder.next]
  OBVIOUS
<1>2. /\ seeder.at = "wipe" /\ seeder.wipe /\ seeder.next \in 1..3
      /\ seeded' = [seeded EXCEPT ![t] = 0]
      /\ visits' = (visits /\ t # "logs")
      /\ Loop(3, "users")
      /\ UNCHANGED <<recorded, names, titles, gone, irregular, complete>>
  BY <1>1 DEF Wipe, SeederOK, Stage
<1>3. /\ \/ seeder.next = 1 /\ t = "logs"
         \/ seeder.next = 2 /\ t = "events"
         \/ seeder.next = 3 /\ t = "attempts"
      /\ t \in Tables
  <2>1. seeder.next = 1 \/ seeder.next = 2 \/ seeder.next = 3
    BY <1>2
  <2> QED BY <1>1, <2>1 DEF Tables
<1>4. /\ seeder' \in SeederType
      /\ seeder'.wipe = seeder.wipe /\ seeder'.logs = seeder.logs
      /\ \/ seeder.next < 3 /\ seeder'.at = "wipe" /\ seeder'.next = seeder.next + 1
         \/ seeder.next >= 3 /\ seeder'.at = "users" /\ seeder'.next = 1
  BY <1>2, LoopSets DEF Stages
<1>5. /\ seeded' = [x \in Tables |-> seeded'[x]]
      /\ seeded'[t] = 0 /\ \A x \in Tables \ {t} : seeded'[x] = seeded[x]
  BY <1>2, <1>3, TableSet
<1>6. /\ seeded'.users = seeded.users /\ seeded'.posts = seeded.posts
      /\ seeded'.comments = seeded.comments /\ seeded'.deployments = seeded.deployments
      /\ seeded'.logs = IF t = "logs" THEN 0 ELSE seeded.logs
      /\ seeded'.events = IF t = "events" THEN 0 ELSE seeded.events
      /\ seeded'.attempts = IF t = "attempts" THEN 0 ELSE seeded.attempts
  BY <1>3, <1>5 DEF Tables
<1>7. SeederOK'
  BY <1>2, <1>4 DEF SeederOK
<1>8. TablesOK'
  <2>1. visits' \in BOOLEAN
    BY <1>2
  <2> QED BY <1>2, <1>5, <1>6, <2>1 DEF TablesOK
<1>9. Progress'
  BY <1>2, <1>4, <1>6 DEF Progress
<1>10. Regular'
  <2> SUFFICES ASSUME ~irregular PROVE Regular'
    BY <1>2 DEF Regular
  <2>1. /\ seeder.logs /\ seeded.logs <= 1 /\ seeded.events <= 1 /\ seeded.attempts <= 1
        /\ seeder.next > 1 => seeded.logs = 0
        /\ seeder.next > 2 => seeded.events = 0
    BY <1>2 DEF Regular
  <2> QED BY <1>2, <1>3, <1>4, <1>6, <2>1 DEF Regular
<1>11. Completed'
  BY <1>2 DEF Completed
<1> QED BY <1>7, <1>8, <1>9, <1>10, <1>11

\* A step that writes nothing adds nothing.
LEMMA NothingAddedIdle ==
    ASSUME SeedInv, UNCHANGED seeded
    PROVE  NothingAdded
BY DEF NothingAdded, SeedInv, TablesOK

LEMMA UserKeeps ==
    ASSUME SeedInv, SeedUser
    PROVE  SeedInv' /\ (complete => UNCHANGED seeded)
<1> USE SeedingAssumption DEF SeedInv
<1>1. PICK n : n = seeder.next
  OBVIOUS
<1>2. /\ seeder.at = "users" /\ n \in 1..SeedUsers
      /\ seeded' = IF n \in names THEN seeded ELSE [seeded EXCEPT !.users[n] = @ + 1]
      /\ names' = names \cup {n}
      /\ Loop(SeedUsers, "posts")
      /\ UNCHANGED <<visits, recorded, titles, gone, irregular, complete>>
  BY <1>1 DEF SeedUser, SeederOK, Stage
<1>3. /\ seeder' \in SeederType
      /\ seeder'.wipe = seeder.wipe /\ seeder'.logs = seeder.logs
      /\ \/ n < SeedUsers /\ seeder'.at = "users" /\ seeder'.next = n + 1
         \/ n >= SeedUsers /\ seeder'.at = "posts" /\ seeder'.next = 1
  BY <1>1, <1>2, LoopSets DEF Stages
<1>4. /\ seeded' = [x \in Tables |-> seeded'[x]]
      /\ \A x \in Tables \ {"users"} : seeded'[x] = seeded[x]
      /\ seeded'.users \in [1..SeedUsers -> {0, 1}]
  <2>1. CASE n \in names
    BY <1>2, <2>1 DEF TablesOK
  <2>2. CASE n \notin names
    <3>1. seeded.users[n] = 0
      BY <1>2, <2>2 DEF Progress, TablesOK
    <3>2. seeded' = [seeded EXCEPT !["users"] = [seeded.users EXCEPT ![n] = 1]]
      <4>1. seeded' = [seeded EXCEPT !.users[n] = @ + 1]
        BY <1>2, <2>2
      <4>2. seeded' = [seeded EXCEPT !.users = [seeded.users EXCEPT ![n] = seeded.users[n] + 1]]
        BY <4>1
      <4> QED BY <3>1, <4>2
    <3>3. [seeded.users EXCEPT ![n] = 1] \in [1..SeedUsers -> {0, 1}]
      BY <1>2 DEF TablesOK
    <3> QED BY <3>2, <3>3, TableSet DEF Tables
  <2> QED BY <2>1, <2>2
<1>5. /\ seeded'.posts = seeded.posts /\ seeded'.comments = seeded.comments
      /\ seeded'.deployments = seeded.deployments /\ seeded'.logs = seeded.logs
      /\ seeded'.events = seeded.events /\ seeded'.attempts = seeded.attempts
  BY <1>4 DEF Tables
<1>6. \A u \in 1..SeedUsers : u # n => seeded'.users[u] = seeded.users[u]
  BY <1>2 DEF TablesOK, Tables
<1>7. SeederOK'
  BY <1>2, <1>3 DEF SeederOK
<1>8. TablesOK'
  BY <1>2, <1>4, <1>5 DEF TablesOK
<1>9. Progress'
  BY <1>1, <1>2, <1>3, <1>5, <1>6 DEF Progress
<1>10. Regular'
  BY <1>2, <1>3, <1>5 DEF Regular
<1>11. Completed' /\ (complete => UNCHANGED seeded)
  BY <1>2, <1>3, <1>5 DEF Completed
<1> QED BY <1>7, <1>8, <1>9, <1>10, <1>11

LEMMA PostKept ==
    ASSUME SeedInv, SeedPost
    PROVE  SeedInv' /\ (complete => NothingAdded)
<1> USE SeedingAssumption DEF SeedInv
<1>1. PICK n : n = seeder.next
  OBVIOUS
<1>2. /\ seeder.at = "posts" /\ n \in 1..SeedPosts
      /\ UNCHANGED <<visits, recorded, names, gone, irregular, complete>>
  BY <1>1 DEF SeedPost, SeederOK, Stage
<1>3. CASE n \notin titles
  <2>1. /\ seeded' = [seeded EXCEPT !.posts[n] = @ + 1, !.comments[n] = 0]
        /\ titles' = titles \cup {n}
        /\ seeder' = [seeder EXCEPT !.at = "comments"]
    BY <1>1, <1>3 DEF SeedPost
  <2>2. /\ seeder' \in SeederType /\ seeder'.at = "comments" /\ seeder'.next = n
    BY <1>1, <2>1 DEF SeederOK, SeederType, Stages
  <2>3. seeder'.wipe = seeder.wipe
    BY <2>1, Zenon DEF SeederOK, SeederType
  <2>4. seeder'.logs = seeder.logs
    BY <2>1, Zenon DEF SeederOK, SeederType
  <2>5. /\ seeded' = [x \in Tables |-> seeded'[x]]
        /\ seeded'.posts = [seeded.posts EXCEPT ![n] = seeded.posts[n] + 1]
        /\ seeded'.comments = [seeded.comments EXCEPT ![n] = 0]
        /\ \A x \in Tables \ {"posts", "comments"} : seeded'[x] = seeded[x]
    BY <2>1 DEF TablesOK, Tables
  <2>6. /\ seeded'.users = seeded.users
        /\ seeded'.deployments = seeded.deployments /\ seeded'.logs = seeded.logs
        /\ seeded'.events = seeded.events /\ seeded'.attempts = seeded.attempts
    BY <2>5 DEF Tables
  <2>7. /\ seeded'.posts \in [1..SeedPosts -> Nat]
        /\ seeded'.posts[n] = seeded.posts[n] + 1
        /\ seeded'.comments \in [1..SeedPosts -> 0..MaxComments] /\ seeded'.comments[n] = 0
        /\ \A p \in 1..SeedPosts : p # n => /\ seeded'.posts[p] = seeded.posts[p]
                                            /\ seeded'.comments[p] = seeded.comments[p]
    <3>1. /\ seeded.posts \in [1..SeedPosts -> Nat]
          /\ seeded.comments \in [1..SeedPosts -> 0..MaxComments]
      BY DEF TablesOK
    <3>2. seeded.posts[n] + 1 \in Nat /\ 0 \in 0..MaxComments
      BY <1>2, <3>1
    <3>3. /\ seeded'.posts \in [1..SeedPosts -> Nat]
          /\ seeded'.posts[n] = seeded.posts[n] + 1
          /\ \A p \in 1..SeedPosts : p # n => seeded'.posts[p] = seeded.posts[p]
      BY <1>2, <2>5, <3>1, <3>2
    <3>4. /\ seeded'.comments \in [1..SeedPosts -> 0..MaxComments]
          /\ seeded'.comments[n] = 0
          /\ \A p \in 1..SeedPosts : p # n => seeded'.comments[p] = seeded.comments[p]
      BY <1>2, <2>5, <3>1, <3>2
    <3> QED BY <3>3, <3>4
  <2>8. complete => gone[n] > 0
    BY <1>2, <1>3 DEF Completed
  <2>9. SeederOK'
    BY <1>2, <2>2 DEF SeederOK
  <2>10. TablesOK'
    BY <1>2, <2>1, <2>5, <2>6, <2>7 DEF TablesOK
  <2>11. Progress'
    <3>1. \A p \in 1..SeedPosts :
             seeded'.posts[p] <= gone[p] + (IF p \in titles' THEN 1 ELSE 0)
      <4> TAKE p \in 1..SeedPosts
      <4>1. seeded.posts[p] \in Nat /\ gone[p] \in Nat
        BY DEF TablesOK
      <4>2. seeded.posts[p] <= gone[p] + (IF p \in titles THEN 1 ELSE 0)
        BY DEF Progress
      <4>3. CASE p = n
        BY <1>3, <2>1, <2>7, <4>1, <4>2, <4>3
      <4>4. CASE p # n
        BY <2>1, <2>7, <4>1, <4>2, <4>4
      <4> QED BY <4>3, <4>4
    <3>2. \A u \in 1..SeedUsers : u \in names
      BY <1>2 DEF Progress
    <3>3. \A p \in 1..SeedPosts : p <= n => p \in titles' \/ gone[p] > 0
      BY <1>1, <1>2, <2>1 DEF Progress
    <3> QED BY <1>2, <2>2, <2>7, <3>1, <3>2, <3>3 DEF Progress
  <2>12. Regular'
    BY <1>2, <2>2, <2>3, <2>4, <2>6 DEF Regular
  <2>13. Completed'
    BY <1>2, <2>1, <2>2, <2>3, <2>6, <2>8 DEF Completed
  <2>14. complete => NothingAdded
    <3>1. seeded.logs \in Nat
      BY DEF TablesOK
    <3>2. complete => \A p \in 1..SeedPosts : gone[p] = 0 => p # n
      BY <1>2, <2>8 DEF TablesOK
    <3> QED BY <2>6, <2>7, <3>1, <3>2 DEF NothingAdded
  <2> QED BY <2>9, <2>10, <2>11, <2>12, <2>13, <2>14
<1>4. CASE n \in titles
  <2>1. Loop(SeedPosts, "check") /\ UNCHANGED <<seeded, titles>>
    BY <1>1, <1>4 DEF SeedPost
  <2>2. /\ seeder' \in SeederType
        /\ seeder'.wipe = seeder.wipe /\ seeder'.logs = seeder.logs
        /\ \/ n < SeedPosts /\ seeder'.at = "posts" /\ seeder'.next = n + 1
           \/ n >= SeedPosts /\ seeder'.at = "check" /\ seeder'.next = 1
    BY <1>1, <1>2, <2>1, LoopSets DEF Stages
  <2>3. TablesOK'
    BY <1>2, <2>1 DEF TablesOK
  <2>4. SeederOK'
    BY <1>2, <2>2 DEF SeederOK
  <2>5. Progress'
    BY <1>1, <1>2, <1>4, <2>1, <2>2 DEF Progress
  <2>6. Regular'
    BY <1>2, <2>1, <2>2 DEF Regular
  <2>7. Completed'
    BY <1>2, <2>1, <2>2 DEF Completed
  <2> QED BY <2>1, <2>3, <2>4, <2>5, <2>6, <2>7, NothingAddedIdle
<1> QED BY <1>3, <1>4

LEMMA CommentKeeps ==
    ASSUME SeedInv, SeedComment
    PROVE  SeedInv' /\ (complete => NothingAdded)
<1> USE SeedingAssumption DEF SeedInv
<1>1. PICK n : n = seeder.next
  OBVIOUS
<1>2. /\ seeder.at = "comments" /\ n \in 1..SeedPosts
      /\ seeded' = [seeded EXCEPT !.comments[n] = @ + 1]
      /\ UNCHANGED <<visits, recorded, names, titles, gone, irregular, complete>>
  BY <1>1 DEF SeedComment, SeederOK, Stage, siteVars
<1>3. complete => gone[n] > 0
  BY <1>1, <1>2 DEF Completed
<1>4. PICK c \in 1..MaxComments :
        /\ seeded' = [x \in Tables |-> seeded'[x]]
        /\ seeded'.comments = [seeded.comments EXCEPT ![n] = c]
        /\ \A x \in Tables \ {"comments"} : seeded'[x] = seeded[x]
  <2>1. seeded.comments[n] \in 0..MaxComments /\ seeded.comments[n] < MaxComments
    BY <1>1, <1>2 DEF TablesOK, Progress
  <2>2. seeded.comments[n] + 1 \in 1..MaxComments
    BY <2>1
  <2>3. /\ seeded' = [x \in Tables |-> seeded'[x]]
        /\ seeded'.comments = [seeded.comments EXCEPT ![n] = seeded.comments[n] + 1]
        /\ \A x \in Tables \ {"comments"} : seeded'[x] = seeded[x]
    BY <1>2 DEF TablesOK, Tables
  <2> QED BY <2>2, <2>3
<1>5. /\ seeded'.users = seeded.users /\ seeded'.posts = seeded.posts
      /\ seeded'.deployments = seeded.deployments /\ seeded'.logs = seeded.logs
      /\ seeded'.events = seeded.events /\ seeded'.attempts = seeded.attempts
  BY <1>4 DEF Tables
<1>6. /\ seeded'.comments \in [1..SeedPosts -> 0..MaxComments] /\ seeded'.comments[n] = c
      /\ \A p \in 1..SeedPosts : p # n => seeded'.comments[p] = seeded.comments[p]
  <2>1. seeded.comments \in [1..SeedPosts -> 0..MaxComments] /\ c \in 0..MaxComments
    BY DEF TablesOK
  <2> QED BY <1>2, <1>4, <2>1
<1>7. TablesOK'
  BY <1>2, <1>4, <1>5, <1>6 DEF TablesOK
<1>8. complete => NothingAdded
  BY <1>3, <1>4, <1>5, <1>6 DEF NothingAdded, TablesOK, Tables
<1>9. CASE c < MaxComments /\ UNCHANGED seeder
  <2>1. SeederOK' /\ Progress'
    BY <1>1, <1>2, <1>5, <1>6, <1>9 DEF SeederOK, Progress
  <2>2. Regular'
    BY <1>2, <1>5, <1>9 DEF Regular
  <2>3. Completed'
    BY <1>2, <1>5, <1>9 DEF Completed
  <2> QED BY <1>7, <1>8, <2>1, <2>2, <2>3
<1>10. CASE ~(seeded'.comments[seeder.next] < MaxComments /\ UNCHANGED seeder)
  <2>1. /\ seeder' \in SeederType
        /\ seeder'.wipe = seeder.wipe /\ seeder'.logs = seeder.logs
        /\ \/ n < SeedPosts /\ seeder'.at = "posts" /\ seeder'.next = n + 1
           \/ n >= SeedPosts /\ seeder'.at = "check" /\ seeder'.next = 1
    <3>1. CASE n < SeedPosts
      <4>1. seeder' = [seeder EXCEPT !.at = "posts", !.next = @ + 1]
        BY <1>1, <1>10, <3>1 DEF SeedComment
      <4>2. seeder' = [seeder EXCEPT !.at = "posts", !.next = n + 1] /\ n + 1 \in Nat
        BY <1>1, <1>2, <4>1
      <4>5. seeder' \in SeederType /\ seeder'.at = "posts" /\ seeder'.next = n + 1
        BY <4>2 DEF SeederOK, SeederType, Stages
      <4>3. seeder'.wipe = seeder.wipe
        BY <4>1, Zenon DEF SeederOK, SeederType
      <4>4. seeder'.logs = seeder.logs
        BY <4>1, Zenon DEF SeederOK, SeederType
      <4> QED BY <3>1, <4>5, <4>3, <4>4
    <3>2. CASE ~(n < SeedPosts)
      <4>1. Proceed("check")
        BY <1>1, <1>10, <3>2 DEF SeedComment
      <4>2. n >= SeedPosts
        BY <1>2, <3>2
      <4> QED BY <4>1, <4>2, ProceedSets DEF Stages
    <3> QED BY <3>1, <3>2
  <2>3. SeederOK'
    BY <1>2, <2>1 DEF SeederOK
  <2>4. Progress'
    BY <1>1, <1>2, <1>5, <1>6, <2>1 DEF Progress
  <2>5. Regular'
    BY <1>2, <1>5, <2>1 DEF Regular
  <2>6. Completed'
    BY <1>2, <1>5, <2>1 DEF Completed
  <2> QED BY <1>7, <1>8, <2>3, <2>4, <2>5, <2>6
<1> QED BY <1>1, <1>6, <1>9, <1>10

LEMMA CheckKeeps ==
    ASSUME SeedInv, CheckLogs
    PROVE  SeedInv'
<1> USE SeedingAssumption DEF SeedInv
<1>1. /\ seeder.at = "check"
      /\ UNCHANGED <<seeded, visits, recorded, names, titles, gone, irregular, complete>>
  BY DEF CheckLogs, Stage, siteVars
<1>2. /\ seeder' \in SeederType /\ seeder'.next = 1
      /\ seeder'.wipe = seeder.wipe /\ seeder'.logs = seeder.logs
      /\ \/ seeder'.at = "deployments" /\ ~seeder.wipe /\ (seeded.logs > 0 \/ visits)
         \/ seeder'.at = "logs" /\ (seeder.wipe \/ (~(seeded.logs > 0) /\ ~visits))
  <2>1. CASE (seeded.logs > 0 \/ visits) /\ ~seeder.wipe
    <3>1. Proceed("deployments")
      BY <2>1 DEF CheckLogs
    <3> QED BY <2>1, <3>1, ProceedSets DEF Stages
  <2>2. CASE ~((seeded.logs > 0 \/ visits) /\ ~seeder.wipe)
    <3>1. Proceed("logs")
      BY <2>2 DEF CheckLogs
    <3> QED BY <2>2, <3>1, ProceedSets DEF Stages
  <2> QED BY <2>1, <2>2
<1>3. SeederOK' /\ TablesOK' /\ Progress'
  BY <1>1, <1>2 DEF SeederOK, TablesOK, Progress
<1>4. Regular'
  <2> SUFFICES ASSUME ~irregular PROVE Regular'
    BY <1>1 DEF Regular
  <2>1. /\ seeder.logs /\ seeded.logs <= 1 /\ seeded.events <= 1 /\ seeded.attempts <= 1
        /\ seeded.logs = 0 => seeded.events = 0 /\ seeded.attempts = 0
        /\ seeder.wipe => seeded.logs = 0
        /\ ~(seeded.logs > 0) => seeded.logs = 0
    BY <1>1 DEF Regular, TablesOK
  <2> QED BY <1>1, <1>2, <2>1 DEF Regular
<1>5. Completed'
  BY <1>1, <1>2 DEF Completed
<1> QED BY <1>3, <1>4, <1>5

\* The three tables of a batch.
LEMMA BatchKeeps ==
    ASSUME SeedInv, SeedLogs \/ SeedEvents \/ SeedAttempts
    PROVE  SeedInv' /\ ~complete
<1> USE SeedingAssumption DEF SeedInv
<1>1. UNCHANGED <<visits, recorded, names, titles, gone, irregular, complete>>
  BY DEF SeedLogs, SeedEvents, SeedAttempts, siteVars
<1>2. PICK t \in {"logs", "events", "attempts"}, after \in {"events", "attempts", "deployments"} :
        /\ t = "logs" => after = "events"
        /\ t = "events" => after = "attempts"
        /\ t = "attempts" => after = "deployments"
        /\ seeder.at = t /\ Proceed(after)
        /\ seeded' = seeded \/ seeded' = [seeded EXCEPT ![t] = seeded[t] + 1]
        /\ t = "logs" /\ seeder.logs => seeded' = [seeded EXCEPT ![t] = seeded[t] + 1]
  <2>1. CASE SeedLogs
    BY <2>1 DEF SeedLogs, Stage
  <2>2. CASE SeedEvents
    BY <2>2 DEF SeedEvents, Stage
  <2>3. CASE SeedAttempts
    BY <2>3 DEF SeedAttempts, Stage
  <2> QED BY <2>1, <2>2, <2>3
<1>3. ~complete
  BY <1>2 DEF Completed
<1>4. /\ seeder' \in SeederType /\ seeder'.at = after /\ seeder'.next = 1
      /\ seeder'.wipe = seeder.wipe /\ seeder'.logs = seeder.logs
  BY <1>2, ProceedSets DEF Stages
<1>5. PICK n \in Nat :
        /\ seeded' = [x \in Tables |-> seeded'[x]] /\ seeded'[t] = n
        /\ \A x \in Tables \ {t} : seeded'[x] = seeded[x]
        /\ n <= seeded[t] + 1
        /\ t = "logs" /\ seeder.logs => n = seeded.logs + 1
  <2>1. t \in Tables /\ seeded[t] \in Nat
    BY <1>2 DEF Tables, TablesOK
  <2>2. CASE seeded' = seeded /\ ~(t = "logs" /\ seeder.logs)
    BY <2>1, <2>2 DEF TablesOK
  <2>3. CASE seeded' = [seeded EXCEPT ![t] = seeded[t] + 1]
    <3>1. seeded[t] + 1 \in Nat /\ seeded[t] + 1 <= seeded[t] + 1
      BY <2>1
    <3>2. /\ seeded' = [x \in Tables |-> seeded'[x]] /\ seeded'[t] = seeded[t] + 1
          /\ \A x \in Tables \ {t} : seeded'[x] = seeded[x]
      BY <2>1, <2>3, TableSet
    <3>3. t = "logs" => seeded[t] = seeded.logs
      OBVIOUS
    <3> QED BY <3>1, <3>2, <3>3
  <2> QED BY <1>2, <2>2, <2>3
<1>6. /\ seeded'.users = seeded.users /\ seeded'.posts = seeded.posts
      /\ seeded'.comments = seeded.comments /\ seeded'.deployments = seeded.deployments
      /\ seeded'.logs = IF t = "logs" THEN n ELSE seeded.logs
      /\ seeded'.events = IF t = "events" THEN n ELSE seeded.events
      /\ seeded'.attempts = IF t = "attempts" THEN n ELSE seeded.attempts
  BY <1>2, <1>5 DEF Tables
<1>7. SeederOK'
  BY <1>2, <1>4 DEF SeederOK
<1>8. TablesOK'
  BY <1>1, <1>5, <1>6 DEF TablesOK
<1>9. Progress'
  BY <1>1, <1>2, <1>4, <1>6 DEF Progress
<1>10. Regular'
  <2> SUFFICES ASSUME ~irregular PROVE Regular'
    BY <1>1 DEF Regular
  <2>1. /\ seeder.logs /\ seeded.logs <= 1 /\ seeded.events <= 1 /\ seeded.attempts <= 1
        /\ t = "logs" => seeded.logs = 0 /\ seeded.events = 0 /\ seeded.attempts = 0
        /\ t = "events" => seeded.events = 0 /\ seeded.attempts = 0 /\ seeded.logs > 0
        /\ t = "attempts" => seeded.attempts = 0 /\ seeded.logs > 0
    BY <1>2 DEF Regular
  <2>2. CASE t = "logs"
    BY <1>1, <1>2, <1>4, <1>5, <1>6, <2>1, <2>2 DEF Regular
  <2>3. CASE t = "events"
    BY <1>1, <1>2, <1>4, <1>5, <1>6, <2>1, <2>3 DEF Regular, TablesOK
  <2>4. CASE t = "attempts"
    BY <1>1, <1>2, <1>4, <1>5, <1>6, <2>1, <2>4 DEF Regular, TablesOK
  <2> QED BY <2>2, <2>3, <2>4
<1>11. Completed'
  BY <1>1, <1>3 DEF Completed
<1> QED BY <1>3, <1>7, <1>8, <1>9, <1>10, <1>11

LEMMA NoSeederFacts ==
    /\ NoSeeder \in SeederType /\ NoSeeder.at = "idle" /\ ~NoSeeder.wipe
BY DEF NoSeeder, SeederType, Stages

LEMMA DeploymentsKeep ==
    ASSUME SeedInv, SeedDeployments
    PROVE  SeedInv' /\ (complete => UNCHANGED seeded)
<1> USE SeedingAssumption, NoSeederFacts DEF SeedInv
<1>1. /\ seeder.at = "deployments" /\ seeder' = NoSeeder
      /\ complete' = (seeded.logs > 0 \/ visits)
      /\ UNCHANGED <<visits, recorded, names, titles, gone, irregular>>
  BY DEF SeedDeployments, Stage, siteVars
<1>2. complete => UNCHANGED seeded
  BY DEF SeedDeployments, Completed, TablesOK
<1>3. /\ seeded' = [x \in Tables |-> seeded'[x]]
      /\ \A x \in Tables \ {"deployments"} : seeded'[x] = seeded[x]
      /\ seeded'.deployments \in {0, 1}
      /\ seeded'.deployments = 1 \/ recorded
  <2>1. CASE seeded.deployments = 0 /\ ~recorded
    <3>1. seeded' = [seeded EXCEPT !["deployments"] = 1] /\ "deployments" \in Tables
      BY <2>1 DEF SeedDeployments, Tables
    <3> QED BY <3>1, TableSet
  <2>2. CASE ~(seeded.deployments = 0 /\ ~recorded)
    BY <2>2 DEF SeedDeployments, TablesOK
  <2> QED BY <2>1, <2>2
<1>4. /\ seeded'.users = seeded.users /\ seeded'.posts = seeded.posts
      /\ seeded'.comments = seeded.comments /\ seeded'.logs = seeded.logs
      /\ seeded'.events = seeded.events /\ seeded'.attempts = seeded.attempts
  BY <1>3 DEF Tables
<1>5. SeederOK'
  BY <1>1 DEF SeederOK
<1>6. TablesOK'
  <2>1. complete' \in BOOLEAN
    BY <1>1
  <2> QED BY <1>1, <1>3, <1>4, <2>1 DEF TablesOK
<1>7. Progress'
  BY <1>1, <1>4 DEF Progress
<1>8. Regular'
  BY <1>1, <1>4 DEF Regular
<1>9. Completed'
  BY <1>1, <1>3, <1>4 DEF Completed, Progress
<1> QED BY <1>2, <1>5, <1>6, <1>7, <1>8, <1>9

LEMMA OtherSeedKeeps ==
    ASSUME SeedInv,
           BreakOff \/ Visit \/ Register \/ RecordDeploy \/ UNCHANGED seedVars
    PROVE  SeedInv' /\ UNCHANGED seeded
<1> USE SeedingAssumption, NoSeederFacts DEF SeedInv
<1>1. CASE BreakOff
  <2>1. /\ seeder' = NoSeeder /\ irregular' = TRUE
        /\ UNCHANGED <<seeded, visits, recorded, names, titles, gone, complete>>
    BY <1>1 DEF BreakOff, siteVars
  <2>2. SeederOK' /\ Progress'
    BY <2>1 DEF SeederOK, Progress
  <2>3. TablesOK'
    <3>1. irregular' \in BOOLEAN
      BY <2>1
    <3> QED BY <2>1, <3>1 DEF TablesOK
  <2>4. Regular' /\ Completed'
    BY <2>1 DEF Regular, Completed
  <2> QED BY <2>1, <2>2, <2>3, <2>4
<1>2. CASE Visit \/ Register \/ RecordDeploy \/ UNCHANGED seedVars
  <2>1. UNCHANGED <<seeded, seeder, titles, gone, irregular, complete>>
    BY <1>2 DEF Visit, Register, RecordDeploy, seedVars, siteVars
  <2>2. /\ visits' \in BOOLEAN /\ recorded' \in BOOLEAN
        /\ visits => visits'
        /\ recorded => recorded'
        /\ names \subseteq names' /\ names' \subseteq 1..SeedUsers
    BY <1>2 DEF Visit, Register, RecordDeploy, seedVars, siteVars, TablesOK
  <2>3. SeederOK' /\ TablesOK' /\ Progress' /\ Regular'
    BY <2>1, <2>2 DEF SeederOK, TablesOK, Progress, Regular
  <2>4. Completed'
    BY <2>1, <2>2 DEF Completed
  <2> QED BY <2>1, <2>3, <2>4
<1> QED BY <1>1, <1>2

LEMMA RetitleKeeps ==
    ASSUME SeedInv, Retitle
    PROVE  SeedInv' /\ UNCHANGED seeded
<1> USE SeedingAssumption DEF SeedInv
<1>1. UNCHANGED <<seeded, visits, recorded, names, seeder, irregular, complete>>
  BY DEF Retitle
<1>2. /\ titles' \subseteq 1..SeedPosts /\ gone' \in [1..SeedPosts -> Nat]
      /\ \A p \in 1..SeedPosts :
            \/ gone'[p] = gone[p] /\ (p \in titles => p \in titles')
            \/ gone'[p] = gone[p] + 1 /\ p \in titles
  <2>1. PICK old \in titles \cup {0}, q \in 0..SeedPosts :
          /\ titles' = (titles \ {old}) \cup ({q} \ {0})
          /\ gone' = IF old \in titles \ titles' THEN [gone EXCEPT ![old] = @ + 1] ELSE gone
    BY DEF Retitle
  <2>2. titles \subseteq 1..SeedPosts /\ gone \in [1..SeedPosts -> Nat] /\ SeedPosts \in Nat
    BY DEF TablesOK
  <2>3. titles' \subseteq 1..SeedPosts
    <3>1. {q} \ {0} \subseteq 1..SeedPosts
      BY <2>2
    <3> QED BY <2>1, <2>2, <3>1
  <2>4. CASE old \in titles \ titles'
    <3>1. gone' = [gone EXCEPT ![old] = gone[old] + 1] /\ old \in 1..SeedPosts
      BY <2>1, <2>2, <2>4
    <3>2. gone[old] + 1 \in Nat
      BY <2>2, <3>1
    <3>3. gone' \in [1..SeedPosts -> Nat]
      BY <2>2, <3>1, <3>2
    <3>4. ASSUME NEW p \in 1..SeedPosts
          PROVE  \/ gone'[p] = gone[p] /\ (p \in titles => p \in titles')
                 \/ gone'[p] = gone[p] + 1 /\ p \in titles
      <4>1. CASE p = old
        BY <2>2, <2>4, <3>1, <4>1
      <4>2. CASE p # old
        <5>1. gone'[p] = gone[p]
          BY <2>2, <3>1, <4>2
        <5> QED BY <2>1, <4>2, <5>1
      <4> QED BY <4>1, <4>2
    <3> QED BY <2>3, <3>3, <3>4
  <2>5. CASE old \notin titles \ titles'
    <3>1. gone' = gone
      BY <2>1, <2>5
    <3>2. \A p \in titles : p \in titles'
      BY <2>1, <2>5
    <3> QED BY <2>2, <2>3, <3>1, <3>2
  <2> QED BY <2>4, <2>5
<1>3. SeederOK' /\ TablesOK' /\ Regular'
  BY <1>1, <1>2 DEF SeederOK, TablesOK, Regular
<1>4. \A p \in 1..SeedPosts : /\ gone[p] \in Nat /\ gone'[p] \in Nat
                              /\ p \in titles \/ gone[p] > 0 => p \in titles' \/ gone'[p] > 0
                              /\ gone[p] > 0 => gone'[p] > 0
  BY <1>2 DEF TablesOK
<1>5. \A p \in 1..SeedPosts :
         seeded'.posts[p] <= gone'[p] + (IF p \in titles' THEN 1 ELSE 0)
  <2> TAKE p \in 1..SeedPosts
  <2>1. seeded.posts[p] \in Nat /\ gone[p] \in Nat /\ seeded'.posts[p] = seeded.posts[p]
    BY <1>1 DEF TablesOK
  <2>2. seeded.posts[p] <= gone[p] + (IF p \in titles THEN 1 ELSE 0)
    BY DEF Progress
  <2>3. CASE gone'[p] = gone[p] /\ (p \in titles => p \in titles')
    BY <2>1, <2>2, <2>3
  <2>4. CASE gone'[p] = gone[p] + 1 /\ p \in titles
    BY <2>1, <2>2, <2>4
  <2> QED BY <1>2, <2>3, <2>4
<1>6. Progress'
  BY <1>1, <1>4, <1>5 DEF Progress
<1>7. Completed'
  BY <1>1, <1>4 DEF Completed, SeederOK
<1> QED BY <1>1, <1>3, <1>6, <1>7

LEMMA PurgeLogsKeeps ==
    ASSUME SeedInv, PurgeLogs
    PROVE  SeedInv' /\ NothingAdded
<1> USE SeedingAssumption DEF SeedInv
<1>1. PICK n \in 0..seeded.logs : seeded' = [seeded EXCEPT !["logs"] = n]
  BY DEF PurgeLogs
<1>2. /\ visits' \in {visits, FALSE} /\ irregular' = TRUE
      /\ complete' = (complete /\ (seeded'.logs > 0 \/ visits'))
      /\ UNCHANGED <<recorded, names, titles, gone, seeder>>
  BY DEF PurgeLogs
<1>3. /\ seeded' = [x \in Tables |-> seeded'[x]] /\ seeded'.logs = n
      /\ \A x \in Tables \ {"logs"} : seeded'[x] = seeded[x]
  BY <1>1, TableSet DEF Tables
<1>4. /\ seeded'.users = seeded.users /\ seeded'.posts = seeded.posts
      /\ seeded'.comments = seeded.comments /\ seeded'.deployments = seeded.deployments
      /\ seeded'.events = seeded.events /\ seeded'.attempts = seeded.attempts
  BY <1>3 DEF Tables
<1>5. n \in Nat /\ n <= seeded.logs
  BY DEF TablesOK
<1>6. SeederOK' /\ Progress' /\ Regular'
  BY <1>2, <1>4 DEF SeederOK, Progress, Regular
<1>7. TablesOK'
  <2>1. visits' \in BOOLEAN /\ irregular' \in BOOLEAN /\ complete' \in BOOLEAN
    BY <1>2 DEF TablesOK
  <2> QED BY <1>2, <1>3, <1>4, <1>5, <2>1 DEF TablesOK
<1>8. Completed'
  BY <1>2, <1>4 DEF Completed
<1>9. NothingAdded
  BY <1>3, <1>4, <1>5 DEF NothingAdded
<1> QED BY <1>6, <1>7, <1>8, <1>9

LEMMA SeedStep ==
    ASSUME SeedInv, [SeedNext]_seedVars
    PROVE  SeedInv' /\ (complete => NothingAdded)
<1>1. CASE Wipe
  <2>1. ~complete
    BY <1>1 DEF Wipe, Stage, SeedInv, Completed
  <2> QED BY <1>1, <2>1, WipeKeeps
<1>2. CASE StartSeeding \/ CheckLogs
  BY <1>2, StartKeeps, CheckKeeps, NothingAddedIdle DEF StartSeeding, CheckLogs
<1>3. CASE SeedUser \/ SeedDeployments
  BY <1>3, UserKeeps, DeploymentsKeep, NothingAddedIdle
<1>4. CASE SeedPost \/ SeedComment
  BY <1>4, PostKept, CommentKeeps
<1>5. CASE SeedLogs \/ SeedEvents \/ SeedAttempts
  BY <1>5, BatchKeeps
<1>6. CASE BreakOff \/ Visit \/ Register \/ RecordDeploy \/ UNCHANGED seedVars
  BY <1>6, OtherSeedKeeps, NothingAddedIdle
<1>7. CASE Retitle \/ PurgeLogs
  BY <1>7, RetitleKeeps, PurgeLogsKeeps, NothingAddedIdle
<1> QED BY <1>1, <1>2, <1>3, <1>4, <1>5, <1>6, <1>7 DEF SeedNext

LEMMA ConsoleSeeding == [ConsoleNext]_consoleVars => [SeedNext]_seedVars
BY DEF ConsoleNext, consoleVars

\* Whatever runs broke off and were started again, no user is written twice and
\* no post more often than its title was edited away and once more; and runs that
\* come to their end leave one batch of each log (seed_data.py main), for any
\* number of users, posts and comments.
THEOREM SeedsOnce == ConsoleSpec => []SeededOnce
<1>1. ConsoleInit => SeedInv
  BY SeedInvInit DEF ConsoleInit
<1>2. SeedInv /\ [SeedNext]_seedVars => SeedInv'
  BY SeedStep
<1>3. SeedInv => SeededOnce
  <2> SUFFICES ASSUME SeedInv PROVE SeededOnce
    OBVIOUS
  <2>1. \A u \in 1..SeedUsers : seeded.users[u] <= 1
    <3>1. \A u \in 1..SeedUsers : seeded.users[u] \in {0, 1}
      BY DEF SeedInv, TablesOK
    <3> QED BY <3>1
  <2>2. \A p \in 1..SeedPosts : /\ seeded.posts[p] <= 1 + gone[p]
                                /\ seeded.comments[p] <= MaxComments
    <3> TAKE p \in 1..SeedPosts
    <3>1. seeded.posts[p] \in Nat /\ gone[p] \in Nat /\ seeded.comments[p] \in 0..MaxComments
      BY DEF SeedInv, TablesOK
    <3>2. seeded.posts[p] <= gone[p] + (IF p \in titles THEN 1 ELSE 0)
      BY DEF SeedInv, Progress
    <3> QED BY <3>1, <3>2, SeedingAssumption
  <2> QED BY <2>1, <2>2 DEF SeedInv, TablesOK, Regular, SeededOnce
<1> QED BY <1>1, <1>2, <1>3, ConsoleSafety, ConsoleSeeding, PTL

\* A run without --wipe-logs after one that came to its end writes nothing but
\* posts whose title was edited away (seed_data.py seed_posts), also when visitors
\* registered and wrote, logs were purged to the last but one row or the site was
\* deployed in between.
THEOREM RerunsAddNothing == ConsoleSpec => RerunsChangeNothing
<1>1. ConsoleInit => SeedInv
  BY SeedInvInit DEF ConsoleInit
<1>2. SeedInv /\ [SeedNext]_seedVars => SeedInv'
  BY SeedStep
<1>3. SeedInv /\ [SeedNext]_seedVars
        => [complete /\ ~seeder.wipe => NothingAdded]_seedVars
  BY SeedStep
<1> QED BY <1>1, <1>2, <1>3, ConsoleSafety, ConsoleSeeding, PTL DEF RerunsChangeNothing

----------------------------------------------------------------------------
(* The paged lists.                                                        *)

Walk == [at : {"count", "rows", "end"}, page : Nat \ {0}, total : Nat, seen : SUBSET Nat]

ListRow == [id : Nat, flag : BOOLEAN]

ListTypes ==
    /\ list \in ListNames /\ narrow \in BOOLEAN
    /\ rows \in Seq(ListRow)
    /\ walk \in Walk
    /\ there \subseteq Nat \ {0}
    /\ slipped \in BOOLEAN /\ shrunk \in BOOLEAN

\* A row the reader has not seen has not moved in front of his page.
NonePassed ==
    walk.at # "end" /\ ~shrunk =>
        \A i \in ShownAt : rows[i].id \in there =>
            rows[i].id \in walk.seen \/ Before(i) >= Offset(walk.page)

\* The number on the page covers the rows unless one slipped in.
Covered == walk.at = "rows" /\ ~slipped => Cardinality(ShownAt) <= walk.total

ListInv == ListTypes /\ NonePassed /\ Covered /\ WalkComplete

LEMMA OffsetNext ==
    ASSUME NEW p \in Nat \ {0}
    PROVE  Offset(p) \in Nat /\ Offset(p + 1) = Offset(p) + PageSize
<1>1. PageSize \in Nat
  BY ListsAssumption
<1>2. \A q, r \in Nat : (q + 1) * r = q * r + r /\ q * r \in Nat
  OBVIOUS
<1>3. p - 1 \in Nat /\ (p - 1) + 1 = p /\ (p + 1) - 1 = p
  OBVIOUS
<1>4. p * PageSize = (p - 1) * PageSize + PageSize /\ (p - 1) * PageSize \in Nat
  BY <1>1, <1>2, <1>3
<1> QED BY <1>3, <1>4 DEF Offset

\* So many pages hold all the rows (the ceiling of the division).
LEMMA PagesHoldAll ==
    ASSUME NEW total \in Nat, NEW p \in Nat \ {0}, ~(p < TotalPages(total))
    PROVE  total <= Offset(p) + PageSize
<1>1. PageSize \in Nat /\ PageSize > 0
  BY ListsAssumption
<1> DEFINE q == (total + PageSize - 1) \div PageSize
<1>2. q \in Int /\ total + PageSize - 1 < (q + 1) * PageSize
  <2>1. total + PageSize - 1 \in Nat
    BY <1>1
  <2>2. \A n \in Nat, d \in Nat \ {0} : n \div d \in Int /\ n < ((n \div d) + 1) * d
    OBVIOUS
  <2> QED BY <1>1, <2>1, <2>2
<1> HIDE DEF q
<1>3. q <= p
  BY <1>2 DEF TotalPages, q
<1>4. (q + 1) * PageSize <= (p + 1) * PageSize
  <2>1. \A a, b \in Int, d \in Nat : a <= b => a * d <= b * d
    OBVIOUS
  <2> QED BY <1>1, <1>2, <1>3, <2>1
<1>5. (p + 1) * PageSize = Offset(p) + PageSize + PageSize /\ Offset(p) \in Nat
  <2>1. p + 1 \in Nat \ {0} /\ (p + 1) + 1 - 1 = p + 1
    OBVIOUS
  <2>2. Offset(p + 2) = (p + 1) * PageSize
    BY DEF Offset
  <2>3. Offset((p + 1) + 1) = Offset(p + 1) + PageSize
    BY <2>1, OffsetNext
  <2>4. p + 2 = (p + 1) + 1
    OBVIOUS
  <2> QED BY <1>1, <2>2, <2>3, <2>4, OffsetNext
<1> QED BY <1>1, <1>2, <1>4, <1>5

LEMMA PlacesCounted ==
    ASSUME NEW n \in Nat, NEW S \in SUBSET (1..n)
    PROVE  /\ IsFiniteSet(S) /\ Cardinality(S) \in Nat
           /\ \A i \in Nat : Cardinality({j \in S : j < i}) \in Nat
           /\ \A i \in S : Cardinality({j \in S : j < i}) < Cardinality(S)
<1>1. IsFiniteSet(S) /\ S \subseteq Nat /\ Cardinality(S) \in Nat
  <2>1. IsFiniteSet(1..n)
    BY FS_Interval
  <2>2. IsFiniteSet(S)
    BY <2>1, FS_Subset
  <2> QED BY <2>2, FS_CardinalityType
<1>2. \A i \in Nat : IsFiniteSet({j \in S : j < i}) /\ Cardinality({j \in S : j < i}) \in Nat
  BY <1>1, FS_Subset, FS_CardinalityType
<1>3. ASSUME NEW i \in S PROVE Cardinality({j \in S : j < i}) < Cardinality(S)
  <2> DEFINE R == {j \in S : j < i}
  <2>1. R \in SUBSET S /\ R # S
    BY <1>1
  <2>2. Cardinality(R) \in Nat
    BY <1>1, <1>2
  <2> HIDE DEF R
  <2>3. Cardinality(R) <= Cardinality(S) /\ Cardinality(R) # Cardinality(S)
    BY <1>1, <2>1, FS_Subset
  <2> QED BY <1>1, <2>2, <2>3 DEF R
<1> QED BY <1>1, <1>2, <1>3

LEMMA PlacesFinite ==
    ASSUME ListTypes
    PROVE  /\ ShownAt \subseteq Nat /\ IsFiniteSet(ShownAt)
           /\ Cardinality(ShownAt) \in Nat
           /\ \A i \in Nat : Before(i) \in Nat
           /\ \A i \in ShownAt : Before(i) < Cardinality(ShownAt)
<1>1. rows \in Seq(ListRow)
  BY DEF ListTypes
<1>2. Len(rows) \in Nat /\ ShownAt \in SUBSET (1..Len(rows))
  BY <1>1 DEF ShownAt
<1>3. ShownAt \subseteq Nat
  BY <1>2
<1> QED BY <1>2, <1>3, PlacesCounted DEF Before

LEMMA PlacesStayFinite ==
    ASSUME ListTypes'
    PROVE  /\ IsFiniteSet(ShownAt') /\ Cardinality(ShownAt') \in Nat
           /\ \A i \in Nat : Before(i)' \in Nat
<1>1. rows' \in Seq(ListRow)
  BY DEF ListTypes
<1>2. Len(rows') \in Nat /\ ShownAt' \in SUBSET (1..Len(rows'))
  BY <1>1 DEF ShownAt
<1> QED BY <1>2, PlacesCounted DEF Before

LEMMA CountRowsInv == ASSUME ListInv, CountRows PROVE ListInv'
<1>1. ListTypes'
  <2>1. slipped' \in BOOLEAN
    BY DEF CountRows
  <2>2. walk' \in Walk
    BY PlacesFinite DEF ListInv, ListTypes, Walk, CountRows
  <2> QED BY <2>1, <2>2 DEF ListInv, ListTypes, CountRows
<1>2. ShownAt' = ShownAt /\ \A i : Before(i)' = Before(i)
  BY DEF CountRows, ShownAt, Before, Shows, LogsShow, ThreatsShow, LoginsShow, PostsShow
<1>3. walk.at = "count" /\ walk'.at = "rows" /\ walk'.page = walk.page /\ walk'.seen = walk.seen
      /\ walk'.total = Cardinality(ShownAt)
  BY DEF ListInv, ListTypes, Walk, CountRows
<1>4. NonePassed'
  BY <1>2, <1>3 DEF ListInv, NonePassed, CountRows
<1>5. Covered'
  BY <1>2, <1>3, PlacesFinite DEF ListInv, Covered
<1> QED BY <1>1, <1>3, <1>4, <1>5 DEF ListInv, WalkComplete

LEMMA ReadRowsInv == ASSUME ListInv, ReadRows PROVE ListInv'
<1> DEFINE here == {i \in ShownAt : Offset(walk.page) <= Before(i)
                                    /\ Before(i) < Offset(walk.page) + PageSize}
           got == walk.seen \union ({rows[i].id : i \in here} \ {0})
           more == walk.page < TotalPages(walk.total)
<1> USE DEF ListInv
<1>1. UNCHANGED <<list, narrow, rows, there, slipped, shrunk>> /\ walk.at = "rows"
  BY DEF ReadRows
<1>2. walk' = IF more THEN [walk EXCEPT !.at = "count", !.page = @ + 1, !.seen = got]
                      ELSE [walk EXCEPT !.at = "end", !.seen = got]
  BY DEF ReadRows
<1>3. ShownAt' = ShownAt /\ \A i : Before(i)' = Before(i)
  BY <1>1 DEF ShownAt, Before, Shows, LogsShow, ThreatsShow, LoginsShow, PostsShow
<1>4. \A i \in ShownAt : rows[i].id \in Nat
  <2>1. rows \in Seq(ListRow)
    BY DEF ListTypes
  <2>2. \A i \in DOMAIN rows : rows[i] \in ListRow
    BY <2>1
  <2> QED BY <2>2 DEF ShownAt, ListRow
<1>5. walk \in Walk /\ walk.page \in Nat \ {0} /\ walk.total \in Nat
  BY DEF ListTypes, Walk
<1>6. got \subseteq Nat /\ walk.seen \subseteq got
  BY <1>4, <1>5 DEF Walk
<1>7. walk'.seen = got
  BY <1>2, <1>5 DEF Walk
<1> HIDE DEF here, got, more
<1>8. ListTypes'
  <2>1. walk' \in Walk
    <3>1. walk.page + 1 \in Nat \ {0}
      BY <1>5
    <3>2. CASE more
      BY <1>2, <1>5, <1>6, <3>1, <3>2 DEF Walk
    <3>3. CASE ~more
      BY <1>2, <1>5, <1>6, <3>3 DEF Walk
    <3> QED BY <3>2, <3>3
  <2> QED BY <1>1, <2>1 DEF ListTypes
<1>9. \A i \in ShownAt : rows[i].id \in there /\ ~shrunk
          => rows[i].id \in got \/ Before(i) >= Offset(walk.page) + PageSize
  <2> SUFFICES ASSUME NEW i \in ShownAt, rows[i].id \in there, ~shrunk
               PROVE  rows[i].id \in got \/ Before(i) >= Offset(walk.page) + PageSize
    OBVIOUS
  <2>1. rows[i].id \in walk.seen \/ Before(i) >= Offset(walk.page)
    BY <1>1 DEF NonePassed
  <2>2. rows[i].id # 0 /\ i \in Nat
    BY PlacesFinite DEF ListTypes
  <2>3. Before(i) \in Nat /\ Offset(walk.page) \in Nat /\ PageSize \in Nat
    BY <1>5, <2>2, PlacesFinite, OffsetNext, ListsAssumption
  <2> QED BY <1>6, <2>1, <2>2, <2>3 DEF got, here
<1>10. CASE more
  <2>1. walk'.at = "count" /\ walk'.page = walk.page + 1
    BY <1>2, <1>5, <1>10 DEF Walk
  <2>2. NonePassed'
    BY <1>1, <1>3, <1>5, <1>7, <1>9, <2>1, OffsetNext DEF NonePassed
  <2> QED BY <1>8, <2>1, <2>2 DEF Covered, WalkComplete
<1>11. CASE ~more
  <2>1. walk'.at = "end"
    BY <1>2, <1>5, <1>11 DEF Walk
  <2>2. ASSUME ~slipped, ~shrunk, NEW id \in there \intersect ShownIds PROVE id \in got
    <3>1. PICK i \in ShownAt : id = rows[i].id
      BY <2>2 DEF ShownIds
    <3>2. Before(i) < Cardinality(ShownAt) /\ Cardinality(ShownAt) <= walk.total
      BY <1>1, <2>2, <3>1, PlacesFinite DEF Covered
    <3>3. walk.total <= Offset(walk.page) + PageSize
      BY <1>5, <1>11, PagesHoldAll DEF more
    <3>4. Before(i) \in Nat /\ Cardinality(ShownAt) \in Nat /\ Offset(walk.page) + PageSize \in Nat
      BY <1>5, <3>1, PlacesFinite, OffsetNext, ListsAssumption
    <3> QED BY <1>5, <1>9, <2>2, <3>1, <3>2, <3>3, <3>4
  <2>3. WalkComplete'
    <3>1. ShownIds' = ShownIds
      BY <1>1, <1>3 DEF ShownIds
    <3> QED BY <1>1, <1>7, <2>2, <3>1 DEF WalkComplete
  <2> QED BY <1>8, <2>1, <2>3 DEF NonePassed, Covered
<1> QED BY <1>10, <1>11

LEMMA InsertedRow ==
    ASSUME NEW table \in Seq(ListRow), NEW k \in 1..(Len(table) + 1), NEW new \in ListRow
    PROVE  /\ InsertAt(table, k, new) \in Seq(ListRow)
           /\ Len(InsertAt(table, k, new)) = Len(table) + 1
           /\ InsertAt(table, k, new)[k] = new
           /\ \A i \in 1..Len(table) :
                InsertAt(table, k, new)[IF i < k THEN i ELSE i + 1] = table[i]
<1> DEFINE front == SubSeq(table, 1, k - 1)
           back == SubSeq(table, k, Len(table))
<1>1. front \in Seq(ListRow) /\ Len(front) = k - 1 /\ \A i \in 1..(k - 1) : front[i] = table[i]
  OBVIOUS
<1>2. /\ back \in Seq(ListRow) /\ Len(back) = Len(table) - k + 1
      /\ \A i \in 1..(Len(table) - k + 1) : back[i] = table[k + i - 1]
  OBVIOUS
<1>3. InsertAt(table, k, new) = front \o <<new>> \o back
  BY DEF InsertAt
<1> HIDE DEF front, back
<1>4. /\ front \o <<new>> \in Seq(ListRow) /\ Len(front \o <<new>>) = k
      /\ (front \o <<new>>)[k] = new
      /\ \A i \in 1..(k - 1) : (front \o <<new>>)[i] = table[i]
  BY <1>1
<1> DEFINE most == front \o <<new>>
<1> HIDE DEF most
<1>5. /\ most \o back \in Seq(ListRow) /\ Len(most \o back) = Len(table) + 1
      /\ (most \o back)[k] = new
      /\ \A i \in 1..(k - 1) : (most \o back)[i] = table[i]
      /\ \A i \in k..Len(table) : (most \o back)[i + 1] = table[i]
  <2>1. /\ most \in Seq(ListRow) /\ Len(most) = k /\ most[k] = new
        /\ \A i \in 1..(k - 1) : most[i] = table[i]
    BY <1>4 DEF most
  <2>2. \A i \in k..Len(table) : back[i + 1 - k] = table[i]
    BY <1>2
  <2>3. back \in Seq(ListRow) /\ Len(back) = Len(table) - k + 1 /\ Len(table) \in Nat
    BY <1>2
  <2>4. /\ most \o back \in Seq(ListRow) /\ Len(most \o back) = k + Len(back)
        /\ \A i \in 1..(k + Len(back)) :
             (most \o back)[i] = IF i <= k THEN most[i] ELSE back[i - k]
    <3>1. most \in Seq(ListRow) /\ Len(most) = k
      BY <2>1
    <3> QED BY <2>3, <3>1, ConcatProperties, Zenon
  <2>5. most \o back \in Seq(ListRow) /\ Len(most \o back) = Len(table) + 1
    BY <2>3, <2>4
  <2>6. ASSUME NEW i \in k..Len(table) PROVE (most \o back)[i + 1] = table[i]
    <3>1. i + 1 \in 1..(k + Len(back)) /\ ~(i + 1 <= k)
      BY <2>3
    <3> QED BY <2>2, <2>4, <3>1
  <2>7. (most \o back)[k] = new
    BY <2>1, <2>3, <2>4
  <2>8. \A i \in 1..(k - 1) : (most \o back)[i] = table[i]
    BY <2>1, <2>3, <2>4
  <2> QED BY <2>5, <2>6, <2>7, <2>8, Zenon
<1>6. InsertAt(table, k, new) = most \o back
  BY <1>3 DEF most
<1>7. ASSUME NEW i \in 1..Len(table)
      PROVE  (most \o back)[IF i < k THEN i ELSE i + 1] = table[i]
  <2>1. CASE i < k
    <3>1. i \in 1..(k - 1)
      BY <2>1
    <3> QED BY <1>5, <2>1, <3>1
  <2>2. CASE ~(i < k)
    <3>1. i \in k..Len(table)
      BY <2>2
    <3> QED BY <1>5, <2>2, <3>1
  <2> QED BY <2>1, <2>2
<1> QED BY <1>5, <1>6, <1>7, Zenon

\* A row that is inserted moves none to the front.
LEMMA InsertMoves ==
    ASSUME ListTypes, ListTypes', UNCHANGED <<list, narrow>>,
           NEW k \in 1..(Len(rows) + 1), Len(rows') = Len(rows) + 1,
           \A i \in 1..Len(rows) : rows'[IF i < k THEN i ELSE i + 1] = rows[i],
           NEW i \in 1..Len(rows), NEW to, to = IF i < k THEN i ELSE i + 1, to \in ShownAt'
    PROVE  i \in ShownAt /\ Before(i) <= Before(to)'
<1>1. DOMAIN rows = 1..Len(rows) /\ DOMAIN rows' = 1..Len(rows') /\ Len(rows) \in Nat
  <2>1. rows \in Seq(ListRow) /\ rows' \in Seq(ListRow)
    BY DEF ListTypes
  <2> QED BY <2>1
<1>2. ASSUME NEW j \in 1..Len(rows)
      PROVE  j \in ShownAt <=> (IF j < k THEN j ELSE j + 1) \in ShownAt'
  <2>1. (IF j < k THEN j ELSE j + 1) \in DOMAIN rows'
    BY <1>1
  <2>2. \A row : Shows(row)' <=> Shows(row)
    BY DEF Shows, LogsShow, ThreatsShow, LoginsShow, PostsShow
  <2> QED BY <1>1, <2>1, <2>2 DEF ShownAt
<1> DEFINE S == {j \in ShownAt : j < i}
           T == {j \in ShownAt' : j < to}
           f == [j \in S |-> IF j < k THEN j ELSE j + 1]
<1>3. S \subseteq 1..Len(rows)
  BY <1>1 DEF ShownAt
<1>4. f \in Injection(S, T)
  <2>1. \A j \in S : f[j] \in T
    BY <1>1, <1>2, <1>3
  <2>2. \A a, b \in S : f[a] = f[b] => a = b
    BY <1>1, <1>3
  <2> QED BY <2>1, <2>2 DEF Injection, IsInjective
<1>5. IsFiniteSet(T)
  <2>1. IsFiniteSet(ShownAt')
    BY PlacesStayFinite
  <2> QED BY <2>1, FS_Subset
<1>6. Cardinality(S) <= Cardinality(T)
  <2> HIDE DEF S, T, f
  <2> QED BY <1>4, <1>5, FS_Injection
<1> QED BY <1>2, <1>6 DEF Before

LEMMA InsertInv == ASSUME ListInv, Insert PROVE ListInv'
<1>1. /\ walk.at # "end" /\ slipped' = (slipped \/ walk.at = "rows")
      /\ UNCHANGED <<list, narrow, walk, there, shrunk>>
  BY DEF Insert
<1>2. PICK k \in 1..(Len(rows) + 1), flag \in BOOLEAN :
        rows' = InsertAt(rows, k, [id |-> 0, flag |-> flag])
  BY DEF Insert
<1>3. rows \in Seq(ListRow) /\ [id |-> 0, flag |-> flag] \in ListRow
  BY DEF ListInv, ListTypes, ListRow
<1>4. /\ rows' \in Seq(ListRow) /\ Len(rows') = Len(rows) + 1
      /\ rows'[k] = [id |-> 0, flag |-> flag]
      /\ \A i \in 1..Len(rows) : rows'[IF i < k THEN i ELSE i + 1] = rows[i]
  BY <1>2, <1>3, InsertedRow
<1>5. ListTypes'
  <2>1. slipped' \in BOOLEAN
    BY <1>1 DEF ListInv, ListTypes
  <2> QED BY <1>1, <1>4, <2>1 DEF ListInv, ListTypes
<1>6. NonePassed'
  <2> SUFFICES ASSUME ~shrunk, NEW to \in ShownAt', rows'[to].id \in there
               PROVE  rows'[to].id \in walk.seen \/ Before(to)' >= Offset(walk.page)
    BY <1>1 DEF NonePassed
  <2>1. to \in 1..(Len(rows) + 1) /\ to # k /\ Len(rows) \in Nat
    <3>1. to \in DOMAIN rows' /\ DOMAIN rows' = 1..Len(rows')
      BY <1>4 DEF ShownAt
    <3>2. rows'[to].id # 0
      BY DEF ListInv, ListTypes
    <3> QED BY <1>3, <1>4, <3>1, <3>2
  <2>2. PICK i \in 1..Len(rows) : to = IF i < k THEN i ELSE i + 1
    <3>1. CASE to < k
      BY <2>1, <3>1
    <3>2. CASE to > k
      <4>1. to - 1 \in 1..Len(rows) /\ ~(to - 1 < k) /\ to = (to - 1) + 1
        BY <2>1, <3>2
      <4> QED BY <4>1
    <3> QED BY <2>1, <3>1, <3>2
  <2>3. i \in ShownAt /\ Before(i) <= Before(to)' /\ rows'[to] = rows[i]
    BY <1>1, <1>4, <1>5, <2>2, InsertMoves DEF ListInv
  <2>4. rows[i].id \in walk.seen \/ Before(i) >= Offset(walk.page)
    BY <1>1, <2>3 DEF ListInv, NonePassed
  <2>5. Before(i) \in Nat /\ Before(to)' \in Nat /\ Offset(walk.page) \in Nat
    <3>1. Before(i) \in Nat
      BY <2>2, PlacesFinite DEF ListInv
    <3>2. \A j \in Nat : Before(j)' \in Nat
      BY <1>5, PlacesStayFinite
    <3>3. walk.page \in Nat \ {0}
      BY DEF ListInv, ListTypes, Walk
    <3>4. to \in Nat
      BY <2>1
    <3> QED BY <3>1, <3>2, <3>3, <3>4, OffsetNext
  <2> QED BY <2>3, <2>4, <2>5
<1>7. Covered'
  BY <1>1 DEF ListInv, Covered
<1> QED BY <1>1, <1>5, <1>6, <1>7 DEF ListInv, WalkComplete

LEMMA HideInv == ASSUME ListInv, Hide PROVE ListInv'
<1>1. /\ walk.at # "end" /\ list \in {"threats", "posts"}
      /\ UNCHANGED <<list, narrow, walk, there, slipped>>
      /\ shrunk' = (shrunk \/ Cardinality(ShownAt') < Cardinality(ShownAt))
  BY DEF Hide
<1>2. PICK k \in DOMAIN rows : ~rows[k].flag /\ rows' = [rows EXCEPT ![k].flag = TRUE]
  BY DEF Hide
<1>3. rows \in Seq(ListRow)
  BY DEF ListInv, ListTypes
<1>4. /\ rows' \in Seq(ListRow) /\ DOMAIN rows' = DOMAIN rows
      /\ \A i \in DOMAIN rows : rows'[i].id = rows[i].id /\ (rows[i].flag => rows'[i].flag)
  <2>1. [rows[k] EXCEPT !.flag = TRUE] \in ListRow
    <3>1. rows[k] \in ListRow
      BY <1>3
    <3> QED BY <3>1 DEF ListRow
  <2>2. rows' = [rows EXCEPT ![k] = [rows[k] EXCEPT !.flag = TRUE]]
    BY <1>2
  <2>3. rows' \in Seq(ListRow) /\ DOMAIN rows' = DOMAIN rows
    BY <1>3, <2>1, <2>2
  <2>4. \A i \in DOMAIN rows : rows'[i] = IF i = k THEN [rows[k] EXCEPT !.flag = TRUE] ELSE rows[i]
    BY <1>3, <2>2
  <2>5. \A i \in DOMAIN rows : rows[i] \in ListRow
    BY <1>3
  <2> QED BY <1>2, <2>3, <2>4, <2>5 DEF ListRow
<1>5. ListTypes'
  <2>1. shrunk' \in BOOLEAN
    BY <1>1 DEF ListInv, ListTypes
  <2> QED BY <1>1, <1>4, <2>1 DEF ListInv, ListTypes
<1>6. ShownAt' \subseteq ShownAt
  BY <1>1, <1>4 DEF ShownAt, Shows, ThreatsShow, PostsShow
<1>7. Cardinality(ShownAt') <= Cardinality(ShownAt)
      /\ (Cardinality(ShownAt') = Cardinality(ShownAt) => ShownAt' = ShownAt)
  BY <1>6, PlacesFinite, FS_Subset DEF ListInv
<1>8. Cardinality(ShownAt) \in Nat /\ Cardinality(ShownAt') \in Nat
  BY <1>5, PlacesFinite, PlacesStayFinite DEF ListInv
<1>9. NonePassed'
  <2> SUFFICES ASSUME ~shrunk' PROVE NonePassed'
    BY DEF NonePassed
  <2>1. ~shrunk /\ ShownAt' = ShownAt
    <3>1. ~shrunk /\ ~(Cardinality(ShownAt') < Cardinality(ShownAt))
      BY <1>1
    <3> QED BY <1>7, <1>8, <3>1
  <2>2. \A i : Before(i)' = Before(i)
    BY <2>1 DEF Before
  <2>3. \A i \in ShownAt : rows'[i].id = rows[i].id
    BY <1>4 DEF ShownAt
  <2> QED BY <1>1, <2>1, <2>2, <2>3 DEF ListInv, NonePassed
<1>10. Covered'
  <2>1. walk.total \in Nat
    BY DEF ListInv, ListTypes, Walk
  <2> QED BY <1>1, <1>7, <1>8, <2>1 DEF ListInv, Covered
<1> QED BY <1>1, <1>5, <1>9, <1>10 DEF ListInv, WalkComplete

LEMMA PurgeInv == ASSUME ListInv, Purge PROVE ListInv'
<1>1. walk.at # "end" /\ UNCHANGED <<list, narrow, walk, there, slipped, shrunk>>
  BY DEF Purge
<1>2. PICK n \in 0..(Len(rows) - 1) : rows' = SubSeq(rows, 1, n)
  BY DEF Purge
<1>3. rows \in Seq(ListRow)
  BY DEF ListInv, ListTypes
<1>4. /\ rows' \in Seq(ListRow) /\ DOMAIN rows' = 1..n /\ DOMAIN rows = 1..Len(rows)
      /\ Len(rows) \in Nat /\ \A i \in 1..n : rows'[i] = rows[i]
  BY <1>2, <1>3
<1>5. ListTypes'
  BY <1>1, <1>4 DEF ListInv, ListTypes
<1>6. ShownAt' = {i \in ShownAt : i <= n}
  <2>1. \A row : Shows(row)' <=> Shows(row)
    BY <1>1 DEF Shows, LogsShow, ThreatsShow, LoginsShow, PostsShow
  <2> QED BY <1>4, <2>1 DEF ShownAt
<1>7. \A i \in ShownAt' : Before(i)' = Before(i)
  <2> SUFFICES ASSUME NEW i \in ShownAt'
               PROVE  {j \in ShownAt' : j < i} = {j \in ShownAt : j < i}
    BY DEF Before
  <2>1. ShownAt \subseteq Nat
    BY PlacesFinite DEF ListInv
  <2>2. i \in Nat /\ i <= n /\ n \in Int
    <3>1. n \in Int
      BY <1>2, <1>4
    <3>2. i \in ShownAt /\ i <= n
      BY <1>6
    <3> QED BY <2>1, <3>1, <3>2
  <2>3. \A j \in ShownAt : j < i => j <= n
    BY <2>1, <2>2
  <2> QED BY <1>6, <2>3
<1>8. NonePassed'
  <2>1. \A i \in ShownAt' : i \in ShownAt /\ rows'[i] = rows[i]
    BY <1>4, <1>6 DEF ShownAt
  <2> QED BY <1>1, <1>7, <2>1 DEF ListInv, NonePassed
<1>9. Covered'
  <2>1. ShownAt' \in SUBSET ShownAt
    BY <1>6
  <2>2. Cardinality(ShownAt') <= Cardinality(ShownAt)
    BY <2>1, PlacesFinite, FS_Subset DEF ListInv
  <2>3. Cardinality(ShownAt) \in Nat /\ Cardinality(ShownAt') \in Nat
    BY <1>5, PlacesFinite, PlacesStayFinite DEF ListInv
  <2>4. walk.total \in Nat
    BY DEF ListInv, ListTypes, Walk
  <2> QED BY <1>1, <2>2, <2>3, <2>4 DEF ListInv, Covered
<1> QED BY <1>1, <1>5, <1>8, <1>9 DEF ListInv, WalkComplete

LEMMA ConsoleLists == [ConsoleNext]_consoleVars => [ListsNext]_listVars
BY DEF ConsoleNext, consoleVars

LEMMA ListInvInit == ASSUME ListsInit \/ ListsIdle PROVE ListInv
<1>1. CASE ListsInit
  <2>1. PICK n \in 0..AtFirst : \E f \in [1..n -> BOOLEAN] :
          rows = [i \in 1..n |-> [id |-> n + 1 - i, flag |-> f[i]]]
    BY <1>1 DEF ListsInit
  <2>2. PICK f \in [1..n -> BOOLEAN] :
          rows = [i \in 1..n |-> [id |-> n + 1 - i, flag |-> f[i]]]
    BY <2>1
  <2>3. n \in Nat /\ rows \in Seq(ListRow)
    <3>1. n \in Nat
      BY ListsAssumption
    <3>2. \A i \in 1..n : [id |-> n + 1 - i, flag |-> f[i]] \in ListRow
      BY <3>1 DEF ListRow
    <3> QED BY <2>2, <3>1, <3>2
  <2>4. there \subseteq Nat \ {0}
    <3>1. \A i \in DOMAIN rows : rows[i] \in ListRow
      BY <2>3
    <3>2. \A i \in ShownAt : rows[i].id \in Nat
      BY <3>1 DEF ListRow, ShownAt
    <3>3. there = ShownIds
      BY <1>1 DEF ListsInit
    <3> QED BY <3>2, <3>3 DEF ShownIds
  <2>5. walk = [at |-> "count", page |-> 1, total |-> 0, seen |-> {}]
    BY <1>1 DEF ListsInit
  <2>6. ListTypes
    <3>1. walk \in Walk
      BY <2>5 DEF Walk
    <3> QED BY <1>1, <2>3, <2>4, <3>1 DEF ListsInit, ListTypes
  <2>7. \A i \in ShownAt : Before(i) >= Offset(1)
    <3>1. Offset(1) = 0
      BY ListsAssumption DEF Offset
    <3> QED BY <2>6, <3>1, PlacesFinite
  <2> QED BY <2>5, <2>6, <2>7 DEF ListInv, NonePassed, Covered, WalkComplete
<1>2. CASE ListsIdle
  <2>1. ListTypes
    <3>1. walk \in Walk /\ rows \in Seq(ListRow)
      BY <1>2 DEF ListsIdle, Walk
    <3> QED BY <1>2, <3>1 DEF ListsIdle, ListTypes, ListNames
  <2> QED BY <1>2, <2>1 DEF ListsIdle, ListInv, NonePassed, Covered, WalkComplete
<1> QED BY <1>1, <1>2

\* Whoever follows "next" to the last page has seen every row that was there when
\* he began and still is, unless a row came between the two queries of the last
\* page or one left the list (app/blueprints/admin.py, board.py), for any size
\* of page and of table.
THEOREM ReaderSeesAll == ConsoleSpec => []WalkComplete
<1>1. ConsoleInit => ListInv
  BY ListInvInit DEF ConsoleInit
<1>2. ListInv /\ [ListsNext]_listVars => ListInv'
  <2> SUFFICES ASSUME ListInv, [ListsNext]_listVars PROVE ListInv'
    OBVIOUS
  <2>1. CASE UNCHANGED listVars
    BY <2>1 DEF listVars, ListInv, ListTypes, NonePassed, Covered, WalkComplete, ShownAt,
         ShownIds, Before, Shows, LogsShow, ThreatsShow, LoginsShow, PostsShow
  <2> QED BY <2>1, CountRowsInv, ReadRowsInv, InsertInv, HideInv, PurgeInv DEF ListsNext
<1>3. ListInv => WalkComplete
  BY DEF ListInv
<1> QED BY <1>1, <1>2, <1>3, ConsoleSafety, ConsoleLists, PTL

----------------------------------------------------------------------------
(* The requests of the canvas editor to the AI proxy.                      *)

RelayTypes ==
    /\ button \in BOOLEAN
    /\ browser \in 0..MaxClicks
    /\ DOMAIN web = Call /\ DOMAIN proxy = Call
    /\ DOMAIN provider = Call /\ DOMAIN answer = Call

\* What the page may believe of a call: one that was not made has no answer,
\* every call but the last has been received, and the last one too as soon as
\* the button is enabled again.
OneCallOpen ==
    /\ \A c \in Call : c > browser => web[c] = "none" /\ answer[c] = "none"
    /\ \A c \in Call : c < browser => answer[c] = "received"
    /\ button => browser = 0 \/ answer[browser] = "received"
    /\ ~button => status = "busy"

\* The three parties behind nginx take a call up one after the other, and only
\* a text of the provider becomes an "ok" on the way back.
CallOrder(c) ==
    /\ web[c] \in {"none", "check"} => proxy[c] = "none"
    /\ proxy[c] \in {"none", "queue", "check"} => provider[c] = "none"
    /\ proxy[c] = "waits" => provider[c] # "read"
    /\ proxy[c] = "ok" \/ answer[c] = "ok" => provider[c] = "read"

RelayInv ==
    /\ RelayTypes
    /\ OneCallOpen
    /\ \A c \in Call : CallOrder(c)
    /\ status = "done" => browser \in Call
    /\ NoStaleText

LEMMA RelayInvInit == RelayInit => RelayInv
BY AiRelayAssumption
   DEF RelayInit, RelayInv, RelayTypes, OneCallOpen, CallOrder, NoStaleText, Call

\* The steps of the page.
LEMMA ClickKeeps ==
    ASSUME RelayInv, Click
    PROVE  RelayInv'
<1> USE AiRelayAssumption DEF RelayInv, Call
<1>1. /\ browser' = browser + 1 /\ browser + 1 \in Call
      /\ browser = 0 \/ answer[browser] = "received"
      /\ status' = "busy" /\ button' = FALSE
      /\ web' = [web EXCEPT ![browser + 1] = "check"]
      /\ UNCHANGED <<proxy, provider, answer>>
  BY DEF Click, RelayTypes, OneCallOpen
<1>2. \A c \in Call \ {browser + 1} : web'[c] = web[c]
  BY <1>1 DEF RelayTypes
<1>3. RelayTypes'
  <2>1. button' \in BOOLEAN
    BY <1>1
  <2> QED BY <1>1, <2>1 DEF RelayTypes
<1>4. OneCallOpen'
  BY <1>1, <1>2 DEF OneCallOpen, RelayTypes
<1>5. web[browser + 1] = "none"
  BY <1>1 DEF OneCallOpen, RelayTypes
<1>6. \A c \in Call : CallOrder(c)'
  BY <1>1, <1>2, <1>5 DEF CallOrder
<1> QED BY <1>1, <1>3, <1>4, <1>6 DEF NoStaleText

LEMMA ReceiveKeeps ==
    ASSUME RelayInv, NEW c \in Call, Receive(c)
    PROVE  RelayInv'
<1> USE AiRelayAssumption DEF RelayInv, Call
<1>1. /\ answer[c] \in {"ok", "page", "error"} /\ answer' = [answer EXCEPT ![c] = "received"]
      /\ button' = TRUE /\ UNCHANGED <<browser, web, proxy, provider>>
  BY DEF Receive, Received
<1>2. c = browser
  BY <1>1 DEF OneCallOpen, RelayTypes
<1>3. answer'[c] = "received" /\ \A d \in Call \ {c} : answer'[d] = answer[d]
  BY <1>1 DEF RelayTypes
<1>4. RelayTypes' /\ OneCallOpen' /\ \A d \in Call : CallOrder(d)'
  BY <1>1, <1>2, <1>3 DEF RelayTypes, OneCallOpen, CallOrder
<1>5. status' = "done" => \/ shown' = 0
                          \/ shown' = browser /\ provider[browser] = "read"
  <2>1. status' = "done" => shown' \in Texts(c)
    BY DEF Receive
  <2>2. answer[c] = "ok" => provider[c] = "read"
    BY DEF CallOrder
  <2>3. shown' \in Texts(c) => shown' = 0 \/ (shown' = c /\ answer[c] = "ok")
    BY DEF Texts
  <2> QED BY <1>2, <2>1, <2>2, <2>3
<1> QED BY <1>1, <1>2, <1>4, <1>5 DEF NoStaleText

\* The steps behind the page: they leave its variables alone, an answer comes
\* only where there was none, and no text the proxy has read is lost.
LEMMA BehindKeeps ==
    ASSUME RelayInv, NEW c \in Call,
           UNCHANGED <<button, status, shown, browser>>,
           web[c] # "none" /\ web'[c] # "none",
           DOMAIN web' = Call, DOMAIN proxy' = Call, DOMAIN provider' = Call,
           DOMAIN answer' = Call,
           \A d \in Call \ {c} : /\ web'[d] = web[d] /\ proxy'[d] = proxy[d]
                                 /\ provider'[d] = provider[d] /\ answer'[d] = answer[d],
           answer[c] # "none" => answer'[c] = answer[c],
           provider[c] = "read" => provider'[c] = "read",
           CallOrder(c)'
    PROVE  RelayInv'
<1> USE AiRelayAssumption DEF RelayInv, Call
<1>1. c <= browser
  BY DEF OneCallOpen, RelayTypes
<1>2. RelayTypes'
  BY DEF RelayTypes
<1>3. OneCallOpen'
  BY <1>1 DEF OneCallOpen, RelayTypes
<1>4. \A d \in Call : CallOrder(d)'
  BY DEF CallOrder
<1>5. NoStaleText'
  BY DEF NoStaleText
<1> QED BY <1>2, <1>3, <1>4, <1>5

LEMMA RelayStep ==
    ASSUME RelayInv, [RelayNext]_relayVars
    PROVE  RelayInv'
<1>1. ASSUME NEW c \in Call, RelayCall(c), ~Receive(c) PROVE RelayInv'
  <2> USE <1>1 DEF RelayInv, RelayTypes
  <2>1. web[c] # "none"
    BY DEF RelayCall, NginxTimesOut, WebRefuses, WebRedirects, WebCalls, WebAnswers, WebTimesOut,
           ProxyTakes, ProxyRefuses, ProxyCalls, ProxyAnswers, ProxyTimesOut, ProxyDrops,
           ProviderEnds, CallOrder
  <2>2. /\ UNCHANGED <<button, status, shown, browser>>
        /\ DOMAIN web' = Call /\ DOMAIN proxy' = Call /\ DOMAIN provider' = Call
        /\ DOMAIN answer' = Call
        /\ \A d \in Call \ {c} : /\ web'[d] = web[d] /\ proxy'[d] = proxy[d]
                                 /\ provider'[d] = provider[d] /\ answer'[d] = answer[d]
    BY DEF RelayCall, NginxTimesOut, WebRefuses, WebRedirects, WebCalls, WebAnswers, WebTimesOut,
           ProxyTakes, ProxyRefuses, ProxyCalls, ProxyAnswers, ProxyTimesOut, ProxyDrops,
           ProviderEnds, Pass
  <2>3. /\ web'[c] # "none"
        /\ answer[c] # "none" => answer'[c] = answer[c]
        /\ provider[c] = "read" => provider'[c] = "read"
        /\ CallOrder(c)'
    BY <2>1 DEF RelayCall, NginxTimesOut, WebRefuses, WebRedirects, WebCalls, WebAnswers,
           WebTimesOut,
           ProxyTakes, ProxyRefuses, ProxyCalls, ProxyAnswers, ProxyTimesOut, ProxyDrops,
           ProviderEnds, Pass, CallOrder
  <2> QED BY <2>1, <2>2, <2>3, BehindKeeps
<1>2. CASE UNCHANGED relayVars
  BY <1>2 DEF relayVars, RelayInv, RelayTypes, OneCallOpen, CallOrder, NoStaleText
<1> QED BY <1>1, <1>2, ClickKeeps, ReceiveKeeps DEF RelayNext, RelayCall

\* When the page says "done", what it shows is the provider's text for the last
\* click, or nothing (canvas-studio.js sendToAI), whichever of nginx, web and the
\* proxy gave up on this call or on another.
THEOREM DoneIsNotStale == ConsoleSpec => []NoStaleText
<1>1. ConsoleInit => RelayInv
  BY RelayInvInit DEF ConsoleInit
<1>2. RelayInv /\ [RelayNext]_relayVars => RelayInv'
  BY RelayStep
<1>3. [ConsoleNext]_consoleVars => [RelayNext]_relayVars
  BY DEF ConsoleNext, consoleVars
<1>4. RelayInv => NoStaleText
  BY DEF RelayInv
<1> QED BY <1>1, <1>2, <1>3, <1>4, ConsoleSafety, PTL

\* While the page is busy its last call has been made, and not been received.
BusyWaits ==
    ~button => /\ browser \in Call
               /\ web[browser] # "none"
               /\ answer[browser] \in {"none"} \cup Received

LEMMA BusyWaitsStep ==
    ASSUME RelayInv, BusyWaits, [RelayNext]_relayVars
    PROVE  BusyWaits'
<1> USE DEF RelayInv, RelayTypes, BusyWaits
<1>1. CASE Click
  <2>1. browser + 1 \in Call /\ browser + 1 > browser
    BY <1>1, AiRelayAssumption DEF Click, Call
  <2>2. answer[browser + 1] = "none"
    BY <2>1 DEF OneCallOpen
  <2> QED BY <1>1, <2>1, <2>2 DEF Click
<1>2. ASSUME NEW c \in Call, RelayCall(c) PROVE BusyWaits'
  <2>1. CASE Receive(c)
    BY <2>1 DEF Receive
  <2>2. CASE NginxTimesOut(c)
    BY <2>2 DEF NginxTimesOut, Received
  <2>3. CASE \/ WebRefuses(c) \/ WebRedirects(c) \/ WebCalls(c)
             \/ WebAnswers(c) \/ WebTimesOut(c)
    BY <2>3 DEF WebRefuses, WebRedirects, WebCalls, WebAnswers, WebTimesOut, Pass, Received
  <2>4. CASE \/ ProxyTakes(c) \/ ProxyRefuses(c) \/ ProxyCalls(c) \/ ProxyAnswers(c)
             \/ ProxyTimesOut(c) \/ ProxyDrops(c) \/ ProviderEnds(c)
    BY <2>4 DEF ProxyTakes, ProxyRefuses, ProxyCalls, ProxyAnswers, ProxyTimesOut,
                ProxyDrops, ProviderEnds
  <2> QED BY <1>2, <2>1, <2>2, <2>3, <2>4 DEF RelayCall
<1>3. CASE UNCHANGED relayVars
  BY <1>3 DEF relayVars
<1> QED BY <1>1, <1>2, <1>3 DEF RelayNext

\* The half of ButtonReturns that is no liveness: whenever the page is busy, its
\* answer is there to be received, or nginx still waits for it and may give up
\* (canvas-studio.js sendToAI, app.conf); the button is never out for good.
THEOREM BusyCallEnds ==
    ConsoleSpec => [](~button => \/ answer[browser] \in Received
                                 \/ web[browser] # "none" /\ answer[browser] = "none")
<1> DEFINE Goal == ~button => \/ answer[browser] \in Received
                              \/ web[browser] # "none" /\ answer[browser] = "none"
<1>1. ConsoleInit => RelayInv /\ BusyWaits
  BY RelayInvInit DEF ConsoleInit, RelayInit, BusyWaits
<1>2. RelayInv /\ BusyWaits /\ [RelayNext]_relayVars => RelayInv' /\ BusyWaits'
  BY RelayStep, BusyWaitsStep
<1>3. [ConsoleNext]_consoleVars => [RelayNext]_relayVars
  BY DEF ConsoleNext, consoleVars
<1>4. BusyWaits => Goal
  BY DEF BusyWaits
<1> HIDE DEF Goal
<1>5. ConsoleSpec => []Goal
  BY <1>1, <1>2, <1>3, <1>4, ConsoleSafety, PTL
<1> QED BY <1>5 DEF Goal

----------------------------------------------------------------------------
(* Undo and redo.                                                          *)

Object == [edit : Nat, image : BOOLEAN]
State == SUBSET Object

CanvasTypes ==
    /\ canvas \in State
    /\ history \in Seq(State)
    /\ idx \in 1..Len(history)
    /\ Len(history) <= MaxHistory
    /\ suppressHistory \in BOOLEAN /\ isDrawing \in BOOLEAN /\ overlapped \in BOOLEAN
    /\ loading \in Seq(State)
    /\ uploads \in Nat
    /\ edits \in Nat

\* As long as no two loads overlapped there is at most one, of the current
\* entry, and the history is suppressed exactly while it runs; without a load
\* the canvas differs from the current entry only by what is being dragged.
InStep ==
    ~overlapped =>
        \/ loading = <<>> /\ ~suppressHistory /\ (isDrawing \/ canvas = history[idx])
        \/ loading = <<history[idx]>> /\ suppressHistory

CanvasInv == CanvasTypes /\ InStep

LEMMA CanvasInvInit == CanvasInit => CanvasInv
<1> SUFFICES ASSUME CanvasInit PROVE CanvasInv
  OBVIOUS
<1> USE CanvasAssumption DEF CanvasInit
<1>1. history \in Seq(State) /\ Len(history) = 1 /\ history[1] = {} /\ loading \in Seq(State)
  BY DEF State
<1>2. CanvasTypes
  <2>1. suppressHistory \in BOOLEAN /\ isDrawing \in BOOLEAN /\ overlapped \in BOOLEAN
    OBVIOUS
  <2>2. canvas \in State /\ idx = 1 /\ uploads = 0 /\ edits = 0
    BY DEF State
  <2> QED BY <1>1, <2>1, <2>2 DEF CanvasTypes
<1> QED BY <1>1, <1>2 DEF CanvasInv, InStep

\* What saveState leaves: the entry it saved is the current one and the last.
LEMMA SaveStateSets ==
    ASSUME CanvasTypes, NEW c \in State, SaveState(c)
    PROVE  /\ history' \in Seq(State) /\ idx' \in 1..Len(history') /\ Len(history') <= MaxHistory
           /\ suppressHistory => UNCHANGED saved
           /\ ~suppressHistory => history'[idx'] = c
<1> USE CanvasAssumption DEF CanvasTypes
<1>1. CASE suppressHistory
  BY <1>1 DEF SaveState, saved
<1>2. CASE ~suppressHistory
  <2>1. PICK s : s = SubSeq(history, 1, idx)
    OBVIOUS
  <2>2. s \in Seq(State) /\ Len(s) = idx
    BY <2>1
  <2>3. PICK h : h = Append(s, c)
    OBVIOUS
  <2>4. h \in Seq(State) /\ Len(h) = idx + 1 /\ h[idx + 1] = c
    BY <2>2, <2>3
  <2>5. /\ history' = IF Len(h) > MaxHistory THEN Tail(h) ELSE h
        /\ idx' = Len(history')
    BY <1>2, <2>1, <2>3 DEF SaveState
  <2>6. CASE Len(h) > MaxHistory
    <3>1. /\ Tail(h) \in Seq(State) /\ Len(Tail(h)) = idx
          /\ idx \in DOMAIN Tail(h) /\ Tail(h)[idx] = h[idx + 1]
      BY <2>4
    <3> QED BY <1>2, <2>4, <2>5, <2>6, <3>1
  <2>7. CASE ~(Len(h) > MaxHistory)
    BY <1>2, <2>4, <2>5, <2>7
  <2> QED BY <2>6, <2>7
<1> QED BY <1>1, <1>2

\* Every edit that is saved at once.
LEMMA SavedEdit ==
    ASSUME CanvasInv, canvas' \in State, SaveState(canvas'),
           UNCHANGED <<suppressHistory, loading, overlapped>>,
           isDrawing' \in BOOLEAN, uploads' \in Nat, edits' \in Nat
    PROVE  CanvasInv'
<1>1. CanvasTypes'
  BY SaveStateSets DEF CanvasInv, CanvasTypes
<1>2. InStep'
  BY SaveStateSets DEF CanvasInv, InStep, saved
<1> QED BY <1>1, <1>2 DEF CanvasInv

\* Undo and redo load the entry they made the current one.
LEMMA LoadKeeps ==
    ASSUME CanvasInv, idx' \in 1..Len(history), LoadState(history[idx']),
           UNCHANGED <<history, isDrawing, uploads, edits>>
    PROVE  CanvasInv'
<1> USE DEF CanvasInv, CanvasTypes
<1>1. PICK c : c = history[idx'] /\ c \in State
  OBVIOUS
<1>2. overlapped' = (overlapped \/ loading # <<>>)
  BY DEF LoadState
<1>3. overlapped' \in BOOLEAN /\ (~overlapped' => ~overlapped /\ loading = <<>>)
  BY <1>2
<1>4. CASE HasImage(c)
  <2>1. /\ loading' = Append(loading, c) /\ suppressHistory' = TRUE /\ canvas' = canvas
    BY <1>1, <1>4 DEF LoadState
  <2>2. loading' \in Seq(State) /\ (loading = <<>> => loading' = <<c>>)
    <3>1. loading' \in Seq(State)
      BY <1>1, <2>1
    <3>2. Append(<<>>, c) = <<c>>
      OBVIOUS
    <3> QED BY <2>1, <3>1, <3>2
  <2>3. suppressHistory'
    BY <2>1
  <2>4. CanvasTypes'
    BY <1>3, <2>1, <2>2, <2>3
  <2> QED BY <1>1, <1>3, <2>1, <2>2, <2>3, <2>4 DEF InStep
<1>5. CASE ~HasImage(c)
  <2>1. canvas' = c /\ suppressHistory' = FALSE /\ loading' = loading
    BY <1>1, <1>5 DEF LoadState
  <2>2. ~suppressHistory'
    BY <2>1
  <2>3. CanvasTypes'
    BY <1>1, <1>3, <2>1, <2>2
  <2> QED BY <1>1, <1>3, <2>1, <2>2, <2>3 DEF InStep
<1> QED BY <1>4, <1>5

LEMMA LoadedKeeps ==
    ASSUME CanvasInv, NEW i \in DOMAIN loading, Loaded(i)
    PROVE  CanvasInv'
<1> USE DEF CanvasInv, CanvasTypes
<1>1. /\ canvas' = loading[i] /\ loading' = RemoveAt(loading, i) /\ suppressHistory' = FALSE
      /\ UNCHANGED <<history, idx, isDrawing, uploads, edits, overlapped>>
  BY DEF Loaded, saved
<1>2. loading' \in Seq(State)
  BY <1>1 DEF RemoveAt
<1>3. loading = <<history[idx]>> => loading' = <<>> /\ canvas' = history[idx]
  <2> SUFFICES ASSUME loading = <<history[idx]>>
               PROVE  loading' = <<>> /\ canvas' = history[idx]
    OBVIOUS
  <2>1. Len(loading) = 1 /\ i = 1
    OBVIOUS
  <2>2. loading' = <<>>
    BY <1>1, <2>1 DEF RemoveAt
  <2> QED BY <1>1, <2>1, <2>2
<1>4. ~suppressHistory' /\ suppressHistory' \in BOOLEAN
  BY <1>1
<1>5. CanvasTypes'
  BY <1>1, <1>2, <1>4
<1>6. loading # <<>>
  OBVIOUS
<1> QED BY <1>1, <1>3, <1>4, <1>5, <1>6 DEF InStep

\* An object the tools make is an object.
LEMMA NewObject ==
    ASSUME edits \in Nat
    PROVE  /\ Shape \in Object /\ Image \in Object
           /\ \A o \in Object : [o EXCEPT !.edit = edits + 1] \in Object
BY DEF Shape, Image, Object

LEMMA CanvasStep ==
    ASSUME CanvasInv, [CanvasNext]_canvasVars
    PROVE  CanvasInv'
<1> USE CanvasAssumption DEF CanvasTypes
<1>0. CanvasTypes /\ InStep
  BY DEF CanvasInv
<1>1. CASE Undo \/ Redo
  BY <1>0, <1>1, LoadKeeps DEF Undo, Redo
<1>2. CASE MouseDown
  <2>1. canvas' \in State /\ edits' \in Nat /\ isDrawing'
    BY <1>0, <1>2, NewObject DEF MouseDown, Edit, State
  <2>2. UNCHANGED <<history, idx, suppressHistory, loading, uploads, overlapped>>
    BY <1>2 DEF MouseDown, saved, pendingVars
  <2>3. isDrawing' \in BOOLEAN
    BY <1>2 DEF MouseDown
  <2>4. CanvasTypes'
    BY <1>0, <2>1, <2>2, <2>3
  <2> QED BY <1>0, <2>1, <2>2, <2>4 DEF CanvasInv, InStep
<1>3. CASE MouseUp
  <2>1. canvas' \in State /\ SaveState(canvas')
    BY <1>0, <1>3 DEF MouseUp
  <2> QED BY <1>0, <1>3, <2>1, SavedEdit DEF MouseUp, pendingVars
<1>4. CASE AddAtOnce
  <2>1. canvas' \in State /\ edits' \in Nat
    BY <1>0, <1>4, NewObject DEF AddAtOnce, Edit, State
  <2> QED BY <1>0, <1>4, <2>1, SavedEdit DEF AddAtOnce, pendingVars
<1>5. ASSUME NEW o \in canvas, Modified(o) PROVE CanvasInv'
  <2>1. canvas' \in State /\ edits' \in Nat
    BY <1>0, <1>5, NewObject DEF Modified, Edit, State
  <2> QED BY <1>0, <1>5, <2>1, SavedEdit DEF Modified, pendingVars
<1>6. ASSUME NEW objs \in SUBSET canvas, DeleteSelected(objs) PROVE CanvasInv'
  <2>1. canvas' \in State
    BY <1>0, <1>6 DEF DeleteSelected, State
  <2> QED BY <1>0, <1>6, <2>1, SavedEdit DEF DeleteSelected, pendingVars
<1>7. CASE Clear
  <2>1. canvas' \in State
    BY <1>7 DEF Clear, State
  <2> QED BY <1>0, <1>7, <2>1, SavedEdit DEF Clear, pendingVars
<1>8. CASE Upload
  <2>1. UNCHANGED <<canvas, history, idx, suppressHistory, isDrawing, loading, edits, overlapped>>
    BY <1>8 DEF Upload, saved
  <2>2. uploads' \in Nat
    BY <1>0, <1>8 DEF Upload
  <2> QED BY <1>0, <2>1, <2>2 DEF CanvasInv, InStep
<1>9. CASE Uploaded
  <2>1. canvas' \in State /\ edits' \in Nat /\ uploads' \in Nat
    BY <1>0, <1>9, NewObject DEF Uploaded, Edit, State
  <2> QED BY <1>0, <1>9, <2>1, SavedEdit DEF Uploaded
<1>10. CASE UNCHANGED canvasVars
  BY <1>0, <1>10 DEF canvasVars, saved, pendingVars, CanvasInv, InStep
<1> QED BY <1>1, <1>2, <1>3, <1>4, <1>5, <1>6, <1>7, <1>8, <1>9, <1>10, LoadedKeeps
        DEF CanvasNext

\* With no load and no drag under way the canvas is the current entry of the
\* history (canvas-studio.js saveState, loadState), for any length of it and any
\* number of edits and uploads, as long as no two loads overlapped.
THEOREM HistoryInStep == ConsoleSpec => []Settled
<1>1. ConsoleInit => CanvasInv
  BY CanvasInvInit DEF ConsoleInit
<1>2. CanvasInv /\ [CanvasNext]_canvasVars => CanvasInv'
  BY CanvasStep
<1>3. [ConsoleNext]_consoleVars => [CanvasNext]_canvasVars
  BY DEF ConsoleNext, consoleVars
<1>4. CanvasInv => Settled
  <2> SUFFICES ASSUME CanvasInv, loading = <<>>, ~isDrawing, ~overlapped
               PROVE  canvas = history[idx]
    BY DEF Settled
  <2>1. loading # <<history[idx]>>
    OBVIOUS
  <2> QED BY <2>1 DEF CanvasInv, InStep
<1> QED BY <1>1, <1>2, <1>3, <1>4, ConsoleSafety, PTL

\* The half of Resumes that is no liveness: the history is never suppressed
\* without a load under way whose callback resumes it (canvas-studio.js
\* loadState), overlapping loads or not.
THEOREM SuppressedWhileLoading == ConsoleSpec => [](suppressHistory => loading # <<>>)
<1> DEFINE Goal == suppressHistory => loading # <<>>
<1>1. ConsoleInit => Goal
  BY DEF ConsoleInit, CanvasInit
<1>2. Goal /\ [CanvasNext]_canvasVars => Goal'
  <2> SUFFICES ASSUME Goal, [CanvasNext]_canvasVars PROVE Goal'
    OBVIOUS
  <2>1. ASSUME NEW c, LoadState(c) PROVE Goal'
    <3>1. suppressHistory' => loading' = Append(loading, c)
      BY <2>1 DEF LoadState
    <3>2. Append(loading, c) # <<>>
      OBVIOUS
    <3> QED BY <3>1, <3>2
  <2>2. CASE Undo \/ Redo
    BY <2>1, <2>2 DEF Undo, Redo
  <2>3. CASE \E i \in DOMAIN loading : Loaded(i)
    BY <2>3 DEF Loaded
  <2>4. CASE MouseDown \/ MouseUp \/ AddAtOnce \/ Clear \/ Upload \/ Uploaded
    BY <2>4 DEF MouseDown, MouseUp, AddAtOnce, Clear, Upload, Uploaded, pendingVars
  <2>5. CASE \/ \E o \in canvas : Modified(o)
             \/ \E objs \in SUBSET canvas \ {{}} : DeleteSelected(objs)
    BY <2>5 DEF Modified, DeleteSelected, pendingVars
  <2>6. CASE UNCHANGED canvasVars
    BY <2>6 DEF canvasVars, saved, pendingVars
  <2> QED BY <2>2, <2>3, <2>4, <2>5, <2>6 DEF CanvasNext
<1>3. [ConsoleNext]_consoleVars => [CanvasNext]_canvasVars
  BY DEF ConsoleNext, consoleVars
<1> HIDE DEF Goal
<1>4. ConsoleSpec => []Goal
  BY <1>1, <1>2, <1>3, ConsoleSafety, PTL
<1> QED BY <1>4 DEF Goal
=============================================================================
