-------------------------------- MODULE SignIn --------------------------------
(***************************************************************************)
(* The shell of the application: who the student is, the screens that sign *)
(* him in, and the way back to the page he came from.  The session is a    *)
(* cookie that the answers of the server set and clear, so that what the   *)
(* shell believes and what the next call will carry can differ.            *)
(***************************************************************************)
EXTENDS Browser

CONSTANTS
    Students,   \* each with a code
    Paths,
    Root        \* "/"

VARIABLES
    live,       \* table sessions: whose sessions of this browser are live
    cookie,     \* whose session the browser sends
    stored,     \* sessionStorage: the path to return to after a provider
    app,        \* the state of components App and Login
    wanted      \* history: the page at which the student began to sign in

vars == <<live, cookie, stored, app, wanted, calls, faults, changes>>

Steps == {"start", "code", "password", "notFound"}

Login == [step: Steps, busy: BOOLEAN]

\* "unknown": /me has not answered, or, if "failed", not with 200 or 401.
App == [at: {"here", "provider"}, path: Paths, me: Students \cup {None, "unknown"},
        authAttempt: Nat, failed: BOOLEAN, login: Login]

NoLogin == [step |-> "start", busy |-> FALSE]

NoApp == [at |-> "here", path |-> Root, me |-> "unknown", authAttempt |-> 0,
          failed |-> FALSE, login |-> NoLogin]

-----------------------------------------------------------------------------
(* The document.                                                           *)

\* A call carries the cookie of its moment.
Carrying(session, op, id, arg) == [Request(op, id, arg) EXCEPT !.data = session]

Ask(op, id, arg) ==
    /\ Cardinality(calls) < MaxCalls
    /\ calls' = calls \cup {Carrying(cookie, op, id, arg)}

\* Login is drawn while me is null.
Become(p, me) ==
    [p EXCEPT !.me = me, !.login = IF me = None /\ app.me = None THEN @ ELSE NoLogin]

\* When it is no longer drawn, of what it has asked only the sign-in counts.
Kept(sent, me) ==
    IF me = None /\ app.me = None THEN sent
    ELSE {[c EXCEPT !.to = IF c.op = "login" /\ @ = "page" THEN "left" ELSE @] :
            c \in {d \in sent : d.op # "check"}}

\* Who does not wait for a call that only reads need not know of it.
Writes(sent) == {c \in sent : c.op \in {"login", "logout"}}

\* The document is loaded, by a student who has the given cookie.
Load(path, session) ==
    /\ app' = [NoApp EXCEPT !.path = path]
    /\ calls' = Writes(Abandoned) \cup {Carrying(session, "me", None, [attempt |-> 0])}

-----------------------------------------------------------------------------
(* The student.                                                            *)

Browsing == UNCHANGED <<live, faults, changes>>

Here == app.at = "here"

SignedIn == Here /\ app.me \in Students

LoginShown == Here /\ app.me = None

Visit(path) ==
    /\ SignedIn
    /\ app' = [app EXCEPT !.path = path]
    /\ Ask("page", None, None)
    /\ wanted' = None
    /\ UNCHANGED <<cookie, stored>>
    /\ Browsing

\* Bound: not while it is still being loaded.
Reload ==
    /\ Here /\ (app.me # "unknown" \/ app.failed)
    /\ Load(app.path, cookie)
    /\ UNCHANGED <<cookie, stored, wanted>>
    /\ Browsing

signOut ==
    /\ SignedIn
    /\ Ask("logout", None, None)
    /\ UNCHANGED <<app, cookie, stored, wanted>>
    /\ Browsing

OnLogin == UNCHANGED <<cookie, stored>> /\ Browsing

\* Also while a code is being checked.
goTo(step) ==
    /\ LoginShown
    /\ step \in CASE app.login.step = "start"    -> {"code"}
                  [] app.login.step = "code"     -> {"start"}
                  [] app.login.step = "password" -> {"code"}
                  [] app.login.step = "notFound" -> {"code", "start"}
    /\ app' = [app EXCEPT !.login.step = step]
    /\ UNCHANGED <<calls, wanted>>
    /\ OnLogin

checkCode ==
    /\ LoginShown /\ app.login.step = "code" /\ ~app.login.busy
    /\ app' = [app EXCEPT !.login.busy = TRUE]
    /\ Ask("check", None, None)
    /\ UNCHANGED wanted
    /\ OnLogin

\* The code is what the field holds by now; it can be edited while it is being
\* checked.  If a path is already remembered, it is where this sign-in leads.
logIn(code) ==
    /\ LoginShown /\ app.login.step = "password" /\ ~app.login.busy
    /\ app' = [app EXCEPT !.login.busy = TRUE]
    /\ Ask("login", code, None)
    /\ wanted' = IF stored = None THEN app.path ELSE None
    /\ OnLogin

\* The link to a provider: the document is left.  A storage that is blocked or
\* full does not remember the path.
rememberOAuthDestination ==
    /\ LoginShown /\ app.login.step \in {"start", "code"}
    /\ \/ stored' = app.path /\ wanted' = app.path
       \/ UNCHANGED stored /\ wanted' = None
    /\ app' = [app EXCEPT !.at = "provider"]
    /\ calls' = Writes(Abandoned)
    /\ UNCHANGED cookie
    /\ Browsing

\* Mutant: /auth/callback leads to nowhere if no path is remembered.
CallbackBlind(session) ==
    /\ Load(stored, session)
    /\ stored' = None

\* Mutant: /auth/callback leads to the catalogue.
CallbackHome(session) ==
    /\ Load(Root, session)
    /\ stored' = None

\* /auth/callback: the path is taken.
Callback(session) ==
    /\ Load(IF stored = None THEN Root ELSE stored, session)
    /\ stored' = None

\* The provider leads back: with a session, or with an error.
OAuthReturns ==
    /\ app.at = "provider"
    /\ \/ Callback(cookie) /\ UNCHANGED <<live, cookie, changes>>
       \/ \E s \in Students :
            /\ changes < MaxChanges /\ changes' = changes + 1 \* bound
            /\ live' = live \cup {s} /\ cookie' = s
            /\ Callback(s)
    /\ UNCHANGED <<wanted, faults>>

\* The journey is given up; the path stays remembered.
GoBack ==
    /\ app.at = "provider"
    /\ Load(app.path, cookie)
    /\ wanted' = None
    /\ UNCHANGED <<cookie, stored>>
    /\ Browsing

-----------------------------------------------------------------------------
(* The server.  c.data is the cookie, until the answer takes its place.    *)
(* The changes that are counted are the new sessions.                      *)

Untouched(c, answer, data) == NoChange(c, answer, data) /\ UNCHANGED live

Me(c) ==
    /\ c.op \in {"me", "page"}
    /\ IF c.data \in live THEN Untouched(c, "ok", c.data)
       ELSE Untouched(c, "refused", None)

Logout(c) ==
    /\ c.op = "logout"
    /\ NoChange(c, "ok", None)
    /\ live' = live \ {c.data}

\* Whether somebody has the code, and whether the password is right, is left
\* open; both are in module Accounts.
codeCheck(c) ==
    /\ c.op = "check"
    /\ \E answer \in {"ok", "refused"} : Untouched(c, answer, None)

codeLogin(c) ==
    /\ c.op = "login"
    /\ \/ Change(c, None) /\ live' = live \cup {c.id}
       \/ Untouched(c, "refused", None)

Serve(c) ==
    /\ c.answer = "none"
    /\ \/ Me(c) \/ Logout(c) \/ codeCheck(c) \/ codeLogin(c)
       \/ c.op = "login" /\ Overloaded(c) /\ UNCHANGED live
    /\ UNCHANGED <<cookie, stored, app, wanted, faults>>

\* A session expires, or the teacher has ended it.
Expire ==
    /\ \E s \in live : live' = live \ {s}
    /\ UNCHANGED <<cookie, stored, app, wanted, calls, faults, changes>>

Lose(c) ==
    /\ Fail(c)
    /\ {d \in calls' : d.to = "gone"} \subseteq Writes(calls')
    /\ UNCHANGED <<live, cookie, stored, app, wanted>>

-----------------------------------------------------------------------------
(* The answers arrive.                                                     *)

Refused(c) == c.answer \in {"refused", "failed"}

\* Mutant: only a 401 is taken for a failure.
MeArrivesUntold(c) ==
    /\ c.op = "me"
    /\ LET me == IF c.answer = "ok" THEN c.data ELSE None
       IN IF c.answer = "failed" \/ c.arg.attempt # app.authAttempt
          THEN UNCHANGED app /\ Heard(c)
          ELSE app' = Become(app, me) /\ calls' = Kept(calls \ {c}, me)
    /\ UNCHANGED <<cookie, stored, wanted>>

\* Mutant: an answer to an older /me is taken as well.
MeArrivesLate(c) ==
    /\ c.op = "me"
    /\ LET me == IF c.answer = "ok" THEN c.data ELSE None
       IN IF c.answer = "failed" THEN app' = [app EXCEPT !.failed = TRUE] /\ Heard(c)
          ELSE app' = Become(app, me) /\ calls' = Kept(calls \ {c}, me)
    /\ UNCHANGED <<cookie, stored, wanted>>

\* Only the answer to the latest attempt counts.
MeArrives(c) ==
    /\ c.op = "me"
    /\ LET me == IF c.answer = "ok" THEN c.data ELSE None
       IN CASE c.arg.attempt # app.authAttempt -> UNCHANGED app /\ Heard(c)
            [] c.arg.attempt = app.authAttempt /\ c.answer = "failed" ->
                 app' = [app EXCEPT !.failed = TRUE] /\ Heard(c)
            [] OTHER -> app' = Become(app, me) /\ calls' = Kept(calls \ {c}, me)
    /\ UNCHANGED <<cookie, stored, wanted>>

\* A 401 of any page signs the student out, here only.
handleExpiredSession(c) ==
    /\ c.op = "page"
    /\ IF c.answer = "refused"
       THEN app' = Become(app, None) /\ calls' = Kept(calls \ {c}, None)
       ELSE UNCHANGED app /\ Heard(c)
    /\ UNCHANGED <<cookie, stored, wanted>>

\* Whether or not the server has heard of it.
LogoutArrives(c) ==
    /\ c.op = "logout"
    /\ app' = [Become(app, None) EXCEPT !.path = Root]
    /\ calls' = Kept(calls \ {c}, None)
    /\ cookie' = IF c.answer = "ok" THEN None ELSE cookie
    /\ wanted' = None
    /\ UNCHANGED stored

CheckArrives(c) ==
    /\ c.op = "check"
    /\ app' = [app EXCEPT !.login.busy = FALSE,
                          !.login.step = CASE c.answer = "ok"      -> "password"
                                           [] c.answer = "refused" -> "notFound"
                                           [] c.answer = "failed"  -> @]
    /\ Heard(c)
    /\ UNCHANGED <<cookie, stored, wanted>>

signIn(sent) ==
    /\ app' = [Become(app, "unknown") EXCEPT
                 !.authAttempt = @ + 1, !.failed = FALSE,
                 !.path = IF stored = None THEN @ ELSE stored]
    /\ calls' = Kept(sent, "unknown") \cup
         {Carrying(cookie', "me", None, [attempt |-> app.authAttempt + 1])}
    /\ stored' = None

\* Mutant: the button stays locked after an error.
LoginArrivesLocked(c) ==
    /\ c.op = "login"
    /\ IF Refused(c) THEN UNCHANGED <<app, cookie, stored>> /\ Heard(c)
       ELSE cookie' = c.id /\ signIn(calls \ {c})
    /\ UNCHANGED wanted

LoginArrives(c) ==
    /\ c.op = "login"
    /\ IF Refused(c)
       THEN /\ IF c.to = "left" THEN UNCHANGED app
               ELSE app' = [app EXCEPT !.login.busy = FALSE]
            /\ UNCHANGED <<cookie, stored>> /\ Heard(c)
       ELSE cookie' = c.id /\ signIn(calls \ {c})
    /\ UNCHANGED wanted

Arrive(c) ==
    /\ c.answer # "none"
    /\ \/ MeArrives(c) \/ handleExpiredSession(c) \/ LogoutArrives(c)
       \/ CheckArrives(c) \/ LoginArrives(c)
    /\ Browsing

-----------------------------------------------------------------------------
Init ==
    /\ cookie \in Students \cup {None} /\ live = {cookie} \ {None}
    /\ stored = None /\ wanted = None
    /\ app = NoApp
    /\ calls = {[Request("me", None, [attempt |-> 0]) EXCEPT !.data = cookie]}
    /\ faults = 0 /\ changes = 0

Student ==
    \/ Reload \/ signOut \/ checkCode \/ rememberOAuthDestination
    \/ OAuthReturns \/ GoBack
    \/ \E path \in Paths : Visit(path)
    \/ \E step \in Steps : goTo(step)
    \/ \E code \in Students : logIn(code)

Network == \E c \in calls : Serve(c) \/ Arrive(c)

Next == Student \/ Network \/ Expire \/ \E c \in calls : Lose(c)

\* A call that is sent is answered, or the connection breaks.
Fairness == WF_vars(Network)

Spec == Init /\ [][Next]_vars /\ Fairness

-----------------------------------------------------------------------------
(* Properties.                                                             *)

TypeOK ==
    /\ live \subseteq Students
    /\ cookie \in Students \cup {None}
    /\ stored \in Paths \cup {None} /\ wanted \in Paths \cup {None}
    /\ app \in App
    /\ faults \in 0 .. MaxFaults /\ changes \in 0 .. MaxChanges

\* However the answers overtake each other, no call is made for a student
\* other than the one whose name is shown.  (It may be made for nobody, if the
\* answer to an old sign-out came after a new sign-in.)
MeTrue == SignedIn /\ calls = {} => cookie \in {app.me, None}

\* Signing in, by code or by a provider, ends at the page where it was begun.
ReturnsToPage == SignedIn /\ wanted # None => app.path = wanted

\* The buttons of the sign-in screens are locked only while a call is out.
LockHasItsCall ==
    LoginShown /\ app.login.busy => \E c \in calls : c.to = "page" /\ c.op \in {"check", "login"}

\* The application learns who the student is, or shows that it cannot.
Settles == app.me = "unknown" ~> app.me # "unknown" \/ app.failed
=============================================================================
