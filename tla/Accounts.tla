------------------------------ MODULE Accounts ------------------------------
(***************************************************************************)
(* Who may come in: the tables users, issued_student_codes and sessions,   *)
(* the handlers that sign students in and out (codeLogin, oauthCallback,   *)
(* logout, authenticate) and the teacher's handlers for accounts.  A       *)
(* handler runs one statement after the other, each its own transaction,   *)
(* so one action is one statement with the Go code up to the next one;     *)
(* createAdminUser, reissueCode, resetPassword and banAdminUser open a     *)
(* transaction and are one action each.  The browser's part is its cookies *)
(* and the order in which it receives answers.  requireAdmin's check of    *)
(* the teacher's own session is authenticate again and is left out.        *)
(***************************************************************************)
EXTENDS Naturals, FiniteSets

CONSTANTS
    Users,          \* ids gen_random_uuid() can give a user
    Codes,          \* clean codes newStudentCode can draw
    Passwords,      \* passwords of minPasswordLength or more, by their hash
    TooShort,       \* a password that is not
    Providers,      \* "yandex" and "vk"
    Subjects,       \* the providers' stable user ids
    Devices,        \* browsers
    Tokens,         \* the session tokens newToken can draw, never one twice
    States,         \* the OAuth states newToken can draw, never one twice
    Requests,       \* slots for requests in flight
    FutureAdmins,   \* students whom the owner may make an admin by hand
    MaxResets,      \* bound on password resets per student
    None            \* SQL NULL, no cookie

Identity == [provider: Providers, subject: Subjects]

\* A provider's consent: the callback URL it sends the browser to.
Grant == [provider: Providers, state: States, subject: Subjects]

\* A row of users.  resets is not a column: it counts the teacher's resets.
Account == [status: {"absent", "approved", "banned"}, admin: BOOLEAN,
            code: Codes \cup {None}, password: Passwords \cup {None},
            identity: Identity \cup {None}, name: {"given", "corrected"},
            onboarded: BOOLEAN, resets: 0 .. MaxResets]

\* A row of sessions, deleted or expired once it is not live.  The rest is not
\* stored: where the login ran, and what it proved about the account.
Session == [user: Users, live: BOOLEAN, device: Devices,
            password: Passwords \cup {None}, resets: 0 .. MaxResets,
            grant: Grant \cup {None}]

Steps == {"idle", "set_password", "redeem", "upsert", "create_session",
          "onboard", "answered"}

Answers == {"no_code", "too_short", "conflict", "wrong_password", "banned",
            "failed", "cancelled", "signed_in", "signed_out",
            "unauthorized", "onboarded"}

Request == [step: Steps, device: Devices \cup {None}, user: Users \cup {None},
            password: Passwords \cup {None}, resets: 0 .. MaxResets,
            provider: Providers \cup {None}, grant: Grant \cup {None},
            token: Tokens \cup {None}, reply: Answers \cup {None}]

ASSUME AccountsAssumption ==
    /\ None \notin Users \cup Codes \cup Passwords \cup Providers \cup Subjects
    /\ None \notin Devices \cup Tokens \cup States \cup Answers
    /\ None \notin Identity \cup Grant \cup Session
    /\ TooShort \notin Passwords \cup {None}
    /\ FutureAdmins \subseteq Users
    /\ MaxResets \in Nat

VARIABLES
    account,  \* table users, one row per id
    issued,   \* table issued_student_codes
    session,  \* table sessions: per token a row, or None until it is drawn
    cookie,   \* per browser the cookie "session"
    flow,     \* per browser and provider the state in the oauth_flow cookie
    grants,   \* callback URLs the providers have handed out
    redeemed, \* those whose authorization code has been exchanged
    req,      \* the requests in flight
    started,  \* history: the browser that each drawn state was given to
    held      \* history: everybody to whom a code was ever given

db == <<account, issued, session>>
browser == <<cookie, flow>>
provider == <<grants, redeemed>>
history == <<started, held>>
vars == <<account, issued, session, cookie, flow, grants, redeemed, req, started, held>>

-----------------------------------------------------------------------------
(* Rows and requests.                                                      *)

Absent == [status |-> "absent", admin |-> FALSE, code |-> None, password |-> None,
           identity |-> None, name |-> "given", onboarded |-> FALSE, resets |-> 0]

Exists(u) == account[u].status # "absent"

Banned(u) == account[u].status = "banned"

Student(u) == Exists(u) /\ ~account[u].admin

\* Mutant: authenticate forgets that a banned user is not signed in.
AuthenticatedThoughBanned(d, u) ==
    /\ cookie[d] # None
    /\ session[cookie[d]] # None
    /\ session[cookie[d]].live
    /\ session[cookie[d]].user = u

\* The user of a live session that the browser's cookie names.
Authenticated(d, u) ==
    /\ cookie[d] # None
    /\ session[cookie[d]] # None
    /\ session[cookie[d]].live
    /\ session[cookie[d]].user = u
    /\ ~Banned(u)

Idle == [step |-> "idle", device |-> None, user |-> None, password |-> None,
         resets |-> 0, provider |-> None, grant |-> None, token |-> None,
         reply |-> None]

At(r, step) == req[r].step = step

Go(r, q, step) == req' = [req EXCEPT ![r] = [q EXCEPT !.step = step]]

Answer(q, reply) == [q EXCEPT !.step = "answered", !.reply = reply]

Reply(r, q, reply) == req' = [req EXCEPT ![r] = Answer(q, reply)]

\* A request as it arrives from browser d.
From(d) == [Idle EXCEPT !.device = d]

\* The login of u by password p, at the time of reset number resets.
ByPassword(q, u, p, resets) ==
    [q EXCEPT !.user = u, !.password = p, !.resets = resets]

\* The visit of a callback URL.
ByGrant(q, g) == [q EXCEPT !.provider = g.provider, !.grant = g]

\* Bounds: a token is left for every sign-in under way, and a user id for
\* every callback that may still create a user.
TokensLeft ==
    Cardinality({r \in Requests : req[r].step \in
                   {"set_password", "redeem", "upsert", "create_session"}})
      < Cardinality({t \in Tokens : session[t] = None})

UserIdsLeft ==
    Cardinality({r \in Requests : req[r].step \in {"redeem", "upsert"}})
      < Cardinality({u \in Users : ~Exists(u)})

-----------------------------------------------------------------------------
(* codeLogin.                                                              *)

\* GetUserByCode, the checks on the row it returns and the choice of branch.
CodeLogin(r, d, c, p) ==
    LET q == From(d)
    IN /\ At(r, "idle") /\ TokensLeft
       /\ \/ /\ \A u \in Users : account[u].code # c
             /\ Reply(r, q, "no_code")
          \/ \E u \in Users :
               LET row == account[u]
               IN /\ row.code = c
                  /\ \/ Banned(u) /\ Reply(r, q, "banned")
                     \/ /\ ~Banned(u) /\ row.password = None /\ p = TooShort
                        /\ Reply(r, q, "too_short")
                     \/ /\ ~Banned(u) /\ row.password = None /\ p \in Passwords
                        /\ Go(r, ByPassword(q, u, p, row.resets), "set_password")
                     \/ /\ ~Banned(u) /\ row.password # None /\ p # row.password
                        /\ Reply(r, q, "wrong_password")
                     \/ /\ ~Banned(u) /\ row.password # None /\ p = row.password
                        /\ Go(r, ByPassword(q, u, p, row.resets), "create_session")
       /\ UNCHANGED <<db, browser, provider, history>>

\* Mutant: the UPDATE loses "AND password_hash IS NULL".
SetPasswordAnyway(r) ==
    LET q == req[r]
    IN /\ At(r, "set_password")
       /\ account' = [account EXCEPT ![q.user].password = q.password]
       /\ Go(r, [q EXCEPT !.resets = account[q.user].resets], "create_session")
       /\ UNCHANGED <<issued, session, browser, provider, history>>

\* SetPasswordIfUnset: the row may have changed since it was loaded.
SetPassword(r) ==
    LET q == req[r]
    IN /\ At(r, "set_password")
       /\ \/ /\ account[q.user].password = None
             /\ account' = [account EXCEPT ![q.user].password = q.password]
             /\ Go(r, [q EXCEPT !.resets = account[q.user].resets], "create_session")
          \/ /\ account[q.user].password # None
             /\ Reply(r, q, "conflict")
             /\ UNCHANGED account
       /\ UNCHANGED <<issued, session, browser, provider, history>>

\* startSession, for both ways of signing in: nothing about the user is read
\* again.
CreateSession(r) ==
    LET q == req[r]
    IN /\ At(r, "create_session")
       /\ \E t \in Tokens :
            /\ session[t] = None
            /\ session' = [session EXCEPT ![t] =
                 [user |-> q.user, live |-> TRUE, device |-> q.device,
                  password |-> q.password, resets |-> q.resets, grant |-> q.grant]]
            /\ Reply(r, [q EXCEPT !.token = t], "signed_in")
       /\ UNCHANGED <<account, issued, browser, provider, history>>

-----------------------------------------------------------------------------
(* Yandex and VK.                                                          *)

\* oauthStart: the answer sets the flow cookie and redirects to the provider.
OAuthStart(d, p) ==
    /\ \E s \in States :
         /\ started[s] = None
         /\ started' = [started EXCEPT ![s] = d]
         /\ flow' = [flow EXCEPT ![d][p] = s]
    /\ UNCHANGED <<db, cookie, provider, req, held>>

\* The student agrees on the provider's page, which knows the state from the
\* redirect and puts it into the callback URL.
Consent(g) ==
    /\ started[g.state] # None
    /\ \A h \in grants : h.state # g.state
    /\ grants' = grants \cup {g}
    /\ UNCHANGED <<db, browser, redeemed, req, history>>

\* The student declines instead, or the provider reports an error: the cookie
\* is not looked at.
CallbackCancelled(r, d, p) ==
    /\ At(r, "idle")
    /\ Reply(r, [From(d) EXCEPT !.provider = p], "cancelled")
    /\ UNCHANGED <<db, browser, provider, history>>

\* Mutant: the callback's state is not compared with the cookie.
CallbackWithoutState(r, d, g) ==
    LET q == ByGrant(From(d), g)
    IN /\ At(r, "idle") /\ TokensLeft /\ UserIdsLeft
       /\ Go(r, q, "redeem")
       /\ UNCHANGED <<db, browser, provider, history>>

\* The callback URL opens in some browser (a provider's app may choose another
\* one than the student came from; a reload repeats it) and the handler
\* compares its state with the cookie.
Callback(r, d, g) ==
    LET q == ByGrant(From(d), g)
    IN /\ At(r, "idle") /\ TokensLeft /\ UserIdsLeft
       /\ \/ flow[d][g.provider] = g.state /\ Go(r, q, "redeem")
          \/ flow[d][g.provider] # g.state /\ Reply(r, q, "failed")
       /\ UNCHANGED <<db, browser, provider, history>>

\* The code is exchanged and the profile read, under one timeout; the provider
\* exchanges a code once.
Redeem(r) ==
    LET q == req[r]
    IN /\ At(r, "redeem")
       /\ \/ /\ q.grant \notin redeemed
             /\ redeemed' = redeemed \cup {q.grant}
             /\ Go(r, q, "upsert") \/ Reply(r, q, "failed")
          \/ Reply(r, q, "failed") /\ UNCHANGED redeemed
       /\ UNCHANGED <<db, browser, grants, history>>

OAuthUser(i) == [Absent EXCEPT !.status = "approved", !.identity = i]

\* Mutant: no ON CONFLICT on (oauth_provider, oauth_subject).
UpsertAlwaysInserts(i, u) ==
    /\ ~Exists(u)
    /\ account' = [account EXCEPT ![u] = OAuthUser(i)]

\* Mutant: the repeated login also sets the display name.
UpsertRenames(i, u) ==
    \/ /\ account[u].identity = i
       /\ account' = [account EXCEPT ![u].name = "given"]
    \/ /\ \A v \in Users : account[v].identity # i
       /\ ~Exists(u)
       /\ account' = [account EXCEPT ![u] = OAuthUser(i)]

\* The user of an identity; when there is none, a new row.
UpsertOAuthUser(i, u) ==
    \/ account[u].identity = i /\ UNCHANGED account
    \/ /\ \A v \in Users : account[v].identity # i
       /\ ~Exists(u)
       /\ account' = [account EXCEPT ![u] = OAuthUser(i)]

\* The last step of oauthUser and the check for a ban; the timeout may strike
\* after the statement has committed.
Upsert(r) ==
    LET q == req[r]
        i == [provider |-> q.grant.provider, subject |-> q.grant.subject]
    IN /\ At(r, "upsert")
       /\ \E u \in Users :
            /\ UpsertOAuthUser(i, u)
            /\ \/ Reply(r, q, "failed")
               \/ Banned(u) /\ Reply(r, q, "banned")
               \/ /\ ~Banned(u)
                  /\ Go(r, [q EXCEPT !.user = u], "create_session")
       /\ UNCHANGED <<issued, session, browser, provider, history>>

-----------------------------------------------------------------------------
(* Signed in, and out again.                                               *)

\* Onboarding stands for every endpoint behind requireUser: the check of the
\* session and the handler's own statement are two steps.
CompleteOnboarding(r, d) ==
    LET q == From(d)
    IN /\ At(r, "idle")
       /\ \/ \E u \in Users : /\ Authenticated(d, u)
                             /\ Go(r, [q EXCEPT !.user = u], "onboard")
          \/ /\ \A u \in Users : ~Authenticated(d, u)
             /\ Reply(r, q, "unauthorized")
       /\ UNCHANGED <<db, browser, provider, history>>

Onboard(r) ==
    /\ At(r, "onboard")
    /\ account' = [account EXCEPT ![req[r].user].onboarded = TRUE]
    /\ Reply(r, req[r], "onboarded")
    /\ UNCHANGED <<issued, session, browser, provider, history>>

\* Signing out always succeeds.
Logout(r, d) ==
    /\ At(r, "idle")
    /\ session' = [t \in Tokens |->
         IF t = cookie[d] /\ session[t] # None
         THEN [session[t] EXCEPT !.live = FALSE] ELSE session[t]]
    /\ Reply(r, From(d), "signed_out")
    /\ UNCHANGED <<account, issued, browser, provider, history>>

\* The answer reaches the browser with its Set-Cookie headers.
Deliver(r) ==
    LET q == req[r]
    IN /\ At(r, "answered")
       /\ cookie' = CASE q.reply = "signed_in" -> [cookie EXCEPT ![q.device] = q.token]
                      [] q.reply = "signed_out" -> [cookie EXCEPT ![q.device] = None]
                      [] OTHER -> cookie
       /\ flow' = IF q.provider = None THEN flow
                  ELSE [flow EXCEPT ![q.device][q.provider] = None]
       /\ req' = [req EXCEPT ![r] = Idle]
       /\ UNCHANGED <<db, provider, history>>

\* The browser goes away, or the server restarts: the request's context is
\* cancelled, no further statement of it runs and no cookie is set.
Lose(r) ==
    /\ ~At(r, "idle")
    /\ req' = [req EXCEPT ![r] = Idle]
    /\ UNCHANGED <<db, browser, provider, history>>

\* A year later.
Expire(t) ==
    /\ session[t] # None /\ session[t].live
    /\ session' = [session EXCEPT ![t].live = FALSE]
    /\ UNCHANGED <<account, issued, browser, provider, req, history>>

-----------------------------------------------------------------------------
(* The teacher.  A refusal (404, 409) changes nothing and is left out.     *)

\* Mutant: a code is free again when no student has it any more.
ReserveUnusedCode(c) == \A u \in Users : account[u].code # c

\* reserveStudentCode: draws codes until one has never been issued.
ReserveStudentCode(c) == c \notin issued

\* The code goes into the table and onto the student's slip of paper.
Issue(c, u) ==
    /\ ReserveStudentCode(c)
    /\ issued' = issued \cup {c}
    /\ held' = [held EXCEPT ![c] = @ \cup {u}]

CodeUser(c) == [Absent EXCEPT !.status = "approved", !.code = c]

CreateAdminUser(u, c) ==
    /\ ~Exists(u) /\ UserIdsLeft
    /\ Issue(c, u)
    /\ account' = [account EXCEPT ![u] = CodeUser(c)]
    /\ UNCHANGED <<session, browser, provider, req, started>>

UpdateAdminUser(u) ==
    /\ Student(u)
    /\ account' = [account EXCEPT ![u].name = "corrected"]
    /\ UNCHANGED <<issued, session, browser, provider, req, history>>

\* Mutant: a student without a code is not refused.
ReissueAnyCode(u, c) ==
    /\ Student(u)
    /\ Issue(c, u)
    /\ account' = [account EXCEPT ![u].code = c]
    /\ UNCHANGED <<session, browser, provider, req, started>>

ReissueCode(u, c) ==
    /\ Student(u) /\ account[u].code # None
    /\ Issue(c, u)
    /\ account' = [account EXCEPT ![u].code = c]
    /\ UNCHANGED <<session, browser, provider, req, started>>

DeleteUserSessions(u) ==
    session' = [t \in Tokens |->
      IF session[t] # None /\ session[t].user = u
      THEN [session[t] EXCEPT !.live = FALSE] ELSE session[t]]

WithoutPassword(row) == [row EXCEPT !.password = None, !.resets = @ + 1]

\* Mutant: the row is not loaded first, and the UPDATE takes any code user.
ResetAnyCodeUser(u) ==
    /\ Exists(u) /\ account[u].code # None
    /\ account[u].resets < MaxResets
    /\ account' = [account EXCEPT ![u] = WithoutPassword(account[u])]
    /\ DeleteUserSessions(u)
    /\ UNCHANGED <<issued, browser, provider, req, history>>

ResetPassword(u) ==
    /\ Student(u) /\ account[u].code # None
    /\ account[u].resets < MaxResets
    /\ account' = [account EXCEPT ![u] = WithoutPassword(account[u])]
    /\ DeleteUserSessions(u)
    /\ UNCHANGED <<issued, browser, provider, req, history>>

\* Mutant: the ban leaves the sessions to authenticate.
BanWithSessions(u) ==
    /\ Student(u)
    /\ account' = [account EXCEPT ![u].status = "banned"]
    /\ UNCHANGED <<issued, session, browser, provider, req, history>>

BanAdminUser(u) ==
    /\ Student(u)
    /\ account' = [account EXCEPT ![u].status = "banned"]
    /\ DeleteUserSessions(u)
    /\ UNCHANGED <<issued, browser, provider, req, history>>

\* "admin is set by hand", in psql.
MakeAdmin(u) ==
    /\ u \in FutureAdmins /\ Student(u)
    /\ account' = [account EXCEPT ![u].admin = TRUE]
    /\ UNCHANGED <<issued, session, browser, provider, req, history>>

-----------------------------------------------------------------------------
Init ==
    /\ account = [u \in Users |-> Absent]
    /\ issued = {}
    /\ session = [t \in Tokens |-> None]
    /\ cookie = [d \in Devices |-> None]
    /\ flow = [d \in Devices |-> [p \in Providers |-> None]]
    /\ grants = {}
    /\ redeemed = {}
    /\ req = [r \in Requests |-> Idle]
    /\ started = [s \in States |-> None]
    /\ held = [c \in Codes |-> {}]

\* What a request in flight does next on the server.
Work(r) ==
    \/ SetPassword(r) \/ CreateSession(r)
    \/ Redeem(r) \/ Upsert(r) \/ Onboard(r)

Browse(r) ==
    \E d \in Devices :
      \/ \E c \in Codes, p \in Passwords \cup {TooShort} : CodeLogin(r, d, c, p)
      \/ \E p \in Providers : CallbackCancelled(r, d, p)
      \/ \E g \in grants : Callback(r, d, g)
      \/ CompleteOnboarding(r, d)
      \/ Logout(r, d)

Teach ==
    \E u \in Users :
      \/ \E c \in Codes : CreateAdminUser(u, c) \/ ReissueCode(u, c)
      \/ UpdateAdminUser(u)
      \/ ResetPassword(u)
      \/ BanAdminUser(u)
      \/ MakeAdmin(u)

Next ==
    \/ \E r \in Requests : Work(r) \/ Browse(r) \/ Deliver(r) \/ Lose(r)
    \/ \E d \in Devices, p \in Providers : OAuthStart(d, p)
    \/ \E g \in Grant : Consent(g)
    \/ \E t \in Tokens : Expire(t)
    \/ Teach

Spec == Init /\ [][Next]_vars

-----------------------------------------------------------------------------
(* Properties.                                                             *)

\* Every row and cookie has its type, and the rows of users pass the CHECKs of
\* the table: a password only with a code, a code or an OAuth identity.
TypeOK ==
    /\ account \in [Users -> Account]
    /\ \A u \in Users :
         /\ account[u].password # None => account[u].code # None
         /\ account[u].identity = None \/ account[u].code = None
    /\ issued \subseteq Codes
    /\ session \in [Tokens -> Session \cup {None}]
    /\ cookie \in [Devices -> Tokens \cup {None}]
    /\ flow \in [Devices -> [Providers -> States \cup {None}]]
    /\ grants \subseteq Grant /\ redeemed \subseteq grants
    /\ req \in [Requests -> Request]
    /\ started \in [States -> Devices \cup {None}]
    /\ held \in [Codes -> SUBSET Users]

\* A code printed for one student never opens another student's account, also
\* not after it was replaced: a slip found years later names one person.
CodesNameOneStudent ==
    \A c \in Codes :
      /\ \A u \in Users : account[u].code = c => u \in held[c]
      /\ \A u, v \in held[c] : u = v

\* Two devices that make up a first password at once do not overwrite each
\* other: every device that was let in proved the password the account has, as
\* long as the teacher has not reset it since.
SessionsProvePassword ==
    \A t \in Tokens :
      LET s == session[t]
      IN s # None /\ s.grant = None /\ s.resets = account[s.user].resets =>
           s.password # None /\ s.password = account[s.user].password

\* However many callbacks of one person run at once, from either provider's
\* page, an identity is one row of users.
OneAccountPerIdentity ==
    \A u, v \in Users :
      account[u].identity # None /\ account[u].identity = account[v].identity => u = v

\* A browser is signed in through a provider only if the sign-in began in this
\* very browser, and as the person who agreed: a callback URL that ends up in
\* another browser does not sign that one in.
CallbackTiedToBrowser ==
    \A t \in Tokens :
      session[t] # None /\ session[t].grant # None =>
        LET s == session[t]
        IN /\ started[s.grant.state] = s.device
           /\ account[s.user].identity =
                [provider |-> s.grant.provider, subject |-> s.grant.subject]

\* The requests of u that are past their check for a ban, in either login or in
\* authenticate, and will not look again.
Past(u) ==
    {r \in Requests : /\ req[r].user = u
                      /\ req[r].step \in {"set_password", "create_session", "onboard"}}

Live(u) == {t \in Tokens : session[t] # None /\ session[t].live /\ session[t].user = u}

\* A ban is final and ends every session.  What it cannot stop is what is past
\* its check: each login among that leaves one session, later, and nothing is
\* added to it, by no cookie (that late one included), code or callback.
BanHolds ==
    [][\A u \in Users :
         /\ Banned(u) => Banned(u)' /\ Past(u)' \subseteq Past(u)
         /\ Banned(u)' => \A t \in Live(u)' :
              \/ Banned(u) /\ t \in Live(u)
              \/ \E r \in Past(u) \ Past(u)' : req'[r].token = t]_vars

\* Whatever the owner promotes by hand stays out of reach of the buttons on
\* the students' page: an admin is not banned and keeps code, password and name.
AdminsUntouched ==
    [][\A u \in Users : account[u].admin =>
         /\ account'[u].status = account[u].status
         /\ account'[u].code = account[u].code
         /\ account'[u].name = account[u].name
         /\ account[u].password # None => account'[u].password = account[u].password]_vars

\* The teacher's correction of a name survives every later OAuth login.
NameBelongsToTeacher ==
    [][\A u \in Users : account[u].name = "corrected" => account'[u].name = "corrected"]_vars

\* resetPassword: "any device still signed in is locked out too", and session.go
\* "deleting a row ... locks the client out": no session that is live was
\* opened with a password from before the reset.
ResetLocksOut ==
    \A t \in Tokens :
      session[t] # None /\ session[t].live /\ session[t].grant = None =>
        session[t].resets = account[session[t].user].resets
=============================================================================
