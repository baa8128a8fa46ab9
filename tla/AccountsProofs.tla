--------------------------- MODULE AccountsProofs ---------------------------
(***************************************************************************)
(* Proofs about Accounts, for any number of students, codes, browsers and  *)
(* requests: the types of the tables, what a code and an identity name,    *)
(* what a session proves, and what a ban and the teacher's work keep.      *)
(***************************************************************************)
EXTENDS Accounts, TLAPS

-----------------------------------------------------------------------------
(* Types.                                                                  *)

\* The types alone.
Typed ==
    /\ account \in [Users -> Account]
    /\ issued \subseteq Codes
    /\ session \in [Tokens -> Session \cup {None}]
    /\ cookie \in [Devices -> Tokens \cup {None}]
    /\ flow \in [Devices -> [Providers -> States \cup {None}]]
    /\ grants \subseteq Grant /\ redeemed \subseteq grants
    /\ req \in [Requests -> Request]
    /\ started \in [States -> Devices \cup {None}]
    /\ held \in [Codes -> SUBSET Users]

\* An id that is not given to a user has no data; a password needs a code, and
\* a row with an identity has no code.
RowChecks ==
    \A u \in Users :
      /\ ~Exists(u) => account[u] = Absent
      /\ account[u].password # None => account[u].code # None
      /\ account[u].identity = None \/ account[u].code = None

\* What a request carries at each step.
StepOK(q) ==
    /\ q.step # "idle" => q.device \in Devices
    /\ q.step = "set_password" =>
         /\ q.user \in Users /\ q.password \in Passwords /\ q.grant = None
         /\ account[q.user].code # None
    /\ q.step \in {"redeem", "upsert"} => q.grant \in grants
    /\ q.step \in {"create_session", "onboard"} => q.user \in Users /\ Exists(q.user)
    /\ q.step = "answered" => q.reply \in Answers
    /\ q.reply = "signed_in" => q.token \in Tokens

SlotOK(q) == q \in Request /\ StepOK(q)

\* The foreign key sessions_user_id_fkey.
SessionUsers ==
    \A t \in Tokens : session[t] # None => Exists(session[t].user)

Shape == Typed /\ RowChecks /\ SessionUsers /\ \A r \in Requests : StepOK(req[r])

-----------------------------------------------------------------------------
(* Rows of users.                                                          *)

\* What every statement leaves of a row: a user stays, a ban stays, an admin
\* keeps access, an identity and a corrected name stay, and the password is set
\* when there is none or removed by a reset.
Evolves(new, old) ==
    /\ new \in Account
    /\ new.status = "absent" => new = old
    /\ old.status = "banned" => new.status = "banned"
    /\ old.admin => /\ new.admin /\ new.status = old.status /\ new.code = old.code
                    /\ new.name = old.name
                    /\ old.password # None => new.password = old.password
    /\ old.code # None => new.code # None
    /\ old.identity # None => new.identity = old.identity
    /\ old.name = "corrected" => new.name = "corrected"
    /\ \/ /\ new.resets = old.resets
          /\ old.password # None => new.password = old.password
       \/ /\ new.resets = old.resets + 1
          /\ new.password = None
    /\ new.password # None => new.code # None
    /\ new.identity = None \/ new.code = None

\* The rows that the INSERTs write.
LEMMA NewRows ==
  /\ Absent \in Account
  /\ \A c \in Codes :
       LET new == CodeUser(c)
       IN /\ new \in Account /\ new.status = "approved" /\ new.code = c
          /\ new.password = None /\ new.identity = None /\ new.resets = 0
  /\ \A i \in Identity :
       LET new == OAuthUser(i)
       IN /\ new \in Account /\ new.status = "approved" /\ new.code = None
          /\ new.password = None /\ new.identity = i /\ new.resets = 0
  <1>1. Absent \in Account
    BY AccountsAssumption DEF Absent, Account
  <1>2. ASSUME NEW c \in Codes
        PROVE  LET new == CodeUser(c)
               IN /\ new \in Account /\ new.status = "approved" /\ new.code = c
                  /\ new.password = Absent.password
                  /\ new.identity = Absent.identity /\ new.resets = Absent.resets
    BY <1>1 DEF CodeUser, Account
  <1>3. ASSUME NEW i \in Identity
        PROVE  LET new == OAuthUser(i)
               IN /\ new \in Account /\ new.status = "approved"
                  /\ new.code = Absent.code /\ new.password = Absent.password
                  /\ new.identity = i /\ new.resets = Absent.resets
    BY <1>1 DEF OAuthUser, Account
  <1> QED
    BY <1>1, <1>2, <1>3 DEF Absent

\* Both INSERTs take an id without data.
LEMMA Inserted ==
  ASSUME Shape, NEW u \in Users, ~Exists(u)
  PROVE  /\ \A c \in Codes : Evolves(CodeUser(c), account[u])
         /\ \A i \in Identity : Evolves(OAuthUser(i), account[u])
  <1>1. account[u] = Absent
    BY DEF Shape, RowChecks
  <1> QED
    BY <1>1, NewRows, AccountsAssumption DEF Evolves, Absent

\* The UPDATEs, one column each; a reset is counted as well.
LEMMA Updated ==
  ASSUME Shape, NEW u \in Users, Exists(u)
  PROVE  /\ account[u].password = None /\ account[u].code # None =>
              \A p \in Passwords : Evolves([account[u] EXCEPT !.password = p], account[u])
         /\ Evolves([account[u] EXCEPT !.onboarded = TRUE], account[u])
         /\ ~account[u].admin /\ account[u].code # None =>
              /\ \A c \in Codes : Evolves([account[u] EXCEPT !.code = c], account[u])
              /\ account[u].resets < MaxResets =>
                   Evolves(WithoutPassword(account[u]), account[u])
         /\ ~account[u].admin =>
              /\ Evolves([account[u] EXCEPT !.name = "corrected"], account[u])
              /\ Evolves([account[u] EXCEPT !.status = "banned"], account[u])
              /\ Evolves([account[u] EXCEPT !.admin = TRUE], account[u])
  <1> DEFINE row == account[u]
  <1>1. /\ row \in Account /\ row.status # "absent"
        /\ row.password # None => row.code # None
        /\ row.identity = None \/ row.code = None
    BY DEF Shape, Typed, RowChecks, Exists
  <1> HIDE DEF row
  <1>2. ASSUME NEW p \in Passwords, row.password = None, row.code # None
        PROVE  Evolves([row EXCEPT !.password = p], row)
    BY <1>1, <1>2 DEF Account, Evolves
  <1>3. Evolves([row EXCEPT !.onboarded = TRUE], row)
    BY <1>1 DEF Account, Evolves
  <1>4. ASSUME NEW c \in Codes, ~row.admin, row.code # None
        PROVE  Evolves([row EXCEPT !.code = c], row)
    BY <1>1, <1>4, AccountsAssumption DEF Account, Evolves
  <1>5. ASSUME ~row.admin, row.resets < MaxResets
        PROVE  Evolves(WithoutPassword(row), row)
    <2>1. row.resets + 1 \in 0 .. MaxResets
      BY <1>1, <1>5, AccountsAssumption DEF Account
    <2> DEFINE n == row.resets + 1
               new == [row EXCEPT !.password = None, !.resets = n]
    <2>2. WithoutPassword(row) = new
      BY DEF WithoutPassword
    <2> HIDE DEF n
    <2>3. /\ new \in Account /\ new.resets = n /\ new.password = None
          /\ new.status = row.status /\ new.admin = row.admin
          /\ new.code = row.code /\ new.identity = row.identity /\ new.name = row.name
      BY <1>1, <2>1 DEF Account, n
    <2> QED
      BY <1>1, <1>5, <2>2, <2>3 DEF Evolves, n
  <1>6. ASSUME ~row.admin
        PROVE  /\ Evolves([row EXCEPT !.name = "corrected"], row)
               /\ Evolves([row EXCEPT !.status = "banned"], row)
               /\ Evolves([row EXCEPT !.admin = TRUE], row)
    BY <1>1, <1>6 DEF Account, Evolves
  <1> QED
    BY <1>2, <1>3, <1>4, <1>5, <1>6 DEF row

\* How the table users moves in a step.
UsersEvolve ==
    /\ account' \in [Users -> Account]
    /\ \A u \in Users : Evolves(account'[u], account[u])

LEMMA UsersStay ==
  ASSUME Shape, UNCHANGED account
  PROVE  UsersEvolve
  <1> USE DEF Shape
  <1>1. account \in [Users -> Account] /\ RowChecks
    BY DEF Typed
  <1> QED
    BY <1>1 DEF UsersEvolve, Evolves, RowChecks

LEMMA UserChanges ==
  ASSUME Shape, NEW u \in Users, NEW new, Evolves(new, account[u]),
         account' = [account EXCEPT ![u] = new]
  PROVE  UsersEvolve
  <1>1. account \in [Users -> Account] /\ new \in Account
    BY DEF Shape, Typed, Evolves
  <1>2. \A v \in Users : Evolves(account[v], account[v])
    BY <1>1 DEF Shape, RowChecks, Evolves
  <1> QED
    BY <1>1, <1>2 DEF UsersEvolve

\* Every step moves the table users as Evolves says.
LEMMA UsersStep ==
  ASSUME Shape, Next
  PROVE  UsersEvolve
  <1>1. ASSUME NEW r \in Requests, Work(r)
        PROVE  UsersEvolve
    <2>1. req[r] \in Request /\ StepOK(req[r])
      BY DEF Shape, Typed
    <2>2. CASE SetPassword(r)
      <3> DEFINE u == req[r].user
                 p == req[r].password
      <3>1. /\ u \in Users /\ p \in Passwords /\ account[u].code # None
            /\ Exists(u)
        BY <2>1, <2>2, AccountsAssumption
           DEF SetPassword, At, StepOK, Shape, RowChecks, Absent
      <3>2. CASE account[u].password = None /\ account' = [account EXCEPT ![u].password = p]
        <4>1. Evolves([account[u] EXCEPT !.password = p], account[u])
          BY <3>1, <3>2, Updated
        <4>2. account' = [account EXCEPT ![u] = [account[u] EXCEPT !.password = p]]
          BY <3>2
        <4> QED
          BY <3>1, <4>1, <4>2, UserChanges
      <3> QED
        BY <2>2, <3>2, UsersStay DEF SetPassword
    <2>3. CASE CreateSession(r) \/ Redeem(r)
      BY <2>3, UsersStay DEF CreateSession, Redeem, db
    <2>4. CASE Upsert(r)
      <3> DEFINE i == [provider |-> req[r].grant.provider, subject |-> req[r].grant.subject]
      <3>1. i \in Identity
        BY <2>1, <2>4 DEF Upsert, At, StepOK, Shape, Typed, Grant, Identity
      <3>2. PICK u \in Users : UpsertOAuthUser(i, u)
        BY <2>4 DEF Upsert
      <3> HIDE DEF i
      <3>3. CASE UNCHANGED account
        BY <3>3, UsersStay
      <3>4. CASE ~Exists(u) /\ account' = [account EXCEPT ![u] = OAuthUser(i)]
        BY <3>1, <3>4, Inserted, UserChanges
      <3> QED
        BY <3>2, <3>3, <3>4 DEF UpsertOAuthUser
    <2>5. CASE Onboard(r)
      <3> DEFINE u == req[r].user
      <3>1. u \in Users /\ Exists(u)
        BY <2>1, <2>5 DEF Onboard, At, StepOK
      <3>2. account' = [account EXCEPT ![u] = [account[u] EXCEPT !.onboarded = TRUE]]
        BY <2>5 DEF Onboard
      <3> QED
        BY <3>1, <3>2, Updated, UserChanges
    <2> QED
      BY <1>1, <2>2, <2>3, <2>4, <2>5 DEF Work
  <1>2. ASSUME \/ \E r \in Requests : Browse(r) \/ Deliver(r) \/ Lose(r)
               \/ \E d \in Devices, p \in Providers : OAuthStart(d, p)
               \/ \E g \in Grant : Consent(g)
               \/ \E t \in Tokens : Expire(t)
        PROVE  UsersEvolve
    <2>1. ASSUME NEW r \in Requests, Browse(r)
          PROVE  UNCHANGED account
      <3>1. \A d, c, p : CodeLogin(r, d, c, p) => UNCHANGED account
        BY DEF CodeLogin, db
      <3>2. \A d, p : CallbackCancelled(r, d, p) => UNCHANGED account
        BY DEF CallbackCancelled, db
      <3>3. \A d, g : Callback(r, d, g) => UNCHANGED account
        BY DEF Callback, db
      <3>4. \A d : CompleteOnboarding(r, d) \/ Logout(r, d) => UNCHANGED account
        BY DEF CompleteOnboarding, Logout, db
      <3> QED
        BY <2>1, <3>1, <3>2, <3>3, <3>4 DEF Browse
    <2>2. ASSUME NEW r \in Requests, Deliver(r) \/ Lose(r)
          PROVE  UNCHANGED account
      BY <2>2 DEF Deliver, Lose, db
    <2>3. ASSUME \/ \E d \in Devices, p \in Providers : OAuthStart(d, p)
                 \/ \E g \in Grant : Consent(g)
                 \/ \E t \in Tokens : Expire(t)
          PROVE  UNCHANGED account
      BY <2>3 DEF OAuthStart, Consent, Expire, db
    <2> QED
      BY <1>2, <2>1, <2>2, <2>3, UsersStay
  <1>3. ASSUME NEW u \in Users,
               \/ \E c \in Codes : CreateAdminUser(u, c) \/ ReissueCode(u, c)
               \/ UpdateAdminUser(u) \/ ResetPassword(u) \/ BanAdminUser(u) \/ MakeAdmin(u)
        PROVE  UsersEvolve
    <2>1. ASSUME NEW c \in Codes, CreateAdminUser(u, c)
          PROVE  UsersEvolve
      BY <2>1, Inserted, UserChanges DEF CreateAdminUser
    <2>2. ASSUME NEW c \in Codes, ReissueCode(u, c)
          PROVE  UsersEvolve
      <3>1. account' = [account EXCEPT ![u] = [account[u] EXCEPT !.code = c]]
        BY <2>2 DEF ReissueCode
      <3> QED
        BY <2>2, <3>1, Updated, UserChanges DEF ReissueCode, Student
    <2>3. CASE UpdateAdminUser(u)
      <3>1. account' = [account EXCEPT ![u] = [account[u] EXCEPT !.name = "corrected"]]
        BY <2>3 DEF UpdateAdminUser
      <3> QED
        BY <2>3, <3>1, Updated, UserChanges DEF UpdateAdminUser, Student
    <2>4. CASE ResetPassword(u)
      BY <2>4, Updated, UserChanges DEF ResetPassword, Student
    <2>5. CASE BanAdminUser(u)
      <3>1. account' = [account EXCEPT ![u] = [account[u] EXCEPT !.status = "banned"]]
        BY <2>5 DEF BanAdminUser
      <3> QED
        BY <2>5, <3>1, Updated, UserChanges DEF BanAdminUser, Student
    <2>6. CASE MakeAdmin(u)
      <3>1. account' = [account EXCEPT ![u] = [account[u] EXCEPT !.admin = TRUE]]
        BY <2>6 DEF MakeAdmin
      <3> QED
        BY <2>6, <3>1, Updated, UserChanges DEF MakeAdmin, Student
    <2> QED
      BY <1>3, <2>1, <2>2, <2>3, <2>4, <2>5, <2>6
  <1> QED
    BY <1>1, <1>2, <1>3 DEF Next, Teach

-----------------------------------------------------------------------------
(* Requests.                                                               *)

\* Requests as they begin and as they move on.
LEMMA Begins ==
  ASSUME NEW d \in Devices
  PROVE  /\ Idle \in Request /\ Idle.step = "idle" /\ Idle.reply = None
         /\ From(d) \in Request
         /\ From(d).step = "idle" /\ From(d).device = d /\ From(d).user = None
         /\ From(d).grant = None /\ From(d).token = None /\ From(d).reply = None
         /\ From(d).password = None /\ From(d).resets = 0 /\ From(d).provider = None
  <1>1. Idle \in Request
    BY AccountsAssumption DEF Idle, Request, Steps
  <1>2. /\ From(d) \in Request /\ From(d).device = d
        /\ From(d).step = Idle.step /\ From(d).user = Idle.user
        /\ From(d).grant = Idle.grant /\ From(d).token = Idle.token
        /\ From(d).reply = Idle.reply /\ From(d).password = Idle.password
        /\ From(d).resets = Idle.resets /\ From(d).provider = Idle.provider
    BY <1>1 DEF From, Request
  <1> QED
    BY <1>1, <1>2 DEF Idle

\* What stays of a request when it moves on or is answered.
Same(new, q) ==
    /\ new.device = q.device /\ new.user = q.user /\ new.password = q.password
    /\ new.resets = q.resets /\ new.provider = q.provider
    /\ new.grant = q.grant /\ new.token = q.token

LEMMA MovesOn ==
  ASSUME NEW q \in Request
  PROVE  /\ \A step \in Steps :
              LET new == [q EXCEPT !.step = step]
              IN new \in Request /\ new.step = step /\ new.reply = q.reply /\ Same(new, q)
         /\ \A reply \in Answers :
              LET new == Answer(q, reply)
              IN /\ new \in Request /\ new.step = "answered" /\ new.reply = reply
                 /\ Same(new, q)
  <1>1. ASSUME NEW step \in Steps
        PROVE  LET new == [q EXCEPT !.step = step]
               IN new \in Request /\ new.step = step /\ new.reply = q.reply /\ Same(new, q)
    BY DEF Request, Same
  <1>2. ASSUME NEW reply \in Answers
        PROVE  LET new == Answer(q, reply)
               IN /\ new \in Request /\ new.step = "answered" /\ new.reply = reply
                  /\ Same(new, q)
    BY DEF Request, Same, Answer, Steps
  <1> QED
    BY <1>1, <1>2

\* What the handlers learn on the way.
LEMMA Learns ==
  ASSUME NEW q \in Request
  PROVE  /\ \A u \in Users, p \in Passwords, n \in 0 .. MaxResets :
              LET new == ByPassword(q, u, p, n)
              IN /\ new \in Request /\ new.device = q.device /\ new.reply = q.reply
                 /\ new.user = u /\ new.password = p /\ new.resets = n
                 /\ new.grant = q.grant /\ new.token = q.token
         /\ \A g \in Grant :
              LET new == ByGrant(q, g)
              IN /\ new \in Request /\ new.device = q.device /\ new.reply = q.reply
                 /\ new.grant = g /\ new.token = q.token
         /\ \A n \in 0 .. MaxResets :
              LET new == [q EXCEPT !.resets = n]
              IN /\ new \in Request /\ new.device = q.device /\ new.reply = q.reply
                 /\ new.user = q.user /\ new.password = q.password /\ new.resets = n
                 /\ new.grant = q.grant /\ new.token = q.token
         /\ \A u \in Users :
              LET new == [q EXCEPT !.user = u]
              IN /\ new \in Request /\ new.device = q.device /\ new.reply = q.reply
                 /\ new.user = u /\ new.grant = q.grant /\ new.token = q.token
         /\ \A t \in Tokens :
              LET new == [q EXCEPT !.token = t]
              IN /\ new \in Request /\ new.device = q.device /\ new.token = t
                 /\ new.user = q.user /\ new.grant = q.grant
         /\ \A p \in Providers :
              LET new == [q EXCEPT !.provider = p]
              IN /\ new \in Request /\ new.device = q.device /\ new.token = q.token
  <1>1. \A u \in Users, p \in Passwords, n \in 0 .. MaxResets :
          LET new == ByPassword(q, u, p, n)
          IN /\ new \in Request /\ new.device = q.device /\ new.reply = q.reply
             /\ new.user = u /\ new.password = p /\ new.resets = n
             /\ new.grant = q.grant /\ new.token = q.token
    BY DEF ByPassword, Request
  <1>2. ASSUME NEW g \in Grant
        PROVE  LET new == ByGrant(q, g)
               IN /\ new \in Request /\ new.device = q.device /\ new.reply = q.reply
                  /\ new.grant = g /\ new.token = q.token
    <2>1. g.provider \in Providers
      BY DEF Grant
    <2> QED
      BY <2>1 DEF ByGrant, Request
  <1>3. \A n \in 0 .. MaxResets :
          LET new == [q EXCEPT !.resets = n]
          IN /\ new \in Request /\ new.device = q.device /\ new.reply = q.reply
             /\ new.user = q.user /\ new.password = q.password /\ new.resets = n
             /\ new.grant = q.grant /\ new.token = q.token
    BY DEF Request
  <1>4. \A u \in Users :
          LET new == [q EXCEPT !.user = u]
          IN /\ new \in Request /\ new.device = q.device /\ new.reply = q.reply
             /\ new.user = u /\ new.grant = q.grant /\ new.token = q.token
    BY DEF Request
  <1>5. \A t \in Tokens :
          LET new == [q EXCEPT !.token = t]
          IN /\ new \in Request /\ new.device = q.device /\ new.token = t
             /\ new.user = q.user /\ new.grant = q.grant
    BY DEF Request
  <1>6. \A p \in Providers :
          LET new == [q EXCEPT !.provider = p]
          IN /\ new \in Request /\ new.device = q.device /\ new.token = q.token
    BY DEF Request
  <1> QED
    BY <1>1, <1>2, <1>3, <1>4, <1>5, <1>6

\* What a request carries stays good when others move.
LEMMA StillOK ==
  ASSUME Shape, UsersEvolve, grants \subseteq grants', NEW q \in Request, StepOK(q)
  PROVE  StepOK(q)'
  <1>1. ASSUME NEW u \in Users
        PROVE  /\ Exists(u) => Exists(u)'
               /\ account[u].code # None => account'[u].code # None
    BY <1>1 DEF UsersEvolve, Evolves, Exists
  <1> QED
    BY <1>1 DEF StepOK

\* At most one slot changes in a step, and what it holds is good.
SlotsMove ==
    \/ UNCHANGED req
    \/ \E r \in Requests, q \in Request : StepOK(q)' /\ req' = [req EXCEPT ![r] = q]

\* A request that is answered or moves on, for the steps that change no user.
LEMMA SlotMoves ==
  ASSUME Shape, UsersEvolve, grants \subseteq grants', NEW r \in Requests,
         NEW q \in Request, q.device \in Devices, q.reply = None
  PROVE  /\ \A reply \in Answers \ {"signed_in"} : Reply(r, q, reply) => SlotsMove
         /\ \A step \in Steps :
              Go(r, q, step) /\ StepOK([q EXCEPT !.step = step]) => SlotsMove
  <1>1. ASSUME NEW reply \in Answers \ {"signed_in"}, Reply(r, q, reply)
        PROVE  SlotsMove
    <2>1. Answer(q, reply) \in Request /\ StepOK(Answer(q, reply))
      BY MovesOn DEF StepOK, Same
    <2> QED
      BY <1>1, <2>1, StillOK DEF Reply, SlotsMove
  <1>2. ASSUME NEW step \in Steps, Go(r, q, step), StepOK([q EXCEPT !.step = step])
        PROVE  SlotsMove
    BY <1>2, MovesOn, StillOK DEF Go, SlotsMove
  <1> QED
    BY <1>1, <1>2

\* The statements of the handlers under way.
LEMMA WorkMoves ==
  ASSUME Shape, UsersEvolve, NEW r \in Requests, Work(r)
  PROVE  SlotsMove
  <1> DEFINE q == req[r]
  <1>1. q \in Request /\ StepOK(q)
    BY DEF Shape, Typed
  <1>2. grants' = grants
    BY DEF Work, SetPassword, CreateSession, Redeem, Upsert, Onboard, provider
  <1>3. \A reply \in Answers \ {"signed_in"} :
           q.device \in Devices /\ Reply(r, q, reply) => SlotsMove
    <2> SUFFICES ASSUME NEW reply \in Answers \ {"signed_in"}, q.device \in Devices,
                        Reply(r, q, reply)
                 PROVE  SlotsMove
      OBVIOUS
    <2>1. Answer(q, reply) \in Request /\ StepOK(Answer(q, reply))
      BY <1>1, MovesOn DEF StepOK, Same
    <2> QED
      BY <1>2, <2>1, StillOK DEF Reply, SlotsMove
  <1>4. CASE SetPassword(r)
    <2>1. /\ q.user \in Users /\ q.device \in Devices
          /\ Exists(q.user)
      BY <1>1, <1>4, AccountsAssumption
         DEF SetPassword, At, StepOK, Shape, RowChecks, Absent
    <2>2. CASE Reply(r, q, "conflict")
      BY <1>3, <2>1, <2>2 DEF Answers
    <2>3. CASE Go(r, [q EXCEPT !.resets = account[q.user].resets], "create_session")
      <3> DEFINE p == [q EXCEPT !.resets = account[q.user].resets]
      <3>1. account[q.user].resets \in 0 .. MaxResets
        BY <2>1 DEF Shape, Typed, Account
      <3>2. /\ p \in Request /\ p.device = q.device /\ p.user = q.user
            /\ p.reply = q.reply /\ p.token = q.token
        BY <1>1, <3>1, Learns
      <3> HIDE DEF p
      <3>3. [p EXCEPT !.step = "create_session"] \in Request
        BY <3>2, MovesOn DEF Steps
      <3>4. StepOK([p EXCEPT !.step = "create_session"])
        BY <1>1, <2>1, <3>2, MovesOn DEF Steps, StepOK, Same
      <3> QED
        BY <1>2, <2>3, <3>3, <3>4, StillOK DEF Go, SlotsMove, p
    <2> QED
      BY <1>4, <2>2, <2>3 DEF SetPassword
  <1>5. CASE CreateSession(r)
    <2>1. PICK t \in Tokens : Reply(r, [q EXCEPT !.token = t], "signed_in")
      BY <1>5 DEF CreateSession
    <2> DEFINE p == [q EXCEPT !.token = t]
    <2>2. p \in Request /\ p.device = q.device /\ p.token = t
      BY <1>1, Learns
    <2>3. q.device \in Devices
      BY <1>1, <1>5 DEF CreateSession, At, StepOK
    <2> HIDE DEF p
    <2>4. Answer(p, "signed_in") \in Request /\ StepOK(Answer(p, "signed_in"))
      BY <2>2, <2>3, MovesOn DEF StepOK, Same, Answers
    <2> QED
      BY <1>2, <2>1, <2>4, StillOK DEF Reply, SlotsMove, p
  <1>6. CASE Redeem(r)
    <2>1. q.device \in Devices /\ q.grant \in grants
      BY <1>1, <1>6, AccountsAssumption DEF Redeem, At, StepOK
    <2>2. [q EXCEPT !.step = "upsert"] \in Request /\ StepOK([q EXCEPT !.step = "upsert"])
      BY <1>1, <2>1, MovesOn DEF Steps, StepOK, Same
    <2>3. CASE Go(r, q, "upsert")
      BY <1>2, <2>2, <2>3, StillOK DEF Go, SlotsMove
    <2>4. CASE Reply(r, q, "failed")
      BY <1>3, <2>1, <2>4 DEF Answers
    <2> QED
      BY <1>6, <2>3, <2>4 DEF Redeem
  <1>7. CASE Upsert(r)
    <2> DEFINE i == [provider |-> q.grant.provider, subject |-> q.grant.subject]
    <2>1. q.device \in Devices /\ i \in Identity
      BY <1>1, <1>7, AccountsAssumption
         DEF Upsert, At, StepOK, Shape, Typed, Grant, Identity
    <2>2. PICK u \in Users :
            /\ UpsertOAuthUser(i, u)
            /\ \/ Reply(r, q, "failed") \/ Reply(r, q, "banned")
               \/ Go(r, [q EXCEPT !.user = u], "create_session")
      BY <1>7 DEF Upsert
    <2>3. Exists(u)'
      <3> HIDE DEF i
      <3>1. CASE account[u].identity = i /\ UNCHANGED account
        BY <2>1, <3>1, AccountsAssumption DEF Shape, RowChecks, Absent, Exists
      <3>2. CASE account' = [account EXCEPT ![u] = OAuthUser(i)]
        BY <2>1, <3>2, NewRows DEF Shape, Typed, Exists
      <3> QED
        BY <2>2, <3>1, <3>2 DEF UpsertOAuthUser
    <2>4. CASE Go(r, [q EXCEPT !.user = u], "create_session")
      <3> DEFINE p == [q EXCEPT !.user = u]
      <3>1. /\ p \in Request /\ p.device = q.device /\ p.user = u
            /\ p.reply = q.reply /\ p.token = q.token
        BY <1>1, Learns
      <3> HIDE DEF p
      <3> DEFINE n == [p EXCEPT !.step = "create_session"]
      <3>2. /\ n \in Request /\ n.step = "create_session" /\ n.reply = p.reply
            /\ n.device = p.device /\ n.user = p.user /\ n.token = p.token
        BY <3>1, MovesOn DEF Steps, Same
      <3> HIDE DEF n
      <3>3. \A x \in Request :
               /\ x.step = "create_session" /\ x.device \in Devices /\ x.user = u
               /\ x.reply = "signed_in" => x.token \in Tokens
               => StepOK(x)'
        BY <2>3 DEF StepOK
      <3>4. n.device \in Devices /\ n.user = u /\ (n.reply = "signed_in" => n.token \in Tokens)
        BY <1>1, <2>1, <3>1, <3>2 DEF StepOK
      <3> QED
        BY <2>4, <3>2, <3>3, <3>4 DEF Go, SlotsMove, p, n
    <2> QED
      BY <1>3, <2>1, <2>2, <2>4 DEF Answers
  <1>8. CASE Onboard(r)
    <2>1. q.device \in Devices
      BY <1>1, <1>8 DEF Onboard, At, StepOK
    <2> QED
      BY <1>3, <1>8, <2>1 DEF Onboard, Answers
  <1> QED
    BY <1>4, <1>5, <1>6, <1>7, <1>8 DEF Work

\* The requests that browsers send.
LEMMA BrowseMoves ==
  ASSUME Shape, UsersEvolve, NEW r \in Requests, Browse(r)
  PROVE  SlotsMove
  <1>1. PICK d \in Devices :
          \/ \E c \in Codes, p \in Passwords \cup {TooShort} : CodeLogin(r, d, c, p)
          \/ \E p \in Providers : CallbackCancelled(r, d, p)
          \/ \E g \in grants : Callback(r, d, g)
          \/ CompleteOnboarding(r, d)
          \/ Logout(r, d)
    BY DEF Browse
  <1>2. grants' = grants
    BY <1>1 DEF CodeLogin, CallbackCancelled, Callback, CompleteOnboarding, Logout, provider
  <1> DEFINE q == From(d)
  <1>3. /\ q \in Request /\ q.device = d /\ q.reply = None /\ q.grant = None
        /\ d \in Devices
    BY Begins
  <1> HIDE DEF q
  <1>4. \A reply \in Answers \ {"signed_in"} : Reply(r, q, reply) => SlotsMove
    BY <1>2, <1>3, SlotMoves
  <1>5. ASSUME NEW c \in Codes, NEW p \in Passwords \cup {TooShort}, CodeLogin(r, d, c, p)
        PROVE  SlotsMove
    <2>1. CASE \E reply \in {"no_code", "banned", "too_short", "wrong_password"} :
                 Reply(r, q, reply)
      BY <1>4, <2>1 DEF Answers
    <2>2. ASSUME NEW u \in Users, account[u].code = c, p \in Passwords,
                 NEW step \in {"set_password", "create_session"},
                 Go(r, ByPassword(q, u, p, account[u].resets), step)
          PROVE  SlotsMove
      <3> DEFINE b == ByPassword(q, u, p, account[u].resets)
      <3>1. account[u].resets \in 0 .. MaxResets
        BY DEF Shape, Typed, Account
      <3>2. /\ b \in Request /\ b.device = d /\ b.reply = None /\ b.grant = None
            /\ b.user = u /\ b.password = p
        BY <1>3, <2>2, <3>1, Learns
      <3>3. Exists(u) /\ account[u].code # None
        BY <2>2, AccountsAssumption DEF Shape, RowChecks, Absent
      <3> HIDE DEF b
      <3>4. [b EXCEPT !.step = step] \in Request
        BY <3>2, MovesOn DEF Steps
      <3>5. StepOK([b EXCEPT !.step = step])
        BY <1>3, <2>2, <3>2, <3>3, MovesOn, AccountsAssumption DEF Steps, StepOK, Same, Answers
      <3> QED
        BY <1>2, <2>2, <3>4, <3>5, StillOK DEF Go, SlotsMove, b
    <2>3. \/ \E reply \in {"no_code", "banned", "too_short", "wrong_password"} :
               Reply(r, q, reply)
          \/ \E u \in Users, step \in {"set_password", "create_session"} :
               /\ account[u].code = c /\ p # TooShort
               /\ Go(r, ByPassword(q, u, p, account[u].resets), step)
      <3>1. \A u \in Users : account[u].password # TooShort
        BY AccountsAssumption DEF Shape, Typed, Account
      <3> QED
        BY <1>5, <3>1, AccountsAssumption DEF CodeLogin, q
    <2> QED
      BY <2>1, <2>2, <2>3
  <1>6. ASSUME NEW p \in Providers, CallbackCancelled(r, d, p)
        PROVE  SlotsMove
    <2> DEFINE b == [q EXCEPT !.provider = p]
    <2>1. b \in Request /\ b.device = d
      BY <1>3, Learns
    <2>2. Reply(r, b, "cancelled")
      BY <1>6 DEF CallbackCancelled, q
    <2> HIDE DEF b
    <2>3. Answer(b, "cancelled") \in Request /\ StepOK(Answer(b, "cancelled"))
      BY <1>3, <2>1, MovesOn DEF StepOK, Same, Answers
    <2> QED
      BY <1>2, <2>2, <2>3, StillOK DEF Reply, SlotsMove
  <1>7. ASSUME NEW g \in grants, Callback(r, d, g)
        PROVE  SlotsMove
    <2> DEFINE b == ByGrant(q, g)
    <2>1. b \in Request /\ b.device = d /\ b.reply = None /\ b.grant = g
      BY <1>3, Learns DEF Shape, Typed
    <2>2. Go(r, b, "redeem") \/ Reply(r, b, "failed")
      BY <1>7 DEF Callback, q
    <2> HIDE DEF b
    <2>3. StepOK([b EXCEPT !.step = "redeem"])
      BY <1>3, <2>1, MovesOn, AccountsAssumption DEF StepOK, Same, Steps, Answers
    <2> QED
      BY <1>2, <1>3, <2>1, <2>2, <2>3, SlotMoves DEF Steps, Answers
  <1>8. CASE CompleteOnboarding(r, d)
    <2>1. ASSUME NEW u \in Users, Authenticated(d, u),
                 Go(r, [q EXCEPT !.user = u], "onboard")
          PROVE  SlotsMove
      <3> DEFINE b == [q EXCEPT !.user = u]
      <3>1. b \in Request /\ b.device = d /\ b.reply = None /\ b.user = u
        BY <1>3, Learns
      <3> HIDE DEF b
      <3>2. cookie[d] \in Tokens /\ session[cookie[d]].user = u /\ session[cookie[d]].live
        BY <1>3, <2>1 DEF Authenticated, Shape, Typed
      <3>3. Exists(u)
        BY <2>1, <3>2 DEF Shape, SessionUsers, Authenticated
      <3>4. StepOK([b EXCEPT !.step = "onboard"])
        BY <1>3, <3>1, <3>3, MovesOn, AccountsAssumption DEF StepOK, Same, Steps, Answers
      <3> QED
        BY <1>2, <1>3, <2>1, <3>1, <3>4, SlotMoves DEF Steps, b
    <2> QED
      BY <1>4, <1>8, <2>1 DEF CompleteOnboarding, Answers, q
  <1>9. CASE Logout(r, d)
    BY <1>4, <1>9 DEF Logout, Answers, q
  <1> QED
    BY <1>1, <1>5, <1>6, <1>7, <1>8, <1>9

\* Answers that arrive, requests that are lost, and what needs no request.
LEMMA OtherMoves ==
  ASSUME Shape, UsersEvolve, Next,
         \A r \in Requests : ~Work(r) /\ ~Browse(r)
  PROVE  SlotsMove /\ grants \subseteq grants'
  <1>1. ASSUME NEW r \in Requests, Deliver(r) \/ Lose(r)
        PROVE  SlotsMove /\ grants \subseteq grants'
    <2>1. Idle \in Request /\ \A x \in Request : x = Idle => StepOK(x)'
      BY AccountsAssumption DEF StepOK, Idle, Request, Steps, Answers
    <2>2. req' = [req EXCEPT ![r] = Idle] /\ grants' = grants
      BY <1>1 DEF Deliver, Lose, provider
    <2> QED
      BY <2>1, <2>2 DEF SlotsMove
  <1>2. ASSUME \/ \E d \in Devices, p \in Providers : OAuthStart(d, p)
               \/ \E g \in Grant : Consent(g)
               \/ \E t \in Tokens : Expire(t)
        PROVE  SlotsMove /\ grants \subseteq grants'
    BY <1>2 DEF OAuthStart, Consent, Expire, provider, SlotsMove
  <1>3. CASE Teach
    BY <1>3 DEF Teach, CreateAdminUser, ReissueCode, UpdateAdminUser, ResetPassword,
                BanAdminUser, MakeAdmin, provider, SlotsMove
  <1> QED
    BY <1>1, <1>2, <1>3 DEF Next

\* Every slot is good after every step.
LEMMA SlotsStep ==
  ASSUME Shape, Next
  PROVE  /\ req' \in [Requests -> Request] /\ \A r \in Requests : StepOK(req[r])'
         /\ grants \subseteq grants'
  <1>1. UsersEvolve
    BY UsersStep
  <1>2. SlotsMove /\ grants \subseteq grants'
    <2>1. ASSUME NEW r \in Requests, Work(r)
          PROVE  SlotsMove /\ grants \subseteq grants'
      <3>1. grants' = grants
        BY <2>1 DEF Work, SetPassword, CreateSession, Redeem, Upsert, Onboard, provider
      <3> QED
        BY <1>1, <2>1, <3>1, WorkMoves
    <2>2. ASSUME NEW r \in Requests, Browse(r)
          PROVE  SlotsMove /\ grants \subseteq grants'
      <3>1. grants' = grants
        BY <2>2 DEF Browse, CodeLogin, CallbackCancelled, Callback,
                    CompleteOnboarding, Logout, provider
      <3> QED
        BY <1>1, <2>2, <3>1, BrowseMoves
    <2> QED
      BY <1>1, <2>1, <2>2, OtherMoves
  <1>3. \A r \in Requests : req[r] \in Request /\ StepOK(req[r])
    BY DEF Shape, Typed
  <1>4. \A q \in Request : StepOK(q) => StepOK(q)'
    BY <1>1, <1>2, StillOK
  <1> QED
    BY <1>2, <1>3, <1>4 DEF SlotsMove, Shape, Typed

-----------------------------------------------------------------------------
(* Sessions and the rest of the state.                                     *)

\* What a session keeps as long as its row exists, and after.
SameProof(new, old) ==
    /\ new.user = old.user /\ new.device = old.device
    /\ new.password = old.password /\ new.resets = old.resets
    /\ new.grant = old.grant

\* A session is one there was before, or the login of a request.
SessionsEvolve ==
    /\ session' \in [Tokens -> Session \cup {None}]
    /\ \A t \in Tokens : session'[t] # None =>
         \/ session[t] # None /\ SameProof(session'[t], session[t])
         \/ \E r \in Requests :
              /\ At(r, "create_session") /\ UNCHANGED <<account, started>>
              /\ SameProof(session'[t], req[r])

\* Ending sessions keeps what they are.
LEMMA SessionsEnd ==
  ASSUME Shape, NEW Ended,
         session' = [t \in Tokens |->
           IF session[t] # None /\ t \in Ended THEN [session[t] EXCEPT !.live = FALSE]
           ELSE session[t]]
  PROVE  SessionsEvolve
  <1>1. session \in [Tokens -> Session \cup {None}]
    BY DEF Shape, Typed
  <1>2. \A s \in Session : LET new == [s EXCEPT !.live = FALSE]
                           IN new \in Session /\ SameProof(new, s)
    BY DEF Session, SameProof
  <1>3. \A s : SameProof(s, s)
    BY DEF SameProof
  <1> QED
    BY <1>1, <1>2, <1>3 DEF SessionsEvolve

LEMMA SessionsStay ==
  ASSUME Shape, UNCHANGED session
  PROVE  SessionsEvolve
  BY DEF Shape, Typed, SessionsEvolve, SameProof

\* Every step moves the table sessions as SessionsEvolve says.
LEMMA SessionsStep ==
  ASSUME Shape, Next
  PROVE  SessionsEvolve
  <1>1. ASSUME NEW r \in Requests, CreateSession(r)
        PROVE  SessionsEvolve
    <2> DEFINE q == req[r]
               new == [user |-> q.user, live |-> TRUE, device |-> q.device,
                       password |-> q.password, resets |-> q.resets, grant |-> q.grant]
    <2>1. PICK t \in Tokens : session[t] = None /\ session' = [session EXCEPT ![t] = new]
      BY <1>1 DEF CreateSession
    <2>2. q \in Request /\ q.user \in Users /\ q.device \in Devices
      BY <1>1 DEF CreateSession, At, Shape, Typed, StepOK
    <2>3. new \in Session
      BY <2>2 DEF Session, Request
    <2>4. SameProof(new, q)
      BY DEF SameProof
    <2>5. UNCHANGED <<account, started>> /\ At(r, "create_session")
      BY <1>1 DEF CreateSession, history
    <2> HIDE DEF new
    <2>6. session \in [Tokens -> Session \cup {None}] /\ \A s : SameProof(s, s)
      BY DEF Shape, Typed, SameProof
    <2> QED
      BY <2>1, <2>3, <2>4, <2>5, <2>6 DEF SessionsEvolve
  <1>2. ASSUME NEW r \in Requests, NEW d \in Devices, Logout(r, d)
        PROVE  SessionsEvolve
    <2>1. session' = [t \in Tokens |->
            IF session[t] # None /\ t \in {cookie[d]} THEN [session[t] EXCEPT !.live = FALSE]
            ELSE session[t]]
      BY <1>2 DEF Logout
    <2> QED
      BY <2>1, SessionsEnd
  <1>3. ASSUME NEW r \in Requests, Browse(r), \A d \in Devices : ~Logout(r, d)
        PROVE  SessionsEvolve
    <2>1. PICK d \in Devices :
            \/ \E c \in Codes, p \in Passwords \cup {TooShort} : CodeLogin(r, d, c, p)
            \/ \E p \in Providers : CallbackCancelled(r, d, p)
            \/ \E g \in grants : Callback(r, d, g)
            \/ CompleteOnboarding(r, d)
      BY <1>3 DEF Browse
    <2>2. UNCHANGED session
      BY <2>1 DEF CodeLogin, CallbackCancelled, Callback, CompleteOnboarding, db
    <2> QED
      BY <2>2, SessionsStay
  <1>4. ASSUME NEW r \in Requests,
               \/ SetPassword(r) \/ Redeem(r) \/ Upsert(r) \/ Onboard(r)
               \/ Deliver(r) \/ Lose(r)
        PROVE  SessionsEvolve
    BY <1>4, SessionsStay DEF SetPassword, Redeem, Upsert, Onboard, Deliver, Lose, db
  <1>5. ASSUME \/ \E d \in Devices, p \in Providers : OAuthStart(d, p)
               \/ \E g \in Grant : Consent(g)
        PROVE  SessionsEvolve
    BY <1>5, SessionsStay DEF OAuthStart, Consent, db
  <1>6. ASSUME NEW t \in Tokens, Expire(t)
        PROVE  SessionsEvolve
    <2>1. session' = [x \in Tokens |->
            IF session[x] # None /\ x \in {t} THEN [session[x] EXCEPT !.live = FALSE]
            ELSE session[x]]
      <3>1. session \in [Tokens -> Session \cup {None}]
        BY DEF Shape, Typed
      <3>2. session' = [session EXCEPT ![t] = [session[t] EXCEPT !.live = FALSE]]
            /\ session[t] # None
        BY <1>6 DEF Expire
      <3> QED
        BY <3>1, <3>2
    <2> QED
      BY <2>1, SessionsEnd
  <1>7. ASSUME NEW u \in Users, DeleteUserSessions(u)
        PROVE  SessionsEvolve
    <2>1. session' = [t \in Tokens |->
            IF session[t] # None /\ t \in {x \in Tokens : session[x].user = u}
            THEN [session[t] EXCEPT !.live = FALSE] ELSE session[t]]
      BY <1>7 DEF DeleteUserSessions
    <2> QED
      BY <2>1, SessionsEnd
  <1>8. CASE Teach
    BY <1>7, <1>8, SessionsStay
       DEF Teach, CreateAdminUser, ReissueCode, UpdateAdminUser, ResetPassword,
           BanAdminUser, MakeAdmin
  <1> QED
    BY <1>1, <1>2, <1>3, <1>4, <1>5, <1>6, <1>8 DEF Next, Work

\* The tables of the codes, the cookies, the consents and the histories.
RestTyped ==
    /\ issued \subseteq Codes
    /\ cookie \in [Devices -> Tokens \cup {None}]
    /\ flow \in [Devices -> [Providers -> States \cup {None}]]
    /\ grants \subseteq Grant /\ redeemed \subseteq grants
    /\ started \in [States -> Devices \cup {None}]
    /\ held \in [Codes -> SUBSET Users]

LEMMA RestStays ==
  ASSUME Shape, UNCHANGED <<issued, cookie, flow, grants, redeemed, started, held>>
  PROVE  RestTyped'
  BY DEF Shape, Typed, RestTyped

LEMMA RestStep ==
  ASSUME Shape, Next
  PROVE  RestTyped'
  <1>0. RestTyped
    BY DEF Shape, Typed, RestTyped
  <1>1. ASSUME NEW r \in Requests, Work(r)
        PROVE  RestTyped'
    <2>1. CASE Redeem(r)
      <3>1. req[r].grant \in grants
        BY <2>1 DEF Redeem, At, Shape, StepOK
      <3> QED
        BY <1>0, <2>1, <3>1 DEF Redeem, RestTyped, db, browser, history
    <2>2. CASE SetPassword(r) \/ CreateSession(r) \/ Upsert(r) \/ Onboard(r)
      BY <2>2, RestStays
         DEF SetPassword, CreateSession, Upsert, Onboard, browser, provider, history
    <2> QED
      BY <1>1, <2>1, <2>2 DEF Work
  <1>2. ASSUME NEW r \in Requests, Browse(r)
        PROVE  RestTyped'
    <2>1. UNCHANGED <<issued, browser, provider, history>>
      <3>1. \A d, c, p : CodeLogin(r, d, c, p) => UNCHANGED <<issued, browser, provider, history>>
        BY DEF CodeLogin, db
      <3>2. \A d, p : CallbackCancelled(r, d, p) => UNCHANGED <<issued, browser, provider, history>>
        BY DEF CallbackCancelled, db
      <3>3. \A d, g : Callback(r, d, g) => UNCHANGED <<issued, browser, provider, history>>
        BY DEF Callback, db
      <3>4. \A d : CompleteOnboarding(r, d) \/ Logout(r, d)
                     => UNCHANGED <<issued, browser, provider, history>>
        BY DEF CompleteOnboarding, Logout, db
      <3> QED
        BY <1>2, <3>1, <3>2, <3>3, <3>4 DEF Browse
    <2> QED
      BY <2>1, RestStays DEF browser, provider, history
  <1>3. ASSUME NEW r \in Requests, Deliver(r)
        PROVE  RestTyped'
    <2> DEFINE q == req[r]
    <2>1. /\ q \in Request /\ q.device \in Devices
          /\ q.reply = "signed_in" => q.token \in Tokens
      BY <1>3 DEF Deliver, At, Shape, Typed, StepOK
    <2>2. cookie' \in [Devices -> Tokens \cup {None}]
      BY <1>0, <1>3, <2>1 DEF Deliver, RestTyped
    <2>3. flow' \in [Devices -> [Providers -> States \cup {None}]]
      <3>1. q.provider \in Providers \cup {None}
        BY <2>1 DEF Request
      <3>2. flow[q.device] \in [Providers -> States \cup {None}]
        BY <1>0, <2>1 DEF RestTyped
      <3>3. [flow[q.device] EXCEPT ![q.provider] = None] \in [Providers -> States \cup {None}]
        BY <3>2
      <3>4. \/ flow' = flow
            \/ flow' = [flow EXCEPT ![q.device] = [flow[q.device] EXCEPT ![q.provider] = None]]
        BY <1>3 DEF Deliver
      <3> QED
        BY <1>0, <3>3, <3>4 DEF RestTyped
    <2> QED
      BY <1>0, <1>3, <2>2, <2>3 DEF Deliver, RestTyped, db, provider, history
  <1>4. ASSUME NEW r \in Requests, Lose(r)
        PROVE  RestTyped'
    BY <1>4, RestStays DEF Lose, db, browser, provider, history
  <1>5. ASSUME NEW d \in Devices, NEW p \in Providers, OAuthStart(d, p)
        PROVE  RestTyped'
    <2>1. PICK s \in States : /\ started' = [started EXCEPT ![s] = d]
                              /\ flow' = [flow EXCEPT ![d] = [flow[d] EXCEPT ![p] = s]]
      BY <1>5 DEF OAuthStart
    <2>2. [flow[d] EXCEPT ![p] = s] \in [Providers -> States \cup {None}]
      BY <1>0 DEF RestTyped
    <2> QED
      BY <1>0, <1>5, <2>1, <2>2 DEF OAuthStart, RestTyped, db, provider
  <1>6. ASSUME \/ \E g \in Grant : Consent(g)
               \/ \E t \in Tokens : Expire(t)
        PROVE  RestTyped'
    BY <1>0, <1>6 DEF Consent, Expire, RestTyped, db, browser, provider, history
  <1>7. ASSUME NEW u \in Users, NEW c \in Codes, Issue(c, u)
        PROVE  issued' \subseteq Codes /\ held' \in [Codes -> SUBSET Users]
    <2>1. held' = [held EXCEPT ![c] = held[c] \cup {u}]
      BY <1>7 DEF Issue
    <2>2. held[c] \cup {u} \in SUBSET Users
      BY <1>0 DEF RestTyped
    <2> QED
      BY <1>0, <1>7, <2>1, <2>2 DEF Issue, RestTyped
  <1>8. CASE Teach
    <2>1. ASSUME NEW u \in Users, NEW c \in Codes, CreateAdminUser(u, c) \/ ReissueCode(u, c)
          PROVE  RestTyped'
      BY <1>0, <1>7, <2>1 DEF CreateAdminUser, ReissueCode, RestTyped, browser, provider
    <2>2. ASSUME NEW u \in Users,
                 UpdateAdminUser(u) \/ ResetPassword(u) \/ BanAdminUser(u) \/ MakeAdmin(u)
          PROVE  RestTyped'
      BY <2>2, RestStays DEF UpdateAdminUser, ResetPassword, BanAdminUser, MakeAdmin,
                             browser, provider, history
    <2> QED
      BY <1>8, <2>1, <2>2 DEF Teach
  <1> QED
    BY <1>1, <1>2, <1>3, <1>4, <1>5, <1>6, <1>8 DEF Next

\* The shape of the state is invariant.
LEMMA ShapeInit == Init => Shape
  BY NewRows, AccountsAssumption
     DEF Init, Shape, Typed, RowChecks, SessionUsers, StepOK, Exists, Absent,
         Idle, Request, Steps, Answers

LEMMA ShapeStep == Shape /\ [Next]_vars => Shape'
  <1> SUFFICES ASSUME Shape, [Next]_vars PROVE Shape'
    OBVIOUS
  <1>1. CASE Next
    <2>1. UsersEvolve /\ SessionsEvolve /\ RestTyped'
      BY <1>1, UsersStep, SessionsStep, RestStep
    <2>2. req' \in [Requests -> Request] /\ \A r \in Requests : StepOK(req[r])'
      BY <1>1, SlotsStep
    <2>3. RowChecks'
      BY <2>1 DEF Shape, RowChecks, UsersEvolve, Evolves, Exists
    <2>4. \A u \in Users : Exists(u) => Exists(u)'
      BY <2>1 DEF UsersEvolve, Evolves, Exists
    <2>5. SessionUsers'
      <3> SUFFICES ASSUME NEW t \in Tokens, session'[t] # None
                   PROVE  Exists(session[t].user)'
        BY DEF SessionUsers
      <3>1. CASE session[t] # None /\ SameProof(session'[t], session[t])
        <4>1. session[t].user \in Users /\ Exists(session[t].user)
          BY <3>1 DEF Shape, Typed, SessionUsers, Session
        <4> QED
          BY <2>4, <3>1, <4>1 DEF SameProof, Exists
      <3>2. ASSUME NEW r \in Requests, At(r, "create_session"),
                   SameProof(session'[t], req[r])
            PROVE  Exists(session[t].user)'
        <4>1. req[r].user \in Users /\ Exists(req[r].user)
          BY <3>2 DEF Shape, StepOK, At
        <4> QED
          BY <2>4, <3>2, <4>1 DEF SameProof, Exists
      <3> QED
        BY <2>1, <3>1, <3>2 DEF SessionsEvolve
    <2> QED
      BY <2>1, <2>2, <2>3, <2>5
         DEF Shape, Typed, UsersEvolve, SessionsEvolve, RestTyped
  <1>2. CASE UNCHANGED vars
    BY <1>2 DEF Shape, Typed, RowChecks, SessionUsers, StepOK, Exists, vars
  <1> QED
    BY <1>1, <1>2

\* Tables and cookies hold what their types and the CHECKs allow, at all times.
THEOREM TypeCorrect == Spec => []TypeOK
  <1>1. Shape => TypeOK
    BY DEF Shape, Typed, RowChecks, TypeOK
  <1> QED
    BY <1>1, ShapeInit, ShapeStep, PTL DEF Spec

-----------------------------------------------------------------------------
(* What nobody can undo: bans, admins, names.                              *)

\* No statement and no later login gives up a teacher's correction.
THEOREM CorrectionsStay == Spec => NameBelongsToTeacher
  <1>1. Shape /\ [Next]_vars =>
          [\A u \in Users : account[u].name = "corrected"
                              => account'[u].name = "corrected"]_vars
    BY UsersStep DEF UsersEvolve, Evolves
  <1> QED
    BY <1>1, ShapeInit, ShapeStep, PTL DEF Spec, NameBelongsToTeacher

\* The students' page has no effect on an admin's access.
THEOREM AdminsKeepAccess == Spec => AdminsUntouched
  <1>1. Shape /\ [Next]_vars =>
          [\A u \in Users : account[u].admin =>
             /\ account'[u].status = account[u].status
             /\ account'[u].code = account[u].code
             /\ account'[u].name = account[u].name
             /\ account[u].password # None => account'[u].password = account[u].password]_vars
    BY UsersStep DEF UsersEvolve, Evolves
  <1> QED
    BY <1>1, ShapeInit, ShapeStep, PTL DEF Spec, AdminsUntouched

PastSteps == {"set_password", "create_session", "onboard"}

\* A request comes past its check only for a user who is not banned, and goes
\* on for the same user.
CheckPassed(r) ==
    \/ req[r].step \in PastSteps /\ req'[r].user = req[r].user
    \/ ~Banned(req'[r].user)

LEMMA ChecksHold ==
  ASSUME Shape, Next, NEW r \in Requests, req'[r] # req[r], req'[r].step \in PastSteps
  PROVE  CheckPassed(r)
  <1> USE DEF PastSteps
  <1>0. req \in [Requests -> Request]
    BY DEF Shape, Typed
  <1>1. \A s, q : req' = [req EXCEPT ![s] = q] => s = r /\ req'[r] = q
    BY <1>0
  <1>2. \A s, q, step : Go(s, q, step) => s = r
    BY <1>1 DEF Go
  <1>3. \A s, q, reply : Reply(s, q, reply) => s = r
    BY <1>1 DEF Reply
  <1>4. \A q \in Request, step \in Steps :
          Go(r, q, step) => req'[r].step = step /\ req'[r].user = q.user
    <2> SUFFICES ASSUME NEW q \in Request, NEW step \in Steps, Go(r, q, step)
                 PROVE  req'[r].step = step /\ req'[r].user = q.user
      OBVIOUS
    <2>1. [q EXCEPT !.step = step].step = step /\ [q EXCEPT !.step = step].user = q.user
      BY MovesOn DEF Same
    <2> QED
      BY <1>1, <2>1 DEF Go
  <1>5. \A q \in Request, reply \in Answers : ~Reply(r, q, reply)
    <2> SUFFICES ASSUME NEW q \in Request, NEW reply \in Answers, Reply(r, q, reply)
                 PROVE  FALSE
      OBVIOUS
    <2>1. Answer(q, reply).step = "answered"
      BY MovesOn
    <2> QED
      BY <1>1, <2>1 DEF Reply
  <1>6. ASSUME NEW s \in Requests, Work(s)
        PROVE  CheckPassed(r)
    <2> DEFINE q == req[r]
    <2>1. s = r
      BY <1>2, <1>3, <1>6 DEF Work, SetPassword, CreateSession, Redeem, Upsert, Onboard
    <2>2. q \in Request /\ StepOK(q) /\ account \in [Users -> Account]
      BY DEF Shape, Typed
    <2>3. CASE SetPassword(r)
      <3>1. q.user \in Users /\ q.step = "set_password"
        BY <2>2, <2>3 DEF SetPassword, At, StepOK
      <3> DEFINE p == [q EXCEPT !.resets = account[q.user].resets]
      <3>2. p \in Request /\ p.user = q.user
        <4>1. account[q.user].resets \in 0 .. MaxResets
          BY <2>2, <3>1 DEF Account
        <4> QED
          BY <2>2, <4>1, Learns
      <3>3. Go(r, p, "create_session")
        BY <1>5, <2>2, <2>3 DEF SetPassword, Answers
      <3> HIDE DEF p
      <3> QED
        BY <1>4, <3>1, <3>2, <3>3 DEF CheckPassed, Steps
    <2>4. ~CreateSession(r)
      <3> SUFFICES ASSUME CreateSession(r) PROVE FALSE
        OBVIOUS
      <3>1. PICK t \in Tokens : Reply(r, [q EXCEPT !.token = t], "signed_in")
        BY DEF CreateSession
      <3>2. [q EXCEPT !.token = t] \in Request
        BY <2>2, Learns
      <3> QED
        BY <1>5, <3>1, <3>2 DEF Answers
    <2>5. ~Onboard(r)
      BY <1>5, <2>2 DEF Onboard, Answers
    <2>6. ~Redeem(r)
      BY <1>4, <1>5, <2>2 DEF Redeem, Answers, Steps
    <2>7. CASE Upsert(r)
      <3>1. PICK u \in Users : ~Banned(u) /\ Go(r, [q EXCEPT !.user = u], "create_session")
        BY <1>5, <2>2, <2>7 DEF Upsert, Answers
      <3>2. [q EXCEPT !.user = u] \in Request /\ [q EXCEPT !.user = u].user = u
        BY <2>2, Learns
      <3>3. req'[r].user = u
        BY <1>4, <3>1, <3>2 DEF Steps
      <3> QED
        BY <3>1, <3>3 DEF CheckPassed
    <2> QED
      BY <1>6, <2>1, <2>3, <2>4, <2>5, <2>6, <2>7 DEF Work
  <1>7. ASSUME NEW s \in Requests, Deliver(s) \/ Lose(s)
        PROVE  FALSE
    <2>1. req'[r] = Idle
      BY <1>1, <1>7 DEF Deliver, Lose
    <2> QED
      BY <2>1 DEF Idle
  <1>8. ~Teach /\ (\A t \in Tokens : ~Expire(t)) /\ (\A g \in Grant : ~Consent(g))
          /\ (\A d \in Devices, p \in Providers : ~OAuthStart(d, p))
    BY DEF Teach, CreateAdminUser, ReissueCode, UpdateAdminUser, ResetPassword,
           BanAdminUser, MakeAdmin, Expire, Consent, OAuthStart
  <1>9. ASSUME NEW s \in Requests, NEW d \in Devices,
               \/ \E c \in Codes, p \in Passwords \cup {TooShort} : CodeLogin(s, d, c, p)
               \/ \E p \in Providers : CallbackCancelled(s, d, p)
               \/ \E g \in grants : Callback(s, d, g)
               \/ CompleteOnboarding(s, d)
               \/ Logout(s, d)
        PROVE  CheckPassed(r)
    <2>1. From(d) \in Request
      BY Begins
    <2>2. ASSUME NEW c \in Codes, NEW p \in Passwords \cup {TooShort}, CodeLogin(s, d, c, p)
          PROVE  CheckPassed(r)
      <3>1. s = r
        BY <1>2, <1>3, <2>2 DEF CodeLogin
      <3>2. \A u \in Users : /\ account[u].password # TooShort
                             /\ account[u].resets \in 0 .. MaxResets
        BY AccountsAssumption DEF Shape, Typed, Account
      <3>3. PICK u \in Users, step \in {"set_password", "create_session"} :
              /\ p \in Passwords /\ ~Banned(u)
              /\ Go(r, ByPassword(From(d), u, p, account[u].resets), step)
        BY <1>5, <2>1, <2>2, <3>1, <3>2 DEF CodeLogin, Answers
      <3> DEFINE b == ByPassword(From(d), u, p, account[u].resets)
      <3>4. b \in Request /\ b.user = u
        BY <2>1, <3>2, <3>3, Learns
      <3> HIDE DEF b
      <3>5. req'[r].user = u
        BY <1>4, <3>3, <3>4 DEF Steps, b
      <3> QED
        BY <3>3, <3>5 DEF CheckPassed
    <2>3. ASSUME NEW p \in Providers, CallbackCancelled(s, d, p)
          PROVE  FALSE
      <3>1. [From(d) EXCEPT !.provider = p] \in Request
        BY <2>1, Learns
      <3> QED
        BY <1>3, <1>5, <2>3, <3>1 DEF CallbackCancelled, Answers
    <2>4. ASSUME NEW g \in grants, Callback(s, d, g)
          PROVE  FALSE
      <3>1. ByGrant(From(d), g) \in Request
        BY <2>1, Learns DEF Shape, Typed
      <3> QED
        BY <1>2, <1>3, <1>4, <1>5, <2>4, <3>1 DEF Callback, Answers, Steps
    <2>5. ~Logout(s, d)
      BY <1>3, <1>5, <2>1 DEF Logout, Answers
    <2>6. ASSUME CompleteOnboarding(s, d)
          PROVE  CheckPassed(r)
      <3>1. PICK u \in Users : ~Banned(u) /\ Go(s, [From(d) EXCEPT !.user = u], "onboard")
        BY <1>3, <1>5, <2>1, <2>6 DEF CompleteOnboarding, Authenticated, Answers
      <3>2. [From(d) EXCEPT !.user = u] \in Request /\ [From(d) EXCEPT !.user = u].user = u
        BY <2>1, Learns
      <3>3. req'[r].user = u
        BY <1>2, <1>4, <3>1, <3>2 DEF Steps
      <3> QED
        BY <3>1, <3>3 DEF CheckPassed
    <2> QED
      BY <1>9, <2>2, <2>3, <2>4, <2>5, <2>6
  <1> QED
    BY <1>6, <1>7, <1>8, <1>9 DEF Next, Browse

\* Hence a ban leaves no more requests past their check than there were.
LEMMA NobodyComesPast ==
  ASSUME Shape, Next, NEW u \in Users, Banned(u)
  PROVE  Past(u)' \subseteq Past(u)
  <1> SUFFICES ASSUME NEW r \in Past(u)' PROVE r \in Past(u)
    OBVIOUS
  <1>1. r \in Requests /\ req'[r].user = u /\ req'[r].step \in PastSteps
    BY DEF Past, PastSteps
  <1>2. CASE req'[r] = req[r]
    BY <1>1, <1>2 DEF Past, PastSteps
  <1>3. CASE req'[r] # req[r]
    BY <1>1, <1>3, ChecksHold DEF CheckPassed, Past, PastSteps
  <1> QED
    BY <1>2, <1>3

\* Who writes to the tables users and sessions.
LEMMA Writers ==
  ASSUME Next
  PROVE  \/ UNCHANGED <<account, session>>
         \/ /\ UNCHANGED account
            /\ \/ \E r \in Requests, d \in Devices : Logout(r, d)
               \/ \E t \in Tokens : Expire(t)
         \/ \E r \in Requests : CreateSession(r)
         \/ UNCHANGED session /\ \E r \in Requests : SetPassword(r) \/ Upsert(r) \/ Onboard(r)
         \/ Teach
  <1>1. ASSUME NEW r \in Requests, Work(r), ~CreateSession(r)
        PROVE  \/ UNCHANGED <<account, session>>
               \/ UNCHANGED session /\ (SetPassword(r) \/ Upsert(r) \/ Onboard(r))
    BY <1>1 DEF Work, SetPassword, Redeem, Upsert, Onboard, db
  <1>2. ASSUME NEW r \in Requests, Browse(r)
        PROVE  \/ UNCHANGED <<account, session>>
               \/ UNCHANGED account /\ \E d \in Devices : Logout(r, d)
    <2>1. \A d, c, p : CodeLogin(r, d, c, p) => UNCHANGED <<account, session>>
      BY DEF CodeLogin, db
    <2>2. \A d, p : CallbackCancelled(r, d, p) => UNCHANGED <<account, session>>
      BY DEF CallbackCancelled, db
    <2>3. \A d, g : Callback(r, d, g) => UNCHANGED <<account, session>>
      BY DEF Callback, db
    <2>4. \A d : CompleteOnboarding(r, d) => UNCHANGED <<account, session>>
      BY DEF CompleteOnboarding, db
    <2>5. \A d : Logout(r, d) => UNCHANGED account
      BY DEF Logout
    <2> QED
      BY <1>2, <2>1, <2>2, <2>3, <2>4, <2>5 DEF Browse
  <1>3. ASSUME \/ \E r \in Requests : Deliver(r) \/ Lose(r)
               \/ \E d \in Devices, p \in Providers : OAuthStart(d, p)
               \/ \E g \in Grant : Consent(g)
        PROVE  UNCHANGED <<account, session>>
    BY <1>3 DEF Deliver, Lose, OAuthStart, Consent, db
  <1>4. \A t : Expire(t) => UNCHANGED account
    BY DEF Expire
  <1> QED
    BY <1>1, <1>2, <1>3, <1>4 DEF Next

\* Only the teacher's button bans.
LEMMA BansAreBans ==
  ASSUME Shape, Next, account' # account, \A v \in Users : ~BanAdminUser(v), NEW u \in Users
  PROVE  Banned(u)' => Banned(u)
  <1>1. account \in [Users -> Account]
    BY DEF Shape, Typed
  <1>2. ASSUME NEW v \in Users, NEW new, account' = [account EXCEPT ![v] = new],
               new.status = "banned" => account[v].status = "banned"
        PROVE  Banned(u)' => Banned(u)
    BY <1>1, <1>2 DEF Banned
  <1>3. \A row \in Account :
          /\ \A x : [row EXCEPT !.password = x].status = row.status
          /\ [row EXCEPT !.onboarded = TRUE].status = row.status
          /\ [row EXCEPT !.name = "corrected"].status = row.status
          /\ \A x : [row EXCEPT !.code = x].status = row.status
          /\ [row EXCEPT !.admin = TRUE].status = row.status
          /\ WithoutPassword(row).status = row.status
    BY DEF Account, WithoutPassword
  <1>4. ASSUME NEW r \in Requests, SetPassword(r) \/ Onboard(r)
        PROVE  Banned(u)' => Banned(u)
    <2> DEFINE v == req[r].user
    <2>1. v \in Users
      BY <1>4 DEF Shape, StepOK, SetPassword, Onboard, At
    <2>2. \/ account' = [account EXCEPT ![v] = [account[v] EXCEPT !.password = req[r].password]]
          \/ account' = [account EXCEPT ![v] = [account[v] EXCEPT !.onboarded = TRUE]]
          \/ account' = account
      BY <1>4 DEF SetPassword, Onboard
    <2> HIDE DEF v
    <2>3. account[v] \in Account
      BY <1>1, <2>1
    <2>4. ASSUME NEW x, account' = [account EXCEPT ![v] = [account[v] EXCEPT !.password = x]]
          PROVE  Banned(u)' => Banned(u)
      BY <1>2, <1>3, <2>1, <2>3, <2>4
    <2>5. CASE account' = [account EXCEPT ![v] = [account[v] EXCEPT !.onboarded = TRUE]]
      BY <1>2, <1>3, <2>1, <2>3, <2>5
    <2> QED
      BY <2>2, <2>4, <2>5 DEF Banned
  <1>5. ASSUME NEW r \in Requests, Upsert(r)
        PROVE  Banned(u)' => Banned(u)
    <2> DEFINE i == [provider |-> req[r].grant.provider, subject |-> req[r].grant.subject]
    <2>1. i \in Identity
      BY <1>5 DEF Upsert, At, StepOK, Shape, Typed, Grant, Identity
    <2>2. PICK v \in Users : UpsertOAuthUser(i, v)
      BY <1>5 DEF Upsert
    <2> HIDE DEF i
    <2>3. account' = [account EXCEPT ![v] = OAuthUser(i)]
      BY <2>2 DEF UpsertOAuthUser
    <2> QED
      BY <1>2, <2>1, <2>3, NewRows
  <1>6. ASSUME NEW v \in Users, NEW c \in Codes, CreateAdminUser(v, c)
        PROVE  Banned(u)' => Banned(u)
    BY <1>2, <1>6, NewRows DEF CreateAdminUser
  <1>7. ASSUME NEW v \in Users,
               \/ \E c \in Codes : ReissueCode(v, c)
               \/ UpdateAdminUser(v) \/ ResetPassword(v) \/ MakeAdmin(v)
        PROVE  Banned(u)' => Banned(u)
    BY <1>1, <1>2, <1>3, <1>7 DEF ReissueCode, UpdateAdminUser, ResetPassword, MakeAdmin
  <1>8. CASE Teach
    BY <1>6, <1>7, <1>8 DEF Teach
  <1> QED
    BY <1>4, <1>5, <1>8, Writers DEF CreateSession

\* Where a live session comes from: it was there, or a login has just ended in
\* it.
LEMMA LiveStep ==
  ASSUME Shape, Next, NEW u \in Users, NEW t \in Live(u)'
  PROVE  \/ t \in Live(u) /\ (Banned(u)' => Banned(u))
         \/ \E r \in Past(u) \ Past(u)' : req'[r].token = t
  <1> USE DEF Live
  <1>1. session \in [Tokens -> Session \cup {None}] /\ req \in [Requests -> Request]
        /\ account \in [Users -> Account]
    BY DEF Shape, Typed
  <1>2. ASSUME NEW r \in Requests, CreateSession(r)
        PROVE  \/ t \in Live(u) /\ (Banned(u)' => Banned(u))
               \/ \E s \in Past(u) \ Past(u)' : req'[s].token = t
    <2> DEFINE q == req[r]
    <2>1. PICK x \in Tokens :
            /\ session' = [session EXCEPT ![x] =
                 [user |-> q.user, live |-> TRUE, device |-> q.device,
                  password |-> q.password, resets |-> q.resets, grant |-> q.grant]]
            /\ Reply(r, [q EXCEPT !.token = x], "signed_in")
      BY <1>2 DEF CreateSession
    <2>2. CASE t # x
      <3>1. session'[t] = session[t] /\ account' = account
        BY <1>1, <1>2, <2>1, <2>2 DEF CreateSession
      <3> QED
        BY <3>1 DEF Banned
    <2>3. CASE t = x
      <3>1. session'[t].user = q.user
        BY <1>1, <2>1, <2>3
      <3>2. r \in Past(u)
        BY <1>2, <3>1 DEF Past, At, CreateSession
      <3> DEFINE p == [q EXCEPT !.token = x]
      <3>3. p \in Request /\ p.token = x
        BY <1>1, Learns
      <3>4. req' = [req EXCEPT ![r] = Answer(p, "signed_in")]
        BY <2>1 DEF Reply
      <3> HIDE DEF p
      <3>5. Answer(p, "signed_in").step = "answered" /\ Answer(p, "signed_in").token = x
        BY <3>3, MovesOn DEF Same, Answers
      <3>6. req'[r].step = "answered" /\ req'[r].token = t
        BY <1>1, <2>3, <3>4, <3>5
      <3>7. r \notin Past(u)'
        BY <3>6 DEF Past
      <3> QED
        BY <3>2, <3>6, <3>7
    <2> QED
      BY <2>2, <2>3
  <1>3. ASSUME \/ UNCHANGED session
               \/ \E r \in Requests, d \in Devices : Logout(r, d)
               \/ \E x \in Tokens : Expire(x)
               \/ \E v \in Users : DeleteUserSessions(v)
        PROVE  t \in Live(u)
    BY <1>1, <1>3 DEF Logout, Expire, DeleteUserSessions, Session
  <1>4. ASSUME \A v \in Users : ~BanAdminUser(v), \A r \in Requests : ~CreateSession(r)
        PROVE  t \in Live(u) /\ (Banned(u)' => Banned(u))
    <2>1. \/ UNCHANGED session
          \/ \E r \in Requests, d \in Devices : Logout(r, d)
          \/ \E x \in Tokens : Expire(x)
          \/ \E v \in Users : DeleteUserSessions(v)
      <3>1. CASE Teach
        BY <1>4, <3>1 DEF Teach, CreateAdminUser, ReissueCode, UpdateAdminUser, ResetPassword, MakeAdmin
      <3> QED
        BY <1>4, <3>1, Writers
    <2>2. Banned(u)' => Banned(u)
      BY <1>4, BansAreBans DEF Banned
    <2> QED
      BY <1>3, <2>1, <2>2
  <1>5. ASSUME NEW v \in Users, BanAdminUser(v)
        PROVE  t \in Live(u) /\ (Banned(u)' => Banned(u))
    <2>1. v # u
      BY <1>1, <1>5 DEF BanAdminUser, DeleteUserSessions, Session
    <2>2. session'[t] = session[t] /\ account'[u] = account[u]
      BY <1>1, <1>5, <2>1 DEF BanAdminUser, DeleteUserSessions, Session
    <2> QED
      BY <2>2 DEF Banned
  <1> QED
    BY <1>2, <1>4, <1>5

\* After a ban the student's cookies, codes and callbacks open nothing, but for
\* what was past its check when the ban came.
THEOREM BansHold == Spec => BanHolds
  <1>1. ASSUME Shape, Next, NEW u \in Users
        PROVE  /\ Banned(u) => Banned(u)' /\ Past(u)' \subseteq Past(u)
               /\ Banned(u)' => \A t \in Live(u)' :
                    \/ Banned(u) /\ t \in Live(u)
                    \/ \E r \in Past(u) \ Past(u)' : req'[r].token = t
    <2>1. Banned(u) => Banned(u)'
      BY <1>1, UsersStep DEF UsersEvolve, Evolves, Banned
    <2> QED
      BY <1>1, <2>1, NobodyComesPast, LiveStep
  <1>2. Shape /\ [Next]_vars =>
          [\A u \in Users :
             /\ Banned(u) => Banned(u)' /\ Past(u)' \subseteq Past(u)
             /\ Banned(u)' => \A t \in Live(u)' :
                  \/ Banned(u) /\ t \in Live(u)
                  \/ \E r \in Past(u) \ Past(u)' : req'[r].token = t]_vars
    BY <1>1
  <1> QED
    BY <1>2, ShapeInit, ShapeStep, PTL DEF Spec, BanHolds

-----------------------------------------------------------------------------
(* What a code and an identity name.                                       *)

\* The steps that give nobody a code or an identity.
NothingNamed ==
    /\ UNCHANGED <<issued, held>>
    /\ \A u \in Users : /\ account'[u].code = account[u].code
                        /\ account'[u].identity = account[u].identity

\* A first OAuth login.
IdentityNamed ==
    /\ UNCHANGED <<issued, held>>
    /\ \E w \in Users, i \in Identity :
         /\ \A v \in Users : account[v].identity # i
         /\ account'[w].identity = i /\ account'[w].code = None
         /\ \A v \in Users \ {w} : account'[v] = account[v]

\* A code that is printed for a new or a known student.
CodeNamed ==
    \E w \in Users, c \in Codes :
      /\ Issue(c, w)
      /\ account'[w].code = c /\ account'[w].identity = account[w].identity
      /\ \A v \in Users \ {w} : account'[v] = account[v]

LEMMA NamingStep ==
  ASSUME Shape, Next
  PROVE  NothingNamed \/ IdentityNamed \/ CodeNamed
  <1>0. account \in [Users -> Account]
    BY DEF Shape, Typed
  <1>1. \A u \in Users : \A row :
          /\ account' = [account EXCEPT ![u] = row]
          /\ row.code = account[u].code /\ row.identity = account[u].identity
          /\ UNCHANGED <<issued, held>>
          => NothingNamed
    BY <1>0 DEF NothingNamed
  <1>2. \A row \in Account :
          /\ \A p : LET new == [row EXCEPT !.password = p]
                    IN new.code = row.code /\ new.identity = row.identity
          /\ \A o : LET new == [row EXCEPT !.onboarded = o]
                    IN new.code = row.code /\ new.identity = row.identity
          /\ \A n : LET new == [row EXCEPT !.name = n]
                    IN new.code = row.code /\ new.identity = row.identity
          /\ \A b : LET new == [row EXCEPT !.status = b]
                    IN new.code = row.code /\ new.identity = row.identity
          /\ \A a : LET new == [row EXCEPT !.admin = a]
                    IN new.code = row.code /\ new.identity = row.identity
          /\ WithoutPassword(row).code = row.code
          /\ WithoutPassword(row).identity = row.identity
    BY DEF Account, WithoutPassword
  <1>3. ASSUME UNCHANGED account, UNCHANGED <<issued, held>>
        PROVE  NothingNamed
    BY <1>3 DEF NothingNamed
  <1>4. ASSUME NEW r \in Requests, Work(r)
        PROVE  NothingNamed \/ IdentityNamed
    <2> DEFINE q == req[r]
    <2>0. q \in Request /\ StepOK(q)
      BY DEF Shape, Typed
    <2>1. CASE SetPassword(r)
      <3>1. q.user \in Users
        BY <2>0, <2>1 DEF SetPassword, At, StepOK
      <3>2. UNCHANGED account \/ account' = [account EXCEPT ![q.user] =
                                   [account[q.user] EXCEPT !.password = q.password]]
        BY <2>1 DEF SetPassword
      <3>3. UNCHANGED <<issued, held>>
        BY <2>1 DEF SetPassword, history
      <3>4. CASE account' = [account EXCEPT ![q.user] =
                               [account[q.user] EXCEPT !.password = q.password]]
        <4> DEFINE new == [account[q.user] EXCEPT !.password = q.password]
        <4>1. new.code = account[q.user].code /\ new.identity = account[q.user].identity
          BY <1>0, <1>2, <3>1
        <4> HIDE DEF new
        <4> QED
          BY <1>1, <3>1, <3>3, <3>4, <4>1 DEF new
      <3> QED
        BY <1>3, <3>2, <3>3, <3>4
    <2>2. CASE CreateSession(r) \/ Redeem(r)
      BY <1>3, <2>2 DEF CreateSession, Redeem, db, history
    <2>3. CASE Onboard(r)
      <3>1. q.user \in Users
        BY <2>0, <2>3 DEF Onboard, At, StepOK
      <3>2. account' = [account EXCEPT ![q.user] = [account[q.user] EXCEPT !.onboarded = TRUE]]
            /\ UNCHANGED <<issued, held>>
        BY <2>3 DEF Onboard, history
      <3> QED
        BY <1>0, <1>1, <1>2, <3>1, <3>2
    <2>4. CASE Upsert(r)
      <3> DEFINE i == [provider |-> q.grant.provider, subject |-> q.grant.subject]
      <3>1. i \in Identity
        BY <2>0, <2>4 DEF Upsert, At, StepOK, Shape, Typed, Grant, Identity
      <3>2. PICK u \in Users : UpsertOAuthUser(i, u)
        BY <2>4 DEF Upsert
      <3>3. UNCHANGED <<issued, held>>
        BY <2>4 DEF Upsert, history
      <3> HIDE DEF i
      <3>4. CASE UNCHANGED account
        BY <1>3, <3>3, <3>4
      <3>5. CASE /\ \A v \in Users : account[v].identity # i
                 /\ account' = [account EXCEPT ![u] = OAuthUser(i)]
        <4>1. account'[u] = OAuthUser(i) /\ \A v \in Users \ {u} : account'[v] = account[v]
          BY <1>0, <3>5
        <4> QED
          BY <3>1, <3>3, <3>5, <4>1, NewRows DEF IdentityNamed
      <3> QED
        BY <3>2, <3>4, <3>5 DEF UpsertOAuthUser
    <2> QED
      BY <1>4, <2>1, <2>2, <2>3, <2>4 DEF Work
  <1>5. ASSUME NEW r \in Requests, Browse(r)
        PROVE  NothingNamed
    <2>1. \A d, c, p : CodeLogin(r, d, c, p) => UNCHANGED <<account, issued, held>>
      BY DEF CodeLogin, db, history
    <2>2. \A d, p : CallbackCancelled(r, d, p) => UNCHANGED <<account, issued, held>>
      BY DEF CallbackCancelled, db, history
    <2>3. \A d, g : Callback(r, d, g) => UNCHANGED <<account, issued, held>>
      BY DEF Callback, db, history
    <2>4. \A d : CompleteOnboarding(r, d) \/ Logout(r, d) => UNCHANGED <<account, issued, held>>
      BY DEF CompleteOnboarding, Logout, db, history
    <2> QED
      BY <1>3, <1>5, <2>1, <2>2, <2>3, <2>4 DEF Browse
  <1>6. ASSUME \/ \E r \in Requests : Deliver(r) \/ Lose(r)
               \/ \E d \in Devices, p \in Providers : OAuthStart(d, p)
               \/ \E g \in Grant : Consent(g)
               \/ \E t \in Tokens : Expire(t)
        PROVE  NothingNamed
    BY <1>3, <1>6 DEF Deliver, Lose, OAuthStart, Consent, Expire, db, history
  <1>7. ASSUME NEW u \in Users, NEW c \in Codes, CreateAdminUser(u, c)
        PROVE  CodeNamed
    <2>1. account'[u] = CodeUser(c) /\ \A v \in Users \ {u} : account'[v] = account[v]
      BY <1>0, <1>7 DEF CreateAdminUser
    <2>2. account[u].identity = None
      BY <1>7 DEF CreateAdminUser, Shape, RowChecks, Absent
    <2> QED
      BY <1>7, <2>1, <2>2, NewRows DEF CodeNamed, CreateAdminUser
  <1>8. ASSUME NEW u \in Users, NEW c \in Codes, ReissueCode(u, c)
        PROVE  CodeNamed
    <2>1. /\ account'[u] = [account[u] EXCEPT !.code = c]
          /\ \A v \in Users \ {u} : account'[v] = account[v]
      BY <1>0, <1>8 DEF ReissueCode
    <2>2. \A row \in Account : LET new == [row EXCEPT !.code = c]
                               IN new.code = c /\ new.identity = row.identity
      BY DEF Account
    <2> QED
      BY <1>0, <1>8, <2>1, <2>2 DEF CodeNamed, ReissueCode
  <1>9. ASSUME NEW u \in Users,
               UpdateAdminUser(u) \/ ResetPassword(u) \/ BanAdminUser(u) \/ MakeAdmin(u)
        PROVE  NothingNamed
    <2>1. UNCHANGED <<issued, held>>
      BY <1>9 DEF UpdateAdminUser, ResetPassword, BanAdminUser, MakeAdmin, history
    <2>2. \/ account' = [account EXCEPT ![u] = [account[u] EXCEPT !.name = "corrected"]]
          \/ account' = [account EXCEPT ![u] = WithoutPassword(account[u])]
          \/ account' = [account EXCEPT ![u] = [account[u] EXCEPT !.status = "banned"]]
          \/ account' = [account EXCEPT ![u] = [account[u] EXCEPT !.admin = TRUE]]
      BY <1>9 DEF UpdateAdminUser, ResetPassword, BanAdminUser, MakeAdmin
    <2> QED
      BY <1>0, <1>1, <1>2, <2>1, <2>2
  <1> QED
    BY <1>4, <1>5, <1>6, <1>7, <1>8, <1>9 DEF Next, Teach

\* Every code that anybody ever held is in the table of issued codes, which is
\* why it is never drawn again.
Named ==
    /\ CodesNameOneStudent
    /\ \A c \in Codes : held[c] # {} => c \in issued

\* A code names one student for ever.
THEOREM CodesNameOne == Spec => []CodesNameOneStudent
  <1>1. Init => Named
    BY AccountsAssumption DEF Init, Named, CodesNameOneStudent, Absent
  <1>2. ASSUME Shape, Named, Next PROVE Named'
    <2>1. CASE NothingNamed
      BY <1>2, <2>1 DEF NothingNamed, Named, CodesNameOneStudent
    <2>2. CASE IdentityNamed
      <3>1. \A u \in Users : account'[u].code = account[u].code \/ account'[u].code = None
        BY <2>2 DEF IdentityNamed
      <3>2. UNCHANGED <<issued, held>>
        BY <2>2 DEF IdentityNamed
      <3> QED
        BY <1>2, <3>1, <3>2, AccountsAssumption DEF Named, CodesNameOneStudent
    <2>3. CASE CodeNamed
      <3>1. PICK w \in Users, c \in Codes :
              /\ Issue(c, w) /\ account'[w].code = c
              /\ \A v \in Users \ {w} : account'[v] = account[v]
        BY <2>3 DEF CodeNamed
      <3>2. held \in [Codes -> SUBSET Users] /\ held[c] = {}
        BY <1>2, <3>1 DEF Shape, Typed, Named, Issue, ReserveStudentCode
      <3>3. /\ held'[c] = {w} /\ issued' = issued \cup {c}
            /\ \A x \in Codes \ {c} : held'[x] = held[x]
        BY <3>1, <3>2 DEF Issue
      <3> QED
        BY <1>2, <3>1, <3>2, <3>3 DEF Named, CodesNameOneStudent
    <2> QED
      BY <1>2, <2>1, <2>2, <2>3, NamingStep
  <1>3. Shape /\ Named /\ [Next]_vars => Named'
    BY <1>2 DEF vars, Named, CodesNameOneStudent
  <1>4. Named => CodesNameOneStudent
    BY DEF Named
  <1> QED
    BY <1>1, <1>3, <1>4, ShapeInit, ShapeStep, PTL DEF Spec

\* An identity is one user, however many callbacks run.
THEOREM IdentitiesNameOne == Spec => []OneAccountPerIdentity
  <1>1. Init => OneAccountPerIdentity
    BY DEF Init, OneAccountPerIdentity, Absent
  <1>2. ASSUME Shape, OneAccountPerIdentity, Next PROVE OneAccountPerIdentity'
    <2>1. CASE NothingNamed \/ CodeNamed
      <3>1. \A u \in Users : account'[u].identity = account[u].identity
        BY <2>1 DEF NothingNamed, CodeNamed
      <3> QED
        BY <1>2, <3>1 DEF OneAccountPerIdentity
    <2>2. CASE IdentityNamed
      BY <1>2, <2>2 DEF IdentityNamed, OneAccountPerIdentity
    <2> QED
      BY <1>2, <2>1, <2>2, NamingStep
  <1>3. Shape /\ OneAccountPerIdentity /\ [Next]_vars => OneAccountPerIdentity'
    BY <1>2 DEF vars, OneAccountPerIdentity
  <1> QED
    BY <1>1, <1>3, ShapeInit, ShapeStep, PTL DEF Spec

-----------------------------------------------------------------------------
(* What a session proves.                                                  *)

\* A login, under way or done, that showed the account's password, or one from
\* before a reset.
Proves(p) ==
    p.grant = None =>
      /\ p.resets <= account[p.user].resets
      /\ p.resets = account[p.user].resets =>
           p.password # None /\ p.password = account[p.user].password

Proven ==
    /\ \A t \in Tokens : session[t] # None => Proves(session[t])
    /\ \A r \in Requests : At(r, "create_session") => Proves(req[r])

\* A proof outlives what happens to the account.
LEMMA ProofsLast ==
  ASSUME Shape, UsersEvolve
  PROVE  \A p : p.user \in Users /\ p.resets \in Nat /\ Proves(p) => Proves(p)'
  <1> SUFFICES ASSUME NEW p, p.user \in Users, p.resets \in Nat, Proves(p)
               PROVE  Proves(p)'
    OBVIOUS
  <1>1. account[p.user].resets \in Nat
    BY AccountsAssumption DEF Shape, Typed, Account
  <1> QED
    BY <1>1 DEF UsersEvolve, Evolves, Proves

\* The ways on which a request comes nearer to its session: it showed or set
\* the password; or it brought the state of its browser, was redeemed, and
\* found or made the user of the identity.
PasswordShown(r) ==
    LET q == req'[r]
    IN /\ q.step = "create_session" /\ q.grant = None
       /\ q.user \in Users /\ q.password \in Passwords
       /\ account'[q.user].password = q.password
       /\ account'[q.user].resets = q.resets

CallbackOpened(r) ==
    LET q == req'[r]
    IN /\ q.step = "redeem" /\ q.device \in Devices /\ q.grant \in grants
       /\ flow[q.device][q.grant.provider] = q.grant.state

ConsentRedeemed(r) ==
    At(r, "redeem") /\ req'[r].step = "upsert" /\ Same(req'[r], req[r])

UserFound(r) ==
    LET q == req'[r]
    IN /\ At(r, "upsert") /\ q.step = "create_session"
       /\ q.grant = req[r].grant /\ q.device = req[r].device /\ q.user \in Users
       /\ account'[q.user].identity =
            [provider |-> q.grant.provider, subject |-> q.grant.subject]

\* There are no other ways.
LEMMA SignInSteps ==
  ASSUME Shape, Next, NEW r \in Requests, req'[r] # req[r],
         req'[r].step \in {"redeem", "upsert", "create_session"}
  PROVE  PasswordShown(r) \/ CallbackOpened(r) \/ ConsentRedeemed(r) \/ UserFound(r)
  <1> DEFINE Goal == PasswordShown(r) \/ CallbackOpened(r) \/ ConsentRedeemed(r) \/ UserFound(r)
  <1> HIDE DEF Goal
  <1>0. req \in [Requests -> Request] /\ account \in [Users -> Account]
    BY DEF Shape, Typed
  <1>1. \A s, q : req' = [req EXCEPT ![s] = q] => s = r /\ req'[r] = q
    BY <1>0
  <1>2. \A s, q, step : Go(s, q, step) => s = r
    BY <1>1 DEF Go
  <1>3. \A s, q, reply : Reply(s, q, reply) => s = r
    BY <1>1 DEF Reply
  <1>4. \A q \in Request, step \in Steps :
          Go(r, q, step) => req'[r].step = step /\ Same(req'[r], q)
    <2> SUFFICES ASSUME NEW q \in Request, NEW step \in Steps, Go(r, q, step)
                 PROVE  req'[r].step = step /\ Same(req'[r], q)
      OBVIOUS
    <2> DEFINE p == [q EXCEPT !.step = step]
    <2>1. p.step = step /\ Same(p, q)
      BY MovesOn
    <2>2. req'[r] = p
      BY <1>1 DEF Go
    <2> QED
      BY <2>1, <2>2
  <1>5. \A q \in Request, reply \in Answers : ~Reply(r, q, reply)
    <2> SUFFICES ASSUME NEW q \in Request, NEW reply \in Answers, Reply(r, q, reply)
                 PROVE  FALSE
      OBVIOUS
    <2>1. Answer(q, reply).step = "answered"
      BY MovesOn
    <2> QED
      BY <1>1, <2>1 DEF Reply
  <1>6. ASSUME NEW s \in Requests, Work(s)
        PROVE  Goal
    <2> DEFINE q == req[r]
    <2>1. s = r
      BY <1>2, <1>3, <1>6 DEF Work, SetPassword, CreateSession, Redeem, Upsert, Onboard
    <2>2. q \in Request /\ StepOK(q)
      BY DEF Shape, Typed
    <2>3. CASE SetPassword(r)
      <3>1. /\ q.user \in Users /\ q.password \in Passwords /\ q.grant = None
        BY <2>2, <2>3 DEF SetPassword, At, StepOK
      <3> DEFINE n == account[q.user].resets
                 p == [q EXCEPT !.resets = n]
      <3>2. Go(r, p, "create_session")
            /\ account' = [account EXCEPT ![q.user] =
                            [account[q.user] EXCEPT !.password = q.password]]
        BY <1>5, <2>2, <2>3 DEF SetPassword, Answers
      <3>3. n \in 0 .. MaxResets
        BY <1>0, <3>1 DEF Account
      <3>4. /\ p \in Request /\ p.user = q.user /\ p.password = q.password
            /\ p.resets = n /\ p.grant = q.grant
        BY <2>2, <3>3, Learns
      <3> HIDE DEF p
      <3>5. /\ req'[r].step = "create_session" /\ Same(req'[r], p)
        BY <1>4, <3>2, <3>4 DEF Steps
      <3>6. \A row \in Account : \A x :
          LET new == [row EXCEPT !.password = x]
          IN new.password = x /\ new.resets = row.resets
        BY DEF Account
      <3>7. account'[q.user].password = q.password /\ account'[q.user].resets = n
        BY <1>0, <3>1, <3>2, <3>6
      <3> HIDE DEF n
      <3> QED
        BY <3>1, <3>4, <3>5, <3>7 DEF Goal, PasswordShown, Same
    <2>4. ~CreateSession(r)
      <3> SUFFICES ASSUME CreateSession(r) PROVE FALSE
        OBVIOUS
      <3>1. PICK t \in Tokens : Reply(r, [q EXCEPT !.token = t], "signed_in")
        BY DEF CreateSession
      <3>2. [q EXCEPT !.token = t] \in Request
        BY <2>2, Learns
      <3> QED
        BY <1>5, <3>1, <3>2 DEF Answers
    <2>5. ~Onboard(r)
      BY <1>5, <2>2 DEF Onboard, Answers
    <2>6. CASE Redeem(r)
      <3>1. Go(r, q, "upsert") /\ At(r, "redeem")
        BY <1>5, <2>2, <2>6 DEF Redeem, Answers
      <3> QED
        BY <1>4, <2>2, <3>1 DEF Goal, ConsentRedeemed, Steps
    <2>7. CASE Upsert(r)
      <3> DEFINE i == [provider |-> q.grant.provider, subject |-> q.grant.subject]
      <3>1. i \in Identity
        BY <2>2, <2>7 DEF Upsert, At, StepOK, Shape, Typed, Grant, Identity
      <3>2. PICK u \in Users : /\ UpsertOAuthUser(i, u)
                               /\ Go(r, [q EXCEPT !.user = u], "create_session")
        BY <1>5, <2>2, <2>7 DEF Upsert, Answers
      <3>3. account'[u].identity = i
        <4> HIDE DEF i
        <4> QED
          BY <1>0, <3>1, <3>2, NewRows DEF UpsertOAuthUser
      <3> DEFINE p == [q EXCEPT !.user = u]
      <3>4. p \in Request /\ p.device = q.device /\ p.user = u /\ p.grant = q.grant
        <4>1. \A x \in Request : [x EXCEPT !.user = u].device = x.device
          BY DEF Request
        <4> QED
          BY <2>2, <4>1, Learns
      <3> HIDE DEF p
      <3>5. req'[r].step = "create_session" /\ Same(req'[r], p)
        BY <1>4, <3>2, <3>4 DEF Steps, p
      <3>6. At(r, "upsert")
        BY <2>7 DEF Upsert
      <3> QED
        BY <3>3, <3>4, <3>5, <3>6 DEF Goal, UserFound, Same
    <2> QED
      BY <1>6, <2>1, <2>3, <2>4, <2>5, <2>6, <2>7 DEF Work
  <1>7. ASSUME NEW s \in Requests, Deliver(s) \/ Lose(s)
        PROVE  Goal
    <2>1. req'[r] = Idle
      BY <1>1, <1>7 DEF Deliver, Lose
    <2> QED
      BY <2>1 DEF Idle
  <1>8. ~Teach /\ (\A t \in Tokens : ~Expire(t)) /\ (\A g \in Grant : ~Consent(g))
          /\ (\A d \in Devices, p \in Providers : ~OAuthStart(d, p))
    BY DEF Teach, CreateAdminUser, ReissueCode, UpdateAdminUser, ResetPassword,
           BanAdminUser, MakeAdmin, Expire, Consent, OAuthStart
  <1>9. ASSUME NEW s \in Requests, NEW d \in Devices,
               \/ \E c \in Codes, p \in Passwords \cup {TooShort} : CodeLogin(s, d, c, p)
               \/ \E p \in Providers : CallbackCancelled(s, d, p)
               \/ \E g \in grants : Callback(s, d, g)
               \/ CompleteOnboarding(s, d)
               \/ Logout(s, d)
        PROVE  Goal
    <2>1. /\ From(d) \in Request /\ From(d).device = d /\ From(d).grant = None
      BY Begins
    <2>2. ASSUME NEW c \in Codes, NEW p \in Passwords \cup {TooShort}, CodeLogin(s, d, c, p)
          PROVE  Goal
      <3>1. s = r
        BY <1>2, <1>3, <2>2 DEF CodeLogin
      <3>2. \A u \in Users : /\ account[u].password # TooShort
                             /\ account[u].resets \in 0 .. MaxResets
        BY <1>0, AccountsAssumption DEF Account
      <3>3. PICK u \in Users, step \in {"set_password", "create_session"} :
              /\ p \in Passwords
              /\ Go(r, ByPassword(From(d), u, p, account[u].resets), step)
              /\ step = "create_session" => account[u].password = p
        BY <1>5, <2>1, <2>2, <3>1, <3>2 DEF CodeLogin, Answers
      <3> DEFINE b == ByPassword(From(d), u, p, account[u].resets)
      <3>4. /\ b \in Request /\ b.user = u /\ b.password = p
            /\ b.resets = account[u].resets /\ b.grant = None
        BY <2>1, <3>2, <3>3, Learns
      <3> HIDE DEF b
      <3>5. req'[r].step = step /\ Same(req'[r], b)
        BY <1>4, <3>3, <3>4 DEF Steps, b
      <3>6. account' = account
        BY <2>2 DEF CodeLogin, db
      <3> QED
        BY <3>3, <3>4, <3>5, <3>6 DEF Goal, PasswordShown, Same
    <2>3. ASSUME NEW p \in Providers, CallbackCancelled(s, d, p)
          PROVE  FALSE
      <3>1. [From(d) EXCEPT !.provider = p] \in Request
        BY <2>1, Learns
      <3> QED
        BY <1>3, <1>5, <2>3, <3>1 DEF CallbackCancelled, Answers
    <2>4. ASSUME NEW g \in grants, Callback(s, d, g)
          PROVE  Goal
      <3> DEFINE b == ByGrant(From(d), g)
      <3>1. b \in Request /\ b.device = d /\ b.grant = g
        BY <2>1, Learns DEF Shape, Typed
      <3>2. Go(r, b, "redeem") /\ flow[d][g.provider] = g.state
        BY <1>2, <1>3, <1>5, <2>4, <3>1 DEF Callback, Answers
      <3> HIDE DEF b
      <3>3. req'[r].step = "redeem" /\ Same(req'[r], b)
        BY <1>4, <3>1, <3>2 DEF Steps
      <3> QED
        BY <3>1, <3>2, <3>3 DEF Goal, CallbackOpened, Same
    <2>5. ~Logout(s, d)
      BY <1>3, <1>5, <2>1 DEF Logout, Answers
    <2>6. ~CompleteOnboarding(s, d)
      <3>1. \A u \in Users : ~Go(s, [From(d) EXCEPT !.user = u], "onboard")
        <4> SUFFICES ASSUME NEW u \in Users, Go(s, [From(d) EXCEPT !.user = u], "onboard")
                     PROVE  FALSE
          OBVIOUS
        <4>1. [From(d) EXCEPT !.user = u] \in Request
          BY <2>1, Learns
        <4>2. s = r
          BY <1>2
        <4> QED
          BY <1>4, <4>1, <4>2 DEF Steps
      <3> QED
        BY <1>3, <1>5, <2>1, <3>1 DEF CompleteOnboarding, Answers
    <2> QED
      BY <1>9, <2>2, <2>3, <2>4, <2>5, <2>6
  <1> QED
    BY <1>6, <1>7, <1>8, <1>9 DEF Next, Browse, Goal

\* A request that comes to its session has its proof.
LEMMA LoginsProve ==
  ASSUME Shape, Next, NEW r \in Requests, req'[r].step = "create_session",
         req'[r] # req[r]
  PROVE  Proves(req[r])'
  <1>1. CASE PasswordShown(r)
    <2>1. UsersEvolve
      BY UsersStep
    <2>2. account'[req'[r].user].resets \in Nat
      BY <1>1, <2>1, AccountsAssumption DEF PasswordShown, UsersEvolve, Account
    <2> QED
      BY <1>1, <2>2, AccountsAssumption DEF PasswordShown, Proves
  <1>2. CASE UserFound(r)
    BY <1>2, AccountsAssumption DEF UserFound, Proves, Shape, Typed, StepOK, At
  <1> QED
    BY <1>1, <1>2, SignInSteps DEF CallbackOpened, ConsentRedeemed

\* While no reset comes in between, every session of a code is the session of
\* somebody who showed the password the account has.
THEOREM SessionsProve == Spec => []SessionsProvePassword
  <1>1. Init => Proven
    BY DEF Init, Proven, At, Idle
  <1>2. ASSUME Shape, Proven, Next PROVE Proven'
    <2>1. UsersEvolve /\ SessionsEvolve
      BY <1>2, UsersStep, SessionsStep
    <2>2. ASSUME NEW t \in Tokens, session'[t] # None
          PROVE  Proves(session[t])'
      <3>1. CASE session[t] # None /\ SameProof(session'[t], session[t])
        <4>1. session[t].user \in Users /\ session[t].resets \in Nat /\ Proves(session[t])
          BY <1>2, <3>1, AccountsAssumption DEF Shape, Typed, Session, Proven
        <4> QED
          BY <1>2, <2>1, <3>1, <4>1, ProofsLast DEF SameProof, Proves
      <3>2. ASSUME NEW r \in Requests, At(r, "create_session"),
                   UNCHANGED <<account, started>>, SameProof(session'[t], req[r])
            PROVE  Proves(session[t])'
        BY <1>2, <3>2 DEF SameProof, Proves, Proven
      <3> QED
        BY <2>1, <2>2, <3>1, <3>2 DEF SessionsEvolve
    <2>3. ASSUME NEW r \in Requests, At(r, "create_session")'
          PROVE  Proves(req[r])'
      <3>1. CASE req'[r] = req[r]
        <4>1. req[r].user \in Users /\ req[r].resets \in Nat /\ Proves(req[r])
          BY <1>2, <2>3, <3>1, AccountsAssumption
             DEF Shape, Typed, StepOK, Request, Proven, At
        <4> QED
          BY <1>2, <2>1, <3>1, <4>1, ProofsLast DEF Proves
      <3>2. CASE req'[r] # req[r]
        BY <1>2, <2>3, <3>2, LoginsProve DEF At
      <3> QED
        BY <3>1, <3>2
    <2> QED
      BY <2>2, <2>3 DEF Proven
  <1>3. Shape /\ Proven /\ [Next]_vars => Proven'
    BY <1>2 DEF vars, Proven, Proves, At
  <1>4. Shape /\ Proven => SessionsProvePassword
    BY DEF Proven, Proves, SessionsProvePassword
  <1> QED
    BY <1>1, <1>3, <1>4, ShapeInit, ShapeStep, PTL DEF Spec

-----------------------------------------------------------------------------
(* Which browser a provider's consent signs in.                            *)

\* A state is drawn for one browser, for good, and a flow cookie has the state
\* it had or one drawn for this browser.
FlowsEvolve ==
    /\ \A s \in States : started[s] # None => started'[s] = started[s]
    /\ \A d \in Devices, p \in Providers :
         flow'[d][p] # None =>
           flow'[d][p] = flow[d][p] \/ started'[flow'[d][p]] = d

LEMMA FlowsStep ==
  ASSUME Shape, Next
  PROVE  FlowsEvolve
  <1>0. /\ flow \in [Devices -> [Providers -> States \cup {None}]]
        /\ started \in [States -> Devices \cup {None}]
    BY DEF Shape, Typed
  <1>1. ASSUME UNCHANGED <<flow, started>>
        PROVE  FlowsEvolve
    BY <1>1 DEF FlowsEvolve
  <1>2. ASSUME NEW d \in Devices, NEW p \in Providers, OAuthStart(d, p)
        PROVE  FlowsEvolve
    <2>1. PICK s \in States : /\ started[s] = None
                              /\ started' = [started EXCEPT ![s] = d]
                              /\ flow' = [flow EXCEPT ![d] = [flow[d] EXCEPT ![p] = s]]
      BY <1>2 DEF OAuthStart
    <2>2. \A e \in Devices, x \in Providers :
            flow'[e][x] = IF e = d /\ x = p THEN s ELSE flow[e][x]
      BY <1>0, <2>1
    <2>3. started'[s] = d
      BY <1>0, <2>1
    <2> QED
      BY <1>0, <2>1, <2>2, <2>3 DEF FlowsEvolve
  <1>3. ASSUME NEW r \in Requests, Deliver(r)
        PROVE  FlowsEvolve
    <2> DEFINE q == req[r]
    <2>1. UNCHANGED started
      BY <1>3 DEF Deliver, history
    <2>2. \/ flow' = flow
          \/ flow' = [flow EXCEPT ![q.device] = [flow[q.device] EXCEPT ![q.provider] = None]]
      BY <1>3 DEF Deliver
    <2> HIDE DEF q
    <2>3. \A e \in Devices, x \in Providers :
            flow'[e][x] = flow[e][x] \/ flow'[e][x] = None
      BY <1>0, <2>2
    <2> QED
      BY <2>1, <2>3 DEF FlowsEvolve
  <1>4. ASSUME NEW r \in Requests, Work(r) \/ Lose(r)
        PROVE  UNCHANGED <<flow, started>>
    BY <1>4 DEF Work, SetPassword, CreateSession, Redeem, Upsert, Onboard, Lose,
                browser, history
  <1>5. ASSUME NEW r \in Requests, Browse(r)
        PROVE  UNCHANGED <<flow, started>>
    BY <1>5 DEF Browse, CodeLogin, CallbackCancelled, Callback, CompleteOnboarding,
                Logout, browser, history
  <1>6. ASSUME Teach \/ (\E g \in Grant : Consent(g)) \/ (\E t \in Tokens : Expire(t))
        PROVE  UNCHANGED <<flow, started>>
    BY <1>6 DEF Teach, CreateAdminUser, ReissueCode, Issue, UpdateAdminUser,
                ResetPassword, BanAdminUser, MakeAdmin, Consent, Expire, browser, history
  <1> QED
    BY <1>1, <1>2, <1>3, <1>4, <1>5, <1>6 DEF Next

\* A sign-in through a provider, under way or done, that began in its browser.
BegunHere(x) ==
    x.grant # None => started[x.grant.state] = x.device

\* One that belongs to the person who agreed.
OfThePerson(x) ==
    x.grant # None =>
      account[x.user].identity =
        [provider |-> x.grant.provider, subject |-> x.grant.subject]

Tied ==
    /\ \A d \in Devices, p \in Providers :
         flow[d][p] # None => started[flow[d][p]] = d
    /\ \A r \in Requests :
         /\ req[r].step \in {"redeem", "upsert", "create_session"} => BegunHere(req[r])
         /\ At(r, "create_session") => OfThePerson(req[r])
    /\ \A t \in Tokens :
         session[t] # None => BegunHere(session[t]) /\ OfThePerson(session[t])

\* Where a sign-in began and whose it is stays so.
LEMMA TiesLast ==
  ASSUME Shape, UsersEvolve, FlowsEvolve
  PROVE  \A x : x.user \in Users \cup {None} /\ x.device \in Devices
                  /\ x.grant \in Grant \cup {None} =>
           /\ BegunHere(x) => BegunHere(x)'
           /\ x.user \in Users /\ OfThePerson(x) => OfThePerson(x)'
  <1> SUFFICES ASSUME NEW x, x.user \in Users \cup {None}, x.device \in Devices,
                      x.grant \in Grant \cup {None}
               PROVE  /\ BegunHere(x) => BegunHere(x)'
                      /\ x.user \in Users /\ OfThePerson(x) => OfThePerson(x)'
    OBVIOUS
  <1>1. x.grant # None => x.grant.state \in States
    BY DEF Grant
  <1>2. x.device # None
    BY AccountsAssumption
  <1>3. BegunHere(x) => BegunHere(x)'
    BY <1>1, <1>2 DEF BegunHere, FlowsEvolve
  <1>4. x.grant # None =>
          [provider |-> x.grant.provider, subject |-> x.grant.subject] # None
    BY AccountsAssumption DEF Grant, Identity
  <1>5. ASSUME x.user \in Users, OfThePerson(x)
        PROVE  OfThePerson(x)'
    BY <1>4, <1>5 DEF OfThePerson, UsersEvolve, Evolves
  <1> QED
    BY <1>3, <1>5

\* A callback URL signs in the browser in which the sign-in began, as the
\* person who agreed, and no other browser.
THEOREM CallbackTied == Spec => []CallbackTiedToBrowser
  <1>1. Init => Tied
    BY AccountsAssumption DEF Init, Tied, At, Idle
  <1>2. ASSUME Shape, Tied, Next PROVE Tied'
    <2>1. UsersEvolve /\ SessionsEvolve /\ FlowsEvolve
      BY <1>2, UsersStep, SessionsStep, FlowsStep
    <2>2. ASSUME NEW d \in Devices, NEW p \in Providers, flow'[d][p] # None
          PROVE  started'[flow'[d][p]] = d
      <3>1. CASE flow'[d][p] = flow[d][p]
        <4>1. flow[d][p] \in States /\ started[flow[d][p]] = d
          BY <1>2, <2>2, <3>1 DEF Shape, Typed, Tied
        <4> QED
          BY <2>1, <3>1, <4>1, AccountsAssumption DEF FlowsEvolve
      <3> QED
        BY <2>1, <2>2, <3>1 DEF FlowsEvolve
    <2>3. ASSUME NEW r \in Requests, req'[r].step \in {"redeem", "upsert", "create_session"}
          PROVE  /\ BegunHere(req[r])'
                 /\ At(r, "create_session")' => OfThePerson(req[r])'
      <3>1. /\ req[r] \in Request
            /\ req[r].step # "idle" => req[r].device \in Devices
            /\ At(r, "create_session") => req[r].user \in Users
        BY <1>2 DEF Shape, Typed, StepOK, At
      <3>2. /\ req[r].grant \in Grant \cup {None}
            /\ req[r].user \in Users \cup {None}
        BY <3>1 DEF Request
      <3>3. CASE req'[r] = req[r]
        BY <1>2, <2>1, <2>3, <3>1, <3>2, <3>3, TiesLast
           DEF Tied, At, BegunHere, OfThePerson
      <3>4. CASE req'[r] # req[r]
        <4>1. CASE PasswordShown(r)
          BY <4>1 DEF PasswordShown, BegunHere, OfThePerson
        <4>2. CASE CallbackOpened(r)
          <5> DEFINE q == req'[r]
          <5>1. /\ q.device \in Devices /\ q.grant.state \in States
                /\ q.grant.provider \in Providers
                /\ flow[q.device][q.grant.provider] = q.grant.state
                /\ q.step # "create_session"
            BY <1>2, <4>2 DEF CallbackOpened, Shape, Typed, Grant
          <5>2. started[q.grant.state] = q.device
            BY <1>2, <5>1, AccountsAssumption DEF Tied
          <5> QED
            BY <2>1, <5>1, <5>2, AccountsAssumption DEF FlowsEvolve, BegunHere, At
        <4>3. CASE ConsentRedeemed(r)
          BY <1>2, <2>1, <3>1, <3>2, <4>3, TiesLast
             DEF ConsentRedeemed, Same, Tied, At, BegunHere
        <4>4. CASE UserFound(r)
          <5>1. BegunHere(req[r]) /\ req[r].device \in Devices
            BY <1>2, <3>1, <4>4 DEF UserFound, Tied, At
          <5>2. BegunHere(req[r])'
            BY <1>2, <2>1, <3>2, <4>4, <5>1, TiesLast DEF UserFound, BegunHere
          <5> QED
            BY <4>4, <5>2 DEF UserFound, OfThePerson
        <4> QED
          BY <1>2, <2>3, <3>4, <4>1, <4>2, <4>3, <4>4, SignInSteps
      <3> QED
        BY <3>3, <3>4
    <2>4. ASSUME NEW t \in Tokens, session'[t] # None
          PROVE  BegunHere(session[t])' /\ OfThePerson(session[t])'
      <3>1. CASE session[t] # None /\ SameProof(session'[t], session[t])
        <4>1. /\ session[t].user \in Users /\ session[t].device \in Devices
              /\ session[t].grant \in Grant \cup {None}
              /\ BegunHere(session[t]) /\ OfThePerson(session[t])
          BY <1>2, <3>1 DEF Shape, Typed, Session, Tied
        <4>2. BegunHere(session[t])'
          BY <1>2, <2>1, <3>1, <4>1, TiesLast DEF SameProof, BegunHere
        <4>3. OfThePerson(session[t])'
          BY <1>2, <2>1, <3>1, <4>1, TiesLast DEF SameProof, OfThePerson
        <4> QED
          BY <4>2, <4>3
      <3>2. ASSUME NEW r \in Requests, At(r, "create_session"),
                   UNCHANGED <<account, started>>, SameProof(session'[t], req[r])
            PROVE  BegunHere(session[t])' /\ OfThePerson(session[t])'
        <4>1. BegunHere(req[r]) /\ OfThePerson(req[r])
          BY <1>2, <3>2 DEF Tied, At
        <4> QED
          BY <3>2, <4>1 DEF SameProof, BegunHere, OfThePerson
      <3> QED
        BY <2>1, <2>4, <3>1, <3>2 DEF SessionsEvolve
    <2>5. (\A r \in Requests :
            /\ req[r].step \in {"redeem", "upsert", "create_session"} => BegunHere(req[r])
            /\ At(r, "create_session") => OfThePerson(req[r]))'
      BY <2>3 DEF At
    <2> QED
      BY <2>2, <2>4, <2>5 DEF Tied
  <1>3. Shape /\ Tied /\ [Next]_vars => Tied'
    BY <1>2 DEF vars, Tied, BegunHere, OfThePerson, At
  <1>4. Shape /\ Tied => CallbackTiedToBrowser
    BY DEF Tied, BegunHere, OfThePerson, CallbackTiedToBrowser
  <1> QED
    BY <1>1, <1>3, <1>4, ShapeInit, ShapeStep, PTL DEF Spec
=============================================================================
