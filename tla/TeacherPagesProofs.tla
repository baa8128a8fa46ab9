------------------------- MODULE TeacherPagesProofs -------------------------
(***************************************************************************)
(* Proofs about the page of students, and with TeacherListsProofs about    *)
(* the sections of the teacher's part that are one page with a table.      *)
(***************************************************************************)
EXTENDS TeacherListsProofs, SequenceTheorems

-----------------------------------------------------------------------------
(* The page of students.  One mutation at a time locks the page, so that   *)
(* what it shows differs from the table by one answer at most.             *)

usersVars == <<table, page, behind, calls, faults, changes>>

\* Calls about a student that the table has.
Editing == Users!Actions \cup {"rename"}

UserMutations == Editing \cup {"create"}

UserLists == Seq(Users!User)

UserCallOK(c) ==
    /\ \/ c \in [op: {"list"}, id: {None}, arg: {None}, to: {"page", "gone"},
                 answer: {"none", "ok", "refused", "failed"}, data: UserLists \cup {None}]
       \/ c \in [op: {"create"}, id: {None}, arg: Values \cup {None}, to: {"page", "gone"},
                 answer: {"none", "ok", "refused", "failed"}, data: Users!User \cup {None}]
       \/ c \in [op: Editing, id: Ids, arg: Values \cup {None}, to: {"page", "gone"},
                 answer: {"none", "ok", "refused", "failed"}, data: Values \cup Nat \cup {None}]
    /\ c.to = "gone" => c.answer = "none"
    /\ c.answer = "ok" =>
         /\ c.op = "list" => c.data \in UserLists
         /\ c.op = "create" => c.data \in Users!User
         /\ c.op = "rename" => c.data \in Values
         /\ c.op = "reissue" => c.data \in Nat

UserHeard(c) ==
    /\ page.open
    /\ c.op = "list" => page.rows = None
    /\ c.op \in UserMutations => page.busy = [op |-> c.op, id |-> c.id]
    /\ c.op \in Editing => page.rows # None /\ c.id \in Users!Listed(page.rows)

UserPageOK ==
    /\ ~page.open => page = Users!NoPage
    /\ \A c \in calls : c.to = "page" => UserHeard(c)
    /\ \A c, d \in calls : c.to = "page" /\ d.to = "page" /\ c.op = d.op => c = d
    /\ Users!LockHasItsCall
    /\ page.editing # None => page.rows # None /\ page.editing \in Users!Listed(page.rows)
    /\ page.confirmation # None =>
         page.rows # None /\ page.confirmation.id \in Users!Listed(page.rows)

\* What a list says of a student, and that it does not say it twice.
About(list, id) == {u \in {list[i] : i \in DOMAIN list} : u.id = id}

Once(list, id) == \A i, j \in Users!Of(list, id) : i = j

\* The table grows, and what is read from it names students that it has.
UserTableOK ==
    /\ \A id \in Ids : Once(table, id)
    /\ \A c \in calls :
         /\ c.op \in Editing => c.id \in Users!Listed(table)
         /\ c.answer = "ok" /\ c.op = "list" => Users!Listed(c.data) \subseteq Users!Listed(table)
         /\ c.answer = "ok" /\ c.op = "create" => c.data.id \in Users!Listed(table)
    /\ page.rows # None => Users!Listed(page.rows) \subseteq Users!Listed(table)
    /\ page.issued # None => page.issued.id \in Users!Listed(table)

Agree(list, id) == Once(list, id) /\ About(list, id) = About(table, id)

\* The student an answered mutation is about.
Subject(c) == IF c.op = "create" THEN c.data.id ELSE c.id

Awaited(id) ==
    {c \in calls : c.to = "page" /\ c.answer = "ok" /\ c.op \in UserMutations /\ Subject(c) = id}

\* What the page will show once it has taken the answer in.
Pending(c, id) ==
    /\ Once(page.rows, id)
    /\ About(table, id) =
         IF c.op = "create" THEN About(page.rows, id) \cup {c.data}
         ELSE {Users!Changed(c.op, c.data, u) : u \in About(page.rows, id)}
    /\ c.op = "create" => About(page.rows, id) = {}

UserRowsOK ==
    /\ \A c \in calls : c.to = "page" /\ c.op = "list" /\ c.answer = "ok" =>
         \A id \in Ids \ behind : Agree(c.data, id)
    /\ page.rows = None => \A id \in Ids \ behind : Awaited(id) = {}
    /\ page.rows # None =>
         \A id \in Ids \ behind :
           /\ \A c \in Awaited(id) : Pending(c, id)
           /\ Awaited(id) = {} => Agree(page.rows, id)

\* The code on the screen is the student's, until a newer one is told.
UserIssuedOK ==
    page.issued # None /\ page.issued.id \notin behind =>
      \/ \E c \in Awaited(page.issued.id) : c.op = "reissue"
      \/ \A u \in About(table, page.issued.id) : u.code = page.issued.code

UsersOK ==
    /\ Users!TypeOK
    /\ \A c \in calls : UserCallOK(c)
    /\ UserPageOK /\ UserTableOK /\ UserRowsOK /\ UserIssuedOK

-----------------------------------------------------------------------------
(* Lists of students.                                                      *)

LEMMA ListDomain ==
  ASSUME NEW list \in UserLists
  PROVE  /\ DOMAIN list = 1 .. Len(list) /\ Len(list) \in Nat
         /\ \A i \in DOMAIN list : list[i] \in Users!User
  BY LenProperties, ElementOfSeq DEF UserLists

LEMMA ListedAbout ==
  ASSUME NEW list, NEW id
  PROVE  id \in Users!Listed(list) <=> About(list, id) # {}
  BY DEF Users!Listed, About

LEMMA ChangedType ==
  ASSUME NEW u \in Users!User, NEW op \in Editing, NEW arg,
         op = "rename" => arg \in Values, op = "reissue" => arg \in Nat
  PROVE  Users!Changed(op, arg, u) \in Users!User /\ Users!Changed(op, arg, u).id = u.id
  BY DEF Users!Changed, Users!User, Editing, Users!Actions

\* What an update by id does to a list.
LEMMA WithList ==
  ASSUME NEW list \in UserLists, NEW id \in Ids, NEW op \in Editing, NEW arg,
         op = "rename" => arg \in Values, op = "reissue" => arg \in Nat,
         NEW new, new = Users!With(list, id, op, arg)
  PROVE  /\ new \in UserLists /\ Users!Listed(new) = Users!Listed(list)
         /\ \A a \in Ids : Once(new, a) <=> Once(list, a)
         /\ \A a \in Ids \ {id} : About(new, a) = About(list, a)
         /\ About(new, id) = {Users!Changed(op, arg, u) : u \in About(list, id)}
  <1>1. /\ DOMAIN list = 1 .. Len(list) /\ Len(list) \in Nat
        /\ \A i \in DOMAIN list : list[i] \in Users!User
    BY ListDomain
  <1>2. /\ DOMAIN new = DOMAIN list
        /\ \A i \in DOMAIN list :
             new[i] = IF list[i].id = id THEN Users!Changed(op, arg, list[i]) ELSE list[i]
    BY DEF Users!With
  <1>3. \A i \in DOMAIN list : new[i] \in Users!User /\ new[i].id = list[i].id
    BY <1>1, <1>2, ChangedType
  <1>4. new \in UserLists
    <2>1. new = [i \in 1 .. Len(list) |-> new[i]]
      BY <1>1 DEF Users!With
    <2>2. new \in [1 .. Len(list) -> Users!User]
      BY <1>1, <1>3, <2>1
    <2> QED
      BY <1>1, <2>2, SeqDef DEF UserLists
  <1>5. Users!Listed(new) = Users!Listed(list) /\ \A a \in Ids : Users!Of(new, a) = Users!Of(list, a)
    BY <1>2, <1>3 DEF Users!Listed, Users!Of
  <1>6. \A a \in Ids \ {id} : About(new, a) = About(list, a)
    BY <1>2, <1>3 DEF About
  <1>7. About(new, id) = {Users!Changed(op, arg, u) : u \in About(list, id)}
    BY <1>2, <1>3 DEF About
  <1> QED
    BY <1>4, <1>5, <1>6, <1>7 DEF Once

\* A student put in front, and what that does to a list.
Added(user, list) == <<user>> \o list

LEMMA AddedList ==
  ASSUME NEW list \in UserLists, NEW user \in Users!User, NEW new, new = Added(user, list)
  PROVE  /\ new \in UserLists /\ Users!Listed(new) = Users!Listed(list) \cup {user.id}
         /\ \A a \in Ids \ {user.id} :
              About(new, a) = About(list, a) /\ (Once(new, a) <=> Once(list, a))
         /\ About(new, user.id) = About(list, user.id) \cup {user}
         /\ user.id \notin Users!Listed(list) => Once(new, user.id)
  <1>1. /\ DOMAIN list = 1 .. Len(list) /\ Len(list) \in Nat
    BY ListDomain
  <1>2. /\ new \in UserLists /\ Len(new) = Len(list) + 1
        /\ \A i \in 1 .. Len(list) + 1 : new[i] = IF i <= 1 THEN user ELSE list[i - 1]
    <2>1. /\ <<user>> \in UserLists /\ Len(<<user>>) = 1 /\ <<user>>[1] = user
      BY DEF UserLists
    <2> QED
      BY <1>1, <2>1, ConcatProperties DEF UserLists, Added
  <1>3. /\ DOMAIN new = 1 .. Len(list) + 1 /\ new[1] = user
        /\ \A i \in DOMAIN list : i + 1 \in DOMAIN new /\ new[i + 1] = list[i]
        /\ \A i \in DOMAIN new : i = 1 \/ (i - 1 \in DOMAIN list /\ new[i] = list[i - 1])
    <2>1. DOMAIN new = 1 .. Len(list) + 1
      BY <1>2, ListDomain
    <2> QED
      BY <1>1, <1>2, <2>1
  <1>4. {new[i] : i \in DOMAIN new} = {list[i] : i \in DOMAIN list} \cup {user}
    <2>1. \A i \in DOMAIN new : new[i] \in {list[j] : j \in DOMAIN list} \cup {user}
      BY <1>3
    <2>2. \A i \in DOMAIN list : list[i] \in {new[j] : j \in DOMAIN new}
      BY <1>3
    <2>3. 1 \in DOMAIN new
      BY <1>1, <1>3
    <2>4. user \in {new[j] : j \in DOMAIN new}
      BY <1>3, <2>3
    <2> QED
      BY <2>1, <2>2, <2>4
  <1>5. Users!Listed(new) = Users!Listed(list) \cup {user.id}
    <2>1. \A l : Users!Listed(l) = {u.id : u \in {l[i] : i \in DOMAIN l}}
      BY DEF Users!Listed
    <2> QED
      BY <1>4, <2>1
  <1>6. \A a : Users!Of(new, a) = {i \in DOMAIN new : i - 1 \in Users!Of(list, a)}
                                    \cup (IF user.id = a THEN {1} ELSE {})
    BY <1>1, <1>3 DEF Users!Of
  <1>7. \A a \in Ids \ {user.id} : Once(new, a) <=> Once(list, a)
    <2>1. SUFFICES ASSUME NEW a \in Ids \ {user.id}
                   PROVE  Once(new, a) <=> Once(list, a)
      OBVIOUS
    <2>2. Users!Of(new, a) = {i \in DOMAIN new : i - 1 \in Users!Of(list, a)}
      BY <1>6
    <2>3. \A i \in Users!Of(list, a) : i \in Int /\ i + 1 \in Users!Of(new, a)
      BY <1>1, <1>3, <2>2 DEF Users!Of
    <2>4. \A i \in Users!Of(new, a) : i \in Int /\ i - 1 \in Users!Of(list, a)
      BY <1>3, <2>2
    <2> QED
      BY <2>3, <2>4 DEF Once
  <1>8. user.id \notin Users!Listed(list) => Once(new, user.id)
    <2>1. user.id \notin Users!Listed(list) => Users!Of(list, user.id) = {}
      BY DEF Users!Listed, Users!Of
    <2> QED
      BY <1>6, <2>1 DEF Once
  <1> QED
    BY <1>2, <1>4, <1>5, <1>7, <1>8 DEF About

-----------------------------------------------------------------------------
(* The teacher.                                                            *)

\* A row that the page shows is a row of the table, and a student with an
\* answer under way is one the page waits for.
LEMMA UserTypes ==
  ASSUME UsersOK
  PROVE  /\ table \in UserLists /\ page \in Users!Page /\ behind \subseteq Ids
         /\ page.rows \in UserLists \cup {None}
         /\ changes \in 0 .. MaxChanges /\ faults \in 0 .. MaxFaults
         /\ page.busy # None => page.open
         /\ Users!Listed(table) \subseteq Ids
         /\ page.rows # None => page.open /\ Users!Listed(page.rows) \subseteq Ids
  <1>1. /\ table \in UserLists /\ page \in Users!Page /\ behind \subseteq Ids
        /\ page.rows \in UserLists \cup {None}
        /\ changes \in 0 .. MaxChanges /\ faults \in 0 .. MaxFaults
        /\ page.busy # None => page.open
    BY DEF UsersOK, Users!TypeOK, UserLists, Users!Page
  <1>2. page.rows # None => page.open
    BY DEF UsersOK, UserPageOK, Users!NoPage
  <1>3. \A list \in UserLists : Users!Listed(list) \subseteq Ids
    BY ListDomain DEF Users!Listed, Users!User
  <1> QED
    BY <1>1, <1>2, <1>3

\* The teacher chooses, and nothing is sent.
LEMMA UsersTurnKeeps ==
  ASSUME UsersOK, page.open, NEW p \in Users!Page, page' = p, p.open,
         p.rows = page.rows, p.busy = page.busy, p.issued \in {page.issued, None},
         p.editing # None => page.rows # None /\ p.editing \in Users!Listed(page.rows),
         p.confirmation # None =>
           page.rows # None /\ p.confirmation.id \in Users!Listed(page.rows),
         UNCHANGED <<table, behind, calls, faults, changes>>
  PROVE  UsersOK'
  <1>1. Users!TypeOK' /\ (\A c \in calls : UserCallOK(c))'
    BY DEF UsersOK, Users!TypeOK, UserCallOK
  <1>2. UserPageOK'
    BY DEF UsersOK, UserPageOK, UserHeard, Users!LockHasItsCall
  <1>3. UserTableOK'
    BY DEF UsersOK, UserTableOK
  <1>4. UserRowsOK'
    <2>1. \A a : Awaited(a)' = Awaited(a) /\ About(table, a)' = About(table, a)
      BY DEF Awaited, About
    <2>2. \A list, a : Agree(list, a)' <=> Agree(list, a)
      BY <2>1 DEF Agree
    <2>3. \A c, a : Pending(c, a)' <=> Pending(c, a)
      BY <2>1 DEF Pending
    <2> QED
      BY <2>1, <2>2, <2>3 DEF UsersOK, UserRowsOK
  <1>5. UserIssuedOK'
    BY DEF UsersOK, UserIssuedOK, About, Awaited
  <1> QED
    BY <1>1, <1>2, <1>3, <1>4, <1>5 DEF UsersOK

\* A mutation is sent and locks the page.
LEMMA UsersSendKeeps ==
  ASSUME UsersOK, page.open, page.busy = None, NEW op \in UserMutations,
         NEW id, NEW arg \in Values \cup {None},
         IF op = "create" THEN id = None
         ELSE page.rows # None /\ id \in Users!Listed(page.rows),
         op \in Users!Actions => arg = None,
         NEW p, p = [page EXCEPT !.busy = [op |-> op, id |-> id]], page' = p,
         Users!Send(op, id, arg), UNCHANGED <<table, behind, faults, changes>>
  PROVE  UsersOK'
  <1>0. op \in {"create", "rename", "reissue", "reset", "ban"} /\ id \in Ids \cup {None}
        /\ (op # "create" => id \in Ids /\ id \in Users!Listed(table))
    BY UserTypes DEF UserMutations, Editing, Users!Actions, UsersOK, UserTableOK
  <1>1. /\ p \in Users!Page /\ p.open /\ p.rows = page.rows /\ p.busy = [op |-> op, id |-> id]
        /\ p.issued = page.issued /\ p.editing = page.editing
        /\ p.confirmation = page.confirmation
    BY <1>0, UserTypes DEF Users!Page, Users!Actions
  <1>2. PICK c : c = Users!Request(op, id, arg)
    OBVIOUS
  <1>3. /\ calls' = calls \cup {c} /\ c.op = op /\ c.id = id /\ c.to = "page" /\ c.answer = "none"
        /\ UserCallOK(c)
    <2>1. calls' = calls \cup {c} /\ c.op = op /\ c.id = id /\ c.to = "page" /\ c.answer = "none"
      BY <1>2 DEF Users!Send, Users!Request
    <2>2. CASE op = "create"
      <3>1. c \in [op: {"create"}, id: {None}, arg: Values \cup {None}, to: {"page", "gone"},
                   answer: {"none", "ok", "refused", "failed"}, data: Users!User \cup {None}]
        BY <1>2, <2>2 DEF Users!Request
      <3> QED
        BY <2>1, <3>1 DEF UserCallOK
    <2>3. CASE op # "create"
      <3>1. op \in Editing
        BY <2>3 DEF UserMutations
      <3>2. c \in [op: Editing, id: Ids, arg: Values \cup {None}, to: {"page", "gone"},
                   answer: {"none", "ok", "refused", "failed"}, data: Values \cup Nat \cup {None}]
        BY <1>0, <1>2, <2>3, <3>1 DEF Users!Request
      <3> QED
        BY <2>1, <3>2 DEF UserCallOK
    <2> QED
      BY <2>1, <2>2, <2>3
  <1>4. \A d \in calls : d.to = "page" => d.op = "list"
    <2>1. SUFFICES ASSUME NEW d \in calls, d.to = "page", d.op # "list"
                   PROVE  FALSE
      OBVIOUS
    <2>2. d.op \in Users!Actions \cup {"create", "rename"} /\ d.id \in Ids \cup {None}
      BY <2>1 DEF UsersOK, UserCallOK, Editing
    <2>3. page.busy = [op |-> d.op, id |-> d.id]
      BY <2>1, <2>2 DEF UsersOK, UserPageOK, UserHeard, UserMutations, Editing
    <2> QED
      BY <2>2, <2>3, TeacherPagesAssumption
  <1>5. Users!TypeOK' /\ (\A d \in calls : UserCallOK(d))'
    <2>1. p.busy # None => p.open
      BY <1>1
    <2> QED
      BY <1>1, <1>3, <2>1 DEF UsersOK, Users!TypeOK, UserCallOK
  <1>6. UserPageOK'
    <2>1. UserHeard(c)'
      BY <1>0, <1>1, <1>3 DEF UserHeard, UserMutations, Editing, Users!Actions
    <2>2. \A d \in calls : d.to = "page" => UserHeard(d)'
      BY <1>1, <1>4 DEF UsersOK, UserPageOK, UserHeard, UserMutations, Editing, Users!Actions
    <2>3. \A d, e \in calls' : d.to = "page" /\ e.to = "page" /\ d.op = e.op => d = e
      BY <1>0, <1>3, <1>4 DEF UsersOK, UserPageOK
    <2>4. Users!LockHasItsCall'
      BY <1>1, <1>3 DEF Users!LockHasItsCall
    <2> QED
      BY <1>1, <1>3, <2>1, <2>2, <2>3, <2>4 DEF UsersOK, UserPageOK
  <1>7. UserTableOK'
    BY <1>0, <1>1, <1>3 DEF UsersOK, UserTableOK, Editing, Users!Actions
  <1>8. \A a : Awaited(a)' = Awaited(a)
    BY <1>3 DEF Awaited, Subject
  <1>9. UserRowsOK'
    BY <1>1, <1>3, <1>8 DEF UsersOK, UserRowsOK, Agree, Once, About, Pending
  <1>10. UserIssuedOK'
    BY <1>1, <1>8 DEF UsersOK, UserIssuedOK, About
  <1> QED
    BY <1>5, <1>6, <1>7, <1>9, <1>10 DEF UsersOK

LEMMA UsersOpenKeeps ==
  ASSUME UsersOK, Users!Open
  PROVE  UsersOK'
  <1>1. PICK p, c : p = [Users!NoPage EXCEPT !.open = TRUE] /\ c = Users!Request("list", None, None)
    OBVIOUS
  <1>2. /\ p \in Users!Page /\ p.open /\ p.rows = None /\ p.busy = None /\ p.editing = None
        /\ p.confirmation = None /\ p.issued = None
    BY <1>1 DEF Users!NoPage, Users!Page
  <1>3. c.op = "list" /\ c.to = "page" /\ c.answer = "none" /\ UserCallOK(c)
    <2>1. /\ c \in [op: {"list"}, id: {None}, arg: {None}, to: {"page", "gone"},
                   answer: {"none", "ok", "refused", "failed"}, data: UserLists \cup {None}]
          /\ c.op = "list" /\ c.to = "page" /\ c.answer = "none"
      BY <1>1 DEF Users!Request
    <2> QED
      BY <2>1 DEF UserCallOK
  <1>4. /\ page' = p /\ calls' = calls \cup {c} /\ behind' = {}
        /\ UNCHANGED <<table, faults, changes>>
    BY <1>1 DEF Users!Open, Users!Send
  <1>5. \A d \in calls' : d.to = "page" => d = c
    BY <1>4 DEF UsersOK, UserPageOK, UserHeard, Users!Open
  <1>6. Users!TypeOK' /\ (\A d \in calls : UserCallOK(d))'
    BY <1>2, <1>3, <1>4 DEF UsersOK, Users!TypeOK, UserCallOK
  <1>7. UserPageOK'
    BY <1>2, <1>3, <1>4, <1>5
       DEF UserPageOK, UserHeard, Users!LockHasItsCall, UserMutations, Editing, Users!Actions
  <1>8. UserTableOK'
    BY <1>2, <1>3, <1>4 DEF UsersOK, UserTableOK, Editing, Users!Actions
  <1>9. UserRowsOK' /\ UserIssuedOK'
    BY <1>2, <1>3, <1>4, <1>5 DEF UserRowsOK, UserIssuedOK, Awaited
  <1> QED
    BY <1>6, <1>7, <1>8, <1>9 DEF UsersOK

LEMMA UsersLeaveKeeps ==
  ASSUME UsersOK, Users!Leave
  PROVE  UsersOK'
  <1>1. page' = Users!NoPage /\ UNCHANGED <<table, behind, faults, changes>>
    BY DEF Users!Leave, Users!OnPage
  <1>2. \A c \in calls' : \E d \in calls : d.answer = "none" /\ c = [d EXCEPT !.to = "gone"]
    BY DEF Users!Leave, Users!Abandoned
  <1>3. \A c \in calls' : /\ c.to = "gone" /\ c.answer = "none" /\ UserCallOK(c)
                          /\ \E d \in calls : c.op = d.op /\ c.id = d.id
    <2>1. SUFFICES ASSUME NEW c \in calls', NEW d \in calls, d.answer = "none",
                          c = [d EXCEPT !.to = "gone"]
                   PROVE  c.to = "gone" /\ c.answer = "none" /\ UserCallOK(c)
                          /\ c.op = d.op /\ c.id = d.id
      BY <1>2
    <2>2. UserCallOK(d)
      BY DEF UsersOK
    <2> QED
      BY <2>1, <2>2 DEF UserCallOK
  <1>4. Users!NoPage \in Users!Page
    BY DEF Users!NoPage, Users!Page
  <1>5. Users!TypeOK' /\ (\A c \in calls : UserCallOK(c))'
    <2>1. Users!NoPage.busy = None
      BY DEF Users!NoPage
    <2> QED
      BY <1>1, <1>3, <1>4, <2>1 DEF UsersOK, Users!TypeOK, UserCallOK
  <1>6. UserPageOK' /\ UserRowsOK' /\ UserIssuedOK'
    BY <1>1, <1>3
       DEF UserPageOK, UserRowsOK, UserIssuedOK, Awaited, Users!NoPage, Users!LockHasItsCall
  <1>7. UserTableOK'
    BY <1>1, <1>3 DEF UsersOK, UserTableOK, Users!NoPage
  <1> QED
    BY <1>5, <1>6, <1>7 DEF UsersOK

-----------------------------------------------------------------------------
(* The server.                                                             *)

\* A call moves on, or nobody hears of it any more, and the table is as it was.
LEMMA UsersCallMoves ==
  ASSUME UsersOK, NEW c \in calls, NEW d, d.op = c.op, d.id = c.id, UserCallOK(d),
         c.to = "page" => d.to = "page" /\ d \in calls' /\ c \notin calls',
         c.to = "gone" => d.to = "gone", calls \ {c} \subseteq calls',
         \A e \in calls' \ calls :
           e = d \/ (e.to = "gone" /\ UserCallOK(e) /\ e.op = c.op /\ e.id = c.id),
         UNCHANGED <<table, page>>, behind \subseteq behind', behind' \subseteq Ids,
         faults' \in 0 .. MaxFaults, changes' \in 0 .. MaxChanges,
         c.op \in UserMutations =>
           d.answer # "ok" /\ (c.to = "page" /\ c.answer = "ok" => Subject(c) \in behind'),
         d.op = "list" /\ d.answer = "ok" => d.data = table
  PROVE  UsersOK'
  <1>1. Users!TypeOK' /\ (\A e \in calls : UserCallOK(e))'
    BY DEF UsersOK, Users!TypeOK, UserCallOK
  <1>2. \A e \in calls' : e.to = "page" => e = d \/ (e \in calls /\ e # c)
    BY DEF UsersOK, UserCallOK
  <1>3. (d.to = "page" => c.to = "page") /\ UserCallOK(c)
        /\ (c.op \in UserMutations \/ c.op = "list")
    BY DEF UsersOK, UserCallOK, UserMutations
  <1>4. UserPageOK'
    <2>1. \A e \in calls' : e.to = "page" => UserHeard(e)'
      BY <1>2, <1>3 DEF UsersOK, UserPageOK, UserHeard
    <2>2. \A e, f \in calls' : e.to = "page" /\ f.to = "page" /\ e.op = f.op => e = f
      BY <1>2, <1>3 DEF UsersOK, UserPageOK
    <2>3. Users!LockHasItsCall'
      BY DEF UsersOK, UserPageOK, Users!LockHasItsCall
    <2> QED
      BY <2>1, <2>2, <2>3 DEF UsersOK, UserPageOK
  <1>5. UserTableOK'
    <2>1. \A e \in calls' : e.op \in Editing => e.id \in Users!Listed(table)
      BY DEF UsersOK, UserTableOK
    <2>2. \A e \in calls' : e.answer = "ok" => e \in calls \/ (e = d /\ e.op = "list")
      BY <1>3 DEF UserCallOK
    <2> QED
      BY <2>1, <2>2 DEF UsersOK, UserTableOK
  <1>6. \A a \in Ids \ behind' : Awaited(a)' = Awaited(a)
    <2>1. \A a, e : e \in Awaited(a)' => e \in Awaited(a)
      BY <1>2, <1>3 DEF Awaited
    <2>2. \A a \in Ids \ behind' : \A e : e \in Awaited(a) => e \in Awaited(a)'
      BY DEF Awaited
    <2> QED
      BY <2>1, <2>2
  <1>7. \A list, a : Agree(list, a)' <=> Agree(list, a)
    BY DEF Agree, About
  <1>8. UserRowsOK'
    <2>1. ASSUME NEW e \in calls', e.to = "page", e.op = "list", e.answer = "ok",
                 NEW a \in Ids \ behind'
          PROVE  Agree(e.data, a)'
      <3>1. CASE e = d
        BY <1>7, <2>1, <3>1 DEF UsersOK, UserTableOK, Agree
      <3> QED
        BY <1>2, <1>7, <2>1, <3>1 DEF UsersOK, UserRowsOK
    <2>2. \A e, a : Pending(e, a)' <=> Pending(e, a)
      BY DEF Pending, About
    <2> QED
      BY <1>6, <1>7, <2>1, <2>2 DEF UsersOK, UserRowsOK
  <1>9. UserIssuedOK'
    <2>1. page.issued # None => page.issued.id \in Ids
      BY UserTypes DEF UsersOK, UserTableOK
    <2> QED
      BY <1>6, <2>1 DEF UsersOK, UserIssuedOK, About
  <1> QED
    BY <1>1, <1>4, <1>5, <1>8, <1>9 DEF UsersOK

LEMMA UserAnswer ==
  ASSUME NEW c, UserCallOK(c), c.to = "page", NEW answer \in {"ok", "refused", "failed"}, NEW data,
         IF answer # "ok" \/ c.op \in {"reset", "ban"} THEN data = None
         ELSE data \in CASE c.op = "list" -> UserLists
                         [] c.op = "create" -> Users!User
                         [] c.op = "rename" -> Values
                         [] c.op = "reissue" -> Nat,
         NEW d, d = Told(c, answer, data)
  PROVE  /\ d.op = c.op /\ d.id = c.id /\ d.to = "page" /\ d.answer = answer /\ d.data = data
         /\ UserCallOK(d)
  <1>1. CASE c \in [op: {"list"}, id: {None}, arg: {None}, to: {"page", "gone"},
                   answer: {"none", "ok", "refused", "failed"}, data: UserLists \cup {None}]
    <2>1. /\ d \in [op: {"list"}, id: {None}, arg: {None}, to: {"page", "gone"},
                   answer: {"none", "ok", "refused", "failed"}, data: UserLists \cup {None}]
          /\ d.op = c.op /\ d.id = c.id /\ d.to = "page" /\ d.answer = answer /\ d.data = data
      BY <1>1 DEF Told
    <2> QED
      BY <1>1, <2>1 DEF UserCallOK
  <1>2. CASE c \in [op: {"create"}, id: {None}, arg: Values \cup {None}, to: {"page", "gone"},
                   answer: {"none", "ok", "refused", "failed"}, data: Users!User \cup {None}]
    <2>1. /\ d \in [op: {"create"}, id: {None}, arg: Values \cup {None}, to: {"page", "gone"},
                   answer: {"none", "ok", "refused", "failed"}, data: Users!User \cup {None}]
          /\ d.op = c.op /\ d.id = c.id /\ d.to = "page" /\ d.answer = answer /\ d.data = data
      BY <1>2 DEF Told
    <2> QED
      BY <1>2, <2>1 DEF UserCallOK
  <1>3. CASE c \in [op: Editing, id: Ids, arg: Values \cup {None}, to: {"page", "gone"},
                   answer: {"none", "ok", "refused", "failed"}, data: Values \cup Nat \cup {None}]
    <2>0. c.op \in {"rename", "reissue", "reset", "ban"}
      BY <1>3 DEF Editing, Users!Actions
    <2>1. /\ d \in [op: Editing, id: Ids, arg: Values \cup {None}, to: {"page", "gone"},
                   answer: {"none", "ok", "refused", "failed"}, data: Values \cup Nat \cup {None}]
          /\ d.op = c.op /\ d.id = c.id /\ d.to = "page" /\ d.answer = answer /\ d.data = data
      <3>1. data \in Values \cup Nat \cup {None}
        BY <2>0
      <3> QED
        BY <1>3, <3>1 DEF Told
    <2> QED
      BY <2>0, <2>1 DEF UserCallOK
  <1> QED
    BY <1>1, <1>2, <1>3 DEF UserCallOK

\* The server answers and leaves the table alone.
LEMMA UsersReplyKeeps ==
  ASSUME UsersOK, NEW c \in calls, c.answer = "none",
         NEW answer \in {"ok", "refused", "failed"}, NEW data, Users!Reply(c, answer, data),
         UNCHANGED <<table, page, behind, faults, changes>>,
         answer # "ok" => data = None, answer = "ok" => c.op = "list" /\ data = table
  PROVE  UsersOK'
  <1>1. /\ UserCallOK(c) /\ (c.to = "page" \/ c.to = "gone")
        /\ (c.op = "list" => c.op \notin UserMutations)
    BY DEF UsersOK, UserCallOK, UserMutations, Editing, Users!Actions
  <1>2. /\ table \in UserLists /\ behind' \subseteq Ids /\ faults' \in 0 .. MaxFaults
        /\ changes' \in 0 .. MaxChanges
    BY UserTypes
  <1>3. CASE c.to = "gone"
    <2>1. calls' = calls \ {c}
      BY <1>3 DEF Users!Reply
    <2> QED
      BY <1>1, <1>2, <1>3, <2>1, UsersCallMoves
  <1>4. CASE c.to = "page"
    <2>1. PICK d : d = Told(c, answer, data)
      OBVIOUS
    <2>2. /\ d.op = c.op /\ d.id = c.id /\ d.to = "page" /\ d.answer = answer /\ d.data = data
          /\ UserCallOK(d)
      <3>1. CASE answer # "ok"
        BY <1>1, <1>4, <2>1, <3>1, UserAnswer
      <3>2. CASE answer = "ok"
        <4>1. c.op = "list" /\ data \in UserLists
          BY <1>2, <3>2
        <4> QED
          BY <1>1, <1>4, <2>1, <3>2, <4>1, UserAnswer
      <3> QED
        BY <3>1, <3>2
    <2>3. calls' = (calls \ {c}) \cup {d} /\ d # c
      BY <1>4, <2>1, <2>2 DEF Users!Reply, Told
    <2> QED
      BY <1>1, <1>2, <1>4, <2>2, <2>3, UsersCallMoves
  <1> QED
    BY <1>1, <1>3, <1>4

LEMMA UsersLoseKeeps ==
  ASSUME UsersOK, NEW c \in calls, Users!Lose(c)
  PROVE  UsersOK'
  <1>1. /\ UserCallOK(c) /\ c.to = "page" /\ c.answer # "failed"
        /\ c.op \in UserMutations \cup {"list"}
    BY DEF UsersOK, UserCallOK, Users!Lose, Users!Fail, UserMutations
  <1>2. PICK d, e : d = Told(c, "failed", None) /\ e = [c EXCEPT !.to = "gone"]
    OBVIOUS
  <1>3. /\ d.op = c.op /\ d.id = c.id /\ d.to = "page" /\ d.answer = "failed"
        /\ UserCallOK(d)
    BY <1>1, <1>2, UserAnswer
  <1>4. c.answer = "none" => /\ e.to = "gone" /\ UserCallOK(e) /\ e.op = c.op /\ e.id = c.id
    BY <1>1, <1>2 DEF UserCallOK
  <1>5. /\ calls' = (calls \ {c}) \cup {d}
           \/ (c.answer = "none" /\ calls' = (calls \ {c}) \cup {d, e})
        /\ UNCHANGED <<table, page, changes>> /\ faults' = faults + 1 /\ faults < MaxFaults
    BY <1>2 DEF Users!Lose, Users!Fail, Told
  <1>6. /\ behind \subseteq behind' /\ behind' \subseteq Ids
        /\ c.op \in UserMutations /\ c.answer = "ok" => Subject(c) \in behind'
    <2>1. /\ c.op = "create" /\ c.answer = "ok" => c.data.id \in Ids
          /\ c.op \in Editing => c.id \in Ids
      BY <1>1 DEF UserCallOK, Users!User, Editing, Users!Actions
    <2>2. c.op = "list" => c.op \notin UserMutations
      BY DEF UserMutations, Editing, Users!Actions
    <2> QED
      BY <1>1, <2>1, <2>2, UserTypes DEF Users!Lose, Subject, UserMutations
  <1>7. /\ faults' \in 0 .. MaxFaults /\ changes' \in 0 .. MaxChanges
    BY <1>5, UserTypes, BrowserAssumption
  <1>8. c # d /\ c \notin calls' /\ d \in calls'
    BY <1>1, <1>3, <1>4, <1>5
  <1> QED
    BY <1>1, <1>3, <1>4, <1>5, <1>6, <1>7, <1>8, UsersCallMoves

\* While the page waits for a mutation it waits for no other.
LEMMA OneMutation ==
  ASSUME UsersOK, NEW c \in calls, c.to = "page", c.op \in UserMutations,
         NEW e \in calls, e.to = "page", e.op \in UserMutations
  PROVE  e = c
  <1>1. page.busy = [op |-> c.op, id |-> c.id] /\ page.busy = [op |-> e.op, id |-> e.id]
    BY DEF UsersOK, UserPageOK, UserHeard
  <1>2. e.op = c.op
    BY <1>1
  <1> QED
    BY <1>2 DEF UsersOK, UserPageOK

\* The server changes what the table has of one student.
LEMMA UsersChangeKeeps ==
  ASSUME UsersOK, NEW c \in calls, c.answer = "none", c.op \in UserMutations,
         NEW id \in Ids, NEW new \in UserLists, NEW data, Users!Reply(c, "ok", data),
         IF c.op \in {"reset", "ban"} THEN data = None
         ELSE data \in CASE c.op = "create" -> Users!User
                         [] c.op = "rename" -> Values
                         [] c.op = "reissue" -> Nat,
         table' = new, Users!Listed(table) \subseteq Users!Listed(new),
         \A a \in Ids : Once(new, a),
         \A a \in Ids \ {id} : About(new, a) = About(table, a),
         IF c.op = "create"
         THEN /\ data.id = id /\ id \in Users!Listed(new) /\ About(table, id) = {}
              /\ About(new, id) = {data}
         ELSE /\ c.id = id
              /\ About(new, id) = {Users!Changed(c.op, data, u) : u \in About(table, id)},
         behind' = behind \cup
           (IF c.to = "gone" \/ (c.op = "create" /\ page.rows = None) THEN {id} ELSE {}),
         UNCHANGED <<page, faults>>, changes' \in 0 .. MaxChanges
  PROVE  UsersOK'
  <1>1. /\ UserCallOK(c) /\ (c.to = "page" \/ c.to = "gone") /\ c.op # "list"
        /\ c.op \in {"create", "rename", "reissue", "reset", "ban"}
    BY DEF UsersOK, UserCallOK, UserMutations, Editing, Users!Actions
  <1>2. /\ behind' \subseteq Ids /\ behind \subseteq behind' /\ new \in Seq(Users!User)
        /\ faults' \in 0 .. MaxFaults
    BY UserTypes DEF UserLists
  <1>3. \A list : \A a \in Ids \ {id} : Agree(list, a)' <=> Agree(list, a)
    BY DEF Agree, About
  <1>4. \A e : \A a \in Ids \ {id} : Pending(e, a)' <=> Pending(e, a)
    <2>1. \A a \in Ids \ {id} : About(table, a)' = About(table, a)
      BY DEF About
    <2>2. \A a : About(page.rows, a)' = About(page.rows, a)
      BY DEF About
    <2> QED
      BY <2>1, <2>2 DEF Pending
  <1>5. page.issued # None => page.issued.id \in Users!Listed(table) /\ page.issued.id \in Ids
    BY UserTypes DEF UsersOK, UserTableOK
  <1>6. CASE c.to = "gone"
    <2>1. calls' = calls \ {c} /\ behind' = behind \cup {id}
      BY <1>6 DEF Users!Reply
    <2>2. Users!TypeOK' /\ (\A e \in calls : UserCallOK(e))'
      BY <1>2, <2>1 DEF UsersOK, Users!TypeOK, UserCallOK
    <2>3. UserPageOK'
      BY <1>6, <2>1 DEF UsersOK, UserPageOK, UserHeard, Users!LockHasItsCall
    <2>4. UserTableOK'
      BY <2>1 DEF UsersOK, UserTableOK
    <2>5. \A a : Awaited(a)' = Awaited(a)
      BY <1>6, <2>1 DEF Awaited
    <2>6. UserRowsOK'
      BY <1>3, <1>4, <2>1, <2>5 DEF UsersOK, UserRowsOK
    <2>7. UserIssuedOK'
      BY <1>5, <2>1, <2>5 DEF UsersOK, UserIssuedOK
    <2> QED
      BY <2>2, <2>3, <2>4, <2>6, <2>7 DEF UsersOK
  <1>7. CASE c.to = "page"
    <2>1. PICK d : d = Told(c, "ok", data)
      OBVIOUS
    <2>2. /\ d.op = c.op /\ d.id = c.id /\ d.to = "page" /\ d.answer = "ok" /\ d.data = data
          /\ UserCallOK(d)
      BY <1>1, <1>7, <2>1, UserAnswer
    <2>3. calls' = (calls \ {c}) \cup {d} /\ d # c
      BY <1>7, <2>1, <2>2 DEF Users!Reply, Told
    <2>4. UserHeard(c)
      BY <1>7 DEF UsersOK, UserPageOK
    <2>5. \A e \in calls : e.to = "page" /\ e.op \in UserMutations => e = c
      BY <1>7, OneMutation
    <2>6. Users!TypeOK' /\ (\A e \in calls : UserCallOK(e))'
      BY <1>2, <2>2, <2>3 DEF UsersOK, Users!TypeOK, UserCallOK
    <2>7. UserPageOK'
      <3>1. \A e \in calls' : e.to = "page" => UserHeard(e)'
        BY <2>2, <2>3, <2>4 DEF UsersOK, UserPageOK, UserHeard
      <3>2. \A e, f \in calls' : e.to = "page" /\ f.to = "page" /\ e.op = f.op => e = f
        BY <1>7, <2>2, <2>3 DEF UsersOK, UserPageOK
      <3>3. Users!LockHasItsCall'
        BY <1>7, <2>2, <2>3 DEF UsersOK, UserPageOK, Users!LockHasItsCall
      <3> QED
        BY <3>1, <3>2, <3>3 DEF UsersOK, UserPageOK
    <2>8. UserTableOK'
      <3>1. \A e \in calls' : e.op \in Editing => e.id \in Users!Listed(new)
        BY <2>2, <2>3 DEF UsersOK, UserTableOK
      <3>2. \A e \in calls' : e.answer = "ok" /\ e.op = "list" =>
              Users!Listed(e.data) \subseteq Users!Listed(new)
        BY <1>1, <2>2, <2>3 DEF UsersOK, UserTableOK
      <3>3. \A e \in calls' : e.answer = "ok" /\ e.op = "create" => e.data.id \in Users!Listed(new)
        BY <2>2, <2>3 DEF UsersOK, UserTableOK
      <3> QED
        BY <3>1, <3>2, <3>3 DEF UsersOK, UserTableOK
    <2>9. Subject(d) = id
      BY <2>2 DEF Subject
    <2>10. \A a : Awaited(a) = {} /\ Awaited(a)' = IF a = id THEN {d} ELSE {}
      <3>1. \A a : Awaited(a) = {}
        BY <2>5 DEF Awaited
      <3>2. \A a, e : e \in Awaited(a)' => e = d
        BY <2>3, <2>5 DEF Awaited
      <3>3. \A a : d \in Awaited(a)' <=> a = id
        BY <2>2, <2>3, <2>9 DEF Awaited
      <3> QED
        BY <3>1, <3>2, <3>3
    <2>11. UserRowsOK'
      <3>1. CASE page.rows = None
        <4>1. c.op = "create" /\ id \in behind'
          BY <1>1, <2>4, <3>1 DEF UserHeard, Editing, Users!Actions
        <4> QED
          BY <1>1, <1>3, <2>2, <2>3, <2>10, <3>1, <4>1 DEF UsersOK, UserRowsOK
      <3>2. CASE page.rows # None
        <4>1. \A e \in calls' : e.to = "page" => e.op # "list"
          BY <1>1, <2>2, <2>3, <3>2 DEF UsersOK, UserPageOK, UserHeard
        <4>2. \A a \in Ids \ behind' : Agree(page.rows, a)
          BY <1>2, <2>10, <3>2 DEF UsersOK, UserRowsOK
        <4>3. id \notin behind' => Pending(d, id)'
          BY <2>2, <4>2 DEF Pending, Agree, About, Once, Users!Of
        <4> QED
          BY <1>3, <2>10, <3>2, <4>1, <4>2, <4>3 DEF UserRowsOK
      <3> QED
        BY <3>1, <3>2
    <2>12. UserIssuedOK'
      <3>1. SUFFICES ASSUME page.issued # None, page.issued.id \notin behind', c.op # "reissue"
                     PROVE  \A u \in About(new, page.issued.id) : u.code = page.issued.code
        <4>1. About(table, page.issued.id)' = About(new, page.issued.id)
          BY DEF About
        <4>2. d.op = "reissue" /\ page.issued # None /\ page.issued.id \notin behind' =>
                page.issued.id = id \/ \A u \in About(new, page.issued.id) : u.code = page.issued.code
          BY <1>2, <1>5, <2>10 DEF UsersOK, UserIssuedOK
        <4> QED
          BY <2>2, <2>10, <4>1, <4>2 DEF UserIssuedOK
      <3>2. \A u \in About(table, page.issued.id) : u.code = page.issued.code
        BY <1>2, <2>10, <3>1 DEF UsersOK, UserIssuedOK
      <3>3. CASE page.issued.id # id
        BY <1>5, <3>1, <3>2, <3>3
      <3>4. CASE page.issued.id = id
        <4>1. c.op \in {"rename", "reset", "ban"}
          BY <1>1, <1>5, <3>1, <3>4, ListedAbout
        <4>2. \A u \in About(table, id) : Users!Changed(c.op, data, u).code = u.code
          <5>1. \A u \in About(table, id) : u \in Users!User
            BY UserTypes, ListDomain DEF About
          <5> QED
            BY <4>1, <5>1 DEF Users!Changed, Users!User
        <4> QED
          BY <3>2, <3>4, <4>1, <4>2
      <3> QED
        BY <3>3, <3>4
    <2> QED
      BY <2>6, <2>7, <2>8, <2>11, <2>12 DEF UsersOK
  <1> QED
    BY <1>1, <1>6, <1>7

LEMMA UsersNotDoneKeeps ==
  ASSUME UsersOK, NEW c \in calls, c.answer = "none", NEW answer \in {"refused", "failed"},
         Users!NotDone(c, answer), UNCHANGED <<page, faults>>
  PROVE  UsersOK'
  BY UsersReplyKeeps DEF Users!NotDone, Users!NoChange

LEMMA UsersEditKeeps ==
  ASSUME UsersOK, NEW c \in calls, c.answer = "none", c.op \in Editing,
         NEW data, IF c.op \in {"reset", "ban"} THEN data = None
                   ELSE data \in IF c.op = "rename" THEN Values ELSE Nat,
         table' = Users!With(table, c.id, c.op, data), Users!Done(c, c.id, data),
         UNCHANGED <<page, faults>>
  PROVE  UsersOK'
  <1>1. /\ c.op \in {"rename", "reissue", "reset", "ban"} /\ c.op \in UserMutations /\ c.id \in Ids
    BY DEF UsersOK, UserCallOK, UserMutations, Editing, Users!Actions
  <1>2. PICK new : new = Users!With(table, c.id, c.op, data)
    OBVIOUS
  <1>3. /\ new \in UserLists /\ Users!Listed(new) = Users!Listed(table)
        /\ \A a \in Ids : Once(new, a) <=> Once(table, a)
        /\ \A a \in Ids \ {c.id} : About(new, a) = About(table, a)
        /\ About(new, c.id) = {Users!Changed(c.op, data, u) : u \in About(table, c.id)}
    <2>1. table \in UserLists /\ (c.op = "rename" => data \in Values)
          /\ (c.op = "reissue" => data \in Nat)
      BY UserTypes
    <2> QED
      BY <1>1, <1>2, <2>1, WithList
  <1>4. \A a \in Ids : Once(new, a)
    BY <1>3 DEF UsersOK, UserTableOK
  <1>5. /\ Users!Reply(c, "ok", data) /\ changes' \in 0 .. MaxChanges
        /\ behind' = behind \cup
             (IF c.to = "gone" \/ (c.op = "create" /\ page.rows = None) THEN {c.id} ELSE {})
    BY UserTypes, BrowserAssumption DEF Users!Done, Users!Change
  <1>6. IF c.op \in {"reset", "ban"} THEN data = None
        ELSE data \in CASE c.op = "create" -> Users!User
                        [] c.op = "rename" -> Values
                        [] c.op = "reissue" -> Nat
    BY <1>1
  <1> QED
    BY <1>1, <1>2, <1>3, <1>4, <1>5, <1>6, UsersChangeKeeps

LEMMA UsersCreatedKeeps ==
  ASSUME UsersOK, NEW c \in calls, c.answer = "none", c.op = "create",
         NEW id \in Ids \ Users!Listed(table), NEW user \in Users!User, user.id = id,
         table' = <<user>> \o table, Users!Done(c, id, user), UNCHANGED <<page, faults>>
  PROVE  UsersOK'
  <1>1. PICK new : new = Added(user, table) /\ table' = new
    BY DEF Added
  <1>2. /\ new \in UserLists /\ Users!Listed(new) = Users!Listed(table) \cup {id}
        /\ \A a \in Ids \ {id} :
             About(new, a) = About(table, a) /\ (Once(new, a) <=> Once(table, a))
        /\ About(new, id) = About(table, id) \cup {user} /\ Once(new, id)
    <2>1. table \in UserLists
      BY UserTypes
    <2>2. /\ new \in UserLists /\ Users!Listed(new) = Users!Listed(table) \cup {user.id}
          /\ \A a \in Ids \ {user.id} :
               About(new, a) = About(table, a) /\ (Once(new, a) <=> Once(table, a))
          /\ About(new, user.id) = About(table, user.id) \cup {user}
          /\ user.id \notin Users!Listed(table) => Once(new, user.id)
      BY <1>1, <2>1, AddedList
    <2> QED
      BY <2>2
  <1>3. \A a \in Ids : Once(new, a)
    BY <1>2 DEF UsersOK, UserTableOK
  <1>4. About(table, id) = {}
    BY ListedAbout
  <1>5. /\ Users!Reply(c, "ok", user) /\ changes' \in 0 .. MaxChanges
        /\ behind' = behind \cup
             (IF c.to = "gone" \/ (c.op = "create" /\ page.rows = None) THEN {id} ELSE {})
    BY UserTypes, BrowserAssumption DEF Users!Done, Users!Change
  <1>6. About(new, id) = {user} /\ c.op \in UserMutations
    BY <1>2, <1>4 DEF UserMutations
  <1> QED
    BY <1>1, <1>2, <1>3, <1>4, <1>5, <1>6, UsersChangeKeeps

LEMMA UsersServeKeeps ==
  ASSUME UsersOK, NEW c \in calls, Users!Serve(c)
  PROVE  UsersOK'
  <1>0. c.answer = "none" /\ UNCHANGED <<page, faults>> /\ UserCallOK(c)
    BY DEF Users!Serve, Users!OffPage, UsersOK
  <1>1. CASE Users!ListAdminUsers(c)
    BY <1>0, <1>1, UsersReplyKeeps DEF Users!ListAdminUsers, Users!NoChange
  <1>2. CASE Users!CreateAdminUser(c)
    <2>1. CASE Users!NotDone(c, "refused") \/ Users!NotDone(c, "failed")
      BY <1>0, <2>1, UsersNotDoneKeeps
    <2>2. ASSUME c.arg # None, NEW id \in Ids \ Users!Listed(table), NEW user,
                 user = [id |-> id, name |-> c.arg, code |-> 1, has_password |-> FALSE,
                         banned |-> FALSE],
                 table' = <<user>> \o table, Users!Done(c, id, user)
          PROVE  UsersOK'
      <3>1. c.op = "create" /\ c.arg \in Values
        BY <1>0, <1>2, <2>2 DEF Users!CreateAdminUser, UserCallOK, Editing, Users!Actions
      <3>2. user \in Users!User /\ user.id = id
        BY <2>2, <3>1 DEF Users!User
      <3> QED
        BY <1>0, <2>2, <3>1, <3>2, UsersCreatedKeeps
    <2> QED
      BY <1>2, <2>1, <2>2 DEF Users!CreateAdminUser
  <1>3. CASE Users!UpdateAdminUser(c)
    <2>1. CASE c.arg = None
      BY <1>0, <1>3, <2>1, UsersNotDoneKeeps DEF Users!UpdateAdminUser
    <2>2. CASE c.arg # None
      <3>1. c.op = "rename" /\ c.op \in Editing /\ c.arg \in Values
        BY <1>0, <1>3, <2>2 DEF Users!UpdateAdminUser, UserCallOK, Editing
      <3> QED
        BY <1>0, <1>3, <2>2, <3>1, UsersEditKeeps DEF Users!UpdateAdminUser
    <2> QED
      BY <2>1, <2>2
  <1>4. CASE Users!ReissueCode(c)
    <2>1. PICK code : code = Users!Row(table, c.id).code + 1
      OBVIOUS
    <2>2. /\ c.op = "reissue" /\ c.op \in Editing /\ c.id \in Users!Listed(table)
          /\ table' = Users!With(table, c.id, "reissue", code) /\ Users!Done(c, c.id, code)
      BY <1>4, <2>1 DEF Users!ReissueCode, Editing, Users!Actions, UsersOK, UserTableOK
    <2>3. Users!Row(table, c.id) \in Users!User
      BY <2>2, UserTypes, ListDomain DEF Users!Row, Users!Listed
    <2>4. code \in Nat
      BY <2>1, <2>3 DEF Users!User
    <2> QED
      BY <1>0, <2>2, <2>4, UsersEditKeeps
  <1>5. CASE Users!ResetOrBan(c)
    <2>1. c.op \in {"reset", "ban"} /\ c.op \in Editing
      BY <1>5 DEF Users!ResetOrBan, Editing, Users!Actions
    <2> QED
      BY <1>0, <1>5, <2>1, UsersEditKeeps DEF Users!ResetOrBan
  <1>6. CASE c.op # "list" /\ Users!Overloaded(c) /\ UNCHANGED <<table, behind>>
    BY <1>0, <1>6, UsersReplyKeeps DEF Users!Overloaded, Users!NoChange
  <1> QED
    BY <1>1, <1>2, <1>3, <1>4, <1>5, <1>6 DEF Users!Serve

-----------------------------------------------------------------------------
(* The answers arrive.                                                     *)

\* What is left when an answer has been heard.
LEMMA UsersHeardCalls ==
  ASSUME UsersOK, NEW c \in calls, c.answer # "none", Users!Arrive(c)
  PROVE  /\ calls' = calls \ {c} /\ UNCHANGED <<table, behind, faults, changes>>
         /\ c.to = "page" /\ UserCallOK(c) /\ UserHeard(c)
         /\ c.answer \in {"ok", "refused", "failed"}
         /\ c.op \in {"list", "create", "rename", "reissue", "reset", "ban"}
         /\ (\A e \in calls : UserCallOK(e))'
         /\ \A e \in calls' : e.op = c.op => e.to # "page"
         /\ c.op \in UserMutations => \A e \in calls' : e.to = "page" => e.op = "list"
  <1>1. /\ calls' = calls \ {c} /\ UNCHANGED <<table, behind, faults, changes>>
    BY DEF Users!Arrive, Users!Heard, Users!OnPage
  <1>2. /\ c.to = "page" /\ UserCallOK(c) /\ UserHeard(c)
        /\ c.answer \in {"ok", "refused", "failed"}
        /\ c.op \in {"list", "create", "rename", "reissue", "reset", "ban"}
    BY DEF UsersOK, UserPageOK, UserCallOK, Editing, Users!Actions
  <1>3. (\A e \in calls : UserCallOK(e))'
    BY <1>1 DEF UsersOK, UserCallOK
  <1>4. \A e \in calls' : e.op = c.op => e.to # "page"
    BY <1>1, <1>2 DEF UsersOK, UserPageOK
  <1>5. c.op \in UserMutations => \A e \in calls' : e.to = "page" => e.op = "list"
    <2>1. \A e \in calls : e.op \in UserMutations \/ e.op = "list"
      BY DEF UsersOK, UserCallOK, UserMutations
    <2> QED
      BY <1>1, <1>2, <2>1, OneMutation
  <1> QED
    BY <1>1, <1>2, <1>3, <1>4, <1>5

\* The list is taken in, or could not be read.
LEMMA UsersListArrivesKeeps ==
  ASSUME UsersOK, NEW c \in calls, c.answer # "none", Users!Arrive(c), Users!ListArrives(c)
  PROVE  UsersOK'
  <1>1. /\ calls' = calls \ {c} /\ UNCHANGED <<table, behind, faults, changes>>
        /\ c.to = "page" /\ c.op = "list" /\ UserCallOK(c) /\ UserHeard(c)
        /\ c.answer \in {"ok", "refused", "failed"}
        /\ (\A e \in calls : UserCallOK(e))'
        /\ \A e \in calls' : e.op = "list" => e.to # "page"
    BY UsersHeardCalls DEF Users!ListArrives
  <1>2. page.rows = None /\ page.editing = None /\ page.confirmation = None /\ page.open
    BY <1>1 DEF UserHeard, UsersOK, UserPageOK
  <1>3. PICK p : p = IF Users!Refused(c) THEN page ELSE [page EXCEPT !.rows = c.data]
    OBVIOUS
  <1>4. /\ p \in Users!Page /\ page' = p /\ p.open /\ p.busy = page.busy /\ p.issued = page.issued
        /\ p.editing = None /\ p.confirmation = None
        /\ p.rows = None \/ (c.answer = "ok" /\ p.rows = c.data)
    <2>1. CASE Users!Refused(c)
      BY <1>2, <1>3, <2>1, UserTypes DEF Users!ListArrives
    <2>2. CASE ~Users!Refused(c)
      <3>1. c.answer = "ok" /\ c.data \in Seq(Users!User)
        BY <1>1, <2>2 DEF Users!Refused, UserCallOK, UserLists
      <3> QED
        BY <1>2, <1>3, <2>2, <3>1, UserTypes DEF Users!ListArrives, Users!Page
    <2> QED
      BY <2>1, <2>2
  <1>5. Users!TypeOK' /\ (\A e \in calls : UserCallOK(e))'
    BY <1>1, <1>4, UserTypes DEF UsersOK, Users!TypeOK
  <1>6. UserPageOK'
    <2>1. \A e \in calls' : e.to = "page" => UserHeard(e)'
      <3>1. \A e \in calls' : e.to = "page" => e.op # "list" /\ e.op \notin Editing
        BY <1>1, <1>2 DEF UsersOK, UserPageOK, UserHeard
      <3> QED
        BY <1>1, <1>4, <3>1 DEF UsersOK, UserPageOK, UserHeard
    <2>2. Users!LockHasItsCall'
      <3>1. page.busy # None => page.busy.op # "list"
        BY UserTypes DEF Users!Page, Users!Actions
      <3> QED
        BY <1>1, <1>4, <3>1 DEF UsersOK, UserPageOK, Users!LockHasItsCall
    <2> QED
      BY <1>1, <1>4, <2>1, <2>2 DEF UsersOK, UserPageOK
  <1>7. UserTableOK'
    BY <1>1, <1>4 DEF UsersOK, UserTableOK
  <1>8. \A a : Awaited(a)' = Awaited(a)
    BY <1>1 DEF Awaited, UserMutations, Editing, Users!Actions
  <1>9. UserRowsOK'
    <2>1. \A a \in Ids \ behind : Awaited(a) = {}
      BY <1>2 DEF UsersOK, UserRowsOK
    <2>2. \A list, a : Agree(list, a)' <=> Agree(list, a)
      BY <1>1 DEF Agree, About
    <2>3. p.rows # None => \A a \in Ids \ behind : Agree(p.rows, a)
      BY <1>1, <1>4 DEF UsersOK, UserRowsOK
    <2> QED
      BY <1>1, <1>4, <1>8, <2>1, <2>2, <2>3 DEF UserRowsOK
  <1>10. UserIssuedOK'
    BY <1>1, <1>4, <1>8 DEF UsersOK, UserIssuedOK, About
  <1> QED
    BY <1>5, <1>6, <1>7, <1>9, <1>10 DEF UsersOK

\* A mutation that was refused or has failed unlocks the page and no more.
LEMMA UsersRefusedKeeps ==
  ASSUME UsersOK, NEW c \in calls, c.op \in UserMutations, c.answer \in {"refused", "failed"},
         Users!Arrive(c), page' = [page EXCEPT !.busy = None]
  PROVE  UsersOK'
  <1>1. /\ calls' = calls \ {c} /\ UNCHANGED <<table, behind, faults, changes>>
        /\ c.to = "page" /\ (\A e \in calls : UserCallOK(e))'
        /\ \A e \in calls' : e.to = "page" => e.op = "list"
    BY UsersHeardCalls
  <1>2. PICK p : p = [page EXCEPT !.busy = None]
    OBVIOUS
  <1>3. /\ p \in Users!Page /\ page' = p /\ p.open = page.open /\ p.busy = None
        /\ p.rows = page.rows /\ p.editing = page.editing /\ p.issued = page.issued
        /\ p.confirmation = page.confirmation
    BY <1>2, UserTypes DEF Users!Page
  <1>4. Users!TypeOK' /\ page.open
    BY <1>1, <1>3, UserTypes DEF UsersOK, UserPageOK, UserHeard, Users!TypeOK, UserLists
  <1>5. UserPageOK'
    <2>1. \A e \in calls' : e.to = "page" => UserHeard(e)'
      BY <1>1, <1>3 DEF UsersOK, UserPageOK, UserHeard, UserMutations, Editing, Users!Actions
    <2> QED
      BY <1>1, <1>3, <1>4, <2>1 DEF UsersOK, UserPageOK, Users!LockHasItsCall
  <1>6. UserTableOK'
    BY <1>1, <1>3 DEF UsersOK, UserTableOK
  <1>7. \A a : Awaited(a)' = Awaited(a)
    BY <1>1 DEF Awaited
  <1>8. UserRowsOK'
    <2>1. \A list, a : Agree(list, a)' <=> Agree(list, a)
      BY <1>1 DEF Agree, About
    <2>2. \A e, a : Pending(e, a)' <=> Pending(e, a)
      BY <1>1, <1>3 DEF Pending, About
    <2> QED
      BY <1>1, <1>3, <1>7, <2>1, <2>2 DEF UsersOK, UserRowsOK
  <1>9. UserIssuedOK'
    BY <1>1, <1>3, <1>7 DEF UsersOK, UserIssuedOK, About
  <1> QED
    BY <1>1, <1>4, <1>5, <1>6, <1>8, <1>9 DEF UsersOK

\* A mutation that was done is written into the rows: the student it is about is
\* shown as the table has them, and the others as they were.
LEMMA UsersDoneArrivesKeeps ==
  ASSUME UsersOK, NEW c \in calls, c.op \in UserMutations, c.answer = "ok", Users!Arrive(c),
         NEW p \in Users!Page, page' = p, p.open, p.busy = None,
         p.rows # None <=> page.rows # None,
         p.editing # None => page.rows # None /\ p.editing \in Users!Listed(page.rows),
         p.confirmation # None =>
           page.rows # None /\ p.confirmation.id \in Users!Listed(page.rows),
         page.rows # None =>
           /\ Users!Listed(page.rows) \subseteq Users!Listed(p.rows)
           /\ Users!Listed(p.rows) \subseteq Users!Listed(page.rows) \cup {Subject(c)}
           /\ \A a \in Ids \ {Subject(c)} :
                About(p.rows, a) = About(page.rows, a) /\ (Once(page.rows, a) => Once(p.rows, a))
           /\ Subject(c) \notin behind => Agree(p.rows, Subject(c)),
         p.issued = None \/ (p.issued = page.issued /\ c.op # "reissue")
           \/ (/\ p.issued.id = Subject(c)
               /\ Subject(c) \notin behind =>
                    \A u \in About(table, Subject(c)) : u.code = p.issued.code)
  PROVE  UsersOK'
  <1>1. /\ calls' = calls \ {c} /\ UNCHANGED <<table, behind, faults, changes>>
        /\ c.to = "page" /\ (\A e \in calls : UserCallOK(e))' /\ UserCallOK(c) /\ UserHeard(c)
        /\ \A e \in calls' : e.to = "page" => e.op = "list"
    BY UsersHeardCalls
  <1>2. Subject(c) \in Ids /\ Subject(c) \in Users!Listed(table)
    BY UserTypes DEF UsersOK, UserTableOK, Subject, UserMutations
  <1>3. Users!TypeOK'
    BY <1>1, UserTypes DEF Users!TypeOK, UserLists
  <1>4. UserPageOK'
    <2>1. \A e \in calls' : e.to = "page" => UserHeard(e)'
      BY <1>1 DEF UsersOK, UserPageOK, UserHeard, UserMutations, Editing, Users!Actions
    <2>2. Users!LockHasItsCall'
      BY DEF Users!LockHasItsCall
    <2> QED
      BY <1>1, <2>1, <2>2 DEF UsersOK, UserPageOK
  <1>5. UserTableOK'
    BY <1>1, <1>2 DEF UsersOK, UserTableOK
  <1>6. \A a : Awaited(a)' = {}
    BY <1>1 DEF Awaited, UserMutations, Editing, Users!Actions
  <1>7. \A a \in Ids \ {Subject(c)} : Awaited(a) = {}
    BY <1>1, OneMutation DEF Awaited
  <1>8. \A list, a : Agree(list, a)' <=> Agree(list, a)
    BY <1>1 DEF Agree, About
  <1>9. UserRowsOK'
    <2>1. \A e \in calls' : e.to = "page" /\ e.op = "list" /\ e.answer = "ok" =>
            \A a \in Ids \ behind : Agree(e.data, a)
      BY <1>1 DEF UsersOK, UserRowsOK
    <2>2. p.rows # None => \A a \in Ids \ behind : Agree(p.rows, a)
      <3>1. SUFFICES ASSUME page.rows # None, NEW a \in Ids \ behind, a # Subject(c)
                     PROVE  Agree(p.rows, a)
        OBVIOUS
      <3>2. Agree(page.rows, a)
        BY <1>7, <3>1 DEF UsersOK, UserRowsOK
      <3> QED
        BY <3>1, <3>2 DEF Agree
    <2> QED
      BY <1>1, <1>6, <1>8, <2>1, <2>2 DEF UserRowsOK
  <1>10. UserIssuedOK'
    <2>1. SUFFICES ASSUME p.issued # None, p.issued.id \notin behind
                   PROVE  \A u \in About(table, p.issued.id) : u.code = p.issued.code
      BY <1>1 DEF UserIssuedOK, About
    <2>2. CASE p.issued = page.issued /\ c.op # "reissue"
      <3>1. \A a : \A e \in Awaited(a) : e = c
        BY <1>1, OneMutation DEF Awaited
      <3> QED
        BY <2>1, <2>2, <3>1 DEF UsersOK, UserIssuedOK
    <2> QED
      BY <2>1, <2>2
  <1> QED
    BY <1>1, <1>3, <1>4, <1>5, <1>9, <1>10 DEF UsersOK

\* The new student is put in front of the rows, if there are rows.
LEMMA UsersCreateArrivesKeeps ==
  ASSUME UsersOK, NEW c \in calls, c.answer = "ok", Users!Arrive(c), Users!CreateArrives(c)
  PROVE  UsersOK'
  <1>1. /\ c.op = "create" /\ c.op \in UserMutations /\ c.to = "page" /\ c.data \in Users!User
        /\ Subject(c) = c.data.id /\ c.data.id \in Ids /\ c.data.code \in Nat /\ page.open
    BY UsersHeardCalls DEF Users!CreateArrives, UserCallOK, UserHeard, UserMutations, Subject,
       Users!User
  <1>2. PICK new, p :
          /\ new = IF page.rows = None THEN None ELSE Added(c.data, page.rows)
          /\ p = [page EXCEPT !.rows = new,
                              !.issued = [id |-> c.data.id, code |-> c.data.code],
                              !.creating = FALSE, !.busy = None]
    OBVIOUS
  <1>3. page' = p
    BY <1>2 DEF Users!CreateArrives, Users!Refused, Added
  <1>4. page.rows # None =>
          /\ new \in UserLists /\ Users!Listed(new) = Users!Listed(page.rows) \cup {c.data.id}
          /\ \A a \in Ids \ {c.data.id} :
               About(new, a) = About(page.rows, a) /\ (Once(new, a) <=> Once(page.rows, a))
          /\ About(new, c.data.id) = About(page.rows, c.data.id) \cup {c.data}
          /\ c.data.id \notin Users!Listed(page.rows) => Once(new, c.data.id)
    <2>1. page.rows # None => page.rows \in UserLists /\ new = Added(c.data, page.rows)
      BY <1>2, UserTypes
    <2> QED
      BY <1>1, <2>1, AddedList
  <1>5. /\ p \in Users!Page /\ p.open /\ p.busy = None /\ p.rows = new
        /\ p.editing = page.editing /\ p.confirmation = page.confirmation
        /\ p.issued = [id |-> c.data.id, code |-> c.data.code]
    <2>1. new \in Seq(Users!User) \cup {None}
      BY <1>2, <1>4 DEF UserLists
    <2>2. [id |-> c.data.id, code |-> c.data.code] \in [id: Ids, code: Nat]
      BY <1>1
    <2> QED
      BY <1>1, <1>2, <2>1, <2>2, UserTypes DEF Users!Page
  <1>6. \A a \in Ids \ behind : c \in Awaited(a) <=> a = c.data.id
    BY <1>1 DEF Awaited
  <1>7. c.data.id \notin behind => page.rows # None /\ Pending(c, c.data.id)
    BY <1>1, <1>6 DEF UsersOK, UserRowsOK
  <1>8. page.rows # None /\ c.data.id \notin behind => Agree(new, c.data.id)
    BY <1>1, <1>4, <1>7, ListedAbout DEF Pending, Agree
  <1>9. c.data.id \notin behind => \A u \in About(table, c.data.id) : u.code = c.data.code
    BY <1>1, <1>7 DEF Pending
  <1>10. page.rows # None <=> new # None
    <2>1. page.rows # None => new # None
      BY <1>4, TeacherPagesAssumption DEF UserLists
    <2> QED
      BY <1>2, <2>1
  <1> QED
    BY <1>1, <1>3, <1>4, <1>5, <1>8, <1>9, <1>10, UsersDoneArrivesKeeps
       DEF UsersOK, UserPageOK

\* The row of the student that was edited is changed in place.
LEMMA UsersEditArrivesKeeps ==
  ASSUME UsersOK, NEW c \in calls, c.answer = "ok", Users!Arrive(c),
         Users!RenameArrives(c) \/ Users!ActionArrives(c)
  PROVE  UsersOK'
  <1>1. /\ c.op \in Editing /\ c.op \in UserMutations /\ c.op # "create" /\ c.to = "page"
        /\ c.op = "rename" => c.data \in Values
        /\ c.op = "reissue" => c.data \in Nat
        /\ Subject(c) = c.id /\ c.id \in Ids /\ page.open
        /\ page.rows # None /\ c.id \in Users!Listed(page.rows) /\ page.rows \in UserLists
    BY UsersHeardCalls, UserTypes
       DEF Users!RenameArrives, Users!ActionArrives, Users!Actions, UserCallOK, UserHeard,
           UserMutations, Editing, Subject
  <1>2. PICK new : new = Users!With(page.rows, c.id, c.op, c.data)
    OBVIOUS
  <1>3. /\ new \in UserLists /\ Users!Listed(new) = Users!Listed(page.rows)
        /\ \A a \in Ids : Once(new, a) <=> Once(page.rows, a)
        /\ \A a \in Ids \ {c.id} : About(new, a) = About(page.rows, a)
        /\ About(new, c.id) = {Users!Changed(c.op, c.data, u) : u \in About(page.rows, c.id)}
    BY <1>1, <1>2, WithList
  <1>4. PICK p :
          /\ p = IF c.op = "rename"
                 THEN [page EXCEPT !.rows = new, !.editing = None, !.busy = None]
                 ELSE [page EXCEPT
                        !.rows = new,
                        !.issued = IF c.op = "reissue" THEN [id |-> c.id, code |-> c.data]
                                   ELSE page.issued,
                        !.confirmation = None, !.busy = None]
          /\ page' = p
    BY <1>2 DEF Users!RenameArrives, Users!ActionArrives, Users!Refused, Users!Actions
  <1>5. /\ p \in Users!Page /\ p.open /\ p.busy = None /\ p.rows = new
        /\ p.editing \in {page.editing, None} /\ p.confirmation \in {page.confirmation, None}
        /\ p.issued = IF c.op = "reissue" THEN [id |-> c.id, code |-> c.data] ELSE page.issued
    <2>1. new \in Seq(Users!User)
      BY <1>3 DEF UserLists
    <2>2. c.op = "reissue" => [id |-> c.id, code |-> c.data] \in [id: Ids, code: Nat]
      BY <1>1
    <2> QED
      BY <1>1, <1>4, <2>1, <2>2, UserTypes DEF Users!Page
  <1>6. c.id \notin behind => Pending(c, c.id)
    BY <1>1 DEF UsersOK, UserRowsOK, Awaited
  <1>7. c.id \notin behind => Agree(new, c.id)
    BY <1>1, <1>3, <1>6 DEF Pending, Agree
  <1>8. c.op = "reissue" /\ c.id \notin behind => \A u \in About(table, c.id) : u.code = c.data
    <2>1. \A u \in About(page.rows, c.id) : u \in Users!User
      BY <1>1, ListDomain DEF About
    <2> QED
      BY <1>6, <2>1 DEF Pending, Users!Changed, Users!User
  <1>9. new # None
    BY <1>3, TeacherPagesAssumption DEF UserLists
  <1>10. /\ page.editing # None => page.editing \in Users!Listed(page.rows)
         /\ page.confirmation # None => page.confirmation.id \in Users!Listed(page.rows)
    BY DEF UsersOK, UserPageOK
  <1>11. p.issued = None \/ (p.issued = page.issued /\ c.op # "reissue")
           \/ (/\ p.issued.id = Subject(c)
               /\ Subject(c) \notin behind =>
                    \A u \in About(table, Subject(c)) : u.code = p.issued.code)
    BY <1>1, <1>5, <1>8
  <1>12. /\ Users!Listed(page.rows) \subseteq Users!Listed(p.rows)
         /\ Users!Listed(p.rows) \subseteq Users!Listed(page.rows) \cup {Subject(c)}
         /\ \A a \in Ids \ {Subject(c)} :
              About(p.rows, a) = About(page.rows, a) /\ (Once(page.rows, a) => Once(p.rows, a))
         /\ Subject(c) \notin behind => Agree(p.rows, Subject(c))
    BY <1>1, <1>3, <1>5, <1>7
  <1>13. /\ p.editing # None => page.rows # None /\ p.editing \in Users!Listed(page.rows)
         /\ p.confirmation # None =>
              page.rows # None /\ p.confirmation.id \in Users!Listed(page.rows)
         /\ p.rows # None <=> page.rows # None
    BY <1>1, <1>5, <1>9, <1>10
  <1> QED
    BY <1>1, <1>4, <1>5, <1>11, <1>12, <1>13, UsersDoneArrivesKeeps

LEMMA UsersArriveKeeps ==
  ASSUME UsersOK, NEW c \in calls, Users!Arrive(c)
  PROVE  UsersOK'
  <1>1. c.answer # "none" /\ (Users!ListArrives(c) \/ Users!CreateArrives(c)
                              \/ Users!RenameArrives(c) \/ Users!ActionArrives(c))
    BY DEF Users!Arrive
  <1>2. c.answer \in {"ok", "refused", "failed"}
    BY <1>1, UsersHeardCalls
  <1>3. CASE ~Users!ListArrives(c) /\ c.answer # "ok"
    <2>1. c.op \in UserMutations /\ page' = [page EXCEPT !.busy = None]
      BY <1>1, <1>2, <1>3
         DEF Users!CreateArrives, Users!RenameArrives, Users!ActionArrives, Users!Refused,
             UserMutations, Editing
    <2> QED
      BY <1>2, <1>3, <2>1, UsersRefusedKeeps
  <1> QED
    BY <1>1, <1>2, <1>3, UsersListArrivesKeeps, UsersCreateArrivesKeeps, UsersEditArrivesKeeps

LEMMA UsersStart == Users!Init => UsersOK
  <1>1. SUFFICES ASSUME Users!Init
                 PROVE  UsersOK
    OBVIOUS
  <1>2. PICK u : /\ u \in Users!User /\ table = <<u>>
                 /\ page = Users!NoPage /\ behind = {} /\ calls = {} /\ faults = 0 /\ changes = 0
    <2>1. PICK id \in Ids, n \in Values :
            table = <<[id |-> id, name |-> n, code |-> 1, has_password |-> TRUE,
                       banned |-> FALSE]>>
      BY <1>1 DEF Users!Init
    <2>2. [id |-> id, name |-> n, code |-> 1, has_password |-> TRUE, banned |-> FALSE]
            \in Users!User
      BY DEF Users!User
    <2> QED
      BY <1>1, <2>1, <2>2 DEF Users!Init
  <1>3. table \in Seq(Users!User) /\ DOMAIN table = {1}
    BY <1>2
  <1>4. Users!NoPage \in Users!Page
    BY DEF Users!NoPage, Users!Page
  <1>5. Users!TypeOK
    <2>1. 0 \in 0 .. MaxFaults /\ 0 \in 0 .. MaxChanges
      BY BrowserAssumption
    <2>2. page \in Users!Page /\ page.busy = None
      BY <1>2, <1>4 DEF Users!NoPage
    <2> QED
      BY <1>2, <1>3, <2>1, <2>2 DEF Users!TypeOK
  <1>6. \A id \in Ids : Once(table, id)
    BY <1>3 DEF Once, Users!Of
  <1> QED
    BY <1>2, <1>5, <1>6
       DEF UsersOK, UserPageOK, UserTableOK, UserRowsOK, UserIssuedOK, Awaited, Users!NoPage,
           Users!LockHasItsCall

LEMMA UsersStep == UsersOK /\ [Users!Next]_usersVars => UsersOK'
  <1>1. SUFFICES ASSUME UsersOK, [Users!Next]_usersVars
                 PROVE  UsersOK'
    OBVIOUS
  <1>2. /\ page \in Users!Page
        /\ page.rows # None \/ page.busy # None => page.open
        /\ page.editing # None => page.rows # None /\ page.editing \in Users!Listed(page.rows)
        /\ page.confirmation # None =>
             page.rows # None /\ page.confirmation.id \in Users!Listed(page.rows)
    BY <1>1, UserTypes DEF UsersOK, UserPageOK
  <1>3. ~page.open => page.creating = FALSE /\ page.issued = None
    BY <1>1 DEF UsersOK, UserPageOK, Users!NoPage
  \* The turns of the teacher.
  <1>4. CASE Users!ToggleCreating \/ Users!CancelCreating
    <2>1. PICK b \in BOOLEAN : page' = [page EXCEPT !.creating = b]
      BY <1>2, <1>4 DEF Users!ToggleCreating, Users!CancelCreating, Users!Turn, Users!Page
    <2>2. PICK p : p = [page EXCEPT !.creating = b]
      OBVIOUS
    <2>3. /\ p \in Users!Page /\ p.open = page.open /\ p.rows = page.rows /\ p.busy = page.busy
          /\ p.issued = page.issued /\ p.editing = page.editing
          /\ p.confirmation = page.confirmation
      BY <1>2, <2>2 DEF Users!Page
    <2>4. page.open /\ UNCHANGED <<table, behind, calls, faults, changes>>
      BY <1>3, <1>4 DEF Users!ToggleCreating, Users!CancelCreating, Users!Turn, Users!OnPage
    <2> QED
      BY <1>1, <1>2, <2>1, <2>2, <2>3, <2>4, UsersTurnKeeps
  <1>5. CASE Users!CancelEdit \/ Users!CancelConfirmation \/ Users!CloseIssued
             \/ \E id \in Ids : Users!StartEdit(id) \/ \E a \in Users!Actions : Users!Confirm(id, a)
    <2>1. PICK e, f, i :
            /\ page' = [page EXCEPT !.editing = e, !.confirmation = f, !.issued = i]
            /\ e \in Ids \cup {None}
            /\ e # None => page.rows # None /\ e \in Users!Listed(page.rows)
            /\ f \in [id: Ids, action: Users!Actions] \cup {None}
            /\ f # None => page.rows # None /\ f.id \in Users!Listed(page.rows)
            /\ i \in {page.issued, None}
      <3>1. CASE Users!CancelEdit
        <4>1. page' = [page EXCEPT !.editing = None, !.confirmation = page.confirmation,
                                   !.issued = page.issued]
          BY <1>2, <3>1 DEF Users!CancelEdit, Users!Turn, Users!Page
        <4> QED
          BY <1>2, <4>1 DEF Users!Page
      <3>2. CASE Users!CancelConfirmation
        <4>1. page' = [page EXCEPT !.editing = page.editing, !.confirmation = None,
                                   !.issued = page.issued]
          BY <1>2, <3>2 DEF Users!CancelConfirmation, Users!Turn, Users!Page
        <4> QED
          BY <1>2, <4>1 DEF Users!Page
      <3>3. CASE Users!CloseIssued
        <4>1. page' = [page EXCEPT !.editing = page.editing, !.confirmation = page.confirmation,
                                   !.issued = None]
          BY <1>2, <3>3 DEF Users!CloseIssued, Users!Turn, Users!Page
        <4> QED
          BY <1>2, <4>1 DEF Users!Page
      <3>4. ASSUME NEW id \in Ids, Users!StartEdit(id)
            PROVE  /\ page' = [page EXCEPT !.editing = id, !.confirmation = None,
                                           !.issued = page.issued]
                   /\ page.rows # None /\ id \in Users!Listed(page.rows)
        BY <1>2, <3>4 DEF Users!StartEdit, Users!Plain, Users!Turn, Users!Page
      <3>5. ASSUME NEW id \in Ids, NEW a \in Users!Actions, Users!Confirm(id, a)
            PROVE  /\ page' = [page EXCEPT !.editing = None,
                                           !.confirmation = [id |-> id, action |-> a],
                                           !.issued = page.issued]
                   /\ page.rows # None /\ id \in Users!Listed(page.rows)
        BY <1>2, <3>5 DEF Users!Confirm, Users!Plain, Users!Turn, Users!Page
      <3>6. ASSUME NEW id \in Ids, NEW a \in Users!Actions, Users!Confirm(id, a)
            PROVE  \E e, f, i :
                     /\ page' = [page EXCEPT !.editing = e, !.confirmation = f, !.issued = i]
                     /\ e \in Ids \cup {None}
                     /\ e # None => page.rows # None /\ e \in Users!Listed(page.rows)
                     /\ f \in [id: Ids, action: Users!Actions] \cup {None}
                     /\ f # None => page.rows # None /\ f.id \in Users!Listed(page.rows)
                     /\ i \in {page.issued, None}
        <4>1. PICK f : f = [id |-> id, action |-> a]
          OBVIOUS
        <4>2. f \in [id: Ids, action: Users!Actions] /\ f.id = id
          BY <4>1
        <4> QED
          BY <3>5, <3>6, <4>1, <4>2
      <3> QED
        BY <1>5, <3>1, <3>2, <3>3, <3>4, <3>6
    <2>2. PICK p : p = [page EXCEPT !.editing = e, !.confirmation = f, !.issued = i]
      OBVIOUS
    <2>3. /\ p \in Users!Page /\ p.open = page.open /\ p.rows = page.rows /\ p.busy = page.busy
          /\ p.issued = i /\ p.editing = e /\ p.confirmation = f
      <3>1. i \in [id: Ids, code: Nat] \cup {None}
        BY <1>2, <2>1 DEF Users!Page
      <3> QED
        BY <1>2, <2>1, <2>2, <3>1 DEF Users!Page
    <2>4. page.open /\ UNCHANGED <<table, behind, calls, faults, changes>>
      BY <1>2, <1>3, <1>5 DEF Users!CancelEdit, Users!CancelConfirmation, Users!CloseIssued,
         Users!StartEdit, Users!Confirm, Users!Plain, Users!Turn, Users!OnPage
    <2>5. page' = p
      BY <2>1, <2>2
    <2>6. /\ p.editing # None => page.rows # None /\ p.editing \in Users!Listed(page.rows)
          /\ p.confirmation # None =>
               page.rows # None /\ p.confirmation.id \in Users!Listed(page.rows)
          /\ p.issued \in {page.issued, None}
      BY <2>1, <2>3
    <2> QED
      BY <1>1, <2>3, <2>4, <2>5, <2>6, UsersTurnKeeps
  \* What the teacher sends.
  <1>6. ASSUME NEW name \in Values \cup {None}, Users!CreateUser(name)
        PROVE  UsersOK'
    BY <1>1, <1>3, <1>6, UsersSendKeeps
       DEF Users!CreateUser, Users!Free, Users!OnPage, UserMutations, Users!Actions
  <1>7. ASSUME NEW name \in Values \cup {None}, Users!SaveName(name)
        PROVE  UsersOK'
    BY <1>1, <1>2, <1>7, UsersSendKeeps
       DEF Users!SaveName, Users!Free, Users!OnPage, UserMutations, Editing, Users!Actions
  <1>8. CASE Users!RunAction
    <2>1. PICK op, id : op = page.confirmation.action /\ id = page.confirmation.id
      OBVIOUS
    <2>2. /\ page' = [page EXCEPT !.busy = [op |-> op, id |-> id]] /\ Users!Send(op, id, None)
          /\ page.busy = None /\ UNCHANGED <<table, behind, faults, changes>>
          /\ page.rows # None /\ id \in Users!Listed(page.rows) /\ page.open
          /\ op \in Users!Actions
      BY <1>2, <1>8, <2>1 DEF Users!RunAction, Users!Free, Users!OnPage, Users!Page
    <2>3. op \in UserMutations /\ op # "create"
      BY <2>2 DEF UserMutations, Editing, Users!Actions
    <2> QED
      BY <1>1, <2>2, <2>3, UsersSendKeeps
  <1>9. CASE Users!Next
    BY <1>1, <1>4, <1>5, <1>6, <1>7, <1>8, <1>9, UsersOpenKeeps, UsersLeaveKeeps, UsersServeKeeps,
       UsersArriveKeeps, UsersLoseKeeps
       DEF Users!Next, Users!Teacher
  <1>10. CASE UNCHANGED usersVars
    <2>1. UNCHANGED <<table, page, behind, calls, faults, changes>>
      BY <1>10 DEF usersVars
    <2>2. \A a : Awaited(a)' = Awaited(a) /\ About(table, a)' = About(table, a)
      BY <2>1 DEF Awaited, About
    <2>3. \A list, a : Agree(list, a)' <=> Agree(list, a)
      BY <2>2 DEF Agree
    <2>4. \A c, a : Pending(c, a)' <=> Pending(c, a)
      BY <2>1, <2>2 DEF Pending
    <2>5. UserRowsOK' /\ UserIssuedOK'
      BY <1>1, <2>1, <2>2, <2>3, <2>4 DEF UsersOK, UserRowsOK, UserIssuedOK
    <2>6. UserPageOK' /\ UserTableOK'
      BY <1>1, <2>1 DEF UsersOK, UserPageOK, UserHeard, UserTableOK, Users!LockHasItsCall
    <2> QED
      BY <1>1, <2>1, <2>5, <2>6 DEF UsersOK, Users!TypeOK, UserCallOK
  <1> QED
    BY <1>1, <1>9, <1>10

LEMMA UsersQuiet ==
  ASSUME UsersOK
  PROVE  Users!RowsTrue /\ Users!IssuedCodeWorks /\ Users!LockHasItsCall
  <1>1. ASSUME page.rows # None, calls = {}, NEW id \in Ids \ behind
        PROVE  Agree(page.rows, id)
    <2>1. Awaited(id) = {}
      BY <1>1 DEF Awaited
    <2> QED
      BY <1>1, <2>1 DEF UsersOK, UserRowsOK
  <1>2. \A list, id : About(list, id) = {list[i] : i \in Users!Of(list, id)}
    BY DEF About, Users!Of
  <1>3. Users!RowsTrue
    BY <1>1, <1>2 DEF Users!RowsTrue, Agree, Once
  <1>4. Users!IssuedCodeWorks
    <2>1. SUFFICES ASSUME page.issued # None, calls = {}, page.issued.id \notin behind
                   PROVE  Users!Row(table, page.issued.id).code = page.issued.code
      BY DEF Users!IssuedCodeWorks
    <2>2. \A u \in About(table, page.issued.id) : u.code = page.issued.code
      BY <2>1 DEF UsersOK, UserIssuedOK, Awaited
    <2>3. page.issued.id \in Users!Listed(table)
      BY <2>1 DEF UsersOK, UserTableOK
    <2>4. Users!Row(table, page.issued.id) \in About(table, page.issued.id)
      BY <2>3 DEF Users!Row, Users!Listed, About
    <2> QED
      BY <2>2, <2>4
  <1> QED
    BY <1>3, <1>4 DEF UsersOK, UserPageOK

-----------------------------------------------------------------------------
(* The form of a book, which is entered for three purposes.                *)

SavingForm == INSTANCE AdminBookFormProofs WITH
    Books <- Ids, ISBNs <- {}, MaxLookups <- 0, books <- table

LookingUpForm == INSTANCE AdminBookFormProofs WITH
    Books <- {Value}, ISBNs <- {Value}, MaxLookups <- 1, MaxFaults <- 0, MaxChanges <- 1,
    books <- table

ScanningForm == INSTANCE AdminBookFormProofs WITH
    Books <- {Value}, ISBNs <- Values, MaxLookups <- 2, MaxFaults <- 0, MaxChanges <- 0,
    books <- table

LEMMA SavingConstants == SavingForm!FormConstants
  BY TeacherPagesAssumption
  DEF SavingForm!FormConstants, SavingForm!Book, SavingForm!Form, Saving!Book, Saving!Form

\* What is said of a form, and how it moves, is said of this one.
LEMMA SavingSteps == Saving!Next => SavingForm!Next
  <1>1. SUFFICES ASSUME Saving!Next
                 PROVE  SavingForm!Next
    OBVIOUS
  <1> QED
    BY <1>1
    DEF Saving!Next, SavingForm!Next, Saving!blankBook, SavingForm!blankBook, Saving!NoPage,
      SavingForm!NoPage, Saving!Telling, SavingForm!Telling, Saving!Shown, SavingForm!Shown,
      Saving!Ask, SavingForm!Ask, Saving!Unmounted, SavingForm!Unmounted, Saving!ToList,
      SavingForm!ToList, Saving!ToBook, SavingForm!ToBook, Saving!Teaching,
      SavingForm!Teaching, Saving!Turn, SavingForm!Turn, Saving!OpenNew, SavingForm!OpenNew,
      Saving!OpenBook, SavingForm!OpenBook, Saving!Leave, SavingForm!Leave,
      Saving!changeISBN, SavingForm!changeISBN, Saving!TypeTitle, SavingForm!TypeTitle,
      Saving!ChooseFile, SavingForm!ChooseFile, Saving!lookup, SavingForm!lookup,
      Saving!LookUp, SavingForm!LookUp, Saving!scannedISBN, SavingForm!scannedISBN,
      Saving!submit, SavingForm!submit, Saving!removeCover, SavingForm!removeCover,
      Saving!toggleActive, SavingForm!toggleActive, Saving!removeBook,
      SavingForm!removeBook, Saving!Untouched, SavingForm!Untouched, Saving!Store,
      SavingForm!Store, Saving!Taken, SavingForm!Taken, Saving!getAdminBook,
      SavingForm!getAdminBook, Saving!lookupBookMetadata, SavingForm!lookupBookMetadata,
      Saving!Fresh, SavingForm!Fresh, Saving!createBook, SavingForm!createBook,
      Saving!updateBook, SavingForm!updateBook, Saving!ChangeBook, SavingForm!ChangeBook,
      Saving!deleteBook, SavingForm!deleteBook, Saving!NotFound, SavingForm!NotFound,
      Saving!Serve, SavingForm!Serve, Saving!Lose, SavingForm!Lose, Saving!Refused,
      SavingForm!Refused, Saving!Tell, SavingForm!Tell, Saving!GetArrives,
      SavingForm!GetArrives, Saving!LookupArrives, SavingForm!LookupArrives,
      Saving!SaveArrives, SavingForm!SaveArrives, Saving!CoverUnreadable,
      SavingForm!CoverUnreadable, Saving!UploadArrives,
      SavingForm!UploadArrives, Saving!CoverRemoved, SavingForm!CoverRemoved,
      Saving!Toggled, SavingForm!Toggled, Saving!Deleted, SavingForm!Deleted, Saving!Arrive,
      SavingForm!Arrive, Saving!history, SavingForm!history, Saving!Request,
      SavingForm!Request, Saving!Send, SavingForm!Send, Saving!Reply, SavingForm!Reply,
      Saving!Change, SavingForm!Change, Saving!NoChange, SavingForm!NoChange,
      Saving!Overloaded, SavingForm!Overloaded, Saving!Fail, SavingForm!Fail, Saving!Heard,
      SavingForm!Heard, Saving!Cardinality, SavingForm!Cardinality

LEMMA SavingSays ==
  /\ Saving!Init => SavingForm!Init
  /\ SavingForm!TypeOK => Saving!TypeOK
  /\ SavingForm!BookTrue => Saving!BookTrue
  /\ SavingForm!ScannedStays => Saving!ScannedStays
  /\ SavingForm!OneBookPerForm => Saving!OneBookPerForm
  /\ SavingForm!LocksHaveTheirCalls => Saving!LocksHaveTheirCalls
  <1>1. Saving!Init => SavingForm!Init
    BY DEF Saving!Init, SavingForm!Init, Saving!NoPage, SavingForm!NoPage, Saving!blankBook,
      SavingForm!blankBook
  <1>2. SavingForm!TypeOK => Saving!TypeOK
    BY DEF Saving!TypeOK, SavingForm!TypeOK, Saving!Page, SavingForm!Page, Saving!Book,
      SavingForm!Book, Saving!Form, SavingForm!Form
  <1>3. SavingForm!BookTrue => Saving!BookTrue
    BY DEF Saving!BookTrue, SavingForm!BookTrue
  <1>4. SavingForm!ScannedStays => Saving!ScannedStays
    BY DEF Saving!ScannedStays, SavingForm!ScannedStays
  <1>5. SavingForm!OneBookPerForm => Saving!OneBookPerForm
    BY DEF Saving!OneBookPerForm, SavingForm!OneBookPerForm, Saving!Cardinality,
      SavingForm!Cardinality
  <1>6. SavingForm!LocksHaveTheirCalls => Saving!LocksHaveTheirCalls
    BY DEF Saving!LocksHaveTheirCalls, SavingForm!LocksHaveTheirCalls
  <1> QED
    BY <1>1, <1>2, <1>3, <1>4, <1>5, <1>6

LEMMA LookingUpConstants == LookingUpForm!FormConstants
  BY TeacherPagesAssumption
  DEF LookingUpForm!FormConstants, LookingUpForm!Book, LookingUpForm!Form, LookingUp!Book, LookingUp!Form

\* What is said of a form, and how it moves, is said of this one.
LEMMA LookingUpSteps == LookingUp!Next => LookingUpForm!Next
  <1>1. SUFFICES ASSUME LookingUp!Next
                 PROVE  LookingUpForm!Next
    OBVIOUS
  <1> QED
    BY <1>1
    DEF LookingUp!Next, LookingUpForm!Next, LookingUp!blankBook, LookingUpForm!blankBook,
      LookingUp!NoPage, LookingUpForm!NoPage, LookingUp!Telling, LookingUpForm!Telling,
      LookingUp!Shown, LookingUpForm!Shown, LookingUp!Ask, LookingUpForm!Ask,
      LookingUp!Unmounted, LookingUpForm!Unmounted, LookingUp!ToList, LookingUpForm!ToList,
      LookingUp!ToBook, LookingUpForm!ToBook, LookingUp!Teaching, LookingUpForm!Teaching,
      LookingUp!Turn, LookingUpForm!Turn, LookingUp!OpenNew, LookingUpForm!OpenNew,
      LookingUp!OpenBook, LookingUpForm!OpenBook, LookingUp!Leave, LookingUpForm!Leave,
      LookingUp!changeISBN, LookingUpForm!changeISBN, LookingUp!TypeTitle,
      LookingUpForm!TypeTitle, LookingUp!ChooseFile, LookingUpForm!ChooseFile,
      LookingUp!lookup, LookingUpForm!lookup, LookingUp!LookUp, LookingUpForm!LookUp,
      LookingUp!scannedISBN, LookingUpForm!scannedISBN, LookingUp!submit,
      LookingUpForm!submit, LookingUp!removeCover, LookingUpForm!removeCover,
      LookingUp!toggleActive, LookingUpForm!toggleActive, LookingUp!removeBook,
      LookingUpForm!removeBook, LookingUp!Untouched, LookingUpForm!Untouched,
      LookingUp!Store, LookingUpForm!Store, LookingUp!Taken, LookingUpForm!Taken,
      LookingUp!getAdminBook, LookingUpForm!getAdminBook, LookingUp!lookupBookMetadata,
      LookingUpForm!lookupBookMetadata, LookingUp!Fresh, LookingUpForm!Fresh,
      LookingUp!createBook, LookingUpForm!createBook, LookingUp!updateBook,
      LookingUpForm!updateBook, LookingUp!ChangeBook, LookingUpForm!ChangeBook,
      LookingUp!deleteBook, LookingUpForm!deleteBook, LookingUp!NotFound,
      LookingUpForm!NotFound, LookingUp!Serve, LookingUpForm!Serve, LookingUp!Lose,
      LookingUpForm!Lose, LookingUp!Refused, LookingUpForm!Refused, LookingUp!Tell,
      LookingUpForm!Tell, LookingUp!GetArrives, LookingUpForm!GetArrives,
      LookingUp!LookupArrives, LookingUpForm!LookupArrives, LookingUp!SaveArrives,
      LookingUpForm!SaveArrives,
      LookingUp!CoverUnreadable, LookingUpForm!CoverUnreadable,
      LookingUp!UploadArrives, LookingUpForm!UploadArrives,
      LookingUp!CoverRemoved, LookingUpForm!CoverRemoved, LookingUp!Toggled,
      LookingUpForm!Toggled, LookingUp!Deleted, LookingUpForm!Deleted, LookingUp!Arrive,
      LookingUpForm!Arrive, LookingUp!history, LookingUpForm!history, LookingUp!Request,
      LookingUpForm!Request, LookingUp!Send, LookingUpForm!Send, LookingUp!Reply,
      LookingUpForm!Reply, LookingUp!Change, LookingUpForm!Change, LookingUp!NoChange,
      LookingUpForm!NoChange, LookingUp!Overloaded, LookingUpForm!Overloaded,
      LookingUp!Fail, LookingUpForm!Fail, LookingUp!Heard, LookingUpForm!Heard,
      LookingUp!Cardinality, LookingUpForm!Cardinality

LEMMA LookingUpSays ==
  /\ LookingUp!Init => LookingUpForm!Init
  /\ LookingUpForm!TypeOK => LookingUp!TypeOK
  /\ LookingUpForm!BookTrue => LookingUp!BookTrue
  /\ LookingUpForm!ScannedStays => LookingUp!ScannedStays
  /\ LookingUpForm!OneBookPerForm => LookingUp!OneBookPerForm
  /\ LookingUpForm!LocksHaveTheirCalls => LookingUp!LocksHaveTheirCalls
  <1>1. LookingUp!Init => LookingUpForm!Init
    BY DEF LookingUp!Init, LookingUpForm!Init, LookingUp!NoPage, LookingUpForm!NoPage,
      LookingUp!blankBook, LookingUpForm!blankBook
  <1>2. LookingUpForm!TypeOK => LookingUp!TypeOK
    BY DEF LookingUp!TypeOK, LookingUpForm!TypeOK, LookingUp!Page, LookingUpForm!Page,
      LookingUp!Book, LookingUpForm!Book, LookingUp!Form, LookingUpForm!Form
  <1>3. LookingUpForm!BookTrue => LookingUp!BookTrue
    BY DEF LookingUp!BookTrue, LookingUpForm!BookTrue
  <1>4. LookingUpForm!ScannedStays => LookingUp!ScannedStays
    BY DEF LookingUp!ScannedStays, LookingUpForm!ScannedStays
  <1>5. LookingUpForm!OneBookPerForm => LookingUp!OneBookPerForm
    BY DEF LookingUp!OneBookPerForm, LookingUpForm!OneBookPerForm, LookingUp!Cardinality,
      LookingUpForm!Cardinality
  <1>6. LookingUpForm!LocksHaveTheirCalls => LookingUp!LocksHaveTheirCalls
    BY DEF LookingUp!LocksHaveTheirCalls, LookingUpForm!LocksHaveTheirCalls
  <1> QED
    BY <1>1, <1>2, <1>3, <1>4, <1>5, <1>6

LEMMA ScanningConstants == ScanningForm!FormConstants
  BY TeacherPagesAssumption
  DEF ScanningForm!FormConstants, ScanningForm!Book, ScanningForm!Form, Scanning!Book, Scanning!Form

\* What is said of a form, and how it moves, is said of this one.
LEMMA ScanningSteps == Scanning!Next => ScanningForm!Next
  <1>1. SUFFICES ASSUME Scanning!Next
                 PROVE  ScanningForm!Next
    OBVIOUS
  <1> QED
    BY <1>1
    DEF Scanning!Next, ScanningForm!Next, Scanning!blankBook, ScanningForm!blankBook,
      Scanning!NoPage, ScanningForm!NoPage, Scanning!Telling, ScanningForm!Telling,
      Scanning!Shown, ScanningForm!Shown, Scanning!Ask, ScanningForm!Ask,
      Scanning!Unmounted, ScanningForm!Unmounted, Scanning!ToList, ScanningForm!ToList,
      Scanning!ToBook, ScanningForm!ToBook, Scanning!Teaching, ScanningForm!Teaching,
      Scanning!Turn, ScanningForm!Turn, Scanning!OpenNew, ScanningForm!OpenNew,
      Scanning!OpenBook, ScanningForm!OpenBook, Scanning!Leave, ScanningForm!Leave,
      Scanning!changeISBN, ScanningForm!changeISBN, Scanning!TypeTitle,
      ScanningForm!TypeTitle, Scanning!ChooseFile, ScanningForm!ChooseFile, Scanning!lookup,
      ScanningForm!lookup, Scanning!LookUp, ScanningForm!LookUp, Scanning!scannedISBN,
      ScanningForm!scannedISBN, Scanning!submit, ScanningForm!submit, Scanning!removeCover,
      ScanningForm!removeCover, Scanning!toggleActive, ScanningForm!toggleActive,
      Scanning!removeBook, ScanningForm!removeBook, Scanning!Untouched,
      ScanningForm!Untouched, Scanning!Store, ScanningForm!Store, Scanning!Taken,
      ScanningForm!Taken, Scanning!getAdminBook, ScanningForm!getAdminBook,
      Scanning!lookupBookMetadata, ScanningForm!lookupBookMetadata, Scanning!Fresh,
      ScanningForm!Fresh, Scanning!createBook, ScanningForm!createBook, Scanning!updateBook,
      ScanningForm!updateBook, Scanning!ChangeBook, ScanningForm!ChangeBook,
      Scanning!deleteBook, ScanningForm!deleteBook, Scanning!NotFound,
      ScanningForm!NotFound, Scanning!Serve, ScanningForm!Serve, Scanning!Lose,
      ScanningForm!Lose, Scanning!Refused, ScanningForm!Refused, Scanning!Tell,
      ScanningForm!Tell, Scanning!GetArrives, ScanningForm!GetArrives,
      Scanning!LookupArrives, ScanningForm!LookupArrives, Scanning!SaveArrives,
      ScanningForm!SaveArrives,
      Scanning!CoverUnreadable, ScanningForm!CoverUnreadable,
      Scanning!UploadArrives, ScanningForm!UploadArrives,
      Scanning!CoverRemoved, ScanningForm!CoverRemoved, Scanning!Toggled,
      ScanningForm!Toggled, Scanning!Deleted, ScanningForm!Deleted, Scanning!Arrive,
      ScanningForm!Arrive, Scanning!history, ScanningForm!history, Scanning!Request,
      ScanningForm!Request, Scanning!Send, ScanningForm!Send, Scanning!Reply,
      ScanningForm!Reply, Scanning!Change, ScanningForm!Change, Scanning!NoChange,
      ScanningForm!NoChange, Scanning!Overloaded, ScanningForm!Overloaded, Scanning!Fail,
      ScanningForm!Fail, Scanning!Heard, ScanningForm!Heard, Scanning!Cardinality,
      ScanningForm!Cardinality

LEMMA ScanningSays ==
  /\ Scanning!Init => ScanningForm!Init
  /\ ScanningForm!TypeOK => Scanning!TypeOK
  /\ ScanningForm!BookTrue => Scanning!BookTrue
  /\ ScanningForm!ScannedStays => Scanning!ScannedStays
  /\ ScanningForm!OneBookPerForm => Scanning!OneBookPerForm
  /\ ScanningForm!LocksHaveTheirCalls => Scanning!LocksHaveTheirCalls
  <1>1. Scanning!Init => ScanningForm!Init
    BY DEF Scanning!Init, ScanningForm!Init, Scanning!NoPage, ScanningForm!NoPage,
      Scanning!blankBook, ScanningForm!blankBook
  <1>2. ScanningForm!TypeOK => Scanning!TypeOK
    BY DEF Scanning!TypeOK, ScanningForm!TypeOK, Scanning!Page, ScanningForm!Page,
      Scanning!Book, ScanningForm!Book, Scanning!Form, ScanningForm!Form
  <1>3. ScanningForm!BookTrue => Scanning!BookTrue
    BY DEF Scanning!BookTrue, ScanningForm!BookTrue
  <1>4. ScanningForm!ScannedStays => Scanning!ScannedStays
    BY DEF Scanning!ScannedStays, ScanningForm!ScannedStays
  <1>5. ScanningForm!OneBookPerForm => Scanning!OneBookPerForm
    BY DEF Scanning!OneBookPerForm, ScanningForm!OneBookPerForm, Scanning!Cardinality,
      ScanningForm!Cardinality
  <1>6. ScanningForm!LocksHaveTheirCalls => Scanning!LocksHaveTheirCalls
    BY DEF Scanning!LocksHaveTheirCalls, ScanningForm!LocksHaveTheirCalls
  <1> QED
    BY <1>1, <1>2, <1>3, <1>4, <1>5, <1>6

FormsOK ==
    /\ section = "saving" => SavingForm!FormOK
    /\ section = "looking up" => LookingUpForm!FormOK
    /\ section = "scanning" => ScanningForm!FormOK

LEMMA FormsStart == Init => FormsOK
  <1>1. SUFFICES ASSUME Init
                 PROVE  FormsOK
    OBVIOUS
  <1>2. CASE section = "saving"
    <2>1. SavingForm!Init
      BY <1>1, <1>2, SavingSays DEF Init
    <2> QED
      BY <1>2, <2>1, SavingConstants, SavingForm!FormStart, BrowserAssumption DEF FormsOK
  <1>3. CASE section = "looking up"
    <2>1. LookingUpForm!Init
      BY <1>1, <1>3, LookingUpSays DEF Init
    <2> QED
      BY <1>3, <2>1, LookingUpConstants, LookingUpForm!FormStart, BrowserAssumption DEF FormsOK
  <1>4. CASE section = "scanning"
    <2>1. ScanningForm!Init
      BY <1>1, <1>4, ScanningSays DEF Init
    <2> QED
      BY <1>4, <2>1, ScanningConstants, ScanningForm!FormStart, BrowserAssumption DEF FormsOK
  <1> QED
    BY <1>2, <1>3, <1>4 DEF FormsOK

LEMMA FormsStep == FormsOK /\ [Next]_vars => FormsOK'
  <1>1. SUFFICES ASSUME FormsOK, [Next]_vars
                 PROVE  FormsOK'
    OBVIOUS
  <1>2. UNCHANGED section
    BY <1>1 DEF Next, vars
  <1>3. CASE section = "saving"
    <2>1. Saving!Next \/ UNCHANGED SavingForm!vars
      BY <1>1, <1>3 DEF Next, vars, SavingForm!vars, SavingForm!history
    <2>2. [SavingForm!Next]_(SavingForm!vars)
      BY <2>1, SavingSteps
    <2> QED
      BY <1>1, <1>2, <1>3, <2>2, SavingConstants, SavingForm!FormStep, BrowserAssumption DEF FormsOK
  <1>4. CASE section = "looking up"
    <2>1. LookingUp!Next \/ UNCHANGED LookingUpForm!vars
      BY <1>1, <1>4 DEF Next, vars, LookingUpForm!vars, LookingUpForm!history
    <2>2. [LookingUpForm!Next]_(LookingUpForm!vars)
      BY <2>1, LookingUpSteps
    <2> QED
      BY <1>1, <1>2, <1>4, <2>2, LookingUpConstants, LookingUpForm!FormStep, BrowserAssumption DEF FormsOK
  <1>5. CASE section = "scanning"
    <2>1. Scanning!Next \/ UNCHANGED ScanningForm!vars
      BY <1>1, <1>5 DEF Next, vars, ScanningForm!vars, ScanningForm!history
    <2>2. [ScanningForm!Next]_(ScanningForm!vars)
      BY <2>1, ScanningSteps
    <2> QED
      BY <1>1, <1>2, <1>5, <2>2, ScanningConstants, ScanningForm!FormStep, BrowserAssumption DEF FormsOK
  <1> QED
    BY <1>2, <1>3, <1>4, <1>5 DEF FormsOK

LEMMA FormsQuiet ==
  ASSUME FormsOK
  PROVE  /\ FormTrue
         /\ section = "saving" => Saving!TypeOK /\ Saving!LocksHaveTheirCalls
         /\ section = "looking up" => LookingUp!TypeOK /\ LookingUp!LocksHaveTheirCalls
         /\ section = "scanning" => Scanning!TypeOK /\ Scanning!LocksHaveTheirCalls
  <1>1. section = "saving" =>
         /\ Saving!TypeOK /\ Saving!LocksHaveTheirCalls
         /\ Saving!BookTrue /\ Saving!ScannedStays /\ Saving!OneBookPerForm
    BY SavingConstants, SavingSays, SavingForm!FormQuiet, BrowserAssumption DEF FormsOK
  <1>2. section = "looking up" =>
         /\ LookingUp!TypeOK /\ LookingUp!LocksHaveTheirCalls
         /\ LookingUp!BookTrue /\ LookingUp!ScannedStays /\ LookingUp!OneBookPerForm
    BY LookingUpConstants, LookingUpSays, LookingUpForm!FormQuiet, BrowserAssumption DEF FormsOK
  <1>3. section = "scanning" =>
         /\ Scanning!TypeOK /\ Scanning!LocksHaveTheirCalls
         /\ Scanning!BookTrue /\ Scanning!ScannedStays /\ Scanning!OneBookPerForm
    BY ScanningConstants, ScanningSays, ScanningForm!FormQuiet, BrowserAssumption DEF FormsOK
  <1> QED
    BY <1>1, <1>2, <1>3 DEF FormTrue

-----------------------------------------------------------------------------
(* The sections together.                                                  *)

PagesOK == ListsOK /\ FormsOK /\ (section = "users" => UsersOK)

LEMMA PagesAlways == Spec => []PagesOK
  <1>1. Init => PagesOK
    BY ListsStart, FormsStart, UsersStart DEF Init, PagesOK
  <1>2. PagesOK /\ [Next]_vars => PagesOK'
    <2>1. SUFFICES ASSUME PagesOK, [Next]_vars
                   PROVE  PagesOK'
      OBVIOUS
    <2>2. UNCHANGED section /\ ListsOK' /\ FormsOK'
      BY <2>1, ListsStep, FormsStep DEF Next, vars, PagesOK
    <2>3. CASE section = "users"
      <3>1. [Users!Next]_usersVars
        BY <2>1, <2>3 DEF Next, vars, usersVars
      <3> QED
        BY <2>1, <2>2, <2>3, <3>1, UsersStep DEF PagesOK
    <2> QED
      BY <2>2, <2>3 DEF PagesOK
  <1> QED
    BY <1>1, <1>2, PTL DEF Spec

\* State, history and calls of every section but the catalogue are of their
\* types (AdminUsers, AdminLoans, AdminLost, AdminBookRequests, AdminBookForm).
THEOREM PagesTyped == Spec => [](section # "books" => TypeOK)
  <1>1. PagesOK => (section # "books" => TypeOK)
    BY FormsQuiet DEF PagesOK, ListsOK, UsersOK, LoansOK, LostOK, RequestsOK, TypeOK
  <1> QED
    BY <1>1, PagesAlways, PTL

\* Once all is answered, the rows of the pages of students, loans, lost books
\* and requests are those of the table, and the code the teacher is to pass on
\* is the student's, although a page reads its table once and then writes every
\* answer into its rows itself: but for rows of which an answer was lost or came
\* to a page that was left.
THEOREM RowsStayTrue == Spec => [](section # "books" => RowsTrue)
  <1>1. PagesOK => (section # "books" => RowsTrue)
    BY UsersQuiet, LoansQuiet, LostQuiet, RequestsQuiet DEF PagesOK, ListsOK, RowsTrue
  <1> QED
    BY <1>1, PagesAlways, PTL

\* The form shows its book as it is stored, is not mixed from two books, and
\* makes one book at most, with the exceptions FormTrue names (AdminBookForm).
THEOREM FormStaysTrue == Spec => []FormTrue
  <1>1. PagesOK => FormTrue
    BY FormsQuiet DEF PagesOK
  <1> QED
    BY <1>1, PagesAlways, PTL

\* A locked row, page or form waits for a call whose answer unlocks it, and a
\* loan's locks let one call through for it.
THEOREM PagesUnlock == Spec => []LocksHaveTheirCalls
  <1>1. PagesOK => LocksHaveTheirCalls
    BY UsersQuiet, LoansQuiet, FormsQuiet DEF PagesOK, ListsOK, LocksHaveTheirCalls
  <1> QED
    BY <1>1, PagesAlways, PTL
=============================================================================
