------------------------------ MODULE AdminUsers ------------------------------
(***************************************************************************)
(* The teacher's page of students: codes are issued and replaced, names    *)
(* corrected, passwords reset, students banned.  One mutation at a time    *)
(* locks the page; its answer is written into the rows that the page has   *)
(* read when it was opened.                                                *)
(***************************************************************************)
EXTENDS Browser

CONSTANTS
    Students,
    Names

VARIABLES
    users,      \* table users, newest first
    page,       \* the state of component AdminUsers
    behind      \* history: students of whom the page has not been told all

vars == <<users, page, behind, calls, faults, changes>>

\* A code is the student's n-th: no code is issued twice.
User == [id: Students, name: Names, code: Nat, has_password: BOOLEAN, banned: BOOLEAN]

Actions == {"reissue", "reset", "ban"}

Page == [open: BOOLEAN, rows: Seq(User) \cup {None}, creating: BOOLEAN,
         editing: Students \cup {None},
         confirmation: [id: Students, action: Actions] \cup {None},
         busy: [op: Actions \cup {"create", "rename"}, id: Students \cup {None}]
                 \cup {None},
         issued: [id: Students, code: Nat] \cup {None}]

NoPage == [open |-> FALSE, rows |-> None, creating |-> FALSE,
           editing |-> None, confirmation |-> None, busy |-> None, issued |-> None]

Listed(list) == {list[i].id : i \in DOMAIN list}

Row(list, id) == list[CHOOSE i \in DOMAIN list : list[i].id = id]

Changed(op, arg, user) ==
    CASE op = "rename"  -> [user EXCEPT !.name = arg]
      [] op = "reissue" -> [user EXCEPT !.code = arg]
      [] op = "reset"   -> [user EXCEPT !.has_password = FALSE]
      [] op = "ban"     -> [user EXCEPT !.banned = TRUE]

\* updateUser, and an UPDATE by id.
With(list, id, op, arg) ==
    [i \in DOMAIN list |-> IF list[i].id = id THEN Changed(op, arg, list[i]) ELSE list[i]]

-----------------------------------------------------------------------------
(* The teacher.                                                            *)

OnPage == UNCHANGED <<users, faults, changes, behind>>

Turn(p) == page' = p /\ UNCHANGED calls

\* Mutant: nothing is locked while a mutation is under way.
FreeAlways == TRUE

Free == page.busy = None

RowBusy(id) == page.busy # None /\ page.busy.id = id

Open ==
    /\ ~page.open
    /\ page' = [NoPage EXCEPT !.open = TRUE]
    /\ Send("list", None, None)
    /\ behind' = {}
    /\ UNCHANGED <<users, faults, changes>>

Leave ==
    /\ page.open
    /\ page' = NoPage /\ calls' = Abandoned
    /\ OnPage

ToggleCreating ==
    /\ page.open /\ Free
    /\ Turn([page EXCEPT !.creating = ~@])
    /\ OnPage

\* The form's own button is never locked.
CancelCreating ==
    /\ page.creating
    /\ Turn([page EXCEPT !.creating = FALSE])
    /\ OnPage

\* None is a name the server does not take.
CreateUser(name) ==
    /\ page.creating /\ Free
    /\ page' = [page EXCEPT !.busy = [op |-> "create", id |-> None]]
    /\ Send("create", None, name)
    /\ OnPage

\* The row shows its buttons, not the name's field or a question.
Plain(id) ==
    /\ page.rows # None /\ id \in Listed(page.rows)
    /\ page.editing # id
    /\ page.confirmation # None => page.confirmation.id # id

StartEdit(id) ==
    /\ Plain(id) /\ Free
    /\ Turn([page EXCEPT !.editing = id, !.confirmation = None])
    /\ OnPage

CancelEdit ==
    /\ page.editing # None /\ ~RowBusy(page.editing)
    /\ Turn([page EXCEPT !.editing = None])
    /\ OnPage

SaveName(name) ==
    /\ page.editing # None /\ Free
    /\ page' = [page EXCEPT !.busy = [op |-> "rename", id |-> page.editing]]
    /\ Send("rename", page.editing, name)
    /\ OnPage

Confirm(id, action) ==
    /\ Plain(id) /\ Free
    /\ ~Row(page.rows, id).banned
    /\ action = "reset" => Row(page.rows, id).has_password
    /\ Turn([page EXCEPT !.confirmation = [id |-> id, action |-> action],
                         !.editing = None])
    /\ OnPage

CancelConfirmation ==
    /\ page.confirmation # None /\ ~RowBusy(page.confirmation.id)
    /\ Turn([page EXCEPT !.confirmation = None])
    /\ OnPage

RunAction ==
    /\ page.confirmation # None /\ Free
    /\ LET asked == page.confirmation
       IN /\ page' = [page EXCEPT !.busy = [op |-> asked.action, id |-> asked.id]]
          /\ Send(asked.action, asked.id, None)
    /\ OnPage

CloseIssued ==
    /\ page.issued # None
    /\ Turn([page EXCEPT !.issued = None])
    /\ OnPage

-----------------------------------------------------------------------------
(* The server.                                                             *)

OffPage == UNCHANGED <<page, faults>>

ListAdminUsers(c) ==
    /\ c.op = "list"
    /\ NoChange(c, "ok", users)
    /\ UNCHANGED <<users, behind>>

\* A student whose creation is answered before the list has come is not put
\* into it, and may be in it already.
Done(c, id, data) ==
    /\ Change(c, data)
    /\ behind' = behind \cup
         (IF c.to = "gone" \/ (c.op = "create" /\ page.rows = None) THEN {id} ELSE {})

NotDone(c, answer) == NoChange(c, answer, None) /\ UNCHANGED <<users, behind>>

CreateAdminUser(c) ==
    /\ c.op = "create"
    /\ \/ c.arg = None /\ NotDone(c, "refused")
       \/ /\ c.arg # None
          /\ \E id \in Students \ Listed(users) :
               LET user == [id |-> id, name |-> c.arg, code |-> 1,
                            has_password |-> FALSE, banned |-> FALSE]
               IN users' = <<user>> \o users /\ Done(c, id, user)
       \/ \* Bound: there are no more Students.
          Listed(users) = Students /\ NotDone(c, "failed")

UpdateAdminUser(c) ==
    /\ c.op = "rename"
    /\ IF c.arg = None THEN NotDone(c, "refused")
       ELSE /\ users' = With(users, c.id, "rename", c.arg)
            /\ Done(c, c.id, c.arg)

ReissueCode(c) ==
    /\ c.op = "reissue"
    /\ LET code == Row(users, c.id).code + 1
       IN /\ users' = With(users, c.id, "reissue", code)
          /\ Done(c, c.id, code)

ResetOrBan(c) ==
    /\ c.op \in {"reset", "ban"}
    /\ users' = With(users, c.id, c.op, None)
    /\ Done(c, c.id, None)

Serve(c) ==
    /\ c.answer = "none"
    /\ \/ ListAdminUsers(c) \/ CreateAdminUser(c) \/ UpdateAdminUser(c)
       \/ ReissueCode(c) \/ ResetOrBan(c)
       \/ c.op # "list" /\ Overloaded(c) /\ UNCHANGED <<users, behind>>
    /\ OffPage

Lose(c) ==
    /\ Fail(c)
    /\ behind' = behind \cup
         (IF c.answer # "ok" \/ c.op = "list" THEN {}
          ELSE IF c.op = "create" THEN {c.data.id} ELSE {c.id})
    /\ UNCHANGED <<users, page>>

-----------------------------------------------------------------------------
(* The answers arrive.                                                     *)

Refused(c) == c.answer \in {"refused", "failed"}

ListArrives(c) ==
    /\ c.op = "list"
    /\ page' = IF Refused(c) THEN page ELSE [page EXCEPT !.rows = c.data]

CreateArrives(c) ==
    /\ c.op = "create"
    /\ page' =
         IF Refused(c) THEN [page EXCEPT !.busy = None]
         ELSE [page EXCEPT !.rows = IF @ = None THEN None ELSE <<c.data>> \o @,
                           !.issued = [id |-> c.data.id, code |-> c.data.code],
                           !.creating = FALSE, !.busy = None]

\* Mutant: the lock is opened only when all went well.
RenameArrivesLocked(c) ==
    /\ c.op = "rename"
    /\ page' =
         IF Refused(c) THEN page
         ELSE [page EXCEPT
                !.rows = With(@, c.id, "rename", c.data),
                !.editing = None, !.busy = None]

RenameArrives(c) ==
    /\ c.op = "rename"
    /\ page' =
         IF Refused(c) THEN [page EXCEPT !.busy = None]
         ELSE [page EXCEPT
                !.rows = With(@, c.id, "rename", c.data),
                !.editing = None, !.busy = None]

ActionArrives(c) ==
    /\ c.op \in Actions
    /\ page' =
         IF Refused(c) THEN [page EXCEPT !.busy = None]
         ELSE [page EXCEPT
                !.rows = With(@, c.id, c.op, c.data),
                !.issued = IF c.op = "reissue" THEN [id |-> c.id, code |-> c.data] ELSE @,
                !.confirmation = None, !.busy = None]

Arrive(c) ==
    /\ c.answer # "none"
    /\ ListArrives(c) \/ CreateArrives(c) \/ RenameArrives(c) \/ ActionArrives(c)
    /\ Heard(c)
    /\ OnPage

-----------------------------------------------------------------------------
Init ==
    /\ \E id \in Students, n \in Names :
         users = <<[id |-> id, name |-> n, code |-> 1, has_password |-> TRUE,
                    banned |-> FALSE]>>
    /\ page = NoPage
    /\ behind = {}
    /\ calls = {} /\ faults = 0 /\ changes = 0

Teacher ==
    \/ Open \/ Leave \/ ToggleCreating \/ CancelCreating \/ CancelEdit
    \/ CancelConfirmation \/ RunAction \/ CloseIssued
    \/ \E name \in Names \cup {None} : CreateUser(name) \/ SaveName(name)
    \/ \E id \in Students : StartEdit(id) \/ \E a \in Actions : Confirm(id, a)

Next == Teacher \/ \E c \in calls : Serve(c) \/ Arrive(c) \/ Lose(c)

Spec == Init /\ [][Next]_vars

-----------------------------------------------------------------------------
(* Properties.                                                             *)

TypeOK ==
    /\ users \in Seq(User) /\ page \in Page
    /\ behind \subseteq Students
    /\ faults \in 0 .. MaxFaults /\ changes \in 0 .. MaxChanges
    /\ page.busy # None => page.open

Of(list, id) == {i \in DOMAIN list : list[i].id = id}

\* Once everything is answered the page shows each student as the table has
\* them, and once, although no answer but the first brings the list.
RowsTrue ==
    page.rows # None /\ calls = {} =>
      \A id \in Students \ behind :
        /\ \A i, j \in Of(page.rows, id) : i = j
        /\ {page.rows[i] : i \in Of(page.rows, id)} = {users[i] : i \in Of(users, id)}

\* The code that the teacher is told to pass on is the student's code.
IssuedCodeWorks ==
    page.issued # None /\ calls = {} /\ page.issued.id \notin behind =>
      Row(users, page.issued.id).code = page.issued.code

\* The page is locked only while the call that will unlock it is out.
LockHasItsCall ==
    page.busy # None =>
      \E c \in calls : c.to = "page" /\ c.op = page.busy.op /\ c.id = page.busy.id
=============================================================================
