------------------------------ MODULE AdminLoans ------------------------------
(***************************************************************************)
(* The teacher's page of loans: a loan is extended, taken back, its book   *)
(* marked lost; returns that were not scanned are reviewed.  The rows are  *)
(* locked one by one, so that several mutations may be under way; their    *)
(* answers are written into rows and counters read when the page opened.   *)
(***************************************************************************)
EXTENDS Browser

CONSTANTS LoanIds

VARIABLES
    loans,      \* table loans; a loan stands for its book as well
    page,       \* the state of component AdminLoans
    behind      \* history: loans of which the page has not been told all

vars == <<loans, page, behind, calls, faults, changes>>

\* "review": returned without a scan; due_at in weeks after the first date.
Loan == [state: {"open", "scanned", "review", "reviewed"}, due_at: Nat, lost: BOOLEAN]

Stats == [open_loans: Nat, lost_books: Nat]

\* What is shown: open loans with their dates, and the queue.
List == [open_loans: [LoanIds -> Nat \cup {None}], review_queue: SUBSET LoanIds]

Closing == {"return", "lost"}

Page == [open: BOOLEAN, stats: Stats \cup {None}, list: List \cup {None},
         confirmation: [action: Closing, id: LoanIds] \cup {None},
         busy: SUBSET [action: Closing \cup {"extend", "review"}, id: LoanIds]]

NoPage == [open |-> FALSE, stats |-> None, list |-> None, confirmation |-> None,
           busy |-> {}]

Open(l) == loans[l].state = "open"

-----------------------------------------------------------------------------
(* The teacher.                                                            *)

OnPage == UNCHANGED <<loans, faults, changes, behind>>

Turn(p) == page' = p /\ UNCHANGED calls

OpenPage ==
    /\ ~page.open
    /\ Cardinality(calls) + 2 <= MaxCalls
    /\ page' = [NoPage EXCEPT !.open = TRUE]
    /\ calls' = calls \cup {Request("stats", None, None), Request("list", None, None)}
    /\ behind' = {}
    /\ UNCHANGED <<loans, faults, changes>>

Leave ==
    /\ page.open
    /\ page' = NoPage /\ calls' = Abandoned
    /\ OnPage

\* Promise.all: nothing is shown until both answers are there.
Loaded == page.stats # None /\ page.list # None

RowBusy(l) == \E b \in page.busy : b.id = l

\* Mutant: only the same button of the row is locked.
LooseRow(l) ==
    /\ Loaded /\ page.list.open_loans[l] # None
    /\ page.confirmation # None => page.confirmation.id # l

\* The row's own three buttons.
FreeRow(l) ==
    /\ Loaded /\ page.list.open_loans[l] # None
    /\ page.confirmation # None => page.confirmation.id # l
    /\ ~RowBusy(l)

Mutate(action, l) ==
    /\ [action |-> action, id |-> l] \notin page.busy
    /\ page' = [page EXCEPT !.busy = @ \cup {[action |-> action, id |-> l]}]
    /\ Send(action, l, None)

Extend(l) == FreeRow(l) /\ Mutate("extend", l) /\ OnPage

Confirm(l, action) ==
    /\ FreeRow(l)
    /\ Turn([page EXCEPT !.confirmation = [action |-> action, id |-> l]])
    /\ OnPage

\* The question is shown in its row; it is gone when the row is.
Asked ==
    /\ page.confirmation # None
    /\ page.list.open_loans[page.confirmation.id] # None

CancelConfirmation ==
    /\ Asked /\ page.confirmation \notin page.busy
    /\ Turn([page EXCEPT !.confirmation = None])
    /\ OnPage

Close ==
    /\ Asked
    /\ Mutate(page.confirmation.action, page.confirmation.id)
    /\ OnPage

Review(l) ==
    /\ Loaded /\ l \in page.list.review_queue
    /\ Mutate("review", l)
    /\ OnPage

-----------------------------------------------------------------------------
(* The server.                                                             *)

OffPage == UNCHANGED <<page, faults>>

AdminStats(c) ==
    /\ c.op = "stats"
    /\ NoChange(c, "ok", [open_loans |-> Cardinality({l \in LoanIds : Open(l)}),
                          lost_books |-> Cardinality({l \in LoanIds : loans[l].lost})])
    /\ UNCHANGED <<loans, behind>>

\* The open loans, and then the queue: c.data holds what has been read.
ListAdminLoans(c) ==
    /\ c.op = "list"
    /\ IF c.data = None
       THEN LET open == [l \in LoanIds |-> IF Open(l) THEN loans[l].due_at ELSE None]
            IN calls' = (calls \ {c}) \cup
                 {[c EXCEPT !.data = [open_loans |-> open, review_queue |-> {}]]}
       ELSE Reply(c, "ok", [c.data EXCEPT !.review_queue =
                              {l \in LoanIds : loans[l].state = "review"}])
    /\ UNCHANGED <<loans, changes, behind>>

Update(c, loan, data) ==
    /\ Change(c, data)
    /\ loans' = [loans EXCEPT ![c.id] = loan]
    /\ behind' = behind \cup (IF c.to = "gone" THEN {c.id} ELSE {})

Refuse(c) == NoChange(c, "refused", None) /\ UNCHANGED <<loans, behind>>

ExtendAdminLoan(c) ==
    /\ c.op = "extend"
    /\ LET due == loans[c.id].due_at + 1
       IN IF Open(c.id) THEN Update(c, [loans[c.id] EXCEPT !.due_at = due], due)
          ELSE Refuse(c)

\* Mutant: the return by hand asks for a review as the student's does.
CloseLoanUnreviewed(c) ==
    /\ c.op \in Closing
    /\ IF Open(c.id)
       THEN Update(c, [loans[c.id] EXCEPT !.state = "review", !.lost = c.op = "lost"], None)
       ELSE Refuse(c)

\* completeAdminReturn and markAdminLoanLost: a return by hand needs no review.
CloseLoan(c) ==
    /\ c.op \in Closing
    /\ IF Open(c.id)
       THEN Update(c, [loans[c.id] EXCEPT !.state = "reviewed", !.lost = c.op = "lost"],
                   None)
       ELSE Refuse(c)

ReviewAdminLoanScan(c) ==
    /\ c.op = "review"
    /\ IF loans[c.id].state \in {"review", "reviewed"}
       THEN Update(c, [loans[c.id] EXCEPT !.state = "reviewed"], None)
       ELSE Refuse(c)

Serve(c) ==
    /\ c.answer = "none"
    /\ \/ AdminStats(c) \/ ListAdminLoans(c)
       \/ ExtendAdminLoan(c) \/ CloseLoan(c) \/ ReviewAdminLoanScan(c)
       \/ /\ c.op \notin {"stats", "list"}
          /\ Overloaded(c) /\ UNCHANGED <<loans, behind>>
    /\ OffPage

\* A student returns the book, with a scan or without.
StudentReturns(l) ==
    /\ Open(l) /\ changes < MaxChanges /\ changes' = changes + 1
    /\ \E state \in {"scanned", "review"} : loans' = [loans EXCEPT ![l].state = state]
    /\ behind' = behind \cup {l}
    /\ UNCHANGED calls /\ OffPage

Lose(c) ==
    /\ Fail(c)
    /\ behind' = behind \cup
         (IF c.answer = "ok" /\ c.op \notin {"stats", "list"} THEN {c.id} ELSE {})
    /\ UNCHANGED <<loans, page>>

-----------------------------------------------------------------------------
(* The answers arrive.                                                     *)

Refused(c) == c.answer \in {"refused", "failed"}

LoadArrives(c) ==
    /\ c.op \in {"stats", "list"}
    /\ page' = IF Refused(c) THEN page
               ELSE IF c.op = "stats" THEN [page EXCEPT !.stats = c.data]
               ELSE [page EXCEPT !.list = c.data]

Unlocked(c) == [page EXCEPT !.busy = @ \ {[action |-> c.op, id |-> c.id]}]

\* Mutant: an error leaves the row locked.
ExtendArrivesLocked(c) ==
    /\ c.op = "extend"
    /\ page' = IF Refused(c) THEN page
               ELSE [Unlocked(c) EXCEPT
                      !.list.open_loans[c.id] = IF @ = None THEN None ELSE c.data]

ExtendArrives(c) ==
    /\ c.op = "extend"
    /\ page' = IF Refused(c) THEN Unlocked(c)
               ELSE [Unlocked(c) EXCEPT
                      !.list.open_loans[c.id] = IF @ = None THEN None ELSE c.data]

Decremented(n) == IF n = 0 THEN 0 ELSE n - 1

\* Mutant: a book that is lost is not counted until the next visit.
CloseArrivesUncounted(c) ==
    /\ c.op \in Closing
    /\ page' =
         IF Refused(c) THEN Unlocked(c)
         ELSE [Unlocked(c) EXCEPT
                !.list.open_loans[c.id] = None,
                !.stats.open_loans = Decremented(@),
                !.confirmation = IF @ = [action |-> c.op, id |-> c.id] THEN None ELSE @]

\* Only the question that has been answered goes.
CloseArrives(c) ==
    /\ c.op \in Closing
    /\ page' =
         IF Refused(c) THEN Unlocked(c)
         ELSE [Unlocked(c) EXCEPT
                !.list.open_loans[c.id] = None,
                !.stats.open_loans = Decremented(@),
                !.stats.lost_books = IF c.op = "lost" THEN @ + 1 ELSE @,
                !.confirmation = IF @ = [action |-> c.op, id |-> c.id] THEN None ELSE @]

ReviewArrives(c) ==
    /\ c.op = "review"
    /\ page' = IF Refused(c) THEN Unlocked(c)
               ELSE [Unlocked(c) EXCEPT !.list.review_queue = @ \ {c.id}]

Arrive(c) ==
    /\ c.answer # "none"
    /\ LoadArrives(c) \/ ExtendArrives(c) \/ CloseArrives(c) \/ ReviewArrives(c)
    /\ Heard(c)
    /\ OnPage

-----------------------------------------------------------------------------
Init ==
    /\ loans \in [LoanIds -> {[state |-> s, due_at |-> 0, lost |-> FALSE] :
                                s \in {"open", "review"}}]
    /\ page = NoPage
    /\ behind = {}
    /\ calls = {} /\ faults = 0 /\ changes = 0

Teacher ==
    \/ OpenPage \/ Leave \/ CancelConfirmation \/ Close
    \/ \E l \in LoanIds : Extend(l) \/ Review(l) \/ \E a \in Closing : Confirm(l, a)

Next ==
    \/ Teacher
    \/ \E c \in calls : Serve(c) \/ Arrive(c) \/ Lose(c)
    \/ \E l \in LoanIds : StudentReturns(l)

Spec == Init /\ [][Next]_vars

-----------------------------------------------------------------------------
(* Properties.                                                             *)

TypeOK ==
    /\ loans \in [LoanIds -> Loan] /\ page \in Page
    /\ behind \subseteq LoanIds
    /\ faults \in 0 .. MaxFaults /\ changes \in 0 .. MaxChanges

\* Whatever was under way together and answered in whatever order, the page
\* ends with the rows and dates that the table has.
RowsTrue ==
    Loaded /\ calls = {} =>
      \A l \in LoanIds \ behind :
        /\ page.list.open_loans[l] = IF Open(l) THEN loans[l].due_at ELSE None
        /\ l \in page.list.review_queue <=> loans[l].state = "review"

\* The counters, which are a second read and are kept by hand, agree with it.
CountersTrue ==
    Loaded /\ calls = {} /\ behind = {} =>
      /\ page.stats.open_loans = Cardinality({l \in LoanIds : Open(l)})
      /\ page.stats.lost_books = Cardinality({l \in LoanIds : loans[l].lost})

\* A loan is not extended, closed and marked lost at once: the row's first call
\* is answered before the second is sent.
OneCallPerLoan ==
    \A b, d \in page.busy :
      b.id = d.id /\ {b.action, d.action} \subseteq Closing \cup {"extend"} => b = d

\* Every lock is held by the call that will open it.
LocksHaveTheirCalls ==
    \A b \in page.busy :
      \E c \in calls : c.to = "page" /\ c.op = b.action /\ c.id = b.id
=============================================================================
