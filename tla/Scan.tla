--------------------------------- MODULE Scan ---------------------------------
(***************************************************************************)
(* The student's page that borrows a book: its ISBN is scanned or typed    *)
(* in, sent as soon as it is complete, and sent again if no answer comes.  *)
(* submissionLocked keeps the page from sending it twice.                  *)
(***************************************************************************)
EXTENDS Browser

CONSTANTS Books     \* valid ISBNs, each with its book if there is one

VARIABLES
    shelf,      \* table books
    holder,     \* table loans: who has the book now
    page,       \* the state of component Scan
    behind      \* history: books changed by others since the page was opened

vars == <<shelf, holder, page, behind, calls, faults, changes>>

Status == {"absent", "active", "lost", "inactive"}

\* Of the answers of 4xx, book_not_found stands for invalid_isbn as well.
Errors == {"book_not_found", "book_lost", "book_inactive", "loan_limit",
           "book_unavailable", "offline", "other"}

Sources == {"camera", "manual"}

Attempt == [status: {"pending", "success", "error"}, isbn: Books, source: Sources,
            error: Errors \cup {None}]

\* In the field of ManualScreen: too few digits, or 13 that do not add up.
Digits == Books \cup {"some", "wrong"}

Page == [open: BOOLEAN, mode: Sources, failure: {None, "denied", "unavailable"},
         unreadable: BOOLEAN, attempt: Attempt \cup {None},
         submissionLocked: BOOLEAN, digits: Digits, lastAccepted: Books \cup {None}]

\* ManualScreen, mounted with an ISBN or without.
Manual(p, initial) ==
    [p EXCEPT !.mode = "manual", !.lastAccepted = initial,
              !.digits = IF initial = None THEN "some" ELSE initial]

NoPage == [open |-> FALSE, mode |-> "camera", failure |-> None, unreadable |-> FALSE,
           attempt |-> None, submissionLocked |-> FALSE, digits |-> "some",
           lastAccepted |-> None]

-----------------------------------------------------------------------------
(* The screens.                                                            *)

Entry == page.open /\ page.attempt = None

CameraShown == Entry /\ page.mode = "camera" /\ page.failure = None /\ ~page.unreadable

ManualShown == Entry /\ page.mode = "manual"

ErrorShown(errors) ==
    page.attempt # None /\ page.attempt.status = "error" /\ page.attempt.error \in errors

Retryable == {"offline", "other"}

-----------------------------------------------------------------------------
(* The student.                                                            *)

OnPage == UNCHANGED <<shelf, holder, faults, changes, behind>>

Turn(p) == page' = p /\ UNCHANGED calls

\* Mutant: the lock that the last attempt left is not opened.
EnterLocked(p) == [p EXCEPT !.failure = None, !.unreadable = FALSE, !.attempt = None,
                            !.digits = "some", !.lastAccepted = None]

\* Back to a screen that takes an ISBN.
Enter(p) == [p EXCEPT !.failure = None, !.unreadable = FALSE, !.attempt = None,
                      !.submissionLocked = FALSE, !.digits = "some",
                      !.lastAccepted = None]

submitISBN(p, isbn, source) ==
    IF p.submissionLocked THEN Turn(p)
    ELSE /\ page' = [p EXCEPT !.submissionLocked = TRUE,
                              !.attempt = [status |-> "pending", isbn |-> isbn,
                                           source |-> source, error |-> None]]
         /\ Send("borrow", isbn, None)

\* On a wide screen, where there is seldom a camera, by hand.
Open ==
    /\ ~page.open
    /\ LET p == [NoPage EXCEPT !.open = TRUE]
       IN page' \in {p, Manual(p, None)}
    /\ behind' = {c.id : c \in calls}
    /\ UNCHANGED <<calls, shelf, holder, faults, changes>>

\* The cross, "Done", the catalogue, the page of returns; back, when the call
\* is still under way.
Leave ==
    /\ page.open
    /\ page' = NoPage /\ calls' = Abandoned
    /\ OnPage

cameraDetected(isbn) == CameraShown /\ submitISBN(page, isbn, "camera") /\ OnPage

cameraFailed(failure) ==
    CameraShown /\ Turn([page EXCEPT !.failure = failure]) /\ OnPage

CameraUnreadable == CameraShown /\ Turn([page EXCEPT !.unreadable = TRUE]) /\ OnPage

\* The tab, "by hand", "once more".
showCamera ==
    /\ \/ ManualShown
       \/ Entry /\ page.unreadable
       \/ ErrorShown({"book_not_found"})
       \/ ErrorShown({"other"}) /\ page.attempt.source = "manual"
    /\ Turn([Enter(page) EXCEPT !.mode = "camera"])
    /\ OnPage

showManual ==
    /\ Entry /\ page.mode = "camera"
    /\ Turn(Manual(Enter(page), None))
    /\ OnPage

\* A complete ISBN is sent at once, but not the one sent last.
ManualInput(digits) ==
    /\ ManualShown /\ digits # page.digits
    /\ LET p == [page EXCEPT !.digits = digits]
       IN IF digits \in Books \ {page.lastAccepted}
          THEN submitISBN([p EXCEPT !.lastAccepted = digits], digits, "manual")
          ELSE Turn(p)
    /\ OnPage

retryBorrow ==
    /\ ErrorShown(Retryable)
    /\ submitISBN([page EXCEPT !.submissionLocked = FALSE],
                  page.attempt.isbn, page.attempt.source)
    /\ OnPage

editManualISBN ==
    /\ \/ ErrorShown({"book_not_found"})
       \/ ErrorShown({"other"}) /\ page.attempt.source = "camera"
    /\ Turn(Manual(Enter(page), page.attempt.isbn))
    /\ OnPage

-----------------------------------------------------------------------------
(* The server.                                                             *)

Held == {b \in Books : holder[b] = "me"}

\* Mutant: a student who has a book is told so, even if it is the one asked for.
RefusalOfAnyLoan(b) ==
    CASE shelf[b] = "absent"   -> "book_not_found"
      [] shelf[b] = "lost"     -> "book_lost"
      [] shelf[b] = "inactive" -> "book_inactive"
      [] shelf[b] = "active" /\ Held # {} -> "loan_limit"
      [] shelf[b] = "active" /\ Held = {} /\ holder[b] # None -> "book_unavailable"
      [] OTHER -> None

\* The state of the book comes before the question who has it.
Refusal(b) ==
    CASE shelf[b] = "absent"   -> "book_not_found"
      [] shelf[b] = "lost"     -> "book_lost"
      [] shelf[b] = "inactive" -> "book_inactive"
      [] shelf[b] = "active" /\ Held \ {b} # {} -> "loan_limit"
      [] shelf[b] = "active" /\ Held = {} /\ holder[b] # None -> "book_unavailable"
      [] OTHER -> None

\* Mutant: the answer is given before the loan is there.
BorrowPromised(c) ==
    IF Refusal(c.id) # None
    THEN NoChange(c, "refused", Refusal(c.id)) /\ UNCHANGED holder
    ELSE Change(c, None) /\ UNCHANGED holder

\* Module Loans has the statements of this handler one by one.
borrowBook(c) ==
    IF Refusal(c.id) # None
    THEN NoChange(c, "refused", Refusal(c.id)) /\ UNCHANGED holder
    ELSE IF holder[c.id] = "me" THEN NoChange(c, "ok", None) /\ UNCHANGED holder
    ELSE Change(c, None) /\ holder' = [holder EXCEPT ![c.id] = "me"]

Serve(c) ==
    /\ c.answer = "none"
    /\ \/ borrowBook(c)
       \/ Overloaded(c) /\ UNCHANGED holder
    /\ UNCHANGED <<page, faults, shelf, behind>>

\* The teacher, another student, or this one in another tab.
Elsewhere(b) ==
    /\ changes < MaxChanges /\ changes' = changes + 1
    /\ \/ /\ holder[b] = None /\ shelf[b] = "active"
          /\ \E who \in {"other"} \cup (IF Held = {} THEN {"me"} ELSE {}) :
               holder' = [holder EXCEPT ![b] = who]
          /\ UNCHANGED shelf
       \/ /\ holder[b] # None
          /\ holder' = [holder EXCEPT ![b] = None]
          /\ UNCHANGED shelf
       \/ \E status \in Status \ {shelf[b], "absent"} :
            /\ shelf' = [shelf EXCEPT ![b] = status]
            /\ holder' = IF status = "lost" THEN [holder EXCEPT ![b] = None] ELSE holder
    /\ behind' = behind \cup {b}
    /\ UNCHANGED <<page, calls, faults>>

Lose(c) == Fail(c) /\ UNCHANGED <<shelf, holder, page, behind>>

-----------------------------------------------------------------------------
(* The answer arrives.                                                     *)

\* Mutant: the screen waits on when there was no answer.
ArriveUncaught(c) ==
    /\ c.answer # "none"
    /\ page' = CASE c.answer = "ok"      -> [page EXCEPT !.attempt.status = "success"]
                 [] c.answer = "refused" -> [page EXCEPT !.attempt.status = "error",
                                                         !.attempt.error = c.data]
                 [] c.answer = "failed"  -> page
    /\ Heard(c)
    /\ OnPage

\* "failed" is no answer at all, or a 5xx.
Arrive(c) ==
    /\ c.answer # "none"
    /\ IF c.answer = "ok" THEN page' = [page EXCEPT !.attempt.status = "success"]
       ELSE \E error \in (IF c.answer = "refused" THEN {c.data} ELSE Retryable) :
              page' = [page EXCEPT !.attempt.status = "error", !.attempt.error = error]
    /\ Heard(c)
    /\ OnPage

-----------------------------------------------------------------------------
Init ==
    /\ shelf \in [Books -> {"active", "absent"}]
    /\ holder = [b \in Books |-> None]
    /\ page = NoPage
    /\ behind = {}
    /\ calls = {} /\ faults = 0 /\ changes = 0

Student ==
    \/ Open \/ Leave \/ CameraUnreadable \/ showCamera \/ showManual
    \/ retryBorrow \/ editManualISBN
    \/ \E isbn \in Books : cameraDetected(isbn)
    \/ \E failure \in {"denied", "unavailable"} : cameraFailed(failure)
    \/ \E digits \in Digits : ManualInput(digits)

Network == \E c \in calls : Serve(c) \/ Arrive(c)

Next ==
    \/ Student \/ Network
    \/ \E c \in calls : Lose(c)
    \/ \E b \in Books : Elsewhere(b)

\* A call that is sent is answered, or the connection breaks.
Fairness == WF_vars(Network)

Spec == Init /\ [][Next]_vars /\ Fairness

-----------------------------------------------------------------------------
(* Properties.                                                             *)

TypeOK ==
    /\ shelf \in [Books -> Status] /\ holder \in [Books -> {"me", "other", None}]
    /\ page \in Page
    /\ behind \subseteq Books
    /\ faults \in 0 .. MaxFaults /\ changes \in 0 .. MaxChanges

Answered(statuses) == page.attempt # None /\ page.attempt.status \in statuses

\* Who is told that the book is his has it, until somebody else has a hand
\* in it.
ConfirmedIsMine ==
    Answered({"success"}) /\ page.attempt.isbn \notin behind =>
      holder[page.attempt.isbn] = "me"

\* However often it is sent, and whichever answer is lost, the ISBN of a book
\* that was lent is not answered with a refusal; but what is hidden from the
\* catalogue is, even from its reader.
RefusedIsNotMine ==
    Answered({"error"}) /\ behind = {} =>
      \/ page.attempt.error \in Retryable \cup {"book_inactive"}
      \/ holder[page.attempt.isbn] # "me"

\* The lock is closed exactly while there is an attempt to be seen: a screen
\* that takes an ISBN is never deaf, and one call is out at a time.
LockIsShown ==
    /\ page.submissionLocked <=> page.attempt # None
    /\ Answered({"pending"}) <=> Waiting("borrow") # {}
    /\ \A c \in Waiting("borrow") : c.id = page.attempt.isbn

\* Waiting for an answer ends.
PendingEnds == Answered({"pending"}) ~> ~Answered({"pending"})
=============================================================================
