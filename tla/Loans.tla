------------------------------- MODULE Loans -------------------------------
(***************************************************************************)
(* The loan desk of the Syllabooks backend: the tables books and loans and *)
(* the HTTP handlers that read and write them (borrowBook, returnBook,     *)
(* setReturnReason, checkShelfCode, and the teacher's handlers).  A        *)
(* handler runs its SQL statements one by one, each in a transaction of    *)
(* its own, so one action is one statement together with the Go code up to *)
(* the next one, and the statements of concurrent requests interleave.     *)
(* markAdminLoanLost, the one handler here that opens a transaction, is    *)
(* one action.                                                             *)
(***************************************************************************)
EXTENDS Naturals, FiniteSets

CONSTANTS
    Students,       \* rows of users that may borrow
    Books,          \* ids gen_random_uuid() can give a book, never used twice
    Isbns,          \* the 13-digit strings that pass normalizeISBN
    LoanIds,        \* ids gen_random_uuid() can give a loan
    Requests,       \* slots for requests in flight
    None,           \* SQL NULL, and "no such row"
    Reasons,        \* the values of enum return_reason students choose from
    ShelfEvidence,  \* what they may send for the shelf ...
    BookMethods,    \* ... and how they may show the book
    MaxExtensions   \* bound on how often one loan is extended

Loan == [book: Books, user: Students, weeks: Nat, returned: BOOLEAN,
         reason: Reasons \cup {None},
         shelfOk: BOOLEAN \cup {None}, bookOk: BOOLEAN \cup {None},
         byAdmin: BOOLEAN, reviewed: BOOLEAN]

Book == [state: {"unused", "present", "deleted"}, isbn: Isbns \cup {None},
         isLost: BOOLEAN, isActive: BOOLEAN]

\* Evidence that the book itself is back; skipping shows no ISBN.
BookEvidence == [method: BookMethods \ {"skipped"}, value: Isbns]
                  \cup [method: BookMethods \cap {"skipped"}, value: {None}]

Steps == {"idle", "answered",
          "find_open_loan", "insert", "find_loan_of_book", "find_loan_of_user",
          "load_limit_book", "complete_return", "reload_return",
          "reload_reason", "count_class", "count_reader", "loan_state"}

Answers == {"book_not_found", "book_lost", "book_inactive", "borrowed",
            "already_yours", "book_unavailable", "loan_limit",
            "not_found", "returned", "unreturned_ok", "already_returned",
            "invalid_shelf_code", "wrong_book", "shelf_ok",
            "loan_not_returned", "return_reason_set", "reason_saved",
            "celebrated", "loan_closed",
            "500_deleted_book", "500_conflict_gone", "500_limit_book",
            "500_reload"}

Replies == Answers \cup {None}

Request == [step: Steps, user: Students \cup {None}, book: Books \cup {None},
            loan: LoanIds \cup {None}, reason: Reasons \cup {None},
            shelfOk: BOOLEAN, bookOk: BOOLEAN, hit: BOOLEAN,
            classCount: Nat, firstBook: BOOLEAN, reply: Replies]

\* Model values and strings are never rows, and NULL is neither.
ASSUME LoansAssumption ==
    /\ None \notin Loan
    /\ None \notin Students \cup Books \cup Isbns \cup LoanIds
    /\ None \notin BOOLEAN
    /\ None \notin Reasons \cup Answers
    /\ Reasons \subseteq {"finished", "too_hard", "boring", "skipped"}
    /\ ShelfEvidence \subseteq {"scan", "wrong_code", "skipped"}
    /\ BookMethods \subseteq {"scan", "manual", "skipped"}
    /\ IsFiniteSet(LoanIds)
    /\ MaxExtensions \in Nat

VARIABLES
    books,  \* table books, one row per id
    loans,  \* table loans: a row, or None while the id is not issued
    req     \* the requests in flight and the answers not yet read

vars == <<books, loans, req>>

-----------------------------------------------------------------------------
(* Rows.                                                                   *)

Unused == [state |-> "unused", isbn |-> None, isLost |-> FALSE, isActive |-> TRUE]

Present(b) == b \in Books /\ books[b].state = "present"

IsbnTaken(i) == i # None /\ \E b \in Books : Present(b) /\ books[b].isbn = i

Issued == {l \in LoanIds : loans[l] # None}

Open(l) == loans[l] # None /\ ~loans[l].returned

OpenOfBook(b) == {l \in LoanIds : Open(l) /\ loans[l].book = b}

OpenOfUser(u) == {l \in LoanIds : Open(l) /\ loans[l].user = u}

\* Mutant: the queries forget "AND user_id = @user_id".
OwnedByAnyone(l, u) == l \in Issued

Owned(l, u) == l \in Issued /\ loans[l].user = u

Finished == {l \in Issued : loans[l].reason = "finished"}

FinishedBy(u) == {l \in Finished : loans[l].user = u}

\* loans_scan_review_only_on_flagged_return, and the review queue's condition.
Flagged(row) == row.returned /\ (row.shelfOk = FALSE \/ row.bookOk = FALSE)

-----------------------------------------------------------------------------
(* Requests.                                                               *)

Idle == [step |-> "idle", user |-> None, book |-> None, loan |-> None,
         reason |-> None, shelfOk |-> FALSE, bookOk |-> FALSE, hit |-> FALSE,
         classCount |-> 0, firstBook |-> FALSE, reply |-> None]

At(r, step) == req[r].step = step

\* A request answers, keeping what the answer is about.
Answer(q, reply) == [q EXCEPT !.step = "answered", !.reply = reply,
                              !.shelfOk = FALSE, !.bookOk = FALSE, !.hit = FALSE]

\* An answer that no property relates to a row keeps none.
Refuse(r, reply) == req' = [req EXCEPT ![r] = Answer(Idle, reply)]

Reply(r, q, reply) == req' = [req EXCEPT ![r] = Answer(q, reply)]

Go(r, q, step) == req' = [req EXCEPT ![r] = [q EXCEPT !.step = step]]

\* The client has its answer, gives up or loses it, or the server restarts:
\* the request's context is cancelled and no further statement of it runs.
Leave(r) ==
    /\ ~At(r, "idle")
    /\ req' = [req EXCEPT ![r] = Idle]
    /\ UNCHANGED <<books, loans>>

-----------------------------------------------------------------------------
(* borrowBook.                                                             *)

\* Bound: ids are left for every request that may still insert a loan.
IdsLeft ==
    Cardinality({r \in Requests : req[r].step \in {"find_open_loan", "insert"}})
      < Cardinality(LoanIds \ Issued)

\* GetBookByISBN, then the lost and inactive checks on the row it read.
BorrowFindBook(r, u, i) ==
    /\ At(r, "idle")
    /\ IdsLeft
    /\ LET q == [Idle EXCEPT !.user = u]
       IN \/ /\ ~IsbnTaken(i)
             /\ Refuse(r, "book_not_found")
          \/ \E b \in Books :
               /\ Present(b) /\ books[b].isbn = i
               /\ LET p == [q EXCEPT !.book = b]
                  IN \/ books[b].isLost /\ Refuse(r, "book_lost")
                     \/ /\ ~books[b].isLost /\ ~books[b].isActive
                        /\ Refuse(r, "book_inactive")
                     \/ /\ ~books[b].isLost /\ books[b].isActive
                        /\ Go(r, p, "find_open_loan")
    /\ UNCHANGED <<books, loans>>

\* Mutant: a student's open loan is taken for a repeat of this borrow.
AnswerAnyOpenLoan(r, l) == Reply(r, [req[r] EXCEPT !.loan = l], "already_yours")

\* GetOpenLoanForUser: the same book is answered as a repeat, another as a limit.
AnswerOpenLoan(r, l) ==
    LET q == [req[r] EXCEPT !.loan = l]
    IN \/ loans[l].book = req[r].book /\ Reply(r, q, "already_yours")
       \/ loans[l].book # req[r].book /\ Go(r, q, "load_limit_book")

BorrowFindOpenLoan(r) ==
    /\ At(r, "find_open_loan")
    /\ \/ \E l \in OpenOfUser(req[r].user) : AnswerOpenLoan(r, l)
       \/ OpenOfUser(req[r].user) = {} /\ Go(r, req[r], "insert")
    /\ UNCHANGED <<books, loans>>

\* Mutant: CreateLoanParams with the two ids exchanged.
NewLoanSwapped(b, u) ==
    [book |-> u, user |-> b, weeks |-> 0, returned |-> FALSE, reason |-> None,
     shelfOk |-> None, bookOk |-> None, byAdmin |-> FALSE, reviewed |-> FALSE]

NewLoan(b, u) ==
    [book |-> b, user |-> u, weeks |-> 0, returned |-> FALSE, reason |-> None,
     shelfOk |-> None, bookOk |-> None, byAdmin |-> FALSE, reviewed |-> FALSE]

\* Mutants: the early lookups are trusted and one unique index is missing.
InsertWithoutUserIndex(r) ==
    LET b == req[r].book
    IN /\ At(r, "insert")
       /\ OpenOfBook(b) = {} /\ Present(b)
       /\ \E l \in LoanIds \ Issued :
            /\ loans' = [loans EXCEPT ![l] = NewLoan(b, req[r].user)]
            /\ Reply(r, [req[r] EXCEPT !.loan = l], "borrowed")
       /\ UNCHANGED books

InsertWithoutBookIndex(r) ==
    LET b == req[r].book
    IN /\ At(r, "insert")
       /\ OpenOfUser(req[r].user) = {} /\ Present(b)
       /\ \E l \in LoanIds \ Issued :
            /\ loans' = [loans EXCEPT ![l] = NewLoan(b, req[r].user)]
            /\ Reply(r, [req[r] EXCEPT !.loan = l], "borrowed")
       /\ UNCHANGED books

\* CreateLoan.  The two unique indexes are checked before the foreign key.
BorrowInsert(r) ==
    LET b == req[r].book
        u == req[r].user
    IN /\ At(r, "insert")
       /\ \/ /\ OpenOfBook(b) = {} /\ OpenOfUser(u) = {} /\ Present(b)
             /\ \E l \in LoanIds \ Issued :
                  /\ loans' = [loans EXCEPT ![l] = NewLoan(b, u)]
                  /\ Reply(r, [req[r] EXCEPT !.loan = l], "borrowed")
          \/ /\ OpenOfBook(b) # {}
             /\ Go(r, req[r], "find_loan_of_book")
             /\ UNCHANGED loans
          \/ /\ OpenOfUser(u) # {}
             /\ Go(r, req[r], "find_loan_of_user")
             /\ UNCHANGED loans
          \/ /\ OpenOfBook(b) = {} /\ OpenOfUser(u) = {} /\ ~Present(b)
             /\ Refuse(r, "500_deleted_book")
             /\ UNCHANGED loans
       /\ UNCHANGED books

\* writeBookUnavailable: who has the book that broke loans_one_open_per_book.
BorrowBookTaken(r) ==
    LET b == req[r].book
    IN /\ At(r, "find_loan_of_book")
       /\ \/ /\ OpenOfBook(b) = {}
             /\ Refuse(r, "500_conflict_gone")
          \/ \E l \in OpenOfBook(b) :
               \/ /\ loans[l].user = req[r].user
                  /\ Reply(r, [req[r] EXCEPT !.loan = l], "already_yours")
               \/ /\ loans[l].user # req[r].user
                  /\ Refuse(r, "book_unavailable")
       /\ UNCHANGED <<books, loans>>

\* The loans_one_open_per_user branch.
BorrowUserBusy(r) ==
    /\ At(r, "find_loan_of_user")
    /\ \/ /\ OpenOfUser(req[r].user) = {}
          /\ Refuse(r, "500_conflict_gone")
       \/ \E l \in OpenOfUser(req[r].user) : AnswerOpenLoan(r, l)
    /\ UNCHANGED <<books, loans>>

\* writeLoanLimit: load the book of the loan that stands in the way.
BorrowLoadLimitBook(r) ==
    /\ At(r, "load_limit_book")
    /\ \/ Present(loans[req[r].loan].book) /\ Reply(r, req[r], "loan_limit")
       \/ ~Present(loans[req[r].loan].book) /\ Refuse(r, "500_limit_book")
    /\ UNCHANGED <<books, loans>>

-----------------------------------------------------------------------------
(* checkShelfCode and returnBook.  A student may name any loan id, so the  *)
(* owner is part of every WHERE.                                           *)

ShelfCheck(r, u, l, shelf) ==
    /\ At(r, "idle")
    /\ l \in Issued
    /\ shelf # "skipped"
    /\ LET q == [Idle EXCEPT !.user = u, !.loan = l]
       IN \/ ~Owned(l, u) /\ Refuse(r, "not_found")
          \/ /\ Owned(l, u) /\ loans[l].returned
             /\ Reply(r, q, "already_returned")
          \/ /\ Owned(l, u) /\ ~loans[l].returned /\ shelf = "wrong_code"
             /\ Refuse(r, "invalid_shelf_code")
          \/ /\ Owned(l, u) /\ ~loans[l].returned /\ shelf = "scan"
             /\ Refuse(r, "shelf_ok")
    /\ UNCHANGED <<books, loans>>

\* validateBookEvidence against the ISBN the loan's book has now.
WrongBook(ev, b) == ev.method # "skipped" /\ ev.value # books[b].isbn

\* GetLoanWithBookForUser and the two validations, shelf first.
ReturnLoad(r, u, l, shelf, ev) ==
    /\ At(r, "idle")
    /\ l \in Issued
    /\ LET q == [Idle EXCEPT !.user = u, !.loan = l]
       IN \/ ~Owned(l, u) /\ Refuse(r, "not_found")
          \/ /\ Owned(l, u) /\ loans[l].returned
             /\ Reply(r, q, "returned")
          \/ /\ Owned(l, u) /\ ~loans[l].returned
             /\ \/ /\ shelf = "wrong_code"
                   /\ Refuse(r, "invalid_shelf_code")
                \/ /\ shelf # "wrong_code" /\ WrongBook(ev, loans[l].book)
                   /\ Refuse(r, "wrong_book")
                \/ /\ shelf # "wrong_code" /\ ~WrongBook(ev, loans[l].book)
                   /\ Go(r, [q EXCEPT !.shelfOk = (shelf = "scan"),
                                      !.bookOk = (ev.method = "scan")],
                         "complete_return")
    /\ UNCHANGED <<books, loans>>

\* CompleteReturn: the row only while it is open and the reader's own.
ReturnComplete(r) ==
    LET l == req[r].loan
        matches == Owned(l, req[r].user) /\ Open(l)
    IN /\ At(r, "complete_return")
       /\ \/ /\ matches
             /\ loans' = [loans EXCEPT ![l].returned = TRUE,
                                       ![l].shelfOk = req[r].shelfOk,
                                       ![l].bookOk = req[r].bookOk]
             /\ Reply(r, req[r], "returned")
          \/ /\ ~matches
             /\ Go(r, req[r], "reload_return")
             /\ UNCHANGED loans
       /\ UNCHANGED books

\* No row matched: reload.  A row still open would fall through to the 200
\* that presents the row of the first read.
ReturnReload(r) ==
    LET l == req[r].loan
        u == req[r].user
    IN /\ At(r, "reload_return")
       /\ \/ Owned(l, u) /\ loans[l].returned /\ Reply(r, req[r], "returned")
          \/ Owned(l, u) /\ ~loans[l].returned /\ Reply(r, req[r], "unreturned_ok")
          \/ ~Owned(l, u) /\ Refuse(r, "500_reload")
       /\ UNCHANGED <<books, loans>>

-----------------------------------------------------------------------------
(* setReturnReason.                                                        *)

\* Mutant: the UPDATE without "AND return_reason IS NULL".
ReasonOverwrite(r, u, l, reason) ==
    LET matches == Owned(l, u) /\ loans[l].returned
        q == [Idle EXCEPT !.user = u, !.loan = l, !.reason = reason,
                          !.hit = matches]
    IN /\ At(r, "idle")
       /\ l \in Issued
       /\ loans' = IF matches THEN [loans EXCEPT ![l].reason = reason] ELSE loans
       /\ Go(r, q, "reload_reason")
       /\ UNCHANGED books

\* SetReturnReason: once, and only on the reader's own returned loan.
ReasonSet(r, u, l, reason) ==
    LET matches == Owned(l, u) /\ loans[l].returned /\ loans[l].reason = None
        q == [Idle EXCEPT !.user = u, !.loan = l, !.reason = reason,
                          !.hit = matches]
    IN /\ At(r, "idle")
       /\ l \in Issued
       /\ loans' = IF matches THEN [loans EXCEPT ![l].reason = reason] ELSE loans
       /\ Go(r, q, "reload_reason")
       /\ UNCHANGED books

\* Mutant: a reason saved before is taken for this one.
ReasonReloadAnySaved(r) ==
    /\ At(r, "reload_reason")
    /\ Owned(req[r].loan, req[r].user) /\ loans[req[r].loan].returned
    /\ Reply(r, req[r], "reason_saved")
    /\ UNCHANGED <<books, loans>>

\* The reload that tells the outcomes apart; "finished" goes on to the counts.
ReasonReload(r) ==
    LET l == req[r].loan
        u == req[r].user
        refused == ~req[r].hit /\ loans[l].reason # req[r].reason
    IN /\ At(r, "reload_reason")
       /\ \/ ~Owned(l, u) /\ Refuse(r, "not_found")
          \/ Owned(l, u) /\ ~loans[l].returned /\ Refuse(r, "loan_not_returned")
          \/ /\ Owned(l, u) /\ loans[l].returned
             /\ \/ refused /\ Reply(r, req[r], "return_reason_set")
                \/ /\ ~refused /\ req[r].reason # "finished"
                   /\ Reply(r, req[r], "reason_saved")
                \/ /\ ~refused /\ req[r].reason = "finished"
                   /\ Go(r, req[r], "count_class")
       /\ UNCHANGED <<books, loans>>

\* Mutant: adds the book at hand to a count that has it already.
CountClassPlusOwn(r) ==
    /\ At(r, "count_class")
    /\ Go(r, [req[r] EXCEPT !.classCount = Cardinality(Finished) + 1], "count_reader")
    /\ UNCHANGED <<books, loans>>

\* CountFinishedBooks.
ReasonCountClass(r) ==
    /\ At(r, "count_class")
    /\ Go(r, [req[r] EXCEPT !.classCount = Cardinality(Finished)], "count_reader")
    /\ UNCHANGED <<books, loans>>

\* Mutant: "has finished a book" instead of "has finished one book".
CountReaderAtLeastOne(r) ==
    /\ At(r, "count_reader")
    /\ Reply(r, [req[r] EXCEPT !.firstBook = (FinishedBy(req[r].user) # {})],
             "celebrated")
    /\ UNCHANGED <<books, loans>>

\* CountFinishedBooksForUser and the celebration.
ReasonCountReader(r) ==
    /\ At(r, "count_reader")
    /\ Reply(r, [req[r] EXCEPT
                   !.firstBook = (Cardinality(FinishedBy(req[r].user)) = 1)],
             "celebrated")
    /\ UNCHANGED <<books, loans>>

-----------------------------------------------------------------------------
(* The teacher's handlers.  One that is a single statement and keeps no    *)
(* answer anyone reads later takes no slot.                                *)

\* Bound: MaxExtensions.
ExtendAdminLoan(l) ==
    /\ Open(l)
    /\ loans[l].weeks < MaxExtensions
    /\ loans' = [loans EXCEPT ![l].weeks = @ + 1]
    /\ UNCHANGED <<books, req>>

\* Mutant: a teacher's return that leaves the scan flags NULL.
AdminClosedWithoutFlags(row) ==
    [row EXCEPT !.returned = TRUE, !.byAdmin = TRUE, !.reviewed = TRUE]

\* CompleteAdminReturn: neither scan counts, and nothing is left to review.
AdminClosed(row) ==
    [row EXCEPT !.returned = TRUE, !.shelfOk = FALSE, !.bookOk = FALSE,
                !.byAdmin = TRUE, !.reviewed = TRUE]

CompleteAdminReturn(l) ==
    /\ Open(l)
    /\ loans' = [loans EXCEPT ![l] = AdminClosed(@)]
    /\ UNCHANGED <<books, req>>

\* The transaction that closes the loan and marks its book lost commits only
\* when the book was not lost already: otherwise 409 and a rollback.
MarkAdminLoanLost(l) ==
    /\ Open(l)
    /\ ~books[loans[l].book].isLost
    /\ loans' = [loans EXCEPT ![l] = AdminClosed(@)]
    /\ books' = [books EXCEPT ![loans[l].book].isLost = TRUE]
    /\ UNCHANGED req

\* extend, return or lost matched no open loan; the state is read afterwards.
AdminMiss(r, l) ==
    /\ At(r, "idle")
    /\ l \in Issued /\ ~Open(l)
    /\ Go(r, [Idle EXCEPT !.loan = l], "loan_state")
    /\ UNCHANGED <<books, loans>>

\* writeAdminLoanClosedOrMissing: any row at all is answered as closed.
AdminLoanState(r) ==
    /\ At(r, "loan_state")
    /\ Reply(r, req[r], IF req[r].loan \in Issued THEN "loan_closed" ELSE "not_found")
    /\ UNCHANGED <<books, loans>>

ReviewAdminLoanScan(l) ==
    /\ l \in Issued
    /\ Flagged(loans[l])
    /\ loans' = [loans EXCEPT ![l].reviewed = TRUE]
    /\ UNCHANGED <<books, req>>

MarkAdminBookFound(b) ==
    /\ Present(b)
    /\ books' = [books EXCEPT ![b].isLost = FALSE]
    /\ UNCHANGED <<loans, req>>

SetBookActive(b, active) ==
    /\ Present(b)
    /\ books' = [books EXCEPT ![b].isActive = active]
    /\ UNCHANGED <<loans, req>>

\* books_isbn_key refuses an ISBN another row has.
CreateBook(b, i) ==
    /\ books[b].state = "unused"
    /\ ~IsbnTaken(i)
    /\ books' = [books EXCEPT ![b] = [Unused EXCEPT !.state = "present", !.isbn = i]]
    /\ UNCHANGED <<loans, req>>

UpdateBook(b, i) ==
    /\ Present(b)
    /\ books[b].isbn = i \/ ~IsbnTaken(i)
    /\ books' = [books EXCEPT ![b].isbn = i]
    /\ UNCHANGED <<loans, req>>

\* Mutant: only a book that is out is protected.
DeleteBookNotOut(b) ==
    /\ Present(b)
    /\ OpenOfBook(b) = {}
    /\ books' = [books EXCEPT ![b] = [Unused EXCEPT !.state = "deleted"]]
    /\ UNCHANGED <<loans, req>>

\* loans_book_id_fkey has no CASCADE: a book with any loan stays.
DeleteBook(b) ==
    /\ Present(b)
    /\ \A l \in Issued : loans[l].book # b
    /\ books' = [books EXCEPT ![b] = [Unused EXCEPT !.state = "deleted"]]
    /\ UNCHANGED <<loans, req>>

-----------------------------------------------------------------------------
Init ==
    /\ books = [b \in Books |-> Unused]
    /\ loans = [l \in LoanIds |-> None]
    /\ req = [r \in Requests |-> Idle]

StudentStep(r) ==
    \/ \E u \in Students, i \in Isbns : BorrowFindBook(r, u, i)
    \/ BorrowFindOpenLoan(r)
    \/ BorrowInsert(r)
    \/ BorrowBookTaken(r)
    \/ BorrowUserBusy(r)
    \/ BorrowLoadLimitBook(r)
    \/ \E u \in Students, l \in LoanIds, s \in ShelfEvidence : ShelfCheck(r, u, l, s)
    \/ \E u \in Students, l \in LoanIds, s \in ShelfEvidence, ev \in BookEvidence :
         ReturnLoad(r, u, l, s, ev)
    \/ ReturnComplete(r)
    \/ ReturnReload(r)
    \/ \E u \in Students, l \in LoanIds, reason \in Reasons : ReasonSet(r, u, l, reason)
    \/ ReasonReload(r)
    \/ ReasonCountClass(r)
    \/ ReasonCountReader(r)

TeacherLoanStep(l) ==
    \/ ExtendAdminLoan(l)
    \/ CompleteAdminReturn(l)
    \/ MarkAdminLoanLost(l)
    \/ ReviewAdminLoanScan(l)

TeacherBookStep(b) ==
    \/ MarkAdminBookFound(b)
    \/ \E active \in BOOLEAN : SetBookActive(b, active)
    \/ \E i \in Isbns \cup {None} : CreateBook(b, i) \/ UpdateBook(b, i)
    \/ DeleteBook(b)

Next ==
    \/ \E r \in Requests : StudentStep(r)
    \/ \E r \in Requests : Leave(r)
    \/ \E r \in Requests, l \in LoanIds : AdminMiss(r, l)
    \/ \E r \in Requests : AdminLoanState(r)
    \/ \E l \in LoanIds : TeacherLoanStep(l)
    \/ \E b \in Books : TeacherBookStep(b)

Spec == Init /\ [][Next]_vars
-----------------------------------------------------------------------------
(* What the loan desk promises.                                            *)

\* Every variable has its type: the tables hold rows of their schema, and a
\* request names users, books and loans of its own kind.
TypeOK ==
    /\ books \in [Books -> Book]
    /\ loans \in [LoanIds -> Loan \cup {None}]
    /\ req \in [Requests -> Request]

\* A book is out to one student and a student has one book, whatever order the
\* statements of concurrent borrows, returns and teacher's closes come in.
OneOpenLoan ==
    \A l, m \in LoanIds :
        Open(l) /\ Open(m) /\ l # m =>
            loans[l].book # loans[m].book /\ loans[l].user # loans[m].user

\* Every loan's book is in the catalogue, so the counters and the history never
\* lose a row to deleteBook, not even to one that races a borrow.
LoansKeepTheirBook ==
    \A l \in Issued : Present(loans[l].book)

\* The CHECKs of table loans, and what CompleteAdminReturn adds to them.
RowAllowed(row) ==
    /\ row.returned <=> row.shelfOk # None
    /\ row.returned <=> row.bookOk # None
    /\ row.reason # None => row.returned
    /\ row.reviewed => Flagged(row)
    /\ row.byAdmin => row.returned /\ row.reviewed

\* No statement ever trips a CHECK of table loans (which would be a 500): scan
\* flags exactly on returned loans, a reason only on those, a review only of a
\* flagged return; and a loan the teacher closed is not left in the queue.
RowChecks == \A l \in Issued : RowAllowed(loans[l])

\* A successful borrow, first or repeated, answers with the asker's own loan of
\* the very book that was scanned, and a refusal over the limit names another
\* book: the branches after a lost race look rows up again and must not mix
\* them up.
BorrowAnswersTrue ==
    \A r \in Requests :
        LET q == req[r]
        IN /\ q.reply \in {"borrowed", "already_yours"} =>
                Owned(q.loan, q.user) /\ loans[q.loan].book = q.book
           /\ q.reply = "loan_limit" =>
                Owned(q.loan, q.user) /\ loans[q.loan].book # q.book

\* Whoever is told that a loan is over can rely on it: the loan is returned
\* then and stays returned, and a reason reported as saved is the one stored.
CloseAnswersTrue ==
    \A r \in Requests :
        LET q == req[r]
        IN /\ q.reply \in {"returned", "already_returned", "reason_saved",
                           "celebrated", "loan_closed"} =>
                q.loan \in Issued /\ loans[q.loan].returned
           /\ q.reply \in {"reason_saved", "celebrated"} =>
                loans[q.loan].reason = q.reason

\* The branches the handlers keep for states they do not expect are never
\* taken: a 200 for a return that did not happen, a loan that vanished between
\* two reads, a limit loan without its book.
NoUnexpectedBranch ==
    \A r \in Requests :
        req[r].reply \notin {"unreturned_ok", "500_reload", "500_limit_book"}

\* A celebration counts at least the reader's own book and never more than the
\* class has finished since, although it reads after the update, unlocked.
CelebrationCounts ==
    \A r \in Requests :
        req[r].reply = "celebrated" =>
            req[r].classCount \in 1 .. Cardinality(Finished)

\* "Your first book" is said about one loan of a student only, even when two
\* loans are marked finished at the same time.
FirstBookOnce ==
    \A r, s \in Requests :
        req[r].firstBook /\ req[s].firstBook /\ req[r].user = req[s].user =>
            req[r].loan = req[s].loan

\* What every later state of a row still has of an earlier one.
Keeps(new, old) ==
    /\ new.book = old.book /\ new.user = old.user
    /\ old.returned =>
         /\ new.returned /\ new.weeks = old.weeks
         /\ new.shelfOk = old.shelfOk /\ new.bookOk = old.bookOk
         /\ new.byAdmin = old.byAdmin
    /\ old.reason # None => new.reason = old.reason
    /\ old.reviewed => new.reviewed

\* No step rewrites history: a row stays, with its book and reader; a returned
\* loan stays returned with its scan flags, its due date and who closed it; a
\* reason is stored once; a review is not undone.
HistoryIsKept ==
    [][\A l \in Issued : loans'[l] # None /\ Keeps(loans'[l], loans[l])]_vars

\* A loan is closed by its own reader's return request or by the teacher, never
\* by another student's request that names its id.
ClosedByOwnerOrTeacher ==
    [][\A l \in LoanIds : Open(l) /\ loans'[l].returned =>
          \/ loans'[l].byAdmin
          \/ \E r \in Requests :
               /\ req[r].loan = l /\ req[r].user = loans[l].user
               /\ req'[r].reply = "returned"]_vars

\* TestBorrowBookRejectsLostBook and migration 00008 ("cannot be borrowed"):
\* a loan is never opened on a lost or inactive book.
OnlyAvailableBooksAreLent ==
    [][\A l \in LoanIds : loans[l] = None /\ loans'[l] # None =>
          LET b == books[loans'[l].book]
          IN ~b.isLost /\ b.isActive]_vars
-----------------------------------------------------------------------------
(* The tables seen as Lending's state.                                     *)

HolderOf(b) ==
    IF OpenOfBook(b) = {} THEN None
    ELSE loans[CHOOSE l \in OpenOfBook(b) : TRUE].user

Desk == INSTANCE Lending WITH
    catalogue <- {b \in Books : Present(b)},
    lost <- {b \in Books : books[b].isLost},
    shown <- {b \in Books : Present(b) /\ books[b].isActive},
    lent <- {loans[l].book : l \in Issued},
    holder <- [b \in Books |-> HolderOf(b)]

\* The rows and the interleaved statements implement the library: every change
\* of who has what is one whole borrow, return, loss or catalogue edit.
ImplementsLending == Desk!LendingSpec
============================================================================
