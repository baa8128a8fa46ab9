----------------------------- MODULE TeacherPages -----------------------------
(***************************************************************************)
(* The teacher's part of the application: one of its pages, with the table *)
(* it works on, under one connection.  A section is entered by its own     *)
(* address; what the teacher does and the server answers there is in the   *)
(* section's module.                                                       *)
(***************************************************************************)
EXTENDS Browser

CONSTANTS
    Ids,        \* of students, loans, books, requests
    Others,     \* Ids that are treated differently: books with a history
    Values,     \* names, ISBNs
    Value,      \* the only ISBN where two would be too many
    Blank, Typed, Chosen

VARIABLES
    section,    \* of /admin
    table,      \* what the section shows and changes
    page,
    behind,     \* history, of the section: see its module
    again,
    made,
    scanned

vars == <<section, table, page, behind, again, made, scanned, calls, faults, changes>>

Users == INSTANCE AdminUsers WITH Students <- Ids, Names <- Values, users <- table

Loans == INSTANCE AdminLoans WITH LoanIds <- Ids, loans <- table

Lost == INSTANCE AdminLost WITH Books <- Ids, MaxCalls <- 3, MaxChanges <- 3, lost <- table

Requests == INSTANCE AdminBookRequests WITH
    RequestIds <- Ids, requests <- table, overlapped <- again

Catalogue == INSTANCE AdminBooks WITH
    Books <- Ids \cup Others, Kept <- Others, MaxChanges <- 1, books <- table

\* The form is entered three times: to save without an ISBN, while calls
\* fail; to look one ISBN up and to save; to look up and to scan two.
Saving == INSTANCE AdminBookForm WITH
    Books <- Ids, ISBNs <- {}, MaxLookups <- 0, books <- table

LookingUp == INSTANCE AdminBookForm WITH
    Books <- {Value}, ISBNs <- {Value}, MaxLookups <- 1, MaxFaults <- 0, MaxChanges <- 1,
    books <- table

Scanning == INSTANCE AdminBookForm WITH
    Books <- {Value}, ISBNs <- Values, MaxLookups <- 2, MaxFaults <- 0, MaxChanges <- 0,
    books <- table

\* The tables are finite, and null is none of what is stored, listed or counted.
ASSUME TeacherPagesAssumption ==
    /\ IsFiniteSet(Ids) /\ IsFiniteSet(Others)
    /\ None \notin Ids \cup Others \cup Values \cup Nat
    /\ None \notin Loans!Stats \cup Loans!List \cup Seq(Users!User)
    /\ None \notin {"open", "purchased"} \cup Requests!Shown
    /\ \A found \in SUBSET Ids : found # None
    /\ None \notin [action: Loans!Closing, id: Ids]
    /\ None \notin [op: Users!Actions \cup {"create", "rename"}, id: Ids \cup {None}]
    /\ None \notin Saving!Book \cup LookingUp!Book \cup Scanning!Book
    /\ {None, "elsewhere", "new"} \cap (Ids \cup {Value}) = {}

-----------------------------------------------------------------------------
NoForm == made = {} /\ scanned = None

Init ==
    \/ section = "users" /\ Users!Init /\ again = FALSE /\ NoForm
    \/ section = "loans" /\ Loans!Init /\ again = FALSE /\ NoForm
    \/ section = "lost" /\ Lost!Init /\ NoForm
    \/ section = "requests" /\ Requests!Init /\ NoForm
    \/ section = "books" /\ Catalogue!Init /\ again = FALSE /\ NoForm
    \/ section = "saving" /\ Saving!Init /\ again = FALSE
    \/ section = "looking up" /\ LookingUp!Init /\ again = FALSE
    \/ section = "scanning" /\ Scanning!Init /\ again = FALSE

Plain == UNCHANGED <<again, made, scanned>>

Next ==
    /\ \/ section = "users" /\ Users!Next /\ Plain
       \/ section = "loans" /\ Loans!Next /\ Plain
       \/ section = "lost" /\ Lost!Next /\ UNCHANGED <<made, scanned>>
       \/ section = "requests" /\ Requests!Next /\ UNCHANGED <<made, scanned>>
       \/ section = "books" /\ Catalogue!Next /\ Plain
       \/ section = "saving" /\ Saving!Next /\ UNCHANGED again
       \/ section = "looking up" /\ LookingUp!Next /\ UNCHANGED again
       \/ section = "scanning" /\ Scanning!Next /\ UNCHANGED again
    /\ UNCHANGED section

Spec == Init /\ [][Next]_vars

-----------------------------------------------------------------------------
(* Properties: those of the sections, under one name where they say the    *)
(* same.                                                                   *)

\* State, history and calls of each section are of their types.
TypeOK ==
    /\ section = "users" => Users!TypeOK
    /\ section = "loans" => Loans!TypeOK
    /\ section = "lost" => Lost!TypeOK
    /\ section = "requests" => Requests!TypeOK
    /\ section = "books" => Catalogue!TypeOK
    /\ section = "saving" => Saving!TypeOK
    /\ section = "looking up" => LookingUp!TypeOK
    /\ section = "scanning" => Scanning!TypeOK

\* Once all is answered, the rows of a page are those of the table, although
\* the page has read them only when it was opened and writes every answer into
\* them itself; and the code the teacher is to pass on is the student's code.
\* Except for rows of which an answer was lost or came to a page that was left
\* (behind), and for requests of which two calls were out at once.  An order
\* names every book, the hidden ones too.
RowsTrue ==
    /\ section = "users" => Users!RowsTrue /\ Users!IssuedCodeWorks
    /\ section = "loans" => Loans!RowsTrue
    /\ section = "lost" => Lost!RowsTrue
    /\ section = "requests" => Requests!RowsTrue
    /\ section = "books" => Catalogue!RowsTrue /\ Catalogue!OrderIsWhole

\* The form shows the book as it is stored, if no two of its calls were out at
\* once; a scan is not mixed with what was looked up before it; and a form that
\* is submitted again after its cover has failed makes no second book.
FormTrue ==
    /\ section = "saving" => Saving!BookTrue /\ Saving!OneBookPerForm
    /\ section = "looking up" => LookingUp!BookTrue /\ LookingUp!ScannedStays
    /\ section = "scanning" => Scanning!BookTrue /\ Scanning!ScannedStays

\* The counters, which are read apart from the rows and counted by hand from
\* then on, agree with them, with the same exceptions and that of a lost book
\* confirmed as found twice at once.
CountersTrue ==
    /\ section = "loans" => Loans!CountersTrue
    /\ section = "lost" => Lost!CounterTrue
    /\ section = "requests" => Requests!CounterTrue
    /\ section = "books" => Catalogue!CounterTrue

\* What is locked waits for a call whose answer unlocks it: no page is locked
\* for ever.  And the locks of the loans let one call through for each.
LocksHaveTheirCalls ==
    /\ section = "users" => Users!LockHasItsCall
    /\ section = "loans" => Loans!LocksHaveTheirCalls /\ Loans!OneCallPerLoan
    /\ section = "saving" => Saving!LocksHaveTheirCalls
    /\ section = "looking up" => LookingUp!LocksHaveTheirCalls
    /\ section = "scanning" => Scanning!LocksHaveTheirCalls
=============================================================================
