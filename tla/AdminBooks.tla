------------------------------ MODULE AdminBooks ------------------------------
(***************************************************************************)
(* The teacher's page of the catalogue: books are dragged into order and   *)
(* deleted.  A new order is shown at once and taken back if the server     *)
(* refuses it, which it does when its books are not those of the table.    *)
(***************************************************************************)
EXTENDS Browser, SequencesExt

CONSTANTS
    Books,
    Kept        \* books with a history, which cannot be deleted

VARIABLES
    books,      \* table books: ids by ord
    page,       \* the state of component AdminBooks
    behind      \* history: books of which the page has not been told all

vars == <<books, page, behind, calls, faults, changes>>

\* "ids" is the order asked for, "previous" what is shown if it is refused.
Order == [ids: Seq(Books), previous: Seq(Books)]

Page == [open: BOOLEAN, books: Seq(Books) \cup {None}, count: Nat \cup {None},
         pendingDelete: Books \cup {None}, dragged: Books \cup {None},
         savingOrder: BOOLEAN]

NoPage == [open |-> FALSE, books |-> None, count |-> None, pendingDelete |-> None,
           dragged |-> None, savingOrder |-> FALSE]

-----------------------------------------------------------------------------
(* The teacher.                                                            *)

OnPage == UNCHANGED <<books, faults, changes, behind>>

Turn(p) == page' = p /\ UNCHANGED calls

OpenPage ==
    /\ ~page.open
    /\ Cardinality(calls) + 2 <= MaxCalls
    /\ page' = [NoPage EXCEPT !.open = TRUE]
    /\ calls' = calls \cup {Request("list", None, None), Request("stats", None, None)}
    /\ behind' = {}
    /\ UNCHANGED <<books, faults, changes>>

Leave ==
    /\ page.open
    /\ page' = NoPage /\ calls' = Abandoned
    /\ OnPage

\* Promise.all: nothing is shown until both answers are there.
Loaded == page.books # None /\ page.count # None

Shown == IF Loaded THEN Range(page.books) ELSE {}

DragStart(b) ==
    /\ b \in Shown /\ ~page.savingOrder
    /\ Turn([page EXCEPT !.dragged = b])
    /\ OnPage

DragEnd ==
    /\ page.dragged # None
    /\ Turn([page EXCEPT !.dragged = None])
    /\ OnPage

\* splice: the dragged book takes the place of the target.
Moved(list, dragged, target) ==
    InsertAt(Remove(list, dragged),
             CHOOSE i \in DOMAIN list : list[i] = target, dragged)

\* Mutant: the books that the filter hides are forgotten.
VisibleOnly(list, visible, dragged, target) ==
    LET shown == SelectSeq(list, LAMBDA b : b \in visible)
    IN IF dragged \in visible THEN Moved(shown, dragged, target) ELSE list

\* Books that the filter hides keep their places.
ReorderFilteredBooks(list, visible, dragged, target) ==
    LET shown == SelectSeq(list, LAMBDA b : b \in visible)
        moved == Moved(shown, dragged, target)
        Nth(i) == Cardinality({j \in 1 .. i : list[j] \in visible})
    IN IF dragged \notin visible THEN list
       ELSE [i \in DOMAIN list |-> IF list[i] \in visible THEN moved[Nth(i)] ELSE list[i]]

DropBook(target, visible) ==
    /\ page.dragged \notin {None, target} /\ ~page.savingOrder
    /\ target \in visible
    /\ page.dragged \in Shown => page.dragged \in visible
    /\ LET next == ReorderFilteredBooks(page.books, visible, page.dragged, target)
       IN /\ page' = [page EXCEPT !.books = next, !.dragged = None, !.savingOrder = TRUE]
          /\ Send("order", None, [ids |-> next, previous |-> page.books])
    /\ OnPage

AskToDelete(b) ==
    /\ b \in Shown /\ page.pendingDelete # b
    /\ Turn([page EXCEPT !.pendingDelete = b])
    /\ OnPage

\* "Cancel", or another filter.
CancelDelete ==
    /\ page.pendingDelete # None
    /\ Turn([page EXCEPT !.pendingDelete = None])
    /\ OnPage

\* The button is not locked while its call is under way.
RemoveBook ==
    /\ page.pendingDelete \in Shown
    /\ Send("delete", page.pendingDelete, None)
    /\ UNCHANGED page
    /\ OnPage

-----------------------------------------------------------------------------
(* The server.                                                             *)

OffPage == UNCHANGED <<page, faults>>

Load(c) ==
    /\ \/ c.op = "list" /\ NoChange(c, "ok", books)
       \/ c.op = "stats" /\ NoChange(c, "ok", Len(books))
    /\ UNCHANGED <<books, behind>>

Unheard(ids) == behind' = behind \cup ids

Refuse(c) == NoChange(c, "refused", None) /\ UNCHANGED <<books, behind>>

ReorderBooks(c) ==
    /\ c.op = "order"
    /\ IF IsInjective(c.arg.ids) /\ Range(c.arg.ids) = Range(books)
       THEN /\ Change(c, None)
            /\ books' = c.arg.ids
            /\ Unheard(IF c.to = "gone" THEN Books ELSE {})
       ELSE Refuse(c)

DeleteBook(c) ==
    /\ c.op = "delete"
    /\ IF c.id \in Range(books) \ Kept
       THEN /\ Change(c, None)
            /\ books' = Remove(books, c.id)
            /\ Unheard(IF c.to = "gone" THEN {c.id} ELSE {})
       ELSE Refuse(c)

Serve(c) ==
    /\ c.answer = "none"
    /\ \/ Load(c) \/ ReorderBooks(c) \/ DeleteBook(c)
       \/ c.op \in {"order", "delete"} /\ Overloaded(c) /\ UNCHANGED <<books, behind>>
    /\ OffPage

\* Another teacher adds a book.
Elsewhere ==
    /\ changes < MaxChanges /\ changes' = changes + 1
    /\ \E b \in Books \ Range(books) : books' = Append(books, b) /\ Unheard({b})
    /\ UNCHANGED calls /\ OffPage

Lose(c) ==
    /\ Fail(c)
    /\ Unheard(IF c.answer # "ok" THEN {}
               ELSE CASE c.op = "order"  -> Books
                      [] c.op = "delete" -> {c.id}
                      [] OTHER           -> {})
    /\ UNCHANGED <<books, page>>

-----------------------------------------------------------------------------
(* The answers arrive.                                                     *)

Refused(c) == c.answer \in {"refused", "failed"}

LoadArrives(c) ==
    /\ c.op \in {"list", "stats"}
    /\ page' = IF Refused(c) THEN page
               ELSE IF c.op = "list" THEN [page EXCEPT !.books = c.data]
               ELSE [page EXCEPT !.count = c.data]
    /\ UNCHANGED behind

\* Mutant: the refused order stays on the screen.
OrderArrivesKept(c) ==
    /\ c.op = "order"
    /\ page' = [page EXCEPT !.savingOrder = FALSE]
    /\ UNCHANGED behind

\* What has been deleted since the order was sent is shown again.
OrderArrives(c) ==
    /\ c.op = "order"
    /\ IF Refused(c)
       THEN /\ page' = [page EXCEPT !.books = c.arg.previous, !.savingOrder = FALSE]
            /\ Unheard(Range(c.arg.previous) \ Range(page.books))
       ELSE page' = [page EXCEPT !.savingOrder = FALSE] /\ UNCHANGED behind

\* Mutant: the counter is forgotten.
DeleteArrivesUncounted(c) ==
    /\ c.op = "delete"
    /\ page' = IF Refused(c) THEN page
               ELSE [page EXCEPT !.books = SelectSeq(@, LAMBDA b : b # c.id),
                                 !.pendingDelete = None]
    /\ UNCHANGED behind

DeleteArrives(c) ==
    /\ c.op = "delete"
    /\ page' = IF Refused(c) THEN page
               ELSE [page EXCEPT !.books = SelectSeq(@, LAMBDA b : b # c.id),
                                 !.count = IF @ = 0 THEN 0 ELSE @ - 1,
                                 !.pendingDelete = None]
    /\ UNCHANGED behind

Arrive(c) ==
    /\ c.answer # "none"
    /\ LoadArrives(c) \/ OrderArrives(c) \/ DeleteArrives(c)
    /\ Heard(c)
    /\ UNCHANGED <<books, faults, changes>>

-----------------------------------------------------------------------------
Init ==
    /\ books \in SetToSeqs(Books) \cup {Remove(s, b) : s \in SetToSeqs(Books), b \in Books}
    /\ page = NoPage
    /\ behind = {}
    /\ calls = {} /\ faults = 0 /\ changes = 0

Teacher ==
    \/ OpenPage \/ Leave \/ DragEnd \/ CancelDelete \/ RemoveBook
    \/ \E b \in Books : DragStart(b) \/ AskToDelete(b)
    \/ \E visible \in SUBSET Shown : \E target \in visible : DropBook(target, visible)

Next ==
    \/ Teacher
    \/ \E c \in calls : Serve(c) \/ Arrive(c) \/ Lose(c)
    \/ Elsewhere

Spec == Init /\ [][Next]_vars

-----------------------------------------------------------------------------
(* Properties.                                                             *)

TypeOK ==
    /\ books \in Seq(Books) /\ IsInjective(books) /\ page \in Page
    /\ behind \subseteq Books
    /\ \A c \in calls : c.op = "order" => c.arg \in Order
    /\ faults \in 0 .. MaxFaults /\ changes \in 0 .. MaxChanges

Known(list) == SelectSeq(list, LAMBDA b : b \notin behind)

\* Whatever was dragged and deleted meanwhile, whatever was refused, the page
\* ends with the books and the order of the table.
RowsTrue == Loaded /\ calls = {} => Known(page.books) = Known(books)

\* The counter, which is a second read and is kept by hand, agrees with it.
CounterTrue == Loaded /\ calls = {} /\ behind = {} => page.count = Len(books)

\* An order names every book that was shown, hidden by the filter or not, once.
OrderIsWhole ==
    \A c \in calls : c.op = "order" =>
      IsInjective(c.arg.ids) /\ Range(c.arg.ids) = Range(c.arg.previous)
=============================================================================
