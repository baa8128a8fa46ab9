------------------------------ MODULE AdminLost ------------------------------
(***************************************************************************)
(* The teacher's page of lost books: a book that has turned up goes back   *)
(* into the catalogue.  Only the row that was confirmed last is locked.    *)
(***************************************************************************)
EXTENDS Browser

CONSTANTS Books

VARIABLES
    lost,       \* the books of table books with is_lost
    page,       \* the state of component AdminLost
    behind,     \* history: books of which the page has not been told all
    again       \* history: a book was confirmed before it was answered for

vars == <<lost, page, behind, again, calls, faults, changes>>

Page == [open: BOOLEAN, books: (SUBSET Books) \cup {None}, count: Nat \cup {None},
         confirmation: Books \cup {None}, busy: Books \cup {None}]

NoPage == [open |-> FALSE, books |-> None, count |-> None, confirmation |-> None,
           busy |-> None]

-----------------------------------------------------------------------------
(* The teacher.                                                            *)

OnPage == UNCHANGED <<lost, faults, changes, behind, again>>

Turn(p) == page' = p /\ UNCHANGED calls

OpenPage ==
    /\ ~page.open
    /\ Cardinality(calls) + 2 <= MaxCalls
    /\ page' = [NoPage EXCEPT !.open = TRUE]
    /\ calls' = calls \cup {Request("list", None, None), Request("stats", None, None)}
    /\ behind' = {} /\ again' = FALSE
    /\ UNCHANGED <<lost, faults, changes>>

Leave ==
    /\ page.open
    /\ page' = NoPage /\ calls' = Abandoned
    /\ OnPage

\* Promise.all: nothing is shown until both answers are there.
Loaded == page.books # None /\ page.count # None

Confirm(b) ==
    /\ Loaded /\ b \in page.books /\ page.confirmation # b
    /\ Turn([page EXCEPT !.confirmation = b])
    /\ OnPage

CancelConfirmation ==
    /\ page.confirmation # None /\ page.busy # page.confirmation
    /\ Turn([page EXCEPT !.confirmation = None])
    /\ OnPage

\* Mutant: the button is not locked.
FoundUnlocked ==
    /\ page.confirmation # None /\ page.confirmation \in page.books
    /\ page' = [page EXCEPT !.busy = page.confirmation]
    /\ Send("found", page.confirmation, None)
    /\ UNCHANGED <<lost, faults, changes, behind, again>>

\* Another book's confirmation takes the lock away from a call under way.
Found ==
    /\ page.confirmation # None /\ page.confirmation \in page.books
    /\ page.busy # page.confirmation
    /\ page' = [page EXCEPT !.busy = page.confirmation]
    /\ Send("found", page.confirmation, None)
    /\ again' = (again \/ \E c \in Waiting("found") : c.id = page.confirmation)
    /\ UNCHANGED <<lost, faults, changes, behind>>

-----------------------------------------------------------------------------
(* The server.                                                             *)

Load(c) ==
    /\ \/ c.op = "list" /\ NoChange(c, "ok", lost)
       \/ c.op = "stats" /\ NoChange(c, "ok", Cardinality(lost))
    /\ UNCHANGED <<lost, behind>>

\* A book that is not lost is found as well.
MarkFound(c) ==
    /\ c.op = "found"
    /\ Change(c, None)
    /\ lost' = lost \ {c.id}
    /\ behind' = behind \cup (IF c.to = "gone" THEN {c.id} ELSE {})

Serve(c) ==
    /\ c.answer = "none"
    /\ \/ Load(c) \/ MarkFound(c)
       \/ c.op = "found" /\ Overloaded(c) /\ UNCHANGED <<lost, behind>>
    /\ UNCHANGED <<page, faults, again>>

\* On the page of loans, in another tab.
MarkLost(b) ==
    /\ changes < MaxChanges /\ changes' = changes + 1
    /\ b \notin lost /\ lost' = lost \cup {b}
    /\ behind' = behind \cup {b}
    /\ UNCHANGED <<page, calls, faults, again>>

Lose(c) ==
    /\ Fail(c)
    /\ behind' = behind \cup (IF c.answer = "ok" /\ c.op = "found" THEN {c.id} ELSE {})
    /\ UNCHANGED <<lost, page, again>>

-----------------------------------------------------------------------------
(* The answers arrive.                                                     *)

Refused(c) == c.answer \in {"refused", "failed"}

LoadArrives(c) ==
    /\ c.op \in {"list", "stats"}
    /\ page' = IF Refused(c) THEN page
               ELSE IF c.op = "list" THEN [page EXCEPT !.books = c.data]
               ELSE [page EXCEPT !.count = c.data]

\* Mutant: the row that waits for an answer is taken off, not the answered one.
FoundArrivesForTheLast(c) ==
    /\ c.op = "found"
    /\ page' = IF Refused(c) THEN [page EXCEPT !.busy = None]
               ELSE [page EXCEPT !.books = @ \ {page.busy},
                                 !.count = IF @ = 0 THEN 0 ELSE @ - 1,
                                 !.confirmation = None, !.busy = None]

\* Mutant: the counter is not kept from going below zero.
FoundArrivesBelowZero(c) ==
    /\ c.op = "found"
    /\ page' = IF Refused(c) THEN [page EXCEPT !.busy = None]
               ELSE [page EXCEPT !.books = @ \ {c.id}, !.count = @ - 1,
                                 !.confirmation = None, !.busy = None]

FoundArrives(c) ==
    /\ c.op = "found"
    /\ page' = IF Refused(c) THEN [page EXCEPT !.busy = None]
               ELSE [page EXCEPT !.books = @ \ {c.id},
                                 !.count = IF @ = 0 THEN 0 ELSE @ - 1,
                                 !.confirmation = None, !.busy = None]

Arrive(c) ==
    /\ c.answer # "none"
    /\ LoadArrives(c) \/ FoundArrives(c)
    /\ Heard(c)
    /\ OnPage

-----------------------------------------------------------------------------
Init ==
    /\ lost \in SUBSET Books
    /\ page = NoPage
    /\ behind = {} /\ again = FALSE
    /\ calls = {} /\ faults = 0 /\ changes = 0

Next ==
    \/ OpenPage \/ Leave \/ CancelConfirmation \/ Found
    \/ \E b \in Books : Confirm(b) \/ MarkLost(b)
    \/ \E c \in calls : Serve(c) \/ Arrive(c) \/ Lose(c)

Spec == Init /\ [][Next]_vars

-----------------------------------------------------------------------------
(* Properties.                                                             *)

TypeOK ==
    /\ lost \subseteq Books /\ page \in Page
    /\ behind \subseteq Books /\ again \in BOOLEAN
    /\ faults \in 0 .. MaxFaults /\ changes \in 0 .. MaxChanges

\* However many rows are under way together, the page ends with the lost books.
RowsTrue ==
    Loaded /\ calls = {} =>
      \A b \in Books \ behind : b \in page.books <=> b \in lost

\* The counter agrees with the rows, unless a book was confirmed again before
\* its answer came: each answer is counted.
CounterTrue ==
    Loaded /\ calls = {} /\ behind = {} /\ ~again => page.count = Cardinality(lost)
=============================================================================
