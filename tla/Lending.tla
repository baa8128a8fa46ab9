------------------------------ MODULE Lending ------------------------------
(***************************************************************************)
(* What the school library promises, without requests, statements or rows: *)
(* who has which book.  Loans implements it.                               *)
(***************************************************************************)
CONSTANTS Students, Books, None

VARIABLES
    catalogue,  \* the books the library owns
    lost,       \* those reported lost
    shown,      \* those offered to students
    lent,       \* those that were ever lent
    holder      \* who has each book now

lendingVars == <<catalogue, lost, shown, lent, holder>>

LendingInit ==
    /\ catalogue = {} /\ lost = {} /\ shown = {} /\ lent = {}
    /\ holder = [b \in Books |-> None]

HasNothing(u) == \A b \in Books : holder[b] # u

Add(b) ==
    /\ b \notin catalogue
    /\ catalogue' = catalogue \cup {b}
    /\ shown' = shown \cup {b}
    /\ UNCHANGED <<lost, lent, holder>>

\* Only a book without history may go.
Remove(b) ==
    /\ b \in catalogue /\ b \notin lent
    /\ catalogue' = catalogue \ {b}
    /\ lost' = lost \ {b}
    /\ shown' = shown \ {b}
    /\ UNCHANGED <<lent, holder>>

\* A free book goes to a student without one.  That the book is neither lost
\* nor hidden is what the desk intends and does not promise: see
\* OnlyAvailableBooksAreLent in Loans.
Take(u, b) ==
    /\ b \in catalogue /\ holder[b] = None /\ HasNothing(u)
    /\ holder' = [holder EXCEPT ![b] = u]
    /\ lent' = lent \cup {b}
    /\ UNCHANGED <<catalogue, lost, shown>>

GiveBack(b) ==
    /\ holder[b] # None
    /\ holder' = [holder EXCEPT ![b] = None]
    /\ UNCHANGED <<catalogue, lost, shown, lent>>

\* A held book is given up as lost: both happen or neither does.
Lose(b) ==
    /\ holder[b] # None /\ b \notin lost
    /\ holder' = [holder EXCEPT ![b] = None]
    /\ lost' = lost \cup {b}
    /\ UNCHANGED <<catalogue, shown, lent>>

Find(b) ==
    /\ b \in catalogue
    /\ lost' = lost \ {b}
    /\ UNCHANGED <<catalogue, shown, lent, holder>>

Show(b) ==
    /\ b \in catalogue
    /\ shown' \in {shown \cup {b}, shown \ {b}}
    /\ UNCHANGED <<catalogue, lost, lent, holder>>

LendingNext ==
    \E b \in Books :
        \/ Add(b) \/ Remove(b) \/ GiveBack(b) \/ Lose(b) \/ Find(b) \/ Show(b)
        \/ \E u \in Students : Take(u, b)

LendingSpec == LendingInit /\ [][LendingNext]_lendingVars
============================================================================
