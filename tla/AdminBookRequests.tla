-------------------------- MODULE AdminBookRequests --------------------------
(***************************************************************************)
(* The teacher's page of book requests: a request is marked as bought, the *)
(* mark is taken back, the request is deleted.  Only the row whose call    *)
(* was sent last is locked, and an answer is written into the list as it   *)
(* was when its call was sent.                                             *)
(***************************************************************************)
EXTENDS Browser

CONSTANTS RequestIds

VARIABLES
    requests,   \* table book_requests
    page,       \* the state of component AdminBookRequests
    behind,     \* history: requests of which the page has not been told all
    overlapped  \* history: a call was sent before another was answered

vars == <<requests, page, behind, overlapped, calls, faults, changes>>

\* None is a request that has been deleted.
Marks == {"open", "purchased", None}

Shown == [RequestIds -> Marks]

Page == [open: BOOLEAN, requests: Shown \cup {None}, count: Nat \cup {None},
         confirmation: RequestIds \cup {None}, busy: RequestIds \cup {None}]

NoPage == [open |-> FALSE, requests |-> None, count |-> None, confirmation |-> None,
           busy |-> None]

CountOpen(list) == Cardinality({r \in RequestIds : list[r] = "open"})

-----------------------------------------------------------------------------
(* The teacher.                                                            *)

OnPage == UNCHANGED <<requests, faults, changes, behind, overlapped>>

OpenPage ==
    /\ ~page.open
    /\ Cardinality(calls) + 2 <= MaxCalls
    /\ page' = [NoPage EXCEPT !.open = TRUE]
    /\ calls' = calls \cup {Request("list", None, None), Request("stats", None, None)}
    /\ behind' = {} /\ overlapped' = FALSE
    /\ UNCHANGED <<requests, faults, changes>>

Leave ==
    /\ page.open
    /\ page' = NoPage /\ calls' = Abandoned
    /\ OnPage

\* Promise.all: nothing is shown until both answers are there.
Loaded == page.requests # None /\ page.count # None

Listed(r) == Loaded /\ page.requests[r] # None

\* The call carries the list of this moment.
Mutate(op, r, mark) ==
    /\ page' = [page EXCEPT !.busy = r]
    /\ Send(op, r, [mark |-> mark, seen |-> page.requests])
    /\ overlapped' = (overlapped \/ Waiting("mark") \cup Waiting("delete") # {})
    /\ UNCHANGED <<requests, faults, changes, behind>>

TogglePurchased(r) ==
    /\ Listed(r) /\ page.busy # r
    /\ Mutate("mark", r, IF page.requests[r] = "open" THEN "purchased" ELSE "open")

Confirm(r) ==
    /\ Listed(r) /\ page.confirmation # r
    /\ page' = [page EXCEPT !.confirmation = r] /\ UNCHANGED calls
    /\ OnPage

CancelConfirmation ==
    /\ page.confirmation # None /\ page.busy # page.confirmation
    /\ page' = [page EXCEPT !.confirmation = None] /\ UNCHANGED calls
    /\ OnPage

RemoveRequest ==
    /\ page.confirmation # None /\ page.busy # page.confirmation
    /\ Listed(page.confirmation)
    /\ Mutate("delete", page.confirmation, None)

-----------------------------------------------------------------------------
(* The server.                                                             *)

Load(c) ==
    /\ \/ c.op = "list" /\ NoChange(c, "ok", requests)
       \/ c.op = "stats" /\ NoChange(c, "ok", CountOpen(requests))
    /\ UNCHANGED <<requests, behind>>

Update(c, mark) ==
    IF requests[c.id] = None
    THEN NoChange(c, "refused", None) /\ UNCHANGED <<requests, behind>>
    ELSE /\ Change(c, None)
         /\ requests' = [requests EXCEPT ![c.id] = mark]
         /\ behind' = behind \cup (IF c.to = "gone" THEN {c.id} ELSE {})

SetPurchased(c) == c.op = "mark" /\ Update(c, c.arg.mark)

\* Mutant: a deleted request is only marked as bought.
DeleteRequestSoftly(c) == c.op = "delete" /\ Update(c, "purchased")

DeleteRequest(c) == c.op = "delete" /\ Update(c, None)

Serve(c) ==
    /\ c.answer = "none"
    /\ \/ Load(c) \/ SetPurchased(c) \/ DeleteRequest(c)
       \/ c.op \in {"mark", "delete"} /\ Overloaded(c) /\ UNCHANGED <<requests, behind>>
    /\ UNCHANGED <<page, faults, overlapped>>

Lose(c) ==
    /\ Fail(c)
    /\ behind' = behind \cup
         (IF c.answer = "ok" /\ c.op \in {"mark", "delete"} THEN {c.id} ELSE {})
    /\ UNCHANGED <<requests, page, overlapped>>

-----------------------------------------------------------------------------
(* The answers arrive.                                                     *)

Refused(c) == c.answer \in {"refused", "failed"}

LoadArrives(c) ==
    /\ c.op \in {"list", "stats"}
    /\ page' = IF Refused(c) THEN page
               ELSE IF c.op = "list" THEN [page EXCEPT !.requests = c.data]
               ELSE [page EXCEPT !.count = c.data]

\* Mutant: the counter is left as it was.
UpdatedUncounted(c) == [page EXCEPT !.requests = [c.arg.seen EXCEPT ![c.id] = c.arg.mark]]

\* update: the list that the call carried takes the place of the one shown.
Updated(c) ==
    LET next == [c.arg.seen EXCEPT ![c.id] = c.arg.mark]
    IN [page EXCEPT !.requests = next, !.count = CountOpen(next)]

MutationArrives(c) ==
    /\ c.op \in {"mark", "delete"}
    /\ page' = IF Refused(c) THEN [page EXCEPT !.busy = None]
               ELSE [Updated(c) EXCEPT
                      !.confirmation = IF c.op = "delete" THEN None ELSE @,
                      !.busy = None]

Arrive(c) ==
    /\ c.answer # "none"
    /\ LoadArrives(c) \/ MutationArrives(c)
    /\ Heard(c)
    /\ OnPage

-----------------------------------------------------------------------------
Init ==
    /\ requests \in [RequestIds -> {"open", "purchased"}]
    /\ page = NoPage
    /\ behind = {} /\ overlapped = FALSE
    /\ calls = {} /\ faults = 0 /\ changes = 0

Next ==
    \/ OpenPage \/ Leave \/ CancelConfirmation \/ RemoveRequest
    \/ \E r \in RequestIds : TogglePurchased(r) \/ Confirm(r)
    \/ \E c \in calls : Serve(c) \/ Arrive(c) \/ Lose(c)

Spec == Init /\ [][Next]_vars

-----------------------------------------------------------------------------
(* Properties.                                                             *)

TypeOK ==
    /\ requests \in Shown /\ page \in Page
    /\ behind \subseteq RequestIds /\ overlapped \in BOOLEAN
    /\ faults \in 0 .. MaxFaults /\ changes \in 0 .. MaxChanges

\* The page ends with the rows and marks of the table, if each call was
\* answered before the next was sent.
RowsTrue ==
    Loaded /\ calls = {} /\ ~overlapped =>
      \A r \in RequestIds \ behind : page.requests[r] = requests[r]

\* The counter agrees with the rows that are shown.
CounterTrue == Loaded /\ behind = {} => page.count = CountOpen(page.requests)

\* A row stays as the teacher has left it until the next visit, however
\* quickly the next one is clicked.
RowsStayUntilNextVisit ==
    Loaded /\ calls = {} =>
      \A r \in RequestIds \ behind : page.requests[r] = requests[r]
=============================================================================
