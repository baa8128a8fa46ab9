------------------------------- MODULE Browser -------------------------------
(***************************************************************************)
(* What the pages of the browser have in common: a page sends calls and    *)
(* goes on; the server answers them in any order; an answer is lost, or    *)
(* comes when the page has been left.  A call carries what the handler is  *)
(* told and, once answered, what the page is told.                         *)
(***************************************************************************)
EXTENDS Naturals, FiniteSets, Sequences

CONSTANTS
    None,       \* null
    MaxCalls,   \* bound on calls in flight
    MaxFaults,  \* bound on calls that fail
    MaxChanges  \* bound on the changes the server makes; then it answers 5xx

ASSUME BrowserAssumption ==
    MaxCalls \in Nat /\ MaxFaults \in Nat /\ MaxChanges \in Nat

VARIABLES
    calls,
    faults,     \* how many calls have failed
    changes     \* how many changes the server has made

\* "page": the page that sent it waits for it; "left": the page has been left,
\* and what it was to do afterwards is still done; "gone": nobody waits.
Request(op, id, arg) ==
    [op |-> op, id |-> id, arg |-> arg, to |-> "page", answer |-> "none", data |-> None]

\* Bound: of two calls that are alike the server sees the first before the
\* second is sent.
Send(op, id, arg) ==
    /\ Cardinality(calls) < MaxCalls
    /\ Request(op, id, arg) \notin calls
    /\ calls' = calls \cup {Request(op, id, arg)}

Waiting(op) == {c \in calls : c.op = op /\ c.to = "page"}

\* The page is left: what the server has not seen yet it may still see.
Abandoned == {[c EXCEPT !.to = "gone"] : c \in {d \in calls : d.answer = "none"}}

\* The handler's answer; nobody hears it when the page has gone.
Reply(c, answer, data) ==
    calls' = (calls \ {c}) \cup
      (IF c.to = "gone" THEN {} ELSE {[c EXCEPT !.answer = answer, !.data = data]})

Change(c, data) == changes < MaxChanges /\ changes' = changes + 1 /\ Reply(c, "ok", data)

NoChange(c, answer, data) == Reply(c, answer, data) /\ UNCHANGED changes

Overloaded(c) == changes = MaxChanges /\ NoChange(c, "failed", None)

\* No connection or a 5xx, before the handler has run, after it, or with the
\* request still under way.
Fail(c) ==
    /\ faults < MaxFaults /\ faults' = faults + 1
    /\ UNCHANGED changes
    /\ c.to # "gone" /\ c.answer # "failed"
    /\ LET failed == [c EXCEPT !.answer = "failed", !.data = None]
       IN \/ calls' = (calls \ {c}) \cup {failed}
          \/ /\ c.answer = "none"
             /\ calls' = (calls \ {c}) \cup {failed, [c EXCEPT !.to = "gone"]}

\* The answer has been taken in.
Heard(c) == calls' = calls \ {c}
=============================================================================
