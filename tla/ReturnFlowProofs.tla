-------------------------- MODULE ReturnFlowProofs --------------------------
(***************************************************************************)
(* Proofs about ReturnFlow, for any number of students, loans, codes,      *)
(* sessions, calls in flight and failures: what the page tells the student *)
(* about the return and its reason is true.                                *)
(***************************************************************************)
EXTENDS ReturnFlow, TLAPS

\* The types of the variables.
Typed ==
    /\ loans \in [Loans -> Loan] /\ sessions \in [Tokens -> Session]
    /\ shelfCode \in Codes /\ cookie \in Tokens \cup {None}
    /\ me \in Students \cup {None, "unknown"} /\ asking \in BOOLEAN
    /\ path \in {"return", "other"} /\ link \in Codes \cup {None}
    /\ resume \in {"return", None} /\ stored \in PendingReason \cup {None}
    /\ page \in Page /\ calls \subseteq Call
    /\ faults \in 0 .. MaxFaults
    /\ told \subseteq PendingReason

\* The page is on the screen of a student who is known, at its own address;
\* while GET /me is out nobody is known.
ShellOK ==
    /\ page.phase # "none" => path = "return" /\ me \in Students
    /\ asking => me \notin Students

\* Screens that come after the answer to the first call.
LoanShown == {"shelf-camera", "book-camera", "book-manual", "confirm", "returning",
              "return-error", "reason", "saving-reason", "celebration"}

\* Every screen has what it shows and what its buttons send, also where
\* "Back" or the answer to a return leads from it.
ScreenOK ==
    /\ page.phase \in LoanShown => page.loan # None
    /\ page.phase \in {"book-camera", "book-manual"} => page.shelf # None
    /\ page.phase \in {"confirm", "return-error", "returning"} =>
         /\ page.evidence # None
         /\ page.evidence.method # "skipped" => page.shelf # None
    /\ page.phase = "confirm" =>
         /\ page.back \in {"shelf-camera", "book-camera", "book-manual"}
         /\ page.back # "shelf-camera" => page.shelf # None

\* What a call carries, and what its answer means for good.
CallOK(c) ==
    /\ c.op = "current" /\ c.answer = "ok" => c.loan \in Loans
    /\ c.op = "shelf" => c.loan \in Loans /\ c.arg \in Codes
    /\ c.op = "return" =>
         /\ c.loan \in Loans /\ c.arg \in Evidence
         /\ c.answer = "ok" => loans[c.loan].state = "returned"
         /\ c.answer = "wrong_book" => c.arg.method # "skipped"
    /\ c.op \in {"choose", "replay"} =>
         /\ c.loan \in Loans /\ c.arg \in Reasons
         /\ c.answer \in {"ok", "celebrate"} =>
              loans[c.loan].state = "returned" /\ loans[c.loan].reason = c.arg

\* The page that waits for a call is the one that has sent it, and waits for
\* no other.
AwaitedOK(c) ==
    /\ c.op \in {"current", "replay"} => page.phase = "loading"
    /\ c.op = "shelf" => page.phase \in {"loading", "shelf-camera"} /\ page.loan = c.loan
    /\ c.op = "return" => /\ page.phase = "returning" /\ page.loan = c.loan
                          /\ page.evidence = c.arg
    /\ c.op = "choose" => page.phase = "saving-reason" /\ page.loan = c.loan

Awaited(S) == {c \in S : c.to = "page"}

CallsOK ==
    /\ \A c \in calls : CallOK(c)
    /\ \A c \in Awaited(calls) : AwaitedOK(c)
    /\ \A c, d \in Awaited(calls) : c = d

Sound == Typed /\ ShellOK /\ ScreenOK /\ CallsOK /\ ToldReturned /\ SavedIsSaved

-----------------------------------------------------------------------------
(* What lasts: a loan that is returned stays so, and a reason that is on   *)
(* record is not replaced.                                                 *)

LoansGrow ==
    /\ loans' \in [Loans -> Loan]
    /\ \A l \in Loans :
         /\ loans[l].state = "returned" => loans'[l].state = "returned"
         /\ loans[l].reason # None => loans'[l].reason = loans[l].reason

LEMMA CallKept ==
  ASSUME LoansGrow, NEW c, CallOK(c)
  PROVE  CallOK(c)'
  <1>1. None \notin Reasons
    BY ReturnFlowAssumption
  <1> QED
    BY <1>1 DEF LoansGrow, CallOK

LEMMA SavedKept ==
  ASSUME LoansGrow, Typed, SavedIsSaved, UNCHANGED told
  PROVE  SavedIsSaved'
  <1>1. \A choice \in told : choice.loan \in Loans /\ choice.reason # None
    BY ReturnFlowAssumption DEF Typed, PendingReason
  <1> QED
    BY <1>1 DEF LoansGrow, SavedIsSaved

-----------------------------------------------------------------------------
(* What becomes of the calls.                                              *)

\* d is call c, to whom it goes and how it is answered apart.
Same(d, c) == d.op = c.op /\ d.token = c.token /\ d.loan = c.loan /\ d.arg = c.arg

LEMMA CallsUnmounted ==
  ASSUME NEW S \in SUBSET Call
  PROVE  \A T \in {Unmounted(S), Abandoned(S)} :
           \A d \in T : /\ d \in Call /\ d.to # "page"
                        /\ \E c \in S : Same(d, c) /\ d.answer = c.answer
  BY DEF Unmounted, Abandoned, Call, Listeners, Same

\* Nobody on the screen waits any more.
LEMMA NoneAwaited ==
  ASSUME CallsOK, LoansGrow,
         \A d \in calls' : /\ d \in Call /\ d.to # "page"
                           /\ \E c \in calls : Same(d, c) /\ d.answer = c.answer
  PROVE  CallsOK' /\ calls' \subseteq Call
  <1>1. \A c \in calls : CallOK(c)'
    BY CallKept DEF CallsOK
  <1>2. \A d \in calls' : CallOK(d)'
    BY <1>1 DEF CallOK, Same
  <1> QED
    BY <1>2 DEF CallsOK, Awaited

\* A call is answered, or its connection breaks; the page does not know yet.
LEMMA CallReplaced ==
  ASSUME Typed, CallsOK, LoansGrow, UNCHANGED page, NEW c \in calls,
         NEW T \in SUBSET Call, calls' = (calls \ {c}) \cup T,
         \A d \in T : /\ d.op = c.op /\ d.arg = c.arg
                      /\ d.op = "current" \/ d.loan = c.loan
                      /\ d.to = "page" => c.to = "page"
                      /\ CallOK(d)',
         \A d, e \in T : d.to = "page" /\ e.to = "page" => d = e
  PROVE  CallsOK' /\ calls' \subseteq Call
  <1>1. \A d \in calls : CallOK(d)'
    BY CallKept DEF CallsOK
  <1>2. \A d \in Awaited(calls') : AwaitedOK(d)'
    BY DEF CallsOK, Awaited, AwaitedOK
  <1>3. \A d, e \in Awaited(calls') : d = e
    BY DEF CallsOK, Awaited
  <1> QED
    BY <1>1, <1>2, <1>3 DEF CallsOK, Typed

\* The answer has arrived.
LEMMA CallHeard ==
  ASSUME Typed, CallsOK, UNCHANGED loans, NEW c \in calls, calls' = calls \ {c},
         c.to = "page" \/ page' = page
  PROVE  CallsOK' /\ calls' \subseteq Call
  <1>1. \A d \in calls' : CallOK(d)'
    BY DEF CallsOK, CallOK
  <1>2. \A d \in Awaited(calls)' : AwaitedOK(d)'
    BY DEF CallsOK, Awaited, AwaitedOK
  <1> QED
    BY <1>1, <1>2 DEF CallsOK, Awaited, Typed

\* The page sends a call while it waits for none.
LEMMA CallSent ==
  ASSUME Typed, CallsOK, UNCHANGED loans, NEW c \in Call, c.to = "page",
         c.answer = "none", NEW S \in SUBSET calls, Awaited(S) = {},
         calls' = S \cup {c}, CallOK(c), AwaitedOK(c)'
  PROVE  CallsOK' /\ calls' \subseteq Call
  <1>1. \A d \in calls' : CallOK(d)'
    BY DEF CallsOK, CallOK
  <1>2. \A d \in Awaited(calls)' : d = c
    BY DEF Awaited
  <1> QED
    BY <1>1, <1>2 DEF CallsOK, Awaited, Typed

\* A page waits only on the screens that say so.
LEMMA Quiet ==
  ASSUME CallsOK, Typed
  PROVE  /\ page.phase \notin {"loading", "shelf-camera", "returning", "saving-reason"} =>
              Awaited(calls) = {}
         /\ page.phase = "shelf-camera" /\ ~Checking => Awaited(calls) = {}
  BY DEF CallsOK, Typed, AwaitedOK, Awaited, Call, Checking

-----------------------------------------------------------------------------
(* The student and the shell.                                              *)

LEMMA Requested ==
  ASSUME Typed, NEW op \in {"current", "shelf", "return", "choose", "replay"},
         NEW loan \in Loans \cup {None}, NEW arg \in Codes \cup Evidence \cup Reasons \cup {None}
  PROVE  LET c == Request(op, loan, arg)
         IN /\ c \in Call /\ c.to = "page" /\ c.answer = "none"
            /\ c.op = op /\ c.loan = loan /\ c.arg = arg
  BY DEF Typed, Request, Call, Listeners, Answers

LEMMA Loaded ==
  ASSUME Typed, CallsOK, UNCHANGED loans, Awaited(calls) = {},
         NEW p \in Page, p.phase = "loading", Load(p)
  PROVE  CallsOK' /\ calls' \subseteq Call /\ page' = p
  <1>1. PICK op \in {"current", "replay"}, loan \in Loans \cup {None}, arg \in Reasons \cup {None} :
          /\ calls' = calls \cup {Request(op, loan, arg)}
          /\ op = "replay" => loan \in Loans /\ arg \in Reasons
    BY DEF Load, Page, PendingReason
  <1> DEFINE c == Request(op, loan, arg)
  <1>2. /\ c \in Call /\ c.to = "page" /\ c.answer = "none"
        /\ c.op = op /\ c.loan = loan /\ c.arg = arg
    BY Requested
  <1>3. \A d \in Call : d = c => CallOK(d) /\ AwaitedOK(d)'
    BY <1>1, <1>2 DEF CallOK, AwaitedOK, Load
  <1> HIDE DEF c
  <1> QED
    BY <1>1, <1>2, <1>3, CallSent DEF Load, c

\* A call of the screen that the student is looking at.
LEMMA ScreenSends ==
  ASSUME Typed, CallsOK, UNCHANGED loans, Awaited(calls) = {}, NEW p \in Page,
         NEW op \in {"shelf", "return", "choose"}, NEW arg, p.loan = page.loan,
         page.loan # None,
         \/ op = "shelf" /\ arg \in Codes /\ p.phase = "shelf-camera"
         \/ op = "return" /\ arg \in Evidence /\ p.phase = "returning" /\ p.evidence = arg
         \/ op = "choose" /\ arg \in Reasons /\ p.phase = "saving-reason",
         Send(p, op, page.loan, arg)
  PROVE  CallsOK' /\ calls' \subseteq Call /\ page' = p
  <1> DEFINE c == Request(op, page.loan, arg)
  <1>1. page.loan \in Loans
    BY DEF Typed, Page
  <1>2. /\ c \in Call /\ c.to = "page" /\ c.answer = "none"
        /\ c.op = op /\ c.loan = page.loan /\ c.arg = arg
    <2>1. /\ op \in {"current", "shelf", "return", "choose", "replay"}
          /\ arg \in Codes \cup Evidence \cup Reasons \cup {None}
      OBVIOUS
    <2> QED
      BY <1>1, <2>1, Requested
  <1>3. \A d \in Call : d = c => CallOK(d) /\ AwaitedOK(d)'
    BY <1>1, <1>2 DEF CallOK, AwaitedOK, Send
  <1> HIDE DEF c
  <1> QED
    BY <1>2, <1>3, CallSent DEF Send, c

LEMMA StudentSound ==
  ASSUME Sound, Student
  PROVE  Sound'
  <1> USE ReturnFlowAssumption
  <1>0. Typed /\ ShellOK /\ ScreenOK /\ CallsOK /\ ToldReturned /\ SavedIsSaved /\ page \in Page
    BY DEF Sound, Typed
  <1>1. UNCHANGED <<loans, told>>
    BY DEF Student, Retry, SwitchInput, OpenConfirmation, Back, Confirm, Leave, CheckShelf,
           ShowBook, ChooseReason, Visit, OnPage, server, history, CloseLoan
  <1>2. LoansGrow /\ SavedIsSaved'
    BY <1>0, <1>1, SavedKept DEF LoansGrow, Typed
  <1>3. CASE Retry
    <2> DEFINE p == [page EXCEPT !.phase = "loading"]
    <2>1. p \in Page /\ p.phase = "loading" /\ Load(p) /\ OnPage /\ Awaited(calls) = {}
          /\ page.phase # "none"
      BY <1>0, <1>3, Quiet DEF Page, Phases, Retry
    <2> HIDE DEF p
    <2>2. CallsOK' /\ calls' \subseteq Call /\ page' = p
      BY <1>0, <1>1, <2>1, Loaded
    <2> QED
      BY <1>0, <1>1, <1>2, <2>1, <2>2
         DEF Sound, Typed, ShellOK, ScreenOK, LoanShown, ToldReturned, OnPage, server, shell,
             storage, history
  <1>4. ASSUME NEW code \in Codes, CheckShelf(code)
        PROVE  Sound'
    <2>1. /\ page.phase = "shelf-camera" /\ Send(page, "shelf", page.loan, code) /\ OnPage
          /\ Awaited(calls) = {} /\ page.loan # None
      BY <1>0, <1>4, Quiet DEF CheckShelf, ScreenOK, LoanShown
    <2>2. CallsOK' /\ calls' \subseteq Call /\ page' = page
      BY <1>0, <1>1, <2>1, ScreenSends
    <2> QED
      BY <1>0, <1>1, <1>2, <2>1, <2>2
         DEF Sound, Typed, ShellOK, ScreenOK, LoanShown, ToldReturned, OnPage, server, shell,
             storage, history
  <1>5. ASSUME NEW e \in Evidence, CloseLoan(e), OnPage, e # None,
               page.phase \in {"book-camera", "book-manual", "confirm", "return-error"},
               e.method # "skipped" => page.shelf # None
        PROVE  Sound'
    <2> DEFINE p == [page EXCEPT !.evidence = e, !.phase = "returning"]
    <2>1. /\ p \in Page /\ p.phase = "returning" /\ p.evidence = e /\ p.loan = page.loan
          /\ p.shelf = page.shelf
          /\ Send(p, "return", page.loan, e)
          /\ Awaited(calls) = {} /\ page.loan # None
      BY <1>0, <1>5, Quiet DEF Page, Phases, CloseLoan, ScreenOK, LoanShown
    <2> HIDE DEF p
    <2>2. CallsOK' /\ calls' \subseteq Call /\ page' = p
      BY <1>0, <1>1, <2>1, ScreenSends
    <2> QED
      BY <1>0, <1>1, <1>2, <1>5, <2>1, <2>2
         DEF Sound, Typed, ShellOK, ScreenOK, LoanShown, ToldReturned, OnPage, server, shell,
             storage, history
  <1>6. ASSUME NEW right \in BOOLEAN, ShowBook(right)
        PROVE  Sound'
    <2> DEFINE e == [shelf |-> page.shelf, right |-> right,
                     method |-> IF page.phase = "book-manual" THEN "manual" ELSE "scan"]
    <2>1. e \in Evidence
      BY <1>0 DEF Page, Evidence
    <2>2. /\ page.phase \in {"book-camera", "book-manual"} /\ CloseLoan(e) /\ OnPage
          /\ page.shelf # None
      BY <1>0, <1>6 DEF ShowBook, ScreenOK
    <2> HIDE DEF e
    <2> QED
      BY <1>5, <2>1, <2>2
  <1>7. CASE Confirm
    BY <1>0, <1>5, <1>7 DEF Confirm, ScreenOK, Page
  <1>8. ASSUME NEW p \in Page, Turn(p), OnPage, p.loan = page.loan,
               page.phase # "none", Awaited(calls) = {}, p.shelf = page.shelf,
               p.phase \in {"shelf-camera", "book-camera", "book-manual", "confirm"},
               page.phase \in LoanShown,
               p.phase \in {"book-camera", "book-manual"} => page.shelf # None,
               p.phase = "confirm" =>
                 /\ p.evidence # None /\ p.evidence.method = "skipped"
                 /\ p.back \in {"shelf-camera", "book-camera", "book-manual"}
                 /\ p.back # "shelf-camera" => page.shelf # None
        PROVE  Sound'
    <2>1. CallsOK' /\ calls' \subseteq Call /\ page' = p
      BY <1>0, <1>1, <1>8 DEF CallsOK, Turn, CallOK, Awaited, Typed
    <2> QED
      BY <1>0, <1>1, <1>2, <1>8, <2>1
         DEF Sound, Typed, ShellOK, ScreenOK, LoanShown, ToldReturned, OnPage, server, shell,
             storage, history
  <1>9. CASE SwitchInput
    <2> DEFINE p == [page EXCEPT !.phase =
                      IF @ = "book-manual" THEN "book-camera" ELSE "book-manual"]
    <2>1. /\ p \in Page /\ p.loan = page.loan /\ p.shelf = page.shelf
          /\ p.phase \in {"book-camera", "book-manual"}
          /\ page.phase \in {"book-camera", "book-manual"} /\ page.shelf # None
          /\ Turn(p) /\ OnPage
      BY <1>0, <1>9 DEF SwitchInput, Page, Phases, ScreenOK
    <2> HIDE DEF p
    <2> QED
      BY <1>0, <1>8, <2>1, Quiet DEF LoanShown
  <1>10. CASE OpenConfirmation
    <2> DEFINE e == [shelf |-> IF page.phase = "shelf-camera" THEN None ELSE page.shelf,
                     method |-> "skipped", right |-> FALSE]
    <2> DEFINE p == [page EXCEPT !.phase = "confirm", !.back = page.phase, !.evidence = e]
    <2>1. e \in Evidence /\ e # None /\ e.method = "skipped"
      <3>1. page.shelf \in Codes \cup {None}
        BY <1>0 DEF Page
      <3>2. e \in Evidence
        BY <3>1 DEF Evidence
      <3> QED
        BY <3>2
    <2>2. Turn(p) /\ OnPage /\ page.phase \in {"shelf-camera", "book-camera", "book-manual"}
          /\ (page.phase # "shelf-camera" => page.shelf # None) /\ Awaited(calls) = {}
      BY <1>0, <1>10, Quiet DEF OpenConfirmation, ScreenOK
    <2> HIDE DEF e
    <2>3. /\ p \in Page /\ p.loan = page.loan /\ p.shelf = page.shelf
          /\ p.phase = "confirm" /\ p.back = page.phase /\ p.evidence = e
      BY <1>0, <2>1 DEF Page, Phases
    <2> HIDE DEF p
    <2> QED
      BY <1>8, <2>1, <2>2, <2>3 DEF LoanShown
  <1>11. CASE Back
    <2> DEFINE p == [page EXCEPT !.phase = page.back]
    <2>1. /\ p \in Page /\ p.loan = page.loan /\ p.shelf = page.shelf /\ p.phase = page.back
          /\ page.phase = "confirm" /\ Turn(p) /\ OnPage
      BY <1>0, <1>11 DEF Back, Page
    <2> HIDE DEF p
    <2> QED
      BY <1>0, <1>8, <2>1, Quiet DEF ScreenOK, LoanShown
  <1>12. ASSUME NEW reason \in Reasons, ChooseReason(reason)
        PROVE  Sound'
    <2> DEFINE p == [page EXCEPT !.phase = "saving-reason"]
    <2>1. /\ p \in Page /\ p.phase = "saving-reason" /\ p.loan = page.loan
          /\ page.phase = "reason" /\ Send(p, "choose", page.loan, reason)
          /\ Awaited(calls) = {} /\ page.loan # None
      BY <1>0, <1>12, Quiet DEF Page, Phases, ChooseReason, ScreenOK, LoanShown
    <2> HIDE DEF p
    <2>2. CallsOK' /\ calls' \subseteq Call /\ page' = p
      BY <1>0, <1>1, <2>1, ScreenSends
    <2>3. stored' \in PendingReason
      BY <1>0, <1>12, <2>1 DEF ChooseReason, PendingReason, Page
    <2> QED
      BY <1>0, <1>1, <1>2, <1>12, <2>1, <2>2, <2>3
         DEF Sound, Typed, ShellOK, ScreenOK, LoanShown, ToldReturned, ChooseReason, server,
             shell, history
  <1>13. ASSUME NEW shelf \in Codes \cup {None}, Visit(shelf)
        PROVE  Sound'
    <2>0. page.phase = "none" /\ Awaited(calls) = {}
      BY <1>0, <1>13, Quiet DEF Visit, ShellOK
    <2>1. CASE me \in Students
      <3> DEFINE p == [NoPage EXCEPT !.phase = "loading", !.linked = shelf,
                                     !.pending = stored]
      <3>1. p \in Page /\ p.phase = "loading" /\ Load(p)
        BY <1>0, <1>13, <2>1 DEF Visit, NoPage, Page, Phases, Typed
      <3> HIDE DEF p
      <3>2. CallsOK' /\ calls' \subseteq Call /\ page' = p
        BY <1>0, <1>1, <2>0, <3>1, Loaded
      <3> QED
        BY <1>0, <1>1, <1>2, <1>13, <2>1, <3>1, <3>2
           DEF Sound, Typed, ShellOK, ScreenOK, LoanShown, ToldReturned, Visit, server,
               storage, history
    <2>2. CASE me \notin Students
      <3>1. CallsOK'
        BY <1>0, <1>1, <1>13, <2>2 DEF Visit, CallsOK, CallOK, AwaitedOK, Awaited
      <3> QED
        BY <1>0, <1>1, <1>2, <1>13, <2>0, <2>2, <3>1
           DEF Sound, Typed, ShellOK, ScreenOK, LoanShown, ToldReturned, Visit, server,
               storage, history
    <2> QED
      BY <2>1, <2>2
  <1>14. CASE Leave
    <2>1. CallsOK' /\ calls' \subseteq Call
      BY <1>0, <1>2, <1>14, CallsUnmounted, NoneAwaited DEF Leave, Unmount, Typed
    <2> QED
      BY <1>0, <1>1, <1>2, <1>14, <2>1
         DEF Sound, Typed, ShellOK, ScreenOK, LoanShown, ToldReturned, Leave, Unmount, NoPage,
             Page, Phases, server, storage, history
  <1> QED
    BY <1>3, <1>4, <1>6, <1>7, <1>9, <1>10, <1>11, <1>12, <1>13, <1>14 DEF Student

LEMMA ReaderTyped ==
  ASSUME Typed, NEW token \in Tokens \cup {None}
  PROVE  Reader(token) \in Students \cup {None}
  BY DEF Typed, Reader, Session

LEMMA SessionEnded ==
  ASSUME Typed, NEW t \in Tokens
  PROVE  [sessions EXCEPT ![t].live = FALSE] \in [Tokens -> Session]
  <1>1. sessions[t] \in Session /\ [sessions[t] EXCEPT !.live = FALSE] \in Session
    BY DEF Typed, Session
  <1> QED
    BY <1>1 DEF Typed

\* Another document: whoever waited is gone, and the page with him.
LEMMA RestartedSound ==
  ASSUME Sound, Restarted, UNCHANGED <<loans, told>>
  PROVE  /\ LoansGrow /\ SavedIsSaved' /\ CallsOK' /\ calls' \subseteq Call
         /\ ShellOK' /\ ScreenOK' /\ ToldReturned'
         /\ page' \in Page /\ me' = "unknown" /\ asking' = TRUE
  <1>0. Typed /\ CallsOK /\ SavedIsSaved
    BY DEF Sound
  <1>1. LoansGrow /\ SavedIsSaved'
    BY <1>0, SavedKept DEF LoansGrow, Typed
  <1>2. CallsOK' /\ calls' \subseteq Call
    BY <1>0, <1>1, CallsUnmounted, NoneAwaited DEF Restarted, Typed
  <1>3. page' = NoPage /\ page' \in Page
    BY DEF Restarted, NoPage, Page, Phases
  <1> QED
    BY <1>1, <1>2, <1>3, ReturnFlowAssumption
       DEF Restarted, ShellOK, ScreenOK, LoanShown, ToldReturned, NoPage

LEMMA ShellSound ==
  ASSUME Sound, Shell
  PROVE  Sound'
  <1> USE ReturnFlowAssumption
  <1>0. Typed /\ ShellOK /\ ScreenOK /\ CallsOK /\ ToldReturned /\ SavedIsSaved /\ page \in Page
    BY DEF Sound, Typed
  <1>1. UNCHANGED <<loans, told>>
    BY DEF Shell, Identify, Reload, SignOut, SignInByCode, SignInByProvider, server, history
  <1>2. LoansGrow /\ SavedIsSaved'
    BY <1>0, <1>1, SavedKept DEF LoansGrow, Typed
  <1>3. ASSUME NEW s \in Students, NewSession(s)
        PROVE  sessions' \in [Tokens -> Session] /\ cookie' \in Tokens
    BY <1>0, <1>3 DEF NewSession, Typed, Session
  <1>4. ASSUME UNCHANGED <<page, calls>>
        PROVE  CallsOK' /\ ScreenOK' /\ ToldReturned'
    <2>1. \A c \in calls : CallOK(c)'
      BY <1>0, <1>2, CallKept DEF CallsOK
    <2> QED
      BY <1>0, <1>1, <1>4, <2>1 DEF CallsOK, AwaitedOK, Awaited, ScreenOK, ToldReturned
  <1>5. CASE Identify
    <2>0. page.phase = "none" /\ Awaited(calls) = {}
      BY <1>0, <1>5, Quiet DEF Identify, ShellOK
    <2>1. faults' \in 0 .. MaxFaults /\ me' \in Students \cup {None, "unknown"}
      BY <1>0, <1>5, ReaderTyped DEF Identify, Typed
    <2>2. CASE Mount /\ link' = None /\ path = "return" /\ me' = Reader(cookie) /\ me' # None
      <3> DEFINE p == [NoPage EXCEPT !.phase = "loading", !.linked = link,
                                     !.pending = stored]
      <3>1. p \in Page /\ p.phase = "loading" /\ Load(p)
        BY <1>0, <2>2 DEF Mount, NoPage, Page, Phases, Typed
      <3> HIDE DEF p
      <3>2. CallsOK' /\ calls' \subseteq Call /\ page' = p
        BY <1>0, <1>1, <2>0, <3>1, Loaded
      <3>3. me' \in Students
        BY <1>0, <2>2, ReaderTyped DEF Typed
      <3> QED
        BY <1>0, <1>1, <1>2, <1>5, <2>1, <2>2, <3>1, <3>2, <3>3
           DEF Sound, Typed, ShellOK, ScreenOK, LoanShown, ToldReturned, Identify, server,
               storage, history
    <2>3. CASE UNCHANGED <<page, calls, link>>
      BY <1>0, <1>1, <1>2, <1>4, <1>5, <2>0, <2>1, <2>3
         DEF Sound, Typed, ShellOK, Identify, server, storage, history
    <2> QED
      BY <1>5, <2>2, <2>3 DEF Identify
  <1>6. CASE Reload
    BY <1>0, <1>1, <1>6, RestartedSound
       DEF Reload, Sound, Typed, Restarted, server, storage, history
  <1>7. CASE SignOut
    <2>1. sessions' \in [Tokens -> Session] /\ cookie' \in Tokens \cup {None}
      BY <1>0, <1>7, SessionEnded DEF SignOut, Typed
    <2>2. page.phase = "none"
      BY <1>0, <1>7 DEF SignOut, ShellOK
    <2> QED
      BY <1>0, <1>1, <1>2, <1>4, <1>7, <2>1, <2>2
         DEF SignOut, Sound, Typed, ShellOK, storage, history
  <1>8. ASSUME NEW s \in Students, SignInByCode(s)
        PROVE  Sound'
    <2>1. page.phase = "none"
      BY <1>0, <1>8 DEF SignInByCode, ShellOK
    <2> QED
      BY <1>0, <1>1, <1>2, <1>3, <1>4, <1>8, <2>1
         DEF SignInByCode, Sound, Typed, ShellOK, history
  <1>9. ASSUME NEW s \in Students, SignInByProvider(s)
        PROVE  Sound'
    BY <1>0, <1>1, <1>3, <1>9, RestartedSound
       DEF SignInByProvider, Sound, Typed, Restarted, history
  <1> QED
    BY <1>5, <1>6, <1>7, <1>8, <1>9 DEF Shell

-----------------------------------------------------------------------------
(* The server.                                                             *)

LEMMA ServeSound ==
  ASSUME Sound, NEW c \in calls, Serve(c)
  PROVE  Sound'
  <1> USE ReturnFlowAssumption
  <1>0. /\ Typed /\ ShellOK /\ ScreenOK /\ CallsOK /\ ToldReturned /\ SavedIsSaved
        /\ c \in Call /\ CallOK(c)
    BY DEF Sound, Typed, CallsOK
  <1>1. c.answer = "none" /\ OffPage /\ UNCHANGED <<shelfCode, faults, history>>
    BY DEF Serve
  <1>2. ASSUME LoansGrow, NEW d \in Call, Reply(c, d), d.op = c.op, d.arg = c.arg,
               d.to = c.to, d.op = "current" \/ d.loan = c.loan, CallOK(d)'
        PROVE  Sound'
    <2>1. PICK T \in SUBSET Call : calls' = (calls \ {c}) \cup T /\ T \subseteq {d}
      BY <1>2 DEF Reply
    <2>2. CallsOK' /\ calls' \subseteq Call
      BY <1>0, <1>1, <1>2, <2>1, CallReplaced DEF OffPage
    <2>3. page.phase \in LoanShown => page.loan \in Loans
      BY <1>0 DEF ScreenOK, Typed, Page
    <2>4. ToldReturned'
      BY <1>0, <1>1, <1>2, <2>3 DEF ToldReturned, LoansGrow, OffPage, LoanShown
    <2>5. SavedIsSaved'
      BY <1>0, <1>1, <1>2, SavedKept DEF history
    <2> QED
      BY <1>0, <1>1, <1>2, <2>2, <2>4, <2>5
         DEF Sound, Typed, ShellOK, ScreenOK, OffPage, shell, storage, history, LoansGrow
  <1>3. ASSUME NEW answer \in Answers
        PROVE  LET d == [c EXCEPT !.answer = answer]
               IN /\ d \in Call /\ d.op = c.op /\ d.arg = c.arg /\ d.to = c.to
                  /\ d.loan = c.loan /\ d.answer = answer
    BY <1>0 DEF Call
  <1>4. ASSUME UNCHANGED loans
        PROVE  LoansGrow
    BY <1>0, <1>4 DEF LoansGrow, Typed
  <1>5. ASSUME UNCHANGED loans, NEW answer \in Answers, Answer(c, answer),
               answer \notin {"ok", "celebrate", "wrong_book"}
        PROVE  Sound'
    <2> DEFINE d == [c EXCEPT !.answer = answer]
    <2>1. /\ d \in Call /\ d.op = c.op /\ d.arg = c.arg /\ d.to = c.to
          /\ d.loan = c.loan /\ d.answer = answer
      BY <1>3
    <2>2. Reply(c, d)
      BY <1>5 DEF Answer
    <2> HIDE DEF d
    <2>3. CallOK(d)'
      BY <1>0, <1>5, <2>1 DEF CallOK
    <2> QED
      BY <1>2, <1>4, <1>5, <2>1, <2>2, <2>3
  <1>6. CASE CurrentLoan(c)
    <2>1. CASE Answer(c, "no_open_loan")
      BY <1>5, <1>6, <2>1 DEF CurrentLoan, Answers
    <2>2. ASSUME NEW l \in Loans, Reply(c, [c EXCEPT !.answer = "ok", !.loan = l])
          PROVE  Sound'
      <3> DEFINE d == [c EXCEPT !.answer = "ok", !.loan = l]
      <3>1. /\ d \in Call /\ d.op = "current" /\ c.op = "current" /\ d.arg = c.arg
            /\ d.to = c.to /\ d.loan = l
        BY <1>0, <1>6 DEF CurrentLoan, Call, Answers
      <3>2. Reply(c, d)
        BY <2>2
      <3> HIDE DEF d
      <3>3. CallOK(d)'
        BY <3>1 DEF CallOK
      <3> QED
        BY <1>2, <1>4, <1>6, <3>1, <3>2, <3>3 DEF CurrentLoan
    <2> QED
      BY <1>6, <2>1, <2>2 DEF CurrentLoan, OpenLoans
  <1>7. CASE CheckShelfCode(c)
    <2>1. CASE Answer(c, "refused")
      BY <1>5, <1>7, <2>1 DEF CheckShelfCode, Answers
    <2>2. CASE Answer(c, "ok")
      <3> DEFINE d == [c EXCEPT !.answer = "ok"]
      <3>1. /\ d \in Call /\ d.op = c.op /\ d.arg = c.arg /\ d.to = c.to
            /\ d.loan = c.loan /\ d.answer = "ok" /\ c.op = "shelf"
        BY <1>3, <1>7 DEF Answers, CheckShelfCode
      <3>2. Reply(c, d)
        BY <2>2 DEF Answer
      <3> HIDE DEF d
      <3>3. CallOK(d)'
        BY <1>0, <3>1 DEF CallOK
      <3> QED
        BY <1>2, <1>4, <1>7, <3>1, <3>2, <3>3 DEF CheckShelfCode
    <2> QED
      BY <1>7, <2>1, <2>2 DEF CheckShelfCode
  <1>8. CASE ReturnBook(c)
    <2>1. c.op = "return" /\ c.loan \in Loans /\ c.arg \in Evidence /\ loans[c.loan] \in Loan
      BY <1>0, <1>8 DEF ReturnBook, CallOK, Typed
    <2>2. ASSUME Answer(c, "ok"), LoansGrow, loans'[c.loan].state = "returned"
          PROVE  Sound'
      <3> DEFINE d == [c EXCEPT !.answer = "ok"]
      <3>1. /\ d \in Call /\ d.op = c.op /\ d.arg = c.arg /\ d.to = c.to
            /\ d.loan = c.loan /\ d.answer = "ok"
        BY <1>3 DEF Answers
      <3>2. Reply(c, d)
        BY <2>2 DEF Answer
      <3> HIDE DEF d
      <3>3. CallOK(d)'
        BY <2>1, <2>2, <3>1 DEF CallOK
      <3> QED
        BY <1>2, <2>2, <3>1, <3>2, <3>3
    <2>3. CASE Answer(c, "ok") /\ UNCHANGED loans /\ loans[c.loan].state = "returned"
      BY <1>4, <2>2, <2>3
    <2>4. CASE /\ loans[c.loan].state = "open" /\ Answer(c, "ok")
               /\ loans' = [loans EXCEPT ![c.loan].state = "returned"]
      <3>1. loans'[c.loan].state = "returned" /\ LoansGrow
        BY <1>0, <2>1, <2>4 DEF LoansGrow, Typed, Loan
      <3> QED
        BY <2>2, <2>4, <3>1
    <2>5. CASE Answer(c, "wrong_book") /\ UNCHANGED loans /\ c.arg.method # "skipped"
      <3> DEFINE d == [c EXCEPT !.answer = "wrong_book"]
      <3>1. /\ d \in Call /\ d.op = c.op /\ d.arg = c.arg /\ d.to = c.to
            /\ d.loan = c.loan /\ d.answer = "wrong_book"
        BY <1>3 DEF Answers
      <3>2. Reply(c, d)
        BY <2>5 DEF Answer
      <3> HIDE DEF d
      <3>3. CallOK(d)'
        BY <2>1, <2>5, <3>1 DEF CallOK
      <3> QED
        BY <1>2, <1>4, <2>5, <3>1, <3>2, <3>3
    <2>6. CASE (Answer(c, "refused") \/ Answer(c, "invalid_shelf_code")) /\ UNCHANGED loans
      BY <1>5, <2>6 DEF Answers
    <2> QED
      BY <1>8, <2>3, <2>4, <2>5, <2>6 DEF ReturnBook
  <1>9. CASE SetReturnReason(c)
    <2>1. /\ c.op \in {"choose", "replay"} /\ c.loan \in Loans /\ c.arg \in Reasons
          /\ loans[c.loan] \in Loan
      BY <1>0, <1>9 DEF SetReturnReason, CallOK, Typed
    <2>2. CASE Answer(c, "refused") /\ UNCHANGED loans
      BY <1>5, <2>2 DEF Answers
    <2>3. ASSUME NEW answer \in {"ok", "celebrate"}, Answer(c, answer),
                 loans[c.loan].state = "returned", loans[c.loan].reason \in {None, c.arg},
                 loans' = [loans EXCEPT ![c.loan].reason = c.arg]
          PROVE  Sound'
      <3>1. /\ LoansGrow
            /\ loans'[c.loan].state = "returned" /\ loans'[c.loan].reason = c.arg
        BY <1>0, <2>1, <2>3 DEF LoansGrow, Typed, Loan
      <3> DEFINE d == [c EXCEPT !.answer = answer]
      <3>2. /\ d \in Call /\ d.op = c.op /\ d.arg = c.arg /\ d.to = c.to
            /\ d.loan = c.loan /\ d.answer = answer
        BY <1>3 DEF Answers
      <3>3. Reply(c, d)
        BY <2>3 DEF Answer
      <3> HIDE DEF d
      <3>4. CallOK(d)'
        BY <2>1, <3>1, <3>2 DEF CallOK
      <3> QED
        BY <1>2, <3>1, <3>2, <3>3, <3>4
    <2> QED
      BY <1>9, <2>2, <2>3 DEF SetReturnReason
  <1>10. CASE Unauthorized(c)
    BY <1>5, <1>10 DEF Unauthorized, Answers
  <1> QED
    BY <1>6, <1>7, <1>8, <1>9, <1>10 DEF Serve

\* Calls fail, sessions end, the code is changed, and somebody else is at the
\* desk.
LEMMA OutsideSound ==
  ASSUME Sound,
         \/ \E c \in calls : Fail(c)
         \/ ChangeShelfCode
         \/ \E t \in Tokens : Expire(t)
         \/ \E l \in Loans : Elsewhere(l)
  PROVE  Sound'
  <1> USE ReturnFlowAssumption
  <1>0. /\ Typed /\ ShellOK /\ ScreenOK /\ CallsOK /\ ToldReturned /\ SavedIsSaved
    BY DEF Sound
  <1>1. UNCHANGED <<page, shell, storage, history>>
    BY DEF Fail, ChangeShelfCode, Expire, Elsewhere, OffPage
  <1>2. LoansGrow
    <2>1. ASSUME NEW l \in Loans, Elsewhere(l)
          PROVE  LoansGrow
      <3>1. loans[l] \in Loan
        BY <1>0 DEF Typed
      <3>2. PICK loan \in Loan :
              /\ loans' = [loans EXCEPT ![l] = loan]
              /\ loans[l].state = "returned" => loan.state = "returned"
              /\ loans[l].reason # None => loan.reason = loans[l].reason
        <4>1. ASSUME NEW s \in Students, loans[l].state = "unused",
                     loans' = [loans EXCEPT ![l].state = "open", ![l].reader = s]
              PROVE  loans' = [loans EXCEPT ![l] = [loans[l] EXCEPT !.state = "open",
                                                                    !.reader = s]]
          BY <1>0, <4>1 DEF Typed
        <4>2. ASSUME NEW s \in Students, loans[l].state = "unused",
                     loans' = [loans EXCEPT ![l].state = "open", ![l].reader = s]
              PROVE  \E loan \in Loan :
                       /\ loans' = [loans EXCEPT ![l] = loan]
                       /\ loans[l].state = "returned" => loan.state = "returned"
                       /\ loans[l].reason # None => loan.reason = loans[l].reason
          <5> DEFINE loan == [loans[l] EXCEPT !.state = "open", !.reader = s]
          <5>1. loan \in Loan /\ loan.reason = loans[l].reason
            BY <3>1, <4>2 DEF Loan
          <5>2. loans' = [loans EXCEPT ![l] = loan]
            BY <4>1, <4>2
          <5> HIDE DEF loan
          <5> QED
            BY <4>2, <5>1, <5>2
        <4> QED
          BY <1>0, <2>1, <3>1, <4>2 DEF Elsewhere, Typed, Loan
      <3> QED
        BY <1>0, <3>2 DEF LoansGrow, Typed
    <2>2. CASE UNCHANGED loans
      BY <1>0, <2>2 DEF LoansGrow, Typed
    <2> QED
      BY <2>1, <2>2 DEF Fail, ChangeShelfCode, Expire
  <1>3. CallsOK' /\ calls' \subseteq Call
    <2>1. ASSUME NEW c \in calls, Fail(c)
          PROVE  CallsOK' /\ calls' \subseteq Call
      <3> DEFINE failed == [c EXCEPT !.answer = "failed"]
                 unheard == [c EXCEPT !.to = "nobody"]
      <3>1. c \in Call /\ CallOK(c)
        BY <1>0 DEF Typed, CallsOK
      <3>2. /\ failed \in Call /\ Same(failed, c) /\ failed.to = c.to /\ failed.answer = "failed"
            /\ unheard \in Call /\ Same(unheard, c) /\ unheard.to = "nobody"
            /\ unheard.answer = c.answer
        BY <3>1 DEF Call, Listeners, Answers, Same
      <3>3. /\ calls' = (calls \ {c}) \cup {failed} \/ calls' = (calls \ {c}) \cup {failed, unheard}
            /\ UNCHANGED loans
        BY <2>1 DEF Fail
      <3> HIDE DEF failed, unheard
      <3>4. CallOK(failed)' /\ CallOK(unheard)'
        BY <3>1, <3>2, <3>3 DEF CallOK, Same
      <3>5. PICK T \in SUBSET Call :
              calls' = (calls \ {c}) \cup T /\ T \subseteq {failed, unheard}
        <4>1. CASE calls' = (calls \ {c}) \cup {failed}
          <5>1. {failed} \in SUBSET Call /\ {failed} \subseteq {failed, unheard}
            BY <3>2
          <5> QED
            BY <4>1, <5>1
        <4>2. CASE calls' = (calls \ {c}) \cup {failed, unheard}
          <5>1. {failed, unheard} \in SUBSET Call
            BY <3>2
          <5> QED
            BY <4>2, <5>1
        <4> QED
          BY <3>3, <4>1, <4>2
      <3> QED
        BY <1>0, <1>1, <1>2, <3>2, <3>4, <3>5, CallReplaced DEF Same
    <2>2. CASE UNCHANGED calls
      <3>1. \A c \in calls : CallOK(c)'
        BY <1>0, <1>2, CallKept DEF CallsOK
      <3> QED
        BY <1>0, <1>1, <2>2, <3>1 DEF CallsOK, AwaitedOK, Awaited, Typed
    <2> QED
      BY <2>1, <2>2 DEF ChangeShelfCode, Expire, Elsewhere
  <1>4. page.phase \in LoanShown => page.loan \in Loans
    BY <1>0 DEF ScreenOK, Typed, Page
  <1>5. ToldReturned'
    BY <1>0, <1>1, <1>2, <1>4 DEF ToldReturned, LoansGrow, LoanShown
  <1>6. SavedIsSaved'
    BY <1>0, <1>1, <1>2, SavedKept DEF history
  <1>7. /\ sessions' \in [Tokens -> Session] /\ shelfCode' \in Codes
        /\ faults' \in 0 .. MaxFaults
    <2>1. CASE \E c \in calls : Fail(c)
      BY <1>0, <2>1 DEF Typed, Fail, OffPage
    <2>2. CASE ChangeShelfCode
      BY <1>0, <2>2 DEF Typed, ChangeShelfCode, OffPage
    <2>3. CASE \E t \in Tokens : Expire(t)
      BY <1>0, <2>3, SessionEnded DEF Typed, Expire
    <2>4. CASE \E l \in Loans : Elsewhere(l)
      BY <1>0, <2>4 DEF Typed, Elsewhere, OffPage
    <2> QED
      BY <2>1, <2>2, <2>3, <2>4
  <1> QED
    BY <1>0, <1>1, <1>2, <1>3, <1>5, <1>6, <1>7
       DEF Sound, Typed, ShellOK, ScreenOK, shell, storage, history, LoansGrow

-----------------------------------------------------------------------------
(* The answers arrive.                                                     *)

\* The page takes in the answer to its own call.
LEMMA HeardSound ==
  ASSUME Sound, NEW c \in calls, NEW p \in Page, Becomes(c, p), Heard,
         \/ p = page
         \/ /\ c.to = "page"
            /\ p.phase \in {"shelf-camera", "book-camera", "book-manual", "return-error",
                            "reason", "no-loan", "load-error"}
            /\ p.phase \in LoanShown => p.loan # None
            /\ p.phase \in {"book-camera", "book-manual"} => p.shelf # None
            /\ p.phase = "return-error" =>
                 /\ p.evidence # None
                 /\ p.evidence.method # "skipped" => p.shelf # None
            /\ p.phase = "reason" => loans[p.loan].state = "returned"
  PROVE  Sound'
  <1>0. Typed /\ ShellOK /\ ScreenOK /\ CallsOK /\ ToldReturned /\ SavedIsSaved
    BY DEF Sound
  <1>1. UNCHANGED <<server, faults, shell, storage, history>> /\ page' = p
    BY DEF Becomes, Heard, InTab, shell, storage
  <1>2. CallsOK' /\ calls' \subseteq Call
    BY <1>0, <1>1, CallHeard DEF Becomes, Rest, server
  <1>3. c.to = "page" => page.phase # "none"
    BY <1>0 DEF CallsOK, Awaited, AwaitedOK, Typed, Call
  <1> QED
    BY <1>0, <1>1, <1>2, <1>3
       DEF Sound, Typed, ShellOK, ScreenOK, LoanShown, ToldReturned, SavedIsSaved,
           server, shell, storage, history

\* The reason's own answers, some of which are heard away from the page too.
LEMMA ReasonSound ==
  ASSUME Sound, NEW c \in calls, c.op \in {"choose", "replay"}, c.answer # "none",
         ReasonSaved(c) \/ ReasonFailed(c) \/ ReplayFailed(c)
  PROVE  Sound'
  <1> USE ReturnFlowAssumption
  <1>0. /\ Typed /\ ShellOK /\ ScreenOK /\ CallsOK /\ ToldReturned /\ SavedIsSaved
        /\ c \in Call /\ page \in Page /\ c.loan \in Loans /\ c.arg \in Reasons
        /\ c.answer \in {"ok", "celebrate"} =>
             loans[c.loan].state = "returned" /\ loans[c.loan].reason = c.arg
        /\ c.to = "page" => AwaitedOK(c)
    BY DEF Sound, Typed, CallsOK, CallOK, Awaited
  <1>1. InTab /\ UNCHANGED <<loans, me, resume>> /\ stored' \in {stored, None}
    BY DEF ReasonSaved, ReasonFailed, ReplayFailed, ClearPendingReason, InTab, server
  <1>2. told' \subseteq PendingReason /\ SavedIsSaved'
    <2>1. told' = told \/ (told' = told \cup {Choice(c)} /\ c.answer \in {"ok", "celebrate"})
      BY DEF ReasonSaved, ReasonFailed, ReplayFailed
    <2>2. /\ Choice(c) \in PendingReason
          /\ Choice(c).loan = c.loan /\ Choice(c).reason = c.arg
      BY <1>0 DEF Choice, PendingReason
    <2> QED
      BY <1>0, <1>1, <2>1, <2>2 DEF SavedIsSaved, Typed
  <1>3. c.to = "page" => page.phase \in {"loading", "saving-reason"}
    BY <1>0 DEF AwaitedOK
  <1>4. ASSUME NEW p \in Page, Becomes(c, p), UNCHANGED <<path, link>>,
               \/ p = page
               \/ /\ c.to = "page"
                  /\ p.phase \in {"reason", "celebration", "pending-reason-error"}
                  /\ p.phase # "pending-reason-error" =>
                       p.loan # None /\ loans[p.loan].state = "returned"
        PROVE  Sound'
    <2>1. CallsOK' /\ calls' \subseteq Call
      BY <1>0, <1>1, <1>4, CallHeard DEF Becomes, Rest
    <2>2. ToldReturned' /\ ScreenOK'
      BY <1>0, <1>1, <1>4 DEF ToldReturned, ScreenOK, LoanShown, Becomes
    <2> QED
      BY <1>0, <1>1, <1>2, <1>3, <1>4, <2>1, <2>2
         DEF Sound, Typed, ShellOK, Becomes, InTab, server
  <1>5. CASE ReasonSaved(c)
    <2>1. CASE Home(c)
      <3>1. Rest(c) \in SUBSET Call
        BY <1>0 DEF Rest, Typed
      <3>2. LoansGrow
        BY <1>0, <1>1 DEF LoansGrow, Typed
      <3>3. CallsOK' /\ calls' \subseteq Call
        BY <1>0, <2>1, <3>1, <3>2, CallsUnmounted, NoneAwaited DEF Home, Unmount, Rest
      <3>4. page' = NoPage /\ page' \in Page
        BY <2>1 DEF Home, Unmount, NoPage, Page, Phases
      <3> QED
        BY <1>0, <1>1, <1>2, <2>1, <3>3, <3>4
           DEF Sound, Typed, ShellOK, ScreenOK, LoanShown, ToldReturned, Home, NoPage,
               InTab, server
    <2>2. CASE Celebrate(c) /\ c.answer = "celebrate"
      <3> DEFINE p == [page EXCEPT !.loan = c.loan, !.phase = "celebration"]
      <3>1. p \in Page /\ p.loan = c.loan /\ p.phase = "celebration"
        BY <1>0 DEF Page, Phases
      <3>2. Becomes(c, IF c.to = "page" THEN p ELSE page) /\ UNCHANGED <<path, link>>
        BY <2>2 DEF Celebrate
      <3> HIDE DEF p
      <3> QED
        BY <1>0, <1>4, <2>2, <3>1, <3>2
    <2> QED
      BY <1>5, <2>1, <2>2 DEF ReasonSaved
  <1>6. CASE ReasonFailed(c)
    <2> DEFINE p == [page EXCEPT !.phase = "reason"]
    <2>1. p \in Page /\ p.loan = page.loan /\ p.phase = "reason"
      BY <1>0 DEF Page, Phases
    <2>2. /\ Becomes(c, IF c.to = "page" THEN p ELSE page) /\ UNCHANGED <<path, link>>
          /\ c.op = "choose"
      BY <1>6 DEF ReasonFailed
    <2>3. c.to = "page" => page.loan # None /\ loans[page.loan].state = "returned"
      BY <1>0, <2>2 DEF AwaitedOK, ToldReturned
    <2> HIDE DEF p
    <2> QED
      BY <1>0, <1>4, <2>1, <2>2, <2>3
  <1>7. CASE ReplayFailed(c)
    <2>1. ASSUME NEW retryable \in BOOLEAN, NEW pending \in PendingReason \cup {None},
                 Becomes(c, [page EXCEPT !.phase = "pending-reason-error",
                                         !.retryable = retryable, !.pending = pending])
          PROVE  Sound'
      <3> DEFINE p == [page EXCEPT !.phase = "pending-reason-error",
                                   !.retryable = retryable, !.pending = pending]
      <3>1. p \in Page /\ p.phase = "pending-reason-error"
        BY <1>0 DEF Page, Phases
      <3>2. Becomes(c, p) /\ c.to = "page" /\ UNCHANGED <<path, link>>
        BY <1>7, <2>1 DEF ReplayFailed
      <3> HIDE DEF p
      <3> QED
        BY <1>4, <3>1, <3>2
    <2>2. [page EXCEPT !.phase = "pending-reason-error", !.retryable = TRUE]
            = [page EXCEPT !.phase = "pending-reason-error", !.retryable = TRUE,
                           !.pending = page.pending]
      BY <1>0 DEF Page
    <2>3. page.pending \in PendingReason \cup {None}
      BY <1>0 DEF Page
    <2> QED
      BY <1>7, <2>1, <2>2, <2>3 DEF ReplayFailed
  <1> QED
    BY <1>5, <1>6, <1>7

LEMMA ArriveSound ==
  ASSUME Sound, NEW c \in calls, Arrive(c)
  PROVE  Sound'
  <1> USE ReturnFlowAssumption
  <1>0. /\ Typed /\ ShellOK /\ ScreenOK /\ CallsOK /\ ToldReturned /\ SavedIsSaved
        /\ c \in Call /\ CallOK(c) /\ page \in Page
        /\ c.to = "page" => AwaitedOK(c)
        /\ c.answer # "none"
    BY DEF Sound, Typed, CallsOK, Awaited, Arrive
  <1>1. CASE Expired(c)
    <2>1. LoansGrow /\ UNCHANGED <<loans, told>>
      BY <1>0, <1>1 DEF LoansGrow, Typed, Expired, InTab, server, history
    <2>2. CallsOK' /\ calls' \subseteq Call
      <3>1. Rest(c) \in SUBSET Call
        BY <1>0 DEF Rest, Typed
      <3> QED
        BY <1>0, <1>1, <2>1, <3>1, CallsUnmounted, NoneAwaited DEF Expired, Unmount, Rest
    <2>3. page' = NoPage /\ page' \in Page
      BY <1>1 DEF Expired, Unmount, NoPage, Page, Phases
    <2>4. resume' \in {"return", None} /\ me' = None
      BY <1>0, <1>1 DEF Expired, Typed
    <2> QED
      BY <1>0, <1>1, <2>1, <2>2, <2>3, <2>4
         DEF Sound, Typed, ShellOK, ScreenOK, LoanShown, ToldReturned, SavedIsSaved, NoPage,
             Expired, InTab, server, history
  <1>2. CASE TooLate(c)
    BY <1>0, <1>2, HeardSound DEF TooLate
  <1>3. CASE CurrentArrives(c)
    <2>1. ASSUME c.answer = "ok", page.linked # None,
                 page' = [page EXCEPT !.loan = c.loan],
                 calls' = Rest(c) \cup {Request("shelf", c.loan, page.linked)}
          PROVE  Sound'
      <3>1. page.linked \in Codes /\ c.loan \in Loans /\ page.phase = "loading"
            /\ c.to = "page"
        BY <1>0, <1>3, <2>1 DEF Page, CallOK, AwaitedOK, CurrentArrives
      <3>2. page' \in Page /\ page'.loan = c.loan /\ page'.phase = "loading"
            /\ UNCHANGED <<server, shell, storage, faults, history>>
        BY <1>0, <1>3, <2>1, <3>1
           DEF Page, CurrentArrives, Heard, InTab, shell, storage
      <3> DEFINE d == Request("shelf", c.loan, page.linked)
      <3>3. /\ d \in Call /\ d.to = "page" /\ d.answer = "none"
            /\ d.op = "shelf" /\ d.loan = c.loan /\ d.arg = page.linked
        BY <1>0, <3>1, Requested
      <3>4. Rest(c) \in SUBSET calls /\ Awaited(Rest(c)) = {}
        BY <1>0, <3>1 DEF Rest, Awaited, CallsOK
      <3>5. \A e \in Call : e = d => CallOK(e) /\ AwaitedOK(e)'
        BY <3>1, <3>2, <3>3 DEF CallOK, AwaitedOK
      <3>6. calls' = Rest(c) \cup {d}
        BY <2>1
      <3> HIDE DEF d
      <3>7. CallsOK' /\ calls' \subseteq Call
        BY <1>0, <3>2, <3>3, <3>4, <3>5, <3>6, CallSent DEF server
      <3> QED
        BY <1>0, <3>1, <3>2, <3>7
           DEF Sound, Typed, ShellOK, ScreenOK, LoanShown, ToldReturned, SavedIsSaved,
               server, shell, storage, history
    <2>2. ASSUME c.answer = "ok", Becomes(c, [page EXCEPT !.loan = c.loan,
                                                          !.phase = "shelf-camera"])
          PROVE  Sound'
      <3> DEFINE p == [page EXCEPT !.loan = c.loan, !.phase = "shelf-camera"]
      <3>1. c.loan \in Loans
        BY <1>0, <1>3, <2>2 DEF CallOK, CurrentArrives
      <3>2. p \in Page /\ p.phase = "shelf-camera" /\ p.loan # None /\ Becomes(c, p)
        BY <1>0, <2>2, <3>1 DEF Page, Phases
      <3> HIDE DEF p
      <3> QED
        BY <1>3, <3>2, HeardSound DEF CurrentArrives
    <2>3. ASSUME NEW phase \in {"no-loan", "load-error"},
                 Becomes(c, [page EXCEPT !.phase = phase])
          PROVE  Sound'
      <3> DEFINE p == [page EXCEPT !.phase = phase]
      <3>1. p \in Page /\ p.phase \in {"no-loan", "load-error"} /\ Becomes(c, p)
        BY <1>0, <2>3 DEF Page, Phases
      <3> HIDE DEF p
      <3> QED
        BY <1>3, <3>1, HeardSound DEF CurrentArrives, LoanShown
    <2> QED
      BY <1>3, <2>1, <2>2, <2>3 DEF CurrentArrives
  <1>4. CASE ShelfArrives(c)
    <2>0. page.loan # None /\ c.arg \in Codes /\ c.to = "page" /\ Heard
      BY <1>0, <1>4 DEF ShelfArrives, CallOK, AwaitedOK
    <2>1. ASSUME NEW input \in {"book-manual", "book-camera"},
                 Becomes(c, [page EXCEPT !.shelf = c.arg, !.phase = input])
          PROVE  Sound'
      <3> DEFINE p == [page EXCEPT !.shelf = c.arg, !.phase = input]
      <3>1. /\ p \in Page /\ p.phase \in {"book-manual", "book-camera"}
            /\ p.loan # None /\ p.shelf # None /\ Becomes(c, p)
        BY <1>0, <2>0, <2>1 DEF Page, Phases
      <3> HIDE DEF p
      <3> QED
        BY <2>0, <3>1, HeardSound
    <2>2. ASSUME Becomes(c, [page EXCEPT !.phase = "shelf-camera"])
          PROVE  Sound'
      <3> DEFINE p == [page EXCEPT !.phase = "shelf-camera"]
      <3>1. p \in Page /\ p.phase = "shelf-camera" /\ p.loan # None /\ Becomes(c, p)
        BY <1>0, <2>0, <2>2 DEF Page, Phases
      <3> HIDE DEF p
      <3> QED
        BY <2>0, <3>1, HeardSound
    <2> QED
      BY <1>4, <2>1, <2>2 DEF ShelfArrives
  <1>5. CASE ReturnArrives(c)
    <2> DEFINE evidence == IF c.answer = "ok" THEN None ELSE page.evidence
               p == [page EXCEPT !.phase = ScreenAfter(c), !.evidence = evidence]
    <2>1. /\ c.op = "return" /\ c.to = "page" /\ Heard /\ Becomes(c, p)
          /\ page.phase = "returning" /\ page.loan = c.loan /\ page.evidence = c.arg
          /\ c.loan \in Loans /\ c.arg \in Evidence
          /\ c.answer = "ok" => loans[c.loan].state = "returned"
          /\ c.answer = "wrong_book" => c.arg.method # "skipped"
      BY <1>0, <1>5 DEF ReturnArrives, AwaitedOK, CallOK
    <2>2. /\ ScreenAfter(c) \in {"reason", "book-manual", "book-camera", "shelf-camera",
                                 "return-error"}
          /\ ScreenAfter(c) = "reason" => c.answer = "ok"
          /\ ScreenAfter(c) \in {"book-manual", "book-camera"} => c.answer = "wrong_book"
          /\ ScreenAfter(c) = "return-error" => c.answer # "ok"
      BY DEF ScreenAfter
    <2>3. evidence \in Evidence \cup {None} /\ (c.answer # "ok" => evidence = page.evidence)
      BY <1>0 DEF Page
    <2> HIDE DEF evidence
    <2>4. /\ p \in Page /\ p.phase = ScreenAfter(c) /\ p.evidence = evidence
          /\ p.loan = page.loan /\ p.shelf = page.shelf
      BY <1>0, <2>2, <2>3 DEF Page, Phases
    <2>5. page.evidence.method # "skipped" => page.shelf # None
      BY <1>0, <2>1 DEF ScreenOK
    <2> HIDE DEF p
    <2> QED
      BY <2>1, <2>2, <2>3, <2>4, <2>5, HeardSound
  <1>6. CASE ReasonSaved(c) \/ ReasonFailed(c) \/ ReplayFailed(c)
    BY <1>0, <1>6, ReasonSound DEF ReasonSaved, ReasonFailed, ReplayFailed
  <1> QED
    BY <1>1, <1>2, <1>3, <1>4, <1>5, <1>6 DEF Arrive

-----------------------------------------------------------------------------
LEMMA SoundInit == Init => Sound
  BY ReturnFlowAssumption
     DEF Init, Sound, Typed, ShellOK, ScreenOK, LoanShown, CallsOK, Awaited, ToldReturned,
         SavedIsSaved, NoPage, Page, Phases, Loan, Session

LEMMA SoundStep == Sound /\ [Next]_vars => Sound'
  <1>1. ASSUME Sound, Next
        PROVE  Sound'
    BY <1>1, StudentSound, ShellSound, ServeSound, ArriveSound, OutsideSound
       DEF Next, Network
  <1>2. ASSUME Sound, UNCHANGED vars
        PROVE  Sound'
    BY <1>2 DEF vars, Sound, Typed, ShellOK, ScreenOK, CallsOK, CallOK, AwaitedOK, Awaited,
                ToldReturned, SavedIsSaved
  <1> QED
    BY <1>1, <1>2

\* Every screen has what it shows and what its buttons send, however calls
\* fail, pages are left and sessions end.
THEOREM TypeCorrect == Spec => []TypeOK
  <1>1. Sound => TypeOK
    BY DEF Sound, Typed, ShellOK, ScreenOK, LoanShown, TypeOK
  <1> QED
    BY <1>1, SoundInit, SoundStep, PTL DEF Spec

\* Nobody is told that the book is back before the desk has it, whatever was
\* lost or came late.
THEOREM ReturnedWhenTold == Spec => []ToldReturned
  <1>1. Sound => ToldReturned
    BY DEF Sound
  <1> QED
    BY <1>1, SoundInit, SoundStep, PTL DEF Spec

\* A reason that was reported as saved stays the reason of its loan.
THEOREM ReasonStays == Spec => []SavedIsSaved
  <1>1. Sound => SavedIsSaved
    BY DEF Sound
  <1> QED
    BY <1>1, SoundInit, SoundStep, PTL DEF Spec

\* What happens to the choice that is stored: it is made, or an answer about a
\* reason clears it.
LEMMA ChoiceSteps ==
  ASSUME Next
  PROVE  \/ UNCHANGED <<stored, unsaved, overtaken>>
         \/ stored' = unsaved' /\ UNCHANGED overtaken
         \/ \E c \in calls : ClearPendingReason(c)
  <1>1. CASE Student
    BY <1>1 DEF Student, Retry, SwitchInput, OpenConfirmation, Back, Confirm, Leave,
                CheckShelf, ShowBook, ChooseReason, Visit, OnPage, storage, history
  <1>2. CASE Shell
    BY <1>2 DEF Shell, Identify, Reload, SignOut, SignInByCode, SignInByProvider, storage,
                history
  <1>3. ASSUME NEW c \in calls, Serve(c) \/ Fail(c)
        PROVE  UNCHANGED <<stored, unsaved, overtaken>>
    BY <1>3 DEF Serve, Fail, OffPage, storage, history
  <1>4. ASSUME NEW c \in calls, Arrive(c)
        PROVE  UNCHANGED <<stored, unsaved, overtaken>> \/ ClearPendingReason(c)
    BY <1>4 DEF Arrive, Expired, TooLate, CurrentArrives, ShelfArrives, ReturnArrives,
                ReasonSaved, ReasonFailed, ReplayFailed, Heard, storage, history
  <1>5. CASE ChangeShelfCode \/ (\E t \in Tokens : Expire(t)) \/ (\E l \in Loans : Elsewhere(l))
    BY <1>5 DEF ChangeShelfCode, Expire, Elsewhere, OffPage, storage, history
  <1> QED
    BY <1>1, <1>2, <1>3, <1>4, <1>5 DEF Next, Network

\* A reason without an answer is in the storage of the tab, unless an older
\* answer has cleared it.
THEOREM ChoiceSurvives == Spec => []ChoiceKept
  <1>1. Init => ChoiceKept
    BY DEF Init, ChoiceKept
  <1>2. ChoiceKept /\ [Next]_vars => ChoiceKept'
    <2>1. ASSUME ChoiceKept, NEW c, ClearPendingReason(c)
          PROVE  ChoiceKept'
      BY <2>1 DEF ChoiceKept, ClearPendingReason
    <2> QED
      BY <2>1, ChoiceSteps DEF ChoiceKept, vars
  <1> QED
    BY <1>1, <1>2, PTL DEF Spec
=============================================================================
