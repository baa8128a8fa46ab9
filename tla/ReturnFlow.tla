----------------------------- MODULE ReturnFlow -----------------------------
(***************************************************************************)
(* The return page of one browser tab: its screens, its calls, the reason  *)
(* it keeps in sessionStorage while that is being saved, and the shell     *)
(* that takes it off the screen when the session has expired.  Calls are   *)
(* answered late, or not at all, while the student leaves the page, comes  *)
(* back, reloads and signs in again.  The handlers behind the calls are    *)
(* the loan desk's, each in one step.                                      *)
(***************************************************************************)
EXTENDS Naturals, FiniteSets

CONSTANTS
    Students,
    Loans,      \* ids of loans
    Codes,      \* what a QR code may say
    Reasons,    \* reasons a student may give
    Finished,   \* the one that is celebrated
    Tokens,     \* session tokens
    MaxCalls,   \* bound on calls in flight
    MaxFaults,  \* bound on calls that fail and on changes of the shelf's code
    None        \* null

Loan == [reader: Students \cup {None}, state: {"unused", "open", "returned"},
         reason: Reasons \cup {None}]

Session == [user: Students \cup {None}, live: BOOLEAN]

\* What closes a loan: the shelf's code or None for skipped; how the book was
\* shown, and whether it was this book.
Evidence == [shelf: Codes \cup {None}, method: {"scan", "manual", "skipped"},
             right: BOOLEAN]

PendingReason == [loan: Loans, reason: Reasons]

ASSUME ReturnFlowAssumption ==
    /\ None \notin Students \cup Loans \cup Codes \cup Reasons \cup Tokens
    /\ None \notin Evidence \cup PendingReason
    /\ "unknown" \notin Students \cup {None}
    /\ MaxCalls \in Nat /\ MaxFaults \in Nat

Phases == {"none", "loading", "load-error", "pending-reason-error", "no-loan",
           "shelf-camera", "book-camera", "book-manual", "confirm", "returning",
           "return-error", "reason", "saving-reason", "celebration"}

\* The state of component Return; "none" while it is not mounted.
Page == [phase: Phases, loan: Loans \cup {None}, shelf: Codes \cup {None},
         evidence: Evidence \cup {None}, back: Phases, linked: Codes \cup {None},
         pending: PendingReason \cup {None}, retryable: BOOLEAN]

\* "page": the page that sent it is on the screen; "gone": it is not; "nobody":
\* the script that sent it is gone, or has been told that the call failed.
Listeners == {"page", "gone", "nobody"}

Answers == {"none", "ok", "celebrate", "no_open_loan", "wrong_book",
            "invalid_shelf_code", "refused", "expired", "failed"}

Call == [op: {"current", "shelf", "return", "choose", "replay"},
         token: Tokens \cup {None}, loan: Loans \cup {None},
         arg: Codes \cup Evidence \cup Reasons \cup {None},
         to: Listeners, answer: Answers]

VARIABLES
    loans, sessions,    \* tables loans and sessions
    shelfCode,          \* the code the server has been started with
    cookie,             \* the browser's session cookie
    me, asking,         \* App: who is signed in, and whether GET /me is out
    path, link,         \* location: which page, and its ?shelf=
    resume, stored,     \* sessionStorage: the return path, the pending reason
    page, calls,
    faults,             \* how many calls have failed
    told,               \* history: the reasons a page was told are saved
    unsaved,            \* history: the tab's last choice, until it is answered
    overtaken           \* history: an older answer took a newer choice away

vars == <<loans, sessions, shelfCode, cookie, me, asking, path, link, resume, stored,
          page, calls, faults, told, unsaved, overtaken>>

server == <<loans, sessions, shelfCode>>
shell == <<me, asking, path, link, cookie>>
storage == <<resume, stored>>
history == <<told, unsaved, overtaken>>

-----------------------------------------------------------------------------
NoPage == [phase |-> "none", loan |-> None, shelf |-> None, evidence |-> None,
           back |-> "none", linked |-> None, pending |-> None, retryable |-> TRUE]

Request(op, loan, arg) ==
    [op |-> op, token |-> cookie, loan |-> loan, arg |-> arg, to |-> "page",
     answer |-> "none"]

Room == Cardinality(calls) < MaxCalls

\* The page leaves the screen: nobody cancels its calls.
Unmounted(S) == {[c EXCEPT !.to = IF @ = "page" THEN "gone" ELSE @] : c \in S}

\* The document goes: what the server has not seen yet it may still see.
Abandoned(S) == {[c EXCEPT !.to = "nobody"] : c \in {d \in S : d.answer = "none"}}

Unmount(S) == page' = NoPage /\ calls' = Unmounted(S)

\* The effect that runs when the page is mounted and at every retry.
Load(p) ==
    /\ Room
    /\ page' = p
    /\ calls' = calls \cup
         {IF p.pending # None THEN Request("replay", p.pending.loan, p.pending.reason)
                              ELSE Request("current", None, None)}

\* link is taken out of the address bar at once.
Mount == Load([NoPage EXCEPT !.phase = "loading", !.linked = link, !.pending = stored])

Reader(token) ==
    IF token = None \/ ~sessions[token].live THEN None ELSE sessions[token].user

OpenLoans(s) == {l \in Loans : loans[l].reader = s /\ loans[l].state = "open"}

-----------------------------------------------------------------------------
(* The tab: what the student does on the page.                             *)

OnPage == UNCHANGED <<server, shell, storage, faults, history>>

Turn(p) == page' = p /\ UNCHANGED calls

Send(p, op, loan, arg) ==
    Room /\ page' = p /\ calls' = calls \cup {Request(op, loan, arg)}

\* shelfLocked is set exactly while a check of this page is in flight.
Checking == \E c \in calls : c.op = "shelf" /\ c.to = "page"

Retry ==
    /\ \/ page.phase = "load-error"
       \/ page.phase = "pending-reason-error" /\ page.retryable
    /\ Load([page EXCEPT !.phase = "loading"])
    /\ OnPage

CheckShelf(code) ==
    /\ page.phase = "shelf-camera" /\ ~Checking
    /\ Send(page, "shelf", page.loan, code)
    /\ OnPage

CloseLoan(e) ==
    Send([page EXCEPT !.evidence = e, !.phase = "returning"], "return", page.loan, e)

ShowBook(right) ==
    /\ page.phase \in {"book-camera", "book-manual"}
    /\ CloseLoan([shelf |-> page.shelf, right |-> right,
                  method |-> IF page.phase = "book-manual" THEN "manual" ELSE "scan"])
    /\ OnPage

SwitchInput ==
    /\ page.phase \in {"book-camera", "book-manual"}
    /\ Turn([page EXCEPT !.phase =
              IF @ = "book-manual" THEN "book-camera" ELSE "book-manual"])
    /\ OnPage

OpenConfirmation ==
    /\ page.phase \in {"shelf-camera", "book-camera", "book-manual"} /\ ~Checking
    /\ LET shelf == IF page.phase = "shelf-camera" THEN None ELSE page.shelf
       IN Turn([page EXCEPT !.phase = "confirm", !.back = page.phase,
                  !.evidence = [shelf |-> shelf, method |-> "skipped", right |-> FALSE]])
    /\ OnPage

Back ==
    /\ page.phase = "confirm"
    /\ Turn([page EXCEPT !.phase = page.back])
    /\ OnPage

\* The confirmation, or another try after an error.
Confirm ==
    /\ page.phase \in {"confirm", "return-error"}
    /\ CloseLoan(page.evidence)
    /\ OnPage

\* Mutant: the choice is only in memory while it is sent.
ChooseReasonInMemory(r) ==
    LET choice == [loan |-> page.loan, reason |-> r]
    IN /\ page.phase = "reason"
       /\ Send([page EXCEPT !.phase = "saving-reason"], "choose", page.loan, r)
       /\ unsaved' = choice
       /\ UNCHANGED <<server, shell, storage, faults, told, overtaken>>

\* The choice is in sessionStorage before it is sent.
ChooseReason(r) ==
    LET choice == [loan |-> page.loan, reason |-> r]
    IN /\ page.phase = "reason"
       /\ stored' = choice
       /\ Send([page EXCEPT !.phase = "saving-reason"], "choose", page.loan, r)
       /\ unsaved' = choice
       /\ UNCHANGED <<server, shell, resume, faults, told, overtaken>>

\* To the return page, from a link of the application or from the shelf's QR.
Visit(shelf) ==
    /\ path = "other"
    /\ path' = "return"
    /\ IF me \in Students
       THEN /\ Load([NoPage EXCEPT !.phase = "loading", !.linked = shelf,
                                   !.pending = stored])
            /\ link' = None
       ELSE link' = shelf /\ UNCHANGED <<page, calls>>
    /\ UNCHANGED <<server, me, asking, cookie, storage, faults, history>>

\* The cross, the end of a celebration, the browser's own way back.
Leave ==
    /\ path = "return"
    /\ path' = "other" /\ link' = None
    /\ Unmount(calls)
    /\ UNCHANGED <<server, me, asking, cookie, storage, faults, history>>

-----------------------------------------------------------------------------
(* The shell: App, Login.                                                  *)

\* GET /me is answered.  An error other than 401 stays on the screen.
Identify ==
    /\ asking /\ asking' = FALSE
    /\ \/ /\ me' = Reader(cookie)
          /\ UNCHANGED faults
          /\ IF me' # None /\ path = "return"
             THEN Mount /\ link' = None
             ELSE UNCHANGED <<page, calls, link>>
       \/ /\ faults < MaxFaults /\ faults' = faults + 1
          /\ UNCHANGED <<me, page, calls, link>>
    /\ UNCHANGED <<server, path, cookie, storage, history>>

NewSession(s) ==
    \E t \in Tokens :
      /\ sessions[t].user = None
      /\ sessions' = [sessions EXCEPT ![t] = [user |-> s, live |-> TRUE]]
      /\ cookie' = t

\* Mutant: what the last student left in sessionStorage is thrown away.
SignInByCodeAfresh(s) ==
    /\ me = None
    /\ NewSession(s)
    /\ me' = "unknown" /\ asking' = TRUE
    /\ resume' = None /\ stored' = None
    /\ UNCHANGED <<loans, shelfCode, path, link, page, calls, faults, history>>

\* The form for codes: the document stays, and signIn takes the return path.
SignInByCode(s) ==
    /\ me = None
    /\ NewSession(s)
    /\ me' = "unknown" /\ asking' = TRUE
    /\ path' = IF resume # None THEN resume ELSE path
    /\ link' = IF path' = path THEN link ELSE None
    /\ resume' = None
    /\ UNCHANGED <<loans, shelfCode, stored, page, calls, faults, history>>

\* Another document is loaded at the same address; calls that the server has
\* not seen may still reach it.
Restarted ==
    /\ page' = NoPage /\ calls' = Abandoned(calls)
    /\ me' = "unknown" /\ asking' = TRUE
    /\ UNCHANGED <<path, link>>

\* Login remembers where it is, and the callback goes back there.
SignInByProvider(s) ==
    /\ me = None
    /\ NewSession(s)
    /\ Restarted
    /\ resume' = None
    /\ UNCHANGED <<loans, shelfCode, stored, faults, history>>

Reload ==
    /\ Restarted
    /\ UNCHANGED <<server, cookie, storage, faults, history>>

\* From the profile; that the logout has failed is ignored.
SignOut ==
    /\ path = "other" /\ me \in Students
    /\ \/ UNCHANGED <<sessions, cookie>>
       \/ /\ cookie # None
          /\ sessions' = [sessions EXCEPT ![cookie].live = FALSE] /\ cookie' = None
    /\ me' = None
    /\ UNCHANGED <<loans, shelfCode, asking, path, link, storage, page, calls, faults,
                   history>>

-----------------------------------------------------------------------------
(* The server.                                                             *)

\* The answer goes to whoever listens.
Reply(c, d) == calls' = (calls \ {c}) \cup (IF c.to = "nobody" THEN {} ELSE {d})

Answer(c, answer) == Reply(c, [c EXCEPT !.answer = answer])

Unauthorized(c) ==
    /\ Reader(c.token) = None
    /\ Answer(c, "expired")
    /\ UNCHANGED loans

CurrentLoan(c) ==
    /\ c.op = "current"
    /\ LET open == OpenLoans(Reader(c.token))
       IN \/ \E l \in open : Reply(c, [c EXCEPT !.answer = "ok", !.loan = l])
          \/ open = {} /\ Answer(c, "no_open_loan")
    /\ UNCHANGED loans

CheckShelfCode(c) ==
    /\ c.op = "shelf"
    /\ IF c.loan \in OpenLoans(Reader(c.token)) /\ c.arg = shelfCode
       THEN Answer(c, "ok") ELSE Answer(c, "refused")
    /\ UNCHANGED loans

ReturnBook(c) ==
    /\ c.op = "return"
    /\ LET loan == loans[c.loan]  e == c.arg
       IN \/ loan.reader # Reader(c.token) /\ Answer(c, "refused") /\ UNCHANGED loans
          \/ /\ loan.reader = Reader(c.token)
             /\ \/ loan.state = "returned" /\ Answer(c, "ok") /\ UNCHANGED loans
                \/ /\ loan.state = "open"
                   /\ IF e.shelf \notin {shelfCode, None}
                      THEN Answer(c, "invalid_shelf_code") /\ UNCHANGED loans
                      ELSE IF e.method # "skipped" /\ ~e.right
                      THEN Answer(c, "wrong_book") /\ UNCHANGED loans
                      ELSE /\ loans' = [loans EXCEPT ![c.loan].state = "returned"]
                           /\ Answer(c, "ok")

\* Mutant: the UPDATE lacks "return_reason IS NULL".
SetReturnReasonAgain(c) ==
    /\ c.op \in {"choose", "replay"}
    /\ LET loan == loans[c.loan]
       IN IF loan.reader = Reader(c.token) /\ loan.state = "returned"
          THEN /\ loans' = [loans EXCEPT ![c.loan].reason = c.arg]
               /\ Answer(c, IF c.arg = Finished THEN "celebrate" ELSE "ok")
          ELSE Answer(c, "refused") /\ UNCHANGED loans

SetReturnReason(c) ==
    /\ c.op \in {"choose", "replay"}
    /\ LET loan == loans[c.loan]
       IN IF /\ loan.reader = Reader(c.token) /\ loan.state = "returned"
             /\ loan.reason \in {None, c.arg}
          THEN /\ loans' = [loans EXCEPT ![c.loan].reason = c.arg]
               /\ Answer(c, IF c.arg = Finished THEN "celebrate" ELSE "ok")
          ELSE Answer(c, "refused") /\ UNCHANGED loans

OffPage == UNCHANGED <<sessions, shell, storage, page>>

Serve(c) ==
    /\ c.answer = "none"
    /\ \/ Unauthorized(c)
       \/ /\ Reader(c.token) # None
          /\ CurrentLoan(c) \/ CheckShelfCode(c) \/ ReturnBook(c) \/ SetReturnReason(c)
    /\ OffPage /\ UNCHANGED <<shelfCode, faults, history>>

\* No connection or a 5xx, before the handler has run, after it, or with the
\* request still under way.
Fail(c) ==
    /\ faults < MaxFaults /\ faults' = faults + 1
    /\ c.to # "nobody"
    /\ LET failed == [c EXCEPT !.answer = "failed"]
       IN \/ calls' = (calls \ {c}) \cup {failed}
          \/ /\ c.answer = "none"
             /\ calls' = (calls \ {c}) \cup {failed, [c EXCEPT !.to = "nobody"]}
    /\ OffPage /\ UNCHANGED <<loans, shelfCode, history>>

\* SHELF_CODE is changed and the server restarted.
ChangeShelfCode ==
    /\ faults < MaxFaults /\ faults' = faults + 1
    /\ shelfCode' \in Codes \ {shelfCode}
    /\ OffPage /\ UNCHANGED <<loans, calls, history>>

\* The session is over: its year, a ban, a reset.
Expire(t) ==
    /\ sessions[t].live
    /\ sessions' = [sessions EXCEPT ![t].live = FALSE]
    /\ UNCHANGED <<loans, shelfCode, shell, storage, page, calls, faults, history>>

\* At the desk, the teacher's or another device of the student's.
Elsewhere(l) ==
    /\ \/ \E s \in Students :
            /\ loans[l].state = "unused" /\ OpenLoans(s) = {}
            /\ loans' = [loans EXCEPT ![l].state = "open", ![l].reader = s]
       \/ /\ loans[l].state = "open"
          /\ loans' = [loans EXCEPT ![l].state = "returned"]
       \/ /\ loans[l].state = "returned" /\ loans[l].reason = None
          /\ \E r \in Reasons : loans' = [loans EXCEPT ![l].reason = r]
    /\ OffPage /\ UNCHANGED <<shelfCode, calls, faults, history>>

-----------------------------------------------------------------------------
(* The answers arrive.                                                     *)

Rest(c) == calls \ {c}

InTab == UNCHANGED <<server, faults, cookie, asking>>

Heard == InTab /\ UNCHANGED <<me, path, link, storage, history>>

Becomes(c, p) == page' = p /\ calls' = Rest(c)

\* A 401 takes the page away; three of the handlers remember where to come
\* back to also when they have been away from the screen for long.
Expired(c) ==
    /\ c.answer = "expired"
    /\ me' = None
    /\ resume' = IF c.to = "page" \/ c.op \in {"shelf", "return", "choose"}
                 THEN "return" ELSE resume
    /\ Unmount(Rest(c))
    /\ InTab /\ UNCHANGED <<path, link, stored, history>>

\* What comes too late and has no other effect.
TooLate(c) ==
    /\ c.to = "gone" /\ c.answer # "expired"
    /\ c.op = "choose" => c.answer = "failed"
    /\ Becomes(c, page)
    /\ Heard

\* Opened from the shelf's QR, the page checks the code at once.
CurrentArrives(c) ==
    /\ c.op = "current" /\ c.to = "page"
    /\ \/ /\ c.answer = "ok"
          /\ IF page.linked # None
             THEN /\ page' = [page EXCEPT !.loan = c.loan]
                  /\ calls' = Rest(c) \cup {Request("shelf", c.loan, page.linked)}
             ELSE Becomes(c, [page EXCEPT !.loan = c.loan, !.phase = "shelf-camera"])
       \/ c.answer = "no_open_loan" /\ Becomes(c, [page EXCEPT !.phase = "no-loan"])
       \/ c.answer = "failed" /\ Becomes(c, [page EXCEPT !.phase = "load-error"])
    /\ Heard

\* Mutant: the error leaves the phase alone, which is right only for a camera.
ShelfArrivesQuietly(c) ==
    /\ c.op = "shelf" /\ c.to = "page"
    /\ \/ /\ c.answer = "ok"
          /\ \E input \in {"book-manual", "book-camera"} :
               Becomes(c, [page EXCEPT !.shelf = c.arg, !.phase = input])
       \/ /\ c.answer \in {"refused", "failed"}
          /\ Becomes(c, page)
    /\ Heard

\* Which input comes first depends on how wide the screen is.
ShelfArrives(c) ==
    /\ c.op = "shelf" /\ c.to = "page"
    /\ \/ /\ c.answer = "ok"
          /\ \E input \in {"book-manual", "book-camera"} :
               Becomes(c, [page EXCEPT !.shelf = c.arg, !.phase = input])
       \/ /\ c.answer \in {"refused", "failed"}
          /\ Becomes(c, [page EXCEPT !.phase = "shelf-camera"])
    /\ Heard

\* Mutant: a call that failed is taken for one that was answered.
ScreenAfterHopefully(c) ==
    CASE c.answer \in {"ok", "failed"} -> "reason"
      [] c.answer = "wrong_book" -> "book-camera"
      [] c.answer = "invalid_shelf_code" -> "shelf-camera"
      [] OTHER -> "return-error"

ScreenAfter(c) ==
    CASE c.answer = "ok" -> "reason"
      [] c.answer = "wrong_book" ->
           IF c.arg.method = "manual" THEN "book-manual" ELSE "book-camera"
      [] c.answer = "invalid_shelf_code" -> "shelf-camera"
      [] OTHER -> "return-error"

\* Mutant: the evidence is dropped also after an error.
ReturnArrivesForgetting(c) ==
    /\ c.op = "return" /\ c.to = "page" /\ c.answer # "expired"
    /\ Becomes(c, [page EXCEPT !.phase = ScreenAfter(c), !.evidence = None])
    /\ Heard

ReturnArrives(c) ==
    /\ c.op = "return" /\ c.to = "page" /\ c.answer # "expired"
    /\ Becomes(c, [page EXCEPT !.phase = ScreenAfter(c),
                               !.evidence = IF c.answer = "ok" THEN None ELSE @])
    /\ Heard

\* The reason c carried.
Choice(c) == [loan |-> c.loan, reason |-> c.arg]

\* clearPendingReason, whatever is stored by now.
ClearPendingReason(c) ==
    /\ stored' = None
    /\ unsaved' = IF unsaved = Choice(c) THEN None ELSE unsaved
    /\ overtaken' = (overtaken \/ unsaved \notin {None, Choice(c)})

\* navigate("/") goes home from whatever page is on the screen.
Home(c) == path' = "other" /\ link' = None /\ Unmount(Rest(c))

Celebrate(c) ==
    /\ Becomes(c, IF c.to = "page"
                  THEN [page EXCEPT !.loan = c.loan, !.phase = "celebration"] ELSE page)
    /\ UNCHANGED <<path, link>>

ReasonSaved(c) ==
    /\ c.op = "choose" \/ (c.op = "replay" /\ c.to = "page")
    /\ \/ c.answer = "ok" /\ Home(c)
       \/ c.answer = "celebrate" /\ Celebrate(c)
    /\ ClearPendingReason(c)
    /\ told' = told \cup {Choice(c)}
    /\ InTab /\ UNCHANGED <<me, resume>>

\* Mutant: the reason is cleared whatever the error is.
ReasonFailedForGood(c) ==
    /\ c.op = "choose" /\ c.to = "page"
    /\ c.answer \in {"refused", "failed"}
    /\ stored' = None
    /\ unsaved' = IF c.answer = "refused" THEN None ELSE unsaved
    /\ Becomes(c, [page EXCEPT !.phase = "reason"])
    /\ InTab /\ UNCHANGED <<me, path, link, resume, told, overtaken>>

\* Only a refusal clears the reason: another try could not do better.
ReasonFailed(c) ==
    /\ c.op = "choose"
    /\ \/ c.answer = "refused" /\ ClearPendingReason(c)
       \/ c.answer = "failed" /\ c.to = "page" /\ UNCHANGED <<stored, unsaved, overtaken>>
    /\ Becomes(c, IF c.to = "page" THEN [page EXCEPT !.phase = "reason"] ELSE page)
    /\ InTab /\ UNCHANGED <<me, path, link, resume, told>>

ReplayFailed(c) ==
    /\ c.op = "replay" /\ c.to = "page"
    /\ \/ /\ c.answer = "refused" /\ ClearPendingReason(c)
          /\ Becomes(c, [page EXCEPT !.phase = "pending-reason-error",
                                     !.retryable = FALSE, !.pending = None])
       \/ /\ c.answer = "failed" /\ UNCHANGED <<stored, unsaved, overtaken>>
          /\ Becomes(c, [page EXCEPT !.phase = "pending-reason-error", !.retryable = TRUE])
    /\ InTab /\ UNCHANGED <<me, path, link, resume, told>>

Arrive(c) ==
    /\ c.answer # "none" /\ c.to # "nobody"
    /\ \/ Expired(c) \/ TooLate(c)
       \/ CurrentArrives(c) \/ ShelfArrives(c) \/ ReturnArrives(c)
       \/ ReasonSaved(c) \/ ReasonFailed(c) \/ ReplayFailed(c)

-----------------------------------------------------------------------------
Init ==
    /\ loans = [l \in Loans |-> [reader |-> None, state |-> "unused", reason |-> None]]
    /\ sessions = [t \in Tokens |-> [user |-> None, live |-> FALSE]]
    /\ shelfCode \in Codes
    /\ cookie = None
    /\ me = "unknown" /\ asking = TRUE
    /\ path = "other" /\ link = None
    /\ resume = None /\ stored = None
    /\ page = NoPage
    /\ calls = {}
    /\ faults = 0
    /\ told = {} /\ unsaved = None /\ overtaken = FALSE

Student ==
    \/ Retry \/ SwitchInput \/ OpenConfirmation \/ Back \/ Confirm \/ Leave
    \/ \E code \in Codes : CheckShelf(code)
    \/ \E right \in BOOLEAN : ShowBook(right)
    \/ \E r \in Reasons : ChooseReason(r)
    \/ \E shelf \in Codes \cup {None} : Visit(shelf)

Shell ==
    \/ Identify \/ Reload \/ SignOut
    \/ \E s \in Students : SignInByCode(s) \/ SignInByProvider(s)

Network == \E c \in calls : Serve(c) \/ Arrive(c)

Next ==
    \/ Student \/ Shell \/ Network
    \/ \E c \in calls : Fail(c)
    \/ ChangeShelfCode
    \/ \E t \in Tokens : Expire(t)
    \/ \E l \in Loans : Elsewhere(l)

Spec == Init /\ [][Next]_vars /\ WF_vars(Network)

-----------------------------------------------------------------------------
(* Properties.                                                             *)

\* Every screen has what it shows and what its buttons send.
TypeOK ==
    /\ loans \in [Loans -> Loan] /\ sessions \in [Tokens -> Session]
    /\ shelfCode \in Codes /\ cookie \in Tokens \cup {None}
    /\ me \in Students \cup {None, "unknown"} /\ asking \in BOOLEAN
    /\ path \in {"return", "other"} /\ link \in Codes \cup {None}
    /\ resume \in {"return", None} /\ stored \in PendingReason \cup {None}
    /\ page \in Page /\ calls \subseteq Call
    /\ faults \in 0 .. MaxFaults
    /\ page.phase # "none" => path = "return" /\ me \in Students
    /\ page.phase \in {"book-camera", "book-manual"} => page.shelf # None
    /\ page.phase \in {"confirm", "return-error", "returning"} => page.evidence # None
    /\ page.phase \in {"shelf-camera", "book-camera", "book-manual", "confirm",
                       "returning", "return-error", "reason", "saving-reason",
                       "celebration"} => page.loan # None

\* "The book is back on the shelf", says the page, and asks how it was, only
\* when the desk has the book, however many answers were lost on the way.
ToldReturned ==
    page.phase \in {"reason", "saving-reason", "celebration"} =>
      loans[page.loan].state = "returned"

\* A reason that the page has reported as saved is the reason of that loan, then
\* and ever after.
SavedIsSaved == \A choice \in told : loans[choice.loan].reason = choice.reason

\* A reason that is not answered yet survives failures, reloads and a new
\* sign-in, unless the answer to an older call, come after the page was left
\* and opened again, has cleared it.
ChoiceKept == unsaved # None => stored = unsaved \/ overtaken

Busy == page.phase \in {"loading", "returning", "saving-reason"}

\* No screen that offers nothing but waiting stays for ever.
BusyEnds == Busy ~> ~Busy
=============================================================================
