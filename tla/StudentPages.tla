----------------------------- MODULE StudentPages -----------------------------
(***************************************************************************)
(* The student's part of the application: scanning a book, the camera      *)
(* behind it, and the shell that signs him in.  Each section has variables *)
(* of its own and is looked at by itself: the others stay where they       *)
(* start.  The page of returns is module ReturnFlow.                       *)
(***************************************************************************)
EXTENDS Browser

CONSTANTS
    Books, Codes, MaxRuns,
    Students, Paths, Root,
    MaxSessions     \* bound on the sessions that begin

VARIABLES
    section,
    shelf, holder, page, behind,
    runs, current, streams, active, told,
    live, cookie, stored, app, wanted, asked, failures, sessions

scanVars == <<shelf, holder, page, behind, calls, faults, changes>>
cameraVars == <<runs, current, streams, active, told>>
signInVars == <<live, cookie, stored, app, wanted, asked, failures, sessions>>

vars == <<section, scanVars, cameraVars, signInVars>>

Scanning == INSTANCE Scan

Watching == INSTANCE Camera WITH live <- streams

SigningIn == INSTANCE SignIn WITH
    calls <- asked, faults <- failures, changes <- sessions, MaxChanges <- MaxSessions

\* Model values and strings are no records, and null is neither.
ASSUME StudentPagesAssumption ==
    /\ None \notin Books \cup Codes \cup Students \cup Paths
    /\ None \notin Scanning!Errors \cup Watching!Failures
    /\ None \notin {"me", "other", "unreadable", "unknown"}
    /\ None \notin Scanning!Attempt
    /\ "unknown" \notin Students
    /\ Root \in Paths
    /\ MaxRuns \in Nat /\ MaxSessions \in Nat

-----------------------------------------------------------------------------
\* In the sections that are not entered nothing waits to happen.
Init ==
    /\ section \in {"scanning", "watching", "signing in"}
    /\ Scanning!Init
    /\ section # "scanning" => shelf = [b \in Books |-> "active"]
    /\ Watching!Init
    /\ IF section = "signing in" THEN SigningIn!Init
       ELSE /\ live = {} /\ cookie = None /\ stored = None /\ wanted = None
            /\ app = [SigningIn!NoApp EXCEPT !.me = None]
            /\ asked = {} /\ failures = 0 /\ sessions = 0

Next ==
    /\ \/ /\ section = "scanning" /\ Scanning!Next
          /\ UNCHANGED <<cameraVars, signInVars>>
       \/ /\ section = "watching" /\ Watching!Next
          /\ UNCHANGED <<scanVars, signInVars>>
       \/ /\ section = "signing in" /\ SigningIn!Next
          /\ UNCHANGED <<scanVars, cameraVars>>
    /\ UNCHANGED section

Fairness == Scanning!Fairness /\ Watching!Fairness /\ SigningIn!Fairness

Spec == Init /\ [][Next]_vars /\ Fairness

-----------------------------------------------------------------------------
(* Properties: those of the sections.                                      *)

\* State, history and calls of each section are of their types.
TypeOK ==
    /\ section = "scanning" => Scanning!TypeOK
    /\ section = "watching" => Watching!TypeOK
    /\ section = "signing in" => SigningIn!TypeOK

\* What the scanner's screens say of a borrow is true: who is told that the book
\* is his has it, and however often an ISBN is sent and whichever answer is lost,
\* his own book is not refused to him.
AnswersTrue ==
    section = "scanning" => Scanning!ConfirmedIsMine /\ Scanning!RefusedIsNotMine

\* What is locked waits for a call whose answer unlocks it: a screen that takes
\* an ISBN is never deaf, and no button of the sign-in is dead.
LocksHaveTheirCalls ==
    /\ section = "scanning" => Scanning!LockIsShown
    /\ section = "signing in" => SigningIn!LockHasItsCall

\* The camera goes out with the screen.
CameraOff == section = "watching" => Watching!CameraOff

\* At most one report for each showing of the camera, and none when it is off the
\* screen; drawing it again with other callbacks begins another showing.
KeepsPromise == Watching!KeepsPromise

\* However its answers overtake each other, the shell shows the name of the
\* student whose session it uses, at the page where he began to sign in.
SignInTrue ==
    section = "signing in" => SigningIn!MeTrue /\ SigningIn!ReturnsToPage

\* No screen waits for ever: not for the answer to a borrow, not for a scanner,
\* and not to learn who the student is.
WaitingEnds ==
    Scanning!PendingEnds /\ Watching!WatchingEnds /\ SigningIn!Settles
=============================================================================
