------------------------- MODULE StudentPagesProofs -------------------------
(***************************************************************************)
(* Theorems about StudentPages, for any books, codes, students and paths   *)
(* and any number of calls, faults and runs of the camera.  A section that *)
(* is not entered stays where it starts, so what is invariant in a section *)
(* is invariant in all of them.                                            *)
(***************************************************************************)
EXTENDS StudentPages, FiniteSetTheorems, TLAPS

-----------------------------------------------------------------------------
(* Scanning.  Two kinds of call may be under way: the one the screen waits *)
(* for, and those nobody waits for any more, which still borrow.           *)

Borrow == [op: {"borrow"}, id: Books, arg: {None}, to: {"page", "gone"},
           answer: {"none", "ok", "refused", "failed"},
           data: Scanning!Errors \cup {None}]

Attempted == page.attempt # None

\* The call the screen waits for, if there is one.
Awaited == {c \in calls : c.to = "page"}

\* Calls are borrows; nobody hears of one that was given up; a refusal says why.
CallsTyped ==
    \A c \in calls :
        /\ c \in Borrow
        /\ c.to = "gone" => c.answer = "none"
        /\ c.answer = "refused" => c.data # None

\* A page that is not open is blank, and an open one awaits one call at most.
ScreenOK ==
    /\ ~page.open => page = Scanning!NoPage
    /\ \A c, d \in Awaited : c = d

\* The lock, the attempt and the awaited call come and go together.
LockOK ==
    /\ page.submissionLocked <=> Attempted
    /\ Attempted /\ page.attempt.status = "pending" <=> Awaited # {}
    /\ \A c \in Awaited : c.id = page.attempt.isbn

\* What module Loans has of the desk: only books on the shelf are lent, and a
\* student has one book.
DeskOK ==
    /\ \A b \in Books : shelf[b] \in {"absent", "lost"} => holder[b] = None
    /\ \A b, c \in Scanning!Held : b = c

\* A refusal whose reason is still there.
RefusalStands(b, error) ==
    \/ error \in {"offline", "other", "book_inactive"}
    \/ error = "book_not_found" /\ shelf[b] = "absent"
    \/ error = "book_lost" /\ shelf[b] = "lost"
    \/ error = "loan_limit" /\ Scanning!Held \ {b} # {}
    \/ error = "book_unavailable" /\ holder[b] = "other"

\* What an answer under way, and what the screen, says is true unless somebody
\* else has changed it since the page was opened.
AnswersStand ==
    /\ \A c \in calls : c.answer = "ok" /\ c.id \notin behind => holder[c.id] = "me"
    /\ Attempted /\ page.attempt.status = "success" /\ page.attempt.isbn \notin behind =>
         holder[page.attempt.isbn] = "me"
    /\ behind = {} =>
         /\ \A c \in calls : c.answer = "refused" => RefusalStands(c.id, c.data)
         /\ Attempted /\ page.attempt.status = "error" =>
              RefusalStands(page.attempt.isbn, page.attempt.error)

ScanOK == Scanning!TypeOK /\ CallsTyped /\ ScreenOK /\ LockOK /\ DeskOK /\ AnswersStand

\* Pages as the screens make them.
LEMMA PagesTyped ==
  /\ Scanning!NoPage \in Scanning!Page
  /\ \A p \in Scanning!Page :
       /\ Scanning!Enter(p) \in Scanning!Page
       /\ Scanning!Enter(p).attempt = None /\ ~Scanning!Enter(p).submissionLocked
       /\ Scanning!Enter(p).open = p.open
       /\ \A initial \in Books \cup {None} :
            /\ Scanning!Manual(p, initial) \in Scanning!Page
            /\ Scanning!Manual(p, initial).attempt = p.attempt
            /\ Scanning!Manual(p, initial).submissionLocked = p.submissionLocked
            /\ Scanning!Manual(p, initial).open = p.open
  <1>1. Scanning!NoPage \in Scanning!Page
    BY DEF Scanning!NoPage, Scanning!Page, Scanning!Sources, Scanning!Digits
  <1>2. ASSUME NEW p \in Scanning!Page
        PROVE  /\ Scanning!Enter(p) \in Scanning!Page
               /\ Scanning!Enter(p).attempt = None /\ ~Scanning!Enter(p).submissionLocked
               /\ Scanning!Enter(p).open = p.open
    BY DEF Scanning!Enter, Scanning!Page, Scanning!Digits
  <1>3. ASSUME NEW p \in Scanning!Page, NEW initial \in Books \cup {None}
        PROVE  /\ Scanning!Manual(p, initial) \in Scanning!Page
               /\ Scanning!Manual(p, initial).attempt = p.attempt
               /\ Scanning!Manual(p, initial).submissionLocked = p.submissionLocked
               /\ Scanning!Manual(p, initial).open = p.open
    <2> DEFINE digits == IF initial = None THEN "some" ELSE initial
    <2>1. digits \in Scanning!Digits
      BY DEF Scanning!Digits
    <2> HIDE DEF digits
    <2>2. [p EXCEPT !.mode = "manual", !.lastAccepted = initial, !.digits = digits]
            \in Scanning!Page
      BY <2>1 DEF Scanning!Page, Scanning!Sources
    <2>3. Scanning!Manual(p, initial) =
            [p EXCEPT !.mode = "manual", !.lastAccepted = initial, !.digits = digits]
      BY DEF Scanning!Manual, digits
    <2> QED
      BY <2>2, <2>3 DEF Scanning!Page
  <1> QED
    BY <1>1, <1>2, <1>3

\* The screen turns: nothing is sent, and the attempt is the same or is over.
LEMMA TurnKeeps ==
  ASSUME ScanOK, NEW p \in Scanning!Page, page' = p, p.open,
         UNCHANGED <<calls, shelf, holder, behind, faults, changes>>,
         \/ p.attempt = page.attempt /\ p.submissionLocked = page.submissionLocked
         \/ p.attempt = None /\ ~p.submissionLocked /\ Awaited = {}
  PROVE  ScanOK'
  <1>1. Scanning!TypeOK'
    BY DEF ScanOK, Scanning!TypeOK
  <1>2. CallsTyped' /\ ScreenOK' /\ DeskOK'
    BY DEF ScanOK, CallsTyped, ScreenOK, DeskOK, Awaited, Scanning!Held
  <1>3. LockOK'
    BY DEF ScanOK, LockOK, Awaited, Attempted
  <1>4. AnswersStand'
    BY DEF ScanOK, AnswersStand, Attempted, RefusalStands, Scanning!Held
  <1> QED
    BY <1>1, <1>2, <1>3, <1>4 DEF ScanOK

\* An ISBN is sent from a screen that awaits nothing.
LEMMA SubmitKeeps ==
  ASSUME ScanOK, NEW p \in Scanning!Page, NEW isbn \in Books,
         NEW source \in Scanning!Sources, p.open, ~p.submissionLocked, Awaited = {},
         Scanning!submitISBN(p, isbn, source), Scanning!OnPage
  PROVE  ScanOK'
  <1>1. PICK a : a = [status |-> "pending", isbn |-> isbn, source |-> source, error |-> None]
    OBVIOUS
  <1>2. a \in Scanning!Attempt /\ a.status = "pending" /\ a.isbn = isbn /\ a # None
    BY <1>1, StudentPagesAssumption DEF Scanning!Attempt
  <1>3. page' = [p EXCEPT !.submissionLocked = TRUE, !.attempt = a]
    BY <1>1 DEF Scanning!submitISBN
  <1>4. PICK c : c = Scanning!Request("borrow", isbn, None)
    OBVIOUS
  <1>5. /\ c \in Borrow /\ c.to = "page" /\ c.answer = "none" /\ c.id = isbn
        /\ calls' = calls \cup {c}
    BY <1>4 DEF Scanning!Request, Scanning!submitISBN, Scanning!Send, Borrow
  <1>6. UNCHANGED <<shelf, holder, behind, faults, changes>>
    BY DEF Scanning!OnPage
  <1>7. /\ page' \in Scanning!Page /\ page'.open /\ page'.submissionLocked
        /\ page'.attempt = a
    BY <1>2, <1>3 DEF Scanning!Page
  <1>8. Awaited' = {c}
    BY <1>5 DEF Awaited
  <1>9. Scanning!TypeOK'
    BY <1>6, <1>7 DEF ScanOK, Scanning!TypeOK
  <1>10. CallsTyped' /\ ScreenOK' /\ DeskOK'
    BY <1>5, <1>6, <1>7, <1>8 DEF ScanOK, CallsTyped, ScreenOK, DeskOK, Scanning!Held
  <1>11. LockOK'
    BY <1>2, <1>5, <1>7, <1>8 DEF LockOK, Attempted
  <1>12. AnswersStand'
    BY <1>2, <1>5, <1>6, <1>7 DEF ScanOK, AnswersStand, Attempted, RefusalStands, Scanning!Held
  <1> QED
    BY <1>9, <1>10, <1>11, <1>12 DEF ScanOK

\* What the student does on the page.
LEMMA StudentKeeps ==
  ASSUME ScanOK, Scanning!Student
  PROVE  ScanOK'
  <1>0. page \in Scanning!Page
    BY DEF ScanOK, Scanning!TypeOK
  <1>a. page.attempt = None => Awaited = {} /\ ~page.submissionLocked
    BY DEF ScanOK, LockOK, Attempted
  <1>b. ASSUME NEW errors, Scanning!ErrorShown(errors)
        PROVE  /\ page.attempt \in Scanning!Attempt /\ page.open /\ Awaited = {}
    BY <1>0, <1>b DEF Scanning!ErrorShown, Scanning!Page, Scanning!NoPage, ScanOK,
                      ScreenOK, LockOK, Attempted
  <1>1. CASE Scanning!Open
    <2>1. page = Scanning!NoPage /\ page.attempt = None
      BY <1>1 DEF Scanning!Open, Scanning!NoPage, ScanOK, ScreenOK
    <2>2. PICK p : p = [Scanning!NoPage EXCEPT !.open = TRUE]
      OBVIOUS
    <2>3. p \in Scanning!Page /\ p.open /\ p.attempt = None /\ ~p.submissionLocked
      BY <2>2, PagesTyped DEF Scanning!Page, Scanning!NoPage
    <2>4. page' \in {p, Scanning!Manual(p, None)}
      BY <1>1, <2>2 DEF Scanning!Open
    <2>5. /\ page' \in Scanning!Page /\ page'.open /\ page'.attempt = None
          /\ ~page'.submissionLocked
      BY <2>3, <2>4, PagesTyped
    <2>6. /\ UNCHANGED <<calls, shelf, holder, faults, changes>>
          /\ behind' = {c.id : c \in calls}
      BY <1>1 DEF Scanning!Open
    <2>7. Awaited' = {} /\ Awaited = {}
      BY <1>a, <2>1, <2>6 DEF Awaited
    <2>8. Scanning!TypeOK'
      BY <2>5, <2>6 DEF ScanOK, Scanning!TypeOK, CallsTyped, Borrow
    <2>9. CallsTyped' /\ ScreenOK' /\ DeskOK' /\ LockOK'
      BY <2>5, <2>6, <2>7 DEF ScanOK, CallsTyped, ScreenOK, DeskOK, LockOK, Attempted,
                              Scanning!Held
    <2>10. AnswersStand'
      BY <2>5, <2>6 DEF AnswersStand, Attempted
    <2> QED
      BY <2>8, <2>9, <2>10 DEF ScanOK
  <1>2. CASE Scanning!Leave
    <2>1. /\ page' = Scanning!NoPage /\ page'.attempt = None /\ ~page'.submissionLocked
          /\ page' \in Scanning!Page
      BY <1>2, PagesTyped DEF Scanning!Leave, Scanning!NoPage
    <2>2. UNCHANGED <<shelf, holder, behind, faults, changes>>
      BY <1>2 DEF Scanning!Leave, Scanning!OnPage
    <2>3. \A c \in calls' : c \in Borrow /\ c.to = "gone" /\ c.answer = "none"
      BY <1>2 DEF Scanning!Leave, Scanning!Abandoned, Borrow, ScanOK, CallsTyped
    <2>4. Awaited' = {}
      BY <2>3 DEF Awaited
    <2>5. Scanning!TypeOK'
      BY <2>1, <2>2 DEF ScanOK, Scanning!TypeOK
    <2>6. CallsTyped' /\ ScreenOK' /\ DeskOK' /\ LockOK'
      BY <2>1, <2>2, <2>3, <2>4 DEF ScanOK, CallsTyped, ScreenOK, DeskOK, LockOK,
                                    Attempted, Scanning!Held
    <2>7. AnswersStand'
      BY <2>1, <2>2, <2>3 DEF AnswersStand, Attempted
    <2> QED
      BY <2>5, <2>6, <2>7 DEF ScanOK
  <1>3. ASSUME NEW p \in Scanning!Page, Scanning!Turn(p), Scanning!OnPage, p.open,
               \/ p.attempt = page.attempt /\ p.submissionLocked = page.submissionLocked
               \/ p.attempt = None /\ ~p.submissionLocked /\ Awaited = {}
        PROVE  ScanOK'
    BY <1>3, TurnKeeps DEF Scanning!Turn, Scanning!OnPage
  <1>4. CASE Scanning!CameraUnreadable
    BY <1>0, <1>3, <1>4 DEF Scanning!CameraUnreadable, Scanning!CameraShown,
                            Scanning!Entry, Scanning!Page
  <1>5. ASSUME NEW failure \in {"denied", "unavailable"}, Scanning!cameraFailed(failure)
        PROVE  ScanOK'
    BY <1>0, <1>3, <1>5 DEF Scanning!cameraFailed, Scanning!CameraShown,
                            Scanning!Entry, Scanning!Page
  <1>6. CASE Scanning!showCamera
    <2> DEFINE p == [Scanning!Enter(page) EXCEPT !.mode = "camera"]
    <2>1. page.open /\ Awaited = {}
      BY <1>6, <1>a, <1>b DEF Scanning!showCamera, Scanning!ManualShown, Scanning!Entry
    <2>2. p \in Scanning!Page /\ p.open /\ p.attempt = None /\ ~p.submissionLocked
      BY <1>0, <2>1, PagesTyped DEF Scanning!Page, Scanning!Sources
    <2> QED
      BY <1>3, <1>6, <2>1, <2>2 DEF Scanning!showCamera
  <1>7. CASE Scanning!showManual
    <2> DEFINE p == Scanning!Manual(Scanning!Enter(page), None)
    <2>1. page.open /\ Awaited = {}
      BY <1>7, <1>a DEF Scanning!showManual, Scanning!Entry
    <2>2. p \in Scanning!Page /\ p.open /\ p.attempt = None /\ ~p.submissionLocked
      BY <1>0, <2>1, PagesTyped
    <2> QED
      BY <1>3, <1>7, <2>1, <2>2 DEF Scanning!showManual
  <1>8. CASE Scanning!editManualISBN
    <2> DEFINE p == Scanning!Manual(Scanning!Enter(page), page.attempt.isbn)
    <2>1. page.open /\ Awaited = {} /\ page.attempt.isbn \in Books
      BY <1>8, <1>b DEF Scanning!editManualISBN, Scanning!Attempt
    <2>2. p \in Scanning!Page /\ p.open /\ p.attempt = None /\ ~p.submissionLocked
      BY <1>0, <2>1, PagesTyped
    <2> QED
      BY <1>3, <1>8, <2>1, <2>2 DEF Scanning!editManualISBN
  <1>9. ASSUME NEW isbn \in Books, Scanning!cameraDetected(isbn)
        PROVE  ScanOK'
    <2>1. page.open /\ ~page.submissionLocked /\ Awaited = {}
      BY <1>9, <1>a DEF Scanning!cameraDetected, Scanning!CameraShown, Scanning!Entry
    <2> QED
      BY <1>0, <1>9, <2>1, SubmitKeeps DEF Scanning!cameraDetected, Scanning!Sources
  <1>10. ASSUME NEW digits \in Scanning!Digits, Scanning!ManualInput(digits)
         PROVE  ScanOK'
    <2>1. page.open /\ ~page.submissionLocked /\ Awaited = {}
      BY <1>10, <1>a DEF Scanning!ManualInput, Scanning!ManualShown, Scanning!Entry
    <2>2. PICK p : p = [page EXCEPT !.digits = digits]
      OBVIOUS
    <2>3. /\ p \in Scanning!Page /\ p.open /\ ~p.submissionLocked
          /\ p.attempt = page.attempt /\ p.submissionLocked = page.submissionLocked
      BY <1>0, <2>1, <2>2 DEF Scanning!Page
    <2>4. CASE Scanning!Turn(p)
      BY <1>3, <1>10, <2>3, <2>4 DEF Scanning!ManualInput
    <2>5. CASE digits \in Books /\ Scanning!submitISBN([p EXCEPT !.lastAccepted = digits],
                                                       digits, "manual")
      <3>1. /\ [p EXCEPT !.lastAccepted = digits] \in Scanning!Page
            /\ [p EXCEPT !.lastAccepted = digits].open
            /\ ~[p EXCEPT !.lastAccepted = digits].submissionLocked
        BY <2>3, <2>5 DEF Scanning!Page
      <3> QED
        BY <1>10, <2>1, <2>5, <3>1, SubmitKeeps DEF Scanning!ManualInput, Scanning!Sources
    <2> QED
      BY <1>10, <2>2, <2>4, <2>5 DEF Scanning!ManualInput
  <1>11. CASE Scanning!retryBorrow
    <2>1. PICK p : p = [page EXCEPT !.submissionLocked = FALSE]
      OBVIOUS
    <2>2. page.attempt \in Scanning!Attempt /\ page.open /\ Awaited = {}
      BY <1>11, <1>b DEF Scanning!retryBorrow
    <2>3. p \in Scanning!Page /\ p.open /\ ~p.submissionLocked
      BY <1>0, <2>1, <2>2 DEF Scanning!Page
    <2>4. Scanning!submitISBN(p, page.attempt.isbn, page.attempt.source)
      BY <1>11, <2>1 DEF Scanning!retryBorrow
    <2> QED
      BY <1>11, <2>2, <2>3, <2>4, SubmitKeeps DEF Scanning!retryBorrow,
         Scanning!Attempt, Scanning!Sources
  <1> QED
    BY <1>1, <1>2, <1>4, <1>5, <1>6, <1>7, <1>8, <1>9, <1>10, <1>11
       DEF Scanning!Student

\* The server answers a call; who borrows a book takes it from nobody.
LEMMA RefusalTrue ==
  ASSUME NEW b \in Books
  PROVE  /\ Scanning!Refusal(b) # None =>
              Scanning!Refusal(b) \in Scanning!Errors
         /\ ScanOK /\ Scanning!Refusal(b) # None => RefusalStands(b, Scanning!Refusal(b))
         /\ ScanOK /\ Scanning!Refusal(b) = None =>
              /\ holder[b] \in {None, "me"} /\ shelf[b] = "active"
              /\ Scanning!Held \subseteq {b}
  <1>1. ASSUME Scanning!Refusal(b) # None
        PROVE  Scanning!Refusal(b) \in Scanning!Errors
    BY <1>1 DEF Scanning!Refusal, Scanning!Errors
  <1>2. ASSUME ScanOK, Scanning!Refusal(b) # None
        PROVE  RefusalStands(b, Scanning!Refusal(b))
    BY <1>2, StudentPagesAssumption
       DEF Scanning!Refusal, RefusalStands, Scanning!Held, ScanOK, Scanning!TypeOK
  <1>3. ASSUME ScanOK, Scanning!Refusal(b) = None
        PROVE  /\ holder[b] \in {None, "me"} /\ shelf[b] = "active"
               /\ Scanning!Held \subseteq {b}
    BY <1>3, StudentPagesAssumption
       DEF Scanning!Refusal, Scanning!Held, ScanOK, Scanning!TypeOK, Scanning!Errors, Scanning!Status
  <1> QED
    BY <1>1, <1>2, <1>3

\* The awaited call is replaced by its answered self, or a call nobody waits
\* for is dropped.
LEMMA ReplyKeeps ==
  ASSUME ScanOK, NEW c \in calls, c.answer = "none", UNCHANGED <<page, shelf, behind, faults>>,
         holder' \in [Books -> {"me", "other", None}], changes' \in 0 .. MaxChanges,
         NEW answer \in {"ok", "refused", "failed"}, NEW data \in Scanning!Errors \cup {None},
         Scanning!Reply(c, answer, data), DeskOK',
         \A b \in Books : /\ holder[b] = "me" => holder'[b] = "me"
                          /\ holder[b] = "other" => holder'[b] = "other",
         answer = "ok" => holder'[c.id] = "me",
         answer = "refused" => data # None /\ RefusalStands(c.id, data)
  PROVE  ScanOK'
  <1>1. c \in Borrow
    BY DEF ScanOK, CallsTyped
  <1>2. PICK d : d = [c EXCEPT !.answer = answer, !.data = data]
    OBVIOUS
  <1>3. /\ d \in Borrow /\ d.to = c.to /\ d.id = c.id /\ d.answer = answer /\ d.data = data
    BY <1>1, <1>2 DEF Borrow
  <1>4. calls' = (calls \ {c}) \cup (IF c.to = "gone" THEN {} ELSE {d})
    BY <1>2 DEF Scanning!Reply
  <1>5. Scanning!TypeOK'
    BY DEF ScanOK, Scanning!TypeOK
  <1>6. CallsTyped'
    BY <1>3, <1>4 DEF ScanOK, CallsTyped
  <1>7. c.to = "gone" => Awaited' = Awaited
    BY <1>4 DEF Awaited
  <1>8. c.to # "gone" => Awaited = {c} /\ Awaited' = {d}
    <2>1. c.to # "gone" => c \in Awaited
      BY <1>1 DEF Borrow, Awaited
    <2>2. c.to # "gone" => Awaited = {c}
      BY <2>1 DEF ScanOK, ScreenOK
    <2> QED
      BY <1>1, <1>3, <1>4, <2>2 DEF Awaited, Borrow
  <1>9. ScreenOK' /\ LockOK'
    BY <1>3, <1>7, <1>8 DEF ScanOK, ScreenOK, LockOK, Attempted
  <1>10. \A b \in Books : \A error : RefusalStands(b, error) => RefusalStands(b, error)'
    BY DEF RefusalStands, Scanning!Held
  <1>11. AnswersStand'
    <2>1. \A e \in calls : e.id \in Books
      BY DEF ScanOK, CallsTyped, Borrow
    <2>2. Attempted => page.attempt.isbn \in Books
      BY DEF Attempted, ScanOK, Scanning!TypeOK, Scanning!Page, Scanning!Attempt
    <2>3. \A e \in calls' : e.answer = "ok" /\ e.id \notin behind' => holder'[e.id] = "me"
      BY <1>1, <1>3, <1>4, <2>1 DEF ScanOK, AnswersStand
    <2>4. behind' = {} =>
            \A e \in calls' : e.answer = "refused" => RefusalStands(e.id, e.data)'
      <3>1. ASSUME behind = {}, NEW e \in calls', e.answer = "refused"
            PROVE  RefusalStands(e.id, e.data)
        BY <1>3, <1>4, <3>1 DEF ScanOK, AnswersStand
      <3>2. \A e \in calls' : e.id \in Books
        BY <1>1, <1>3, <1>4, <2>1 DEF Borrow
      <3>3. ASSUME behind' = {}, NEW e \in calls', e.answer = "refused"
            PROVE  RefusalStands(e.id, e.data)'
        <4>1. PICK b, error : b = e.id /\ error = e.data
          OBVIOUS
        <4>2. RefusalStands(b, error)
          BY <3>1, <3>3, <4>1
        <4> QED
          BY <1>10, <3>2, <3>3, <4>1, <4>2
      <3> QED
        BY <3>3
    <2>5. Attempted /\ page.attempt.status = "success" /\ page.attempt.isbn \notin behind =>
            holder'[page.attempt.isbn] = "me"
      BY <2>2 DEF ScanOK, AnswersStand
    <2>6. behind = {} /\ Attempted /\ page.attempt.status = "error" =>
            RefusalStands(page.attempt.isbn, page.attempt.error)'
      <3>1. PICK b, error : b = page.attempt.isbn /\ error = page.attempt.error
        OBVIOUS
      <3> QED
        BY <1>10, <2>2, <3>1 DEF ScanOK, AnswersStand, RefusalStands, Scanning!Held
    <2> QED
      BY <2>3, <2>4, <2>5, <2>6 DEF AnswersStand, Attempted
  <1> QED
    BY <1>5, <1>6, <1>9, <1>11 DEF ScanOK

LEMMA ServeKeeps ==
  ASSUME ScanOK, NEW c \in calls, Scanning!Serve(c)
  PROVE  ScanOK'
  <1>0. c.answer = "none" /\ UNCHANGED <<page, shelf, behind, faults>> /\ c.id \in Books
    BY DEF Scanning!Serve, ScanOK, CallsTyped, Borrow
  <1>1. /\ holder \in [Books -> {"me", "other", None}] /\ changes \in 0 .. MaxChanges
        /\ DeskOK
    BY DEF ScanOK, Scanning!TypeOK
  <1>2. UNCHANGED holder => DeskOK'
    BY <1>0, <1>1 DEF DeskOK, Scanning!Held
  <1>3. CASE Scanning!Refusal(c.id) # None /\ Scanning!borrowBook(c)
    <2>1. /\ Scanning!Reply(c, "refused", Scanning!Refusal(c.id))
          /\ UNCHANGED <<holder, changes>>
      BY <1>3 DEF Scanning!borrowBook, Scanning!NoChange
    <2>2. /\ Scanning!Refusal(c.id) \in Scanning!Errors
          /\ RefusalStands(c.id, Scanning!Refusal(c.id))
      BY <1>0, <1>3, RefusalTrue
    <2> QED
      BY <1>0, <1>1, <1>2, <1>3, <2>1, <2>2, ReplyKeeps
  <1>4. CASE Scanning!Overloaded(c) /\ UNCHANGED holder
    BY <1>0, <1>1, <1>2, <1>4, ReplyKeeps DEF Scanning!Overloaded, Scanning!NoChange
  <1>5. CASE Scanning!Refusal(c.id) = None /\ holder[c.id] = "me" /\ Scanning!borrowBook(c)
    <2>1. Scanning!Reply(c, "ok", None) /\ UNCHANGED <<holder, changes>>
      BY <1>5 DEF Scanning!borrowBook, Scanning!NoChange
    <2> QED
      BY <1>0, <1>1, <1>2, <1>5, <2>1, ReplyKeeps
  <1>6. CASE Scanning!Refusal(c.id) = None /\ holder[c.id] # "me" /\ Scanning!borrowBook(c)
    <2>1. PICK b : b = c.id
      OBVIOUS
    <2>2. /\ holder' = [holder EXCEPT ![b] = "me"]
          /\ Scanning!Reply(c, "ok", None) /\ changes' \in 0 .. MaxChanges
      BY <1>1, <1>6, <2>1, BrowserAssumption DEF Scanning!borrowBook, Scanning!Change
    <2>3. holder[b] = None /\ shelf[b] = "active" /\ Scanning!Held \subseteq {b}
      BY <1>0, <1>6, <2>1, RefusalTrue
    <2>4. holder' \in [Books -> {"me", "other", None}] /\ holder'[b] = "me"
      BY <1>0, <1>1, <2>1, <2>2
    <2>5. \A x \in Books : x # b => holder'[x] = holder[x]
      BY <1>1, <2>2
    <2>6. DeskOK'
      <3>1. \A x \in Books : shelf[x] \in {"absent", "lost"} => holder'[x] = None
        BY <1>1, <2>3, <2>5 DEF DeskOK
      <3>2. Scanning!Held' \subseteq {b}
        BY <2>3, <2>5 DEF Scanning!Held
      <3> QED
        BY <1>0, <3>1, <3>2 DEF DeskOK
    <2>7. \A x \in Books : /\ holder[x] = "me" => holder'[x] = "me"
                           /\ holder[x] = "other" => holder'[x] = "other"
      BY <2>3, <2>4, <2>5, StudentPagesAssumption
    <2> QED
      BY <1>0, <2>1, <2>2, <2>4, <2>6, <2>7, ReplyKeeps
  <1> QED
    BY <1>3, <1>4, <1>5, <1>6 DEF Scanning!Serve, Scanning!borrowBook

\* Others change one book, which is then behind.
LEMMA ElsewhereKeeps ==
  ASSUME ScanOK, NEW b \in Books, Scanning!Elsewhere(b)
  PROVE  ScanOK'
  <1>0. /\ holder \in [Books -> {"me", "other", None}] /\ shelf \in [Books -> Scanning!Status]
        /\ UNCHANGED <<page, calls, faults>> /\ behind' = behind \cup {b}
        /\ changes' = changes + 1 /\ changes < MaxChanges
    BY DEF ScanOK, Scanning!TypeOK, Scanning!Elsewhere
  <1>1. /\ \A c \in Books : c # b => holder'[c] = holder[c] /\ shelf'[c] = shelf[c]
        /\ holder' \in [Books -> {"me", "other", None}]
        /\ shelf' \in [Books -> Scanning!Status]
        /\ shelf'[b] \in {"absent", "lost"} => holder'[b] = None
        /\ holder'[b] = "me" => holder[b] = "me" \/ Scanning!Held = {}
    <2>1. ASSUME NEW who \in {"me", "other"}, holder[b] = None, shelf[b] = "active",
                 who = "me" => Scanning!Held = {},
                 holder' = [holder EXCEPT ![b] = who], UNCHANGED shelf
          PROVE  <1>1!:
      BY <1>0, <2>1
    <2>2. CASE holder' = [holder EXCEPT ![b] = None] /\ UNCHANGED shelf
      BY <1>0, <2>2, StudentPagesAssumption
    <2>3. ASSUME NEW status \in Scanning!Status \ {shelf[b], "absent"},
                 shelf' = [shelf EXCEPT ![b] = status],
                 holder' = IF status = "lost" THEN [holder EXCEPT ![b] = None] ELSE holder
          PROVE  <1>1!:
      BY <1>0, <2>3, StudentPagesAssumption DEF ScanOK, DeskOK
    <2> QED
      BY <2>1, <2>2, <2>3 DEF Scanning!Elsewhere
  <1>2. Scanning!TypeOK'
    BY <1>0, <1>1, BrowserAssumption DEF ScanOK, Scanning!TypeOK
  <1>3. CallsTyped' /\ ScreenOK' /\ LockOK'
    BY <1>0 DEF ScanOK, CallsTyped, ScreenOK, LockOK, Awaited, Attempted
  <1>4. DeskOK'
    <2>1. \A c \in Books : shelf'[c] \in {"absent", "lost"} => holder'[c] = None
      BY <1>1 DEF ScanOK, DeskOK
    <2>2. CASE Scanning!Held = {}
      <3>1. Scanning!Held' \subseteq {b}
        BY <1>1, <2>2 DEF Scanning!Held
      <3> QED
        BY <2>1, <3>1 DEF DeskOK
    <2>3. CASE Scanning!Held # {}
      <3>1. Scanning!Held' \subseteq Scanning!Held
        BY <1>1, <2>3 DEF Scanning!Held
      <3> QED
        BY <2>1, <3>1 DEF ScanOK, DeskOK
    <2> QED
      BY <2>2, <2>3
  <1>5. AnswersStand'
    <2>1. behind' # {} /\ b \in behind' /\ behind \subseteq behind'
      BY <1>0
    <2>2. (\A c \in calls : c.id \in Books) /\ (Attempted => page.attempt.isbn \in Books)
      BY DEF ScanOK, CallsTyped, Borrow, Attempted, Scanning!TypeOK, Scanning!Page,
             Scanning!Attempt
    <2> QED
      BY <1>0, <1>1, <2>1, <2>2 DEF ScanOK, AnswersStand, Attempted
  <1> QED
    BY <1>2, <1>3, <1>4, <1>5 DEF ScanOK

\* A call fails, perhaps with its request still under way.
LEMMA LoseKeeps ==
  ASSUME ScanOK, NEW c \in calls, Scanning!Lose(c)
  PROVE  ScanOK'
  <1>0. /\ UNCHANGED <<shelf, holder, page, behind, changes>>
        /\ faults < MaxFaults /\ faults' = faults + 1
        /\ c.to = "page" /\ c \in Borrow /\ Awaited = {c}
    BY DEF Scanning!Lose, Scanning!Fail, ScanOK, CallsTyped, ScreenOK, Borrow, Awaited
  <1>1. PICK failed, gone : /\ failed = [c EXCEPT !.answer = "failed", !.data = None]
                            /\ gone = [c EXCEPT !.to = "gone"]
    OBVIOUS
  <1>2. /\ failed \in Borrow /\ failed.to = "page" /\ failed.answer = "failed"
        /\ failed.id = c.id
        /\ gone \in Borrow /\ gone.to = "gone" /\ gone.answer = c.answer
    BY <1>0, <1>1 DEF Borrow
  <1>3. \/ calls' = (calls \ {c}) \cup {failed}
        \/ c.answer = "none" /\ calls' = (calls \ {c}) \cup {failed, gone}
    BY <1>1 DEF Scanning!Lose, Scanning!Fail
  <1>4. Awaited' = {failed}
    BY <1>0, <1>2, <1>3 DEF Awaited
  <1>5. Scanning!TypeOK'
    BY <1>0, BrowserAssumption DEF ScanOK, Scanning!TypeOK
  <1>6. CallsTyped'
    BY <1>2, <1>3 DEF ScanOK, CallsTyped
  <1>7. ScreenOK' /\ LockOK' /\ DeskOK'
    BY <1>0, <1>2, <1>4 DEF ScanOK, ScreenOK, LockOK, DeskOK, Attempted, Scanning!Held
  <1>8. AnswersStand'
    BY <1>0, <1>2, <1>3 DEF ScanOK, AnswersStand, Attempted, RefusalStands, Scanning!Held
  <1> QED
    BY <1>5, <1>6, <1>7, <1>8 DEF ScanOK

\* The awaited answer is shown.
LEMMA ArriveKeeps ==
  ASSUME ScanOK, NEW c \in calls, Scanning!Arrive(c)
  PROVE  ScanOK'
  <1>0. /\ UNCHANGED <<shelf, holder, behind, faults, changes>> /\ calls' = calls \ {c}
        /\ c \in Borrow /\ c.answer # "none" /\ c.to = "page" /\ Awaited = {c}
        /\ c.answer = "refused" => c.data # None
    BY DEF Scanning!Arrive, Scanning!OnPage, Scanning!Heard, ScanOK, CallsTyped, ScreenOK,
           Borrow, Awaited
  <1>1. Awaited' = {}
    BY <1>0 DEF Awaited
  <1>2. /\ page \in Scanning!Page /\ page.attempt \in Scanning!Attempt /\ page.open
        /\ page.attempt # None /\ page.attempt.isbn = c.id /\ page.submissionLocked
    BY <1>0 DEF ScanOK, Scanning!TypeOK, Scanning!Page, LockOK, Attempted, ScreenOK,
                Scanning!NoPage
  <1>3. \E a \in Scanning!Attempt :
          /\ page' = [page EXCEPT !.attempt = a] /\ a.isbn = c.id
          /\ \/ c.answer = "ok" /\ a.status = "success"
             \/ /\ a.status = "error" /\ a.error # None
                /\ \/ c.answer = "refused" /\ a.error = c.data
                   \/ c.answer = "failed" /\ a.error \in {"offline", "other"}
    <2>1. CASE c.answer = "ok"
      <3>1. page' = [page EXCEPT !.attempt = [page.attempt EXCEPT !.status = "success"]]
        BY <1>2, <2>1 DEF Scanning!Arrive, Scanning!Page
      <3>2. PICK a : a = [page.attempt EXCEPT !.status = "success"]
        OBVIOUS
      <3>3. a \in Scanning!Attempt /\ a.isbn = c.id /\ a.status = "success"
        BY <1>2, <3>2 DEF Scanning!Attempt
      <3>4. page' = [page EXCEPT !.attempt = a]
        BY <3>1, <3>2
      <3> QED
        BY <2>1, <3>3, <3>4
    <2>2. CASE c.answer # "ok"
      <3>1. PICK error \in (IF c.answer = "refused" THEN {c.data} ELSE {"offline", "other"}) :
              page' = [page EXCEPT !.attempt.status = "error", !.attempt.error = error]
        BY <2>2 DEF Scanning!Arrive, Scanning!Retryable
      <3>2. error \in Scanning!Errors /\ error # None
        BY <1>0, <3>1, StudentPagesAssumption DEF Borrow, Scanning!Errors
      <3>3. PICK a : a = [page.attempt EXCEPT !.status = "error", !.error = error]
        OBVIOUS
      <3>4. page' = [page EXCEPT !.attempt = a]
        BY <1>2, <3>1, <3>3 DEF Scanning!Page
      <3>5. a \in Scanning!Attempt /\ a.isbn = c.id /\ a.status = "error" /\ a.error = error
        BY <1>2, <3>2, <3>3 DEF Scanning!Attempt
      <3> QED
        BY <1>0, <2>2, <3>1, <3>2, <3>4, <3>5 DEF Borrow
    <2> QED
      BY <2>1, <2>2
  <1>4. PICK a \in Scanning!Attempt :
          /\ page' = [page EXCEPT !.attempt = a] /\ a.isbn = c.id
          /\ \/ c.answer = "ok" /\ a.status = "success"
             \/ /\ a.status = "error" /\ a.error # None
                /\ \/ c.answer = "refused" /\ a.error = c.data
                   \/ c.answer = "failed" /\ a.error \in {"offline", "other"}
    BY <1>3
  <1>5. /\ page' \in Scanning!Page /\ page'.open /\ page'.submissionLocked
        /\ page'.attempt = a /\ a # None /\ a.status # "pending"
    BY <1>2, <1>4, StudentPagesAssumption DEF Scanning!Page
  <1>6. Scanning!TypeOK'
    BY <1>0, <1>5 DEF ScanOK, Scanning!TypeOK
  <1>7. CallsTyped' /\ ScreenOK' /\ LockOK' /\ DeskOK'
    BY <1>0, <1>1, <1>5 DEF ScanOK, CallsTyped, ScreenOK, LockOK, DeskOK, Attempted,
                            Scanning!Held
  <1>8. AnswersStand'
    BY <1>0, <1>4, <1>5 DEF ScanOK, AnswersStand, Attempted, RefusalStands, Scanning!Held
  <1> QED
    BY <1>6, <1>7, <1>8 DEF ScanOK

LEMMA ScanStep == ScanOK /\ [Scanning!Next]_scanVars => ScanOK'
  <1>1. ASSUME ScanOK, UNCHANGED scanVars
        PROVE  ScanOK'
    BY <1>1 DEF scanVars, ScanOK, Scanning!TypeOK, CallsTyped, ScreenOK, LockOK, DeskOK,
           AnswersStand, Awaited, Attempted, RefusalStands, Scanning!Held
  <1> QED
    BY <1>1, StudentKeeps, ServeKeeps, ArriveKeeps, LoseKeeps, ElsewhereKeeps
       DEF Scanning!Next, Scanning!Network

LEMMA ScanStart == Scanning!Init => ScanOK
  BY PagesTyped, BrowserAssumption, StudentPagesAssumption
     DEF Scanning!Init, ScanOK, Scanning!TypeOK, CallsTyped, ScreenOK, LockOK, DeskOK,
         AnswersStand, Awaited, Attempted, RefusalStands, Scanning!Held, Scanning!NoPage,
         Scanning!Status

-----------------------------------------------------------------------------
(* The camera.  Of the runs that have begun only the current one is not    *)
(* disposed of; another one has its camera on only until init returns; and *)
(* the screen has been told something only by a current run that is over.  *)

Reports == Codes \cup Watching!Failures \cup {"unreadable"}

Ended == {"over", "unloaded"}

RunOK(v) ==
    /\ v \in streams => v = current \/ runs[v].phase = "granted"
    /\ runs[v].phase \in {"new", "importing", "asking", "unloaded"} => v \notin streams
    /\ runs[v].phase # "new" /\ ~runs[v].disposed => v = current
    /\ runs[v].phase = "new" => ~runs[v].disposed
    /\ v = current => runs[v].phase # "new" /\ ~runs[v].disposed
    /\ v = current /\ told # None => runs[v].phase \in Ended

CameraOK == Watching!TypeOK /\ \A v \in Watching!Runs : RunOK(v)

\* The effect starts a run that has not begun, whatever became of the others.
LEMMA StartKeeps ==
  ASSUME CameraOK, NEW rs \in [Watching!Runs -> Watching!Run], Watching!Started(rs),
         streams' \subseteq streams, active' = active,
         \A v \in Watching!Runs :
           /\ rs[v].phase = runs[v].phase
           /\ rs[v].disposed <=> runs[v].disposed \/ v = current
           /\ v \in streams' => rs[v].phase = "granted"
  PROVE  CameraOK'
  <1>1. PICK v \in Watching!Runs :
          /\ rs[v].phase = "new" /\ runs' = [rs EXCEPT ![v].phase = "importing"]
          /\ current' = v
    BY DEF Watching!Started
  <1>2. PICK row : row = [rs[v] EXCEPT !.phase = "importing"]
    OBVIOUS
  <1>3. /\ row \in Watching!Run /\ row.phase = "importing" /\ row.disposed = rs[v].disposed
        /\ runs' = [rs EXCEPT ![v] = row] /\ told' = None
    BY <1>1, <1>2 DEF Watching!Run, Watching!Phases, Watching!Started
  <1>4. ~rs[v].disposed /\ v # current /\ v \notin streams
    BY <1>1 DEF CameraOK, RunOK
  <1>5. Watching!TypeOK'
    BY <1>1, <1>3 DEF CameraOK, Watching!TypeOK
  <1>6. ASSUME NEW w \in Watching!Runs
        PROVE  RunOK(w)'
    <2>1. CASE w = v
      BY <1>1, <1>3, <1>4, <2>1 DEF RunOK
    <2>2. CASE w # v
      <3>1. runs'[w] = rs[w]
        BY <1>3, <2>2
      <3> QED
        BY <1>1, <1>3, <2>2, <3>1 DEF CameraOK, RunOK
    <2> QED
      BY <2>1, <2>2
  <1> QED
    BY <1>5, <1>6 DEF CameraOK

\* The cleanup of the current run.
LEMMA CleanupKeeps ==
  ASSUME CameraOK, current # 0, Watching!Released(current)
  PROVE  /\ Watching!Disposed(current) \in [Watching!Runs -> Watching!Run]
         /\ streams' \subseteq streams /\ active' = active
         /\ \A v \in Watching!Runs :
              /\ Watching!Disposed(current)[v].phase = runs[v].phase
              /\ Watching!Disposed(current)[v].disposed <=> runs[v].disposed \/ v = current
              /\ v \in streams' => runs[v].phase = "granted"
              /\ v \in streams' => v # current
  <1>0. /\ current \in Watching!Runs /\ runs \in [Watching!Runs -> Watching!Run]
        /\ RunOK(current)
    BY DEF CameraOK, Watching!TypeOK
  <1>1. PICK rs : rs = Watching!Disposed(current)
    OBVIOUS
  <1>2. \E row \in Watching!Run :
          /\ rs = [runs EXCEPT ![current] = row]
          /\ row.phase = runs[current].phase /\ row.disposed
    <2>1. CASE rs = [runs EXCEPT ![current].disposed = TRUE]
      <3>1. PICK row : row = [runs[current] EXCEPT !.disposed = TRUE]
        OBVIOUS
      <3>2. row \in Watching!Run /\ row.phase = runs[current].phase /\ row.disposed
        BY <1>0, <3>1 DEF Watching!Run
      <3> QED
        BY <1>0, <2>1, <3>1, <3>2
    <2>2. CASE rs = [runs EXCEPT ![current].disposed = TRUE, ![current].stopping = TRUE]
      <3>1. PICK row : row = [runs[current] EXCEPT !.disposed = TRUE, !.stopping = TRUE]
        OBVIOUS
      <3>2. row \in Watching!Run /\ row.phase = runs[current].phase /\ row.disposed
        BY <1>0, <3>1 DEF Watching!Run
      <3>3. rs = [runs EXCEPT ![current] = row]
        BY <1>0, <2>2, <3>1
      <3> QED
        BY <3>2, <3>3
    <2> QED
      BY <1>1, <2>1, <2>2 DEF Watching!Disposed
  <1>3. streams' \subseteq streams /\ active' = active /\ current \notin streams'
    BY <1>0 DEF Watching!Released, Watching!Release, RunOK
  <1> QED
    BY <1>0, <1>1, <1>2, <1>3 DEF CameraOK, RunOK

\* A run goes on by itself.
LEMMA RunKeeps ==
  ASSUME CameraOK, NEW v \in Watching!Runs, NEW row \in Watching!Run,
         runs' = [runs EXCEPT ![v] = row], UNCHANGED current,
         runs[v].phase # "new", row.phase # "new", row.disposed = runs[v].disposed,
         streams' \subseteq streams \cup {v}, active' \in Watching!Runs \cup {None},
         v \in streams' => /\ v = current \/ row.phase = "granted"
                           /\ row.phase \notin {"importing", "asking", "unloaded"},
         told' = told \/ told' \in Reports,
         v # current => told' = told,
         v = current /\ told' # None => row.phase \in Ended
  PROVE  CameraOK'
  <1>1. Watching!TypeOK'
    BY DEF CameraOK, Watching!TypeOK, Reports
  <1>2. ASSUME NEW w \in Watching!Runs
        PROVE  RunOK(w)'
    <2>1. CASE w = v
      BY <2>1 DEF CameraOK, Watching!TypeOK, RunOK
    <2>2. CASE w # v
      <3>1. runs'[w] = runs[w]
        BY <2>2 DEF CameraOK, Watching!TypeOK
      <3>2. RunOK(w) /\ RunOK(v)
        BY DEF CameraOK
      <3>3. w = current => told' = told
        BY <2>2
      <3> QED
        BY <2>2, <3>1, <3>2, <3>3 DEF RunOK
    <2> QED
      BY <2>1, <2>2
  <1> QED
    BY <1>1, <1>2 DEF CameraOK

\* What a run reports is heard if the run is the current one, which has said
\* nothing before; what one that was disposed of reports is not.
LEMMA ReportHeard ==
  ASSUME CameraOK, NEW v \in Watching!Runs, NEW report \in Reports, Watching!Tell(v, report),
         runs[v].phase \notin {"new", "over", "unloaded"}
  PROVE  /\ told' = told \/ told' \in Reports
         /\ v # current => told' = told
         /\ ~runs[v].disposed => v = current /\ told = None /\ told' = report
         /\ runs[v].disposed => v # current /\ told' = told
  <1>1. RunOK(v)
    BY DEF CameraOK
  <1> QED
    BY <1>1 DEF RunOK, Watching!Tell, Ended

LEMMA CameraStep == CameraOK /\ [Watching!Next]_cameraVars => CameraOK'
  <1> SUFFICES ASSUME CameraOK, [Watching!Next]_cameraVars
               PROVE  CameraOK'
    OBVIOUS
  <1>0. /\ runs \in [Watching!Runs -> Watching!Run] /\ current \in Watching!Runs \cup {0}
        /\ active \in Watching!Runs \cup {None} /\ 0 \notin Watching!Runs
        /\ \A v \in Watching!Runs : RunOK(v)
    BY StudentPagesAssumption DEF CameraOK, Watching!TypeOK, Watching!Runs
  <1>a. ASSUME NEW v \in Watching!Runs, NEW phase \in Watching!Phases
        PROVE  \E row \in Watching!Run :
                 /\ [runs EXCEPT ![v].phase = phase] = [runs EXCEPT ![v] = row]
                 /\ row.phase = phase /\ row.disposed = runs[v].disposed
    <2>1. PICK row : row = [runs[v] EXCEPT !.phase = phase]
      OBVIOUS
    <2>2. row \in Watching!Run /\ row.phase = phase /\ row.disposed = runs[v].disposed
      BY <1>0, <2>1 DEF Watching!Run
    <2> QED
      BY <1>0, <2>1, <2>2
  <1>1. CASE UNCHANGED cameraVars
    BY <1>1 DEF cameraVars, CameraOK, Watching!TypeOK, RunOK
  <1>2. CASE Watching!Mount
    <2>1. \A v \in Watching!Runs :
            /\ runs[v].disposed <=> runs[v].disposed \/ v = current
            /\ v \in streams => runs[v].phase = "granted"
      BY <1>0, <1>2 DEF Watching!Mount, RunOK
    <2> QED
      BY <1>0, <1>2, <2>1, StartKeeps DEF Watching!Mount
  <1>3. CASE Watching!Unmount
    <2>1. PICK rs : rs = Watching!Disposed(current)
      OBVIOUS
    <2>2. /\ rs \in [Watching!Runs -> Watching!Run]
          /\ streams' \subseteq streams /\ active' = active
          /\ \A v \in Watching!Runs :
               /\ rs[v].phase = runs[v].phase
               /\ rs[v].disposed <=> runs[v].disposed \/ v = current
               /\ v \in streams' => runs[v].phase = "granted"
      BY <1>3, <2>1, CleanupKeeps DEF Watching!Unmount
    <2>3. runs' = rs /\ current' = 0 /\ told' = told
      BY <1>3, <2>1 DEF Watching!Unmount
    <2>4. Watching!TypeOK'
      BY <2>2, <2>3 DEF CameraOK, Watching!TypeOK
    <2>5. \A v \in Watching!Runs : RunOK(v)'
      BY <1>0, <2>2, <2>3 DEF RunOK
    <2> QED
      BY <2>4, <2>5 DEF CameraOK
  <1>4. CASE Watching!Redraw
    <2>1. PICK rs : rs = Watching!Disposed(current)
      OBVIOUS
    <2>2. /\ rs \in [Watching!Runs -> Watching!Run] /\ Watching!Started(rs)
          /\ streams' \subseteq streams /\ active' = active
          /\ \A v \in Watching!Runs :
               /\ rs[v].phase = runs[v].phase
               /\ rs[v].disposed <=> runs[v].disposed \/ v = current
               /\ v \in streams' => runs[v].phase = "granted"
      BY <1>4, <2>1, CleanupKeeps DEF Watching!Redraw
    <2> QED
      BY <2>2, StartKeeps
  <1>5. ASSUME NEW v \in Watching!Runs, Watching!Imported(v)
        PROVE  CameraOK'
    <2>1. PICK phase \in {"unloaded", "asking"} :
            phase = IF runs[v].disposed THEN "unloaded" ELSE "asking"
      OBVIOUS
    <2>2. PICK row \in Watching!Run :
            /\ runs' = [runs EXCEPT ![v] = row]
            /\ row.phase = phase /\ row.disposed = runs[v].disposed
      BY <1>5, <1>a, <2>1 DEF Watching!Imported, Watching!Phases
    <2>3. RunOK(v) /\ runs[v].phase = "importing" /\ UNCHANGED <<current, streams, active, told>>
      BY <1>0, <1>5 DEF Watching!Imported
    <2> QED
      BY <1>0, <2>1, <2>2, <2>3, RunKeeps DEF RunOK, Ended
  <1>6. ASSUME NEW v \in Watching!Runs, Watching!ImportFails(v)
        PROVE  CameraOK'
    <2>1. PICK row \in Watching!Run :
            /\ runs' = [runs EXCEPT ![v] = row]
            /\ row.phase = "unloaded" /\ row.disposed = runs[v].disposed
      BY <1>6, <1>a DEF Watching!ImportFails, Watching!Phases
    <2>2. RunOK(v) /\ runs[v].phase = "importing" /\ UNCHANGED <<current, streams, active>>
      BY <1>0, <1>6 DEF Watching!ImportFails
    <2>3. (told' = told \/ told' \in Reports) /\ (v # current => told' = told)
      BY <1>6, <2>2, ReportHeard DEF Watching!ImportFails, Reports, Watching!Failures
    <2> QED
      BY <1>0, <2>1, <2>2, <2>3, RunKeeps DEF RunOK, Ended
  <1>7. ASSUME NEW v \in Watching!Runs, Watching!Granted(v)
        PROVE  CameraOK'
    <2>1. PICK row \in Watching!Run :
            /\ runs' = [runs EXCEPT ![v] = row]
            /\ row.phase = "granted" /\ row.disposed = runs[v].disposed
      BY <1>7, <1>a DEF Watching!Granted, Watching!Phases
    <2>2. /\ RunOK(v) /\ runs[v].phase = "asking" /\ UNCHANGED <<current, told>>
          /\ streams' = streams \cup {v} /\ active' = v
      BY <1>0, <1>7 DEF Watching!Granted
    <2> QED
      BY <1>0, <2>1, <2>2, RunKeeps DEF RunOK, Ended
  <1>8. ASSUME NEW v \in Watching!Runs, Watching!InitFails(v)
        PROVE  CameraOK'
    <2>1. PICK row \in Watching!Run :
            /\ runs' = [runs EXCEPT ![v] = row]
            /\ row.phase = "failed" /\ row.disposed = runs[v].disposed
      BY <1>8, <1>a DEF Watching!InitFails, Watching!Phases
    <2>2. /\ RunOK(v) /\ runs[v].phase \in {"asking", "granted"} /\ UNCHANGED <<current, told>>
          /\ streams' \subseteq streams \ {v} /\ active' = active
      BY <1>0, <1>8 DEF Watching!InitFails, Watching!Opening, Watching!Release
    <2> QED
      BY <1>0, <2>1, <2>2, RunKeeps DEF RunOK, Ended
  <1>9. ASSUME NEW v \in Watching!Runs, Watching!FailureTold(v)
        PROVE  CameraOK'
    <2>1. PICK row \in Watching!Run :
            /\ runs' = [runs EXCEPT ![v] = row]
            /\ row.phase = "over" /\ row.disposed = runs[v].disposed
      BY <1>9, <1>a DEF Watching!FailureTold, Watching!Phases
    <2>2. /\ RunOK(v) /\ runs[v].phase = "failed" /\ UNCHANGED current
          /\ streams' \subseteq streams /\ active' = None
      BY <1>0, <1>9 DEF Watching!FailureTold, Watching!Stopped
    <2>3. (told' = told \/ told' \in Reports) /\ (v # current => told' = told)
      BY <1>9, <2>2, ReportHeard DEF Watching!FailureTold, Reports
    <2> QED
      BY <1>0, <2>1, <2>2, <2>3, RunKeeps DEF RunOK, Ended
  <1>10. ASSUME NEW v \in Watching!Runs, Watching!InitDone(v)
         PROVE  CameraOK'
    <2>0. RunOK(v) /\ runs[v].phase = "granted" /\ UNCHANGED <<current, told>>
      BY <1>0, <1>10 DEF Watching!InitDone
    <2>1. CASE runs[v].disposed
      <3>1. PICK row : row = [runs[v] EXCEPT !.phase = "over", !.stopping = TRUE]
        OBVIOUS
      <3>2. row \in Watching!Run /\ row.phase = "over" /\ row.disposed = runs[v].disposed
        BY <1>0, <3>1 DEF Watching!Run, Watching!Phases
      <3>3. runs' = [runs EXCEPT ![v] = row]
        BY <1>0, <1>10, <2>1, <3>1 DEF Watching!InitDone
      <3>4. streams' \subseteq streams \ {v} /\ active' = active
        BY <1>10, <2>1 DEF Watching!InitDone, Watching!Release
      <3> QED
        BY <1>0, <2>0, <3>2, <3>3, <3>4, RunKeeps DEF RunOK, Ended
    <2>2. CASE ~runs[v].disposed
      <3>1. PICK row \in Watching!Run :
              /\ runs' = [runs EXCEPT ![v] = row]
              /\ row.phase = "watching" /\ row.disposed = runs[v].disposed
        <4>1. runs' = [runs EXCEPT ![v].phase = "watching"]
          BY <1>10, <2>2 DEF Watching!InitDone
        <4> QED
          BY <1>a, <4>1 DEF Watching!Phases
      <3>2. v = current /\ UNCHANGED <<streams, active>>
        BY <1>10, <2>0, <2>2 DEF Watching!InitDone, RunOK
      <3> QED
        BY <1>0, <2>0, <3>1, <3>2, RunKeeps DEF RunOK, Ended
    <2> QED
      BY <1>0, <2>1, <2>2 DEF Watching!Run
  <1>b. ASSUME NEW v \in Watching!Runs, Watching!Watching(v), NEW report \in Reports,
               runs' = [runs EXCEPT ![v].phase = "over"],
               Watching!StopActive, Watching!Tell(v, report), UNCHANGED <<current, active>>
        PROVE  CameraOK'
    <2>1. PICK row \in Watching!Run :
            /\ runs' = [runs EXCEPT ![v] = row]
            /\ row.phase = "over" /\ row.disposed = runs[v].disposed
      BY <1>a, <1>b DEF Watching!Phases
    <2>2. /\ RunOK(v) /\ runs[v].phase = "watching" /\ ~runs[v].disposed
          /\ streams' \subseteq streams
      BY <1>0, <1>b DEF Watching!Watching, Watching!StopActive
    <2>3. (told' = told \/ told' \in Reports) /\ v = current
      BY <1>b, <2>2, ReportHeard
    <2> QED
      BY <1>0, <1>b, <2>1, <2>2, <2>3, RunKeeps DEF RunOK, Ended
  <1>11. ASSUME NEW v \in Watching!Runs, NEW code \in Codes, Watching!Read(v, code)
         PROVE  CameraOK'
    <2>1. CASE runs[v].previousCode = code
      BY <1>11, <1>b, <2>1 DEF Watching!Read, Reports
    <2>2. CASE runs[v].previousCode # code
      <3>1. PICK row : row = [runs[v] EXCEPT !.previousCode = code]
        OBVIOUS
      <3>2. row \in Watching!Run /\ row.phase = runs[v].phase /\ row.disposed = runs[v].disposed
        BY <1>0, <3>1 DEF Watching!Run
      <3>3. runs' = [runs EXCEPT ![v] = row]
        BY <1>0, <1>11, <2>2, <3>1 DEF Watching!Read
      <3>4. RunOK(v) /\ runs[v].phase = "watching" /\ UNCHANGED <<current, streams, active, told>>
        BY <1>0, <1>11, <2>2 DEF Watching!Read, Watching!Watching
      <3> QED
        BY <1>0, <3>2, <3>3, <3>4, RunKeeps DEF RunOK, Ended
    <2> QED
      BY <2>1, <2>2
  <1>12. ASSUME NEW v \in Watching!Runs, Watching!Timeout(v)
         PROVE  CameraOK'
    BY <1>12, <1>b DEF Watching!Timeout, Reports
  <1>13. ASSUME NEW v \in Watching!Runs, Watching!Stop(v)
         PROVE  CameraOK'
    <2>1. /\ runs' = [runs EXCEPT ![v].stopping = FALSE] /\ UNCHANGED <<current, told>>
          /\ streams' \subseteq streams /\ active' = None
      BY <1>13 DEF Watching!Stop, Watching!Stopped
    <2>2. \A w \in Watching!Runs :
            runs'[w].phase = runs[w].phase /\ runs'[w].disposed = runs[w].disposed
      BY <1>0, <2>1 DEF Watching!Run
    <2>3. runs' \in [Watching!Runs -> Watching!Run]
      BY <1>0, <2>1 DEF Watching!Run
    <2>4. Watching!TypeOK'
      BY <2>1, <2>3 DEF CameraOK, Watching!TypeOK
    <2>5. \A w \in Watching!Runs : RunOK(w)'
      BY <1>0, <2>1, <2>2 DEF RunOK
    <2> QED
      BY <2>4, <2>5 DEF CameraOK
  <1> QED
    BY <1>1, <1>2, <1>3, <1>4, <1>5, <1>6, <1>7, <1>8, <1>9, <1>10, <1>11, <1>12, <1>13
       DEF Watching!Next, Watching!Scanner

LEMMA CameraStart == Watching!Init => CameraOK
  BY StudentPagesAssumption
     DEF Watching!Init, CameraOK, Watching!TypeOK, RunOK, Watching!Runs, Watching!Run,
         Watching!Fresh, Watching!Phases

\* What one step of the camera is to the screen: it is mounted or unmounted, it
\* is told something for the first time, or it notices nothing.
LEMMA CameraPromises ==
  ASSUME CameraOK, [Watching!Next]_cameraVars
  PROVE  [Watching!Promise!Mount \/ Watching!Promise!Unmount \/ Watching!Promise!Tell]_
           <<current # 0, told>>
  <1>0. /\ current \in Watching!Runs \cup {0} /\ 0 \notin Watching!Runs
        /\ \A v \in Watching!Runs : RunOK(v)
    BY StudentPagesAssumption DEF CameraOK, Watching!TypeOK, Watching!Runs
  <1>1. ASSUME NEW rs, Watching!Started(rs)
        PROVE  Watching!Promise!Mount
    BY <1>0, <1>1 DEF Watching!Promise!Mount, Watching!Started
  <1>2. CASE Watching!Unmount
    BY <1>0, <1>2 DEF Watching!Unmount, Watching!Promise!Unmount
  <1>3. ASSUME UNCHANGED <<current, told>>
        PROVE  UNCHANGED <<current # 0, told>>
    BY <1>3
  <1>4. ASSUME NEW v \in Watching!Runs, NEW report \in Reports, Watching!Tell(v, report),
               runs[v].phase \notin {"new", "over", "unloaded"}, UNCHANGED current
        PROVE  Watching!Promise!Tell \/ UNCHANGED <<current # 0, told>>
    <2>1. CASE runs[v].disposed
      BY <1>3, <1>4, <2>1, ReportHeard
    <2>2. CASE ~runs[v].disposed
      <3>1. v = current /\ told = None /\ told' = report
        BY <1>4, <2>2, ReportHeard
      <3> QED
        BY <1>0, <1>4, <3>1 DEF Watching!Promise!Tell, Reports
    <2> QED
      BY <2>1, <2>2
  <1>5. ASSUME NEW v \in Watching!Runs, Watching!ImportFails(v)
        PROVE  Watching!Promise!Tell \/ UNCHANGED <<current # 0, told>>
    BY <1>4, <1>5 DEF Watching!ImportFails, Reports, Watching!Failures
  <1>6. ASSUME NEW v \in Watching!Runs, Watching!FailureTold(v)
        PROVE  Watching!Promise!Tell \/ UNCHANGED <<current # 0, told>>
    BY <1>4, <1>6 DEF Watching!FailureTold, Reports
  <1>7. ASSUME NEW v \in Watching!Runs, NEW code \in Codes, Watching!Read(v, code)
        PROVE  Watching!Promise!Tell \/ UNCHANGED <<current # 0, told>>
    BY <1>3, <1>4, <1>7 DEF Watching!Read, Watching!Watching, Reports
  <1>8. ASSUME NEW v \in Watching!Runs, Watching!Timeout(v)
        PROVE  Watching!Promise!Tell \/ UNCHANGED <<current # 0, told>>
    BY <1>4, <1>8 DEF Watching!Timeout, Watching!Watching, Reports
  <1>9. ASSUME NEW v \in Watching!Runs,
               \/ Watching!Imported(v) \/ Watching!Granted(v) \/ Watching!InitFails(v)
               \/ Watching!InitDone(v) \/ Watching!Stop(v)
        PROVE  UNCHANGED <<current # 0, told>>
    BY <1>3, <1>9 DEF Watching!Imported, Watching!Granted, Watching!InitFails,
                      Watching!InitDone, Watching!Stop
  <1>10. CASE UNCHANGED cameraVars
    BY <1>3, <1>10 DEF cameraVars
  <1> QED
    BY <1>1, <1>2, <1>5, <1>6, <1>7, <1>8, <1>9, <1>10
       DEF Watching!Next, Watching!Scanner, Watching!Mount, Watching!Redraw

-----------------------------------------------------------------------------
(* Signing in.  A call for /me carries the cookie of its moment; the latest *)
(* one, and its answer, are for the student whose cookie it still is, or    *)
(* the cookie is gone.                                                      *)

Sent == [op: {"me", "page", "logout", "check", "login"}, id: Students \cup {None},
         arg: {None} \cup [attempt: Nat], to: {"page", "left", "gone"},
         answer: {"none", "ok", "refused", "failed"}, data: Students \cup {None}]

\* A call that may be under way while the browser has this cookie and the shell
\* has made this many attempts.
CallOK(c, session, attempt) ==
    /\ c \in Sent
    /\ c.to = "gone" => c.answer = "none"
    /\ c.op = "login" => c.id \in Students
    /\ c.op = "me" =>
         /\ c.arg \in [attempt: Nat] /\ c.arg.attempt <= attempt
         /\ c.arg.attempt = attempt /\ c.answer \in {"none", "ok"} => session \in {c.data, None}
         /\ c.answer = "ok" => c.data \in Students

CallsOK(sent, session, attempt) == \A c \in sent : CallOK(c, session, attempt)

\* While the student is away at a provider nobody hears of any call.
AwayOK == app.at = "provider" => \A c \in asked : c.to = "gone"

NameOK == SigningIn!Here /\ app.me \in Students => cookie \in {app.me, None}

\* The page the sign-in began at is remembered by the shell, or by the storage
\* while the student is away.
JourneyOK ==
    wanted # None =>
      IF SigningIn!Here THEN app.path = wanted /\ stored = None ELSE stored = wanted

ShellOK ==
    /\ SigningIn!TypeOK
    /\ CallsOK(asked, cookie, app.authAttempt)
    /\ AwayOK /\ NameOK /\ JourneyOK /\ SigningIn!LockHasItsCall

\* A button of the sign-in is locked only while a call is out.
Answerable(p, sent) ==
    p.me = None /\ p.login.busy =>
      \E c \in sent : c.to = "page" /\ c.op \in {"check", "login"}

\* What has to be shown of a step after which the student is here.
LEMMA HereKeeps ==
  ASSUME NEW p \in SigningIn!App, app' = p, p.at = "here",
         CallsOK(asked', cookie', p.authAttempt),
         live' \subseteq Students, failures' \in 0 .. MaxFaults,
         sessions' \in 0 .. MaxSessions, cookie' \in Students \cup {None},
         stored' \in Paths \cup {None}, wanted' \in Paths \cup {None},
         p.me \in Students => cookie' \in {p.me, None},
         wanted' # None => p.path = wanted' /\ stored' = None,
         Answerable(p, asked')
  PROVE  ShellOK'
  <1>1. SigningIn!TypeOK'
    BY DEF SigningIn!TypeOK
  <1>2. CallsOK(asked, cookie, app.authAttempt)'
    BY DEF CallsOK, CallOK
  <1>3. AwayOK' /\ NameOK' /\ JourneyOK' /\ SigningIn!LockHasItsCall'
    BY DEF AwayOK, NameOK, JourneyOK, SigningIn!LockHasItsCall, SigningIn!LoginShown,
           SigningIn!Here, Answerable
  <1> QED
    BY <1>1, <1>2, <1>3 DEF ShellOK

\* The shell's state after it has learnt who the student is.
LEMMA ShellsTyped ==
  /\ \A path \in Paths :
       LET p == [SigningIn!NoApp EXCEPT !.path = path]
       IN /\ p \in SigningIn!App /\ p.at = "here" /\ p.me = "unknown" /\ p.path = path
          /\ p.authAttempt = 0
  /\ \A p \in SigningIn!App, me \in Students \cup {None, "unknown"} :
       LET q == SigningIn!Become(p, me)
       IN /\ q \in SigningIn!App /\ q.me = me
          /\ q.at = p.at /\ q.path = p.path /\ q.authAttempt = p.authAttempt
          /\ q.login.busy => me = None /\ app.me = None /\ p.login.busy
  <1>1. ASSUME NEW path \in Paths
        PROVE  LET p == [SigningIn!NoApp EXCEPT !.path = path]
               IN /\ p \in SigningIn!App /\ p.at = "here" /\ p.me = "unknown"
                  /\ p.path = path /\ p.authAttempt = 0
    <2>1. SigningIn!NoLogin \in SigningIn!Login
      BY DEF SigningIn!NoLogin, SigningIn!Login, SigningIn!Steps
    <2>2. SigningIn!NoApp \in SigningIn!App
      BY <2>1, StudentPagesAssumption DEF SigningIn!NoApp, SigningIn!App
    <2> QED
      BY <2>2 DEF SigningIn!NoApp, SigningIn!App
  <1>2. ASSUME NEW p \in SigningIn!App, NEW me \in Students \cup {None, "unknown"}
        PROVE  LET q == SigningIn!Become(p, me)
               IN /\ q \in SigningIn!App /\ q.me = me
                  /\ q.at = p.at /\ q.path = p.path /\ q.authAttempt = p.authAttempt
                  /\ q.login.busy => me = None /\ app.me = None /\ p.login.busy
    <2> DEFINE login == IF me = None /\ app.me = None THEN p.login ELSE SigningIn!NoLogin
    <2>1. login \in SigningIn!Login /\ (login.busy => me = None /\ app.me = None /\ p.login.busy)
      BY DEF SigningIn!NoLogin, SigningIn!Login, SigningIn!Steps, SigningIn!App
    <2>2. SigningIn!Become(p, me) = [p EXCEPT !.me = me, !.login = login]
      BY DEF SigningIn!Become, SigningIn!App
    <2> HIDE DEF login
    <2> QED
      BY <2>1, <2>2 DEF SigningIn!App
  <1> QED
    BY <1>1, <1>2

\* Calls that are kept, left or abandoned.
LEMMA KeptOK ==
  ASSUME NEW sent, NEW session, NEW attempt, CallsOK(sent, session, attempt), NEW me
  PROVE  /\ CallsOK(SigningIn!Kept(sent, me), session, attempt)
         /\ me = None /\ app.me = None => SigningIn!Kept(sent, me) = sent
  <1>1. ASSUME NEW c \in sent, NEW to \in {"page", "left", "gone"}, to = "gone" => c.to = "gone"
        PROVE  CallOK([c EXCEPT !.to = to], session, attempt)
    <2>1. CallOK(c, session, attempt) /\ c \in Sent
      BY DEF CallsOK, CallOK
    <2>2. PICK d : d = [c EXCEPT !.to = to]
      OBVIOUS
    <2>3. /\ d \in Sent /\ d.op = c.op /\ d.id = c.id /\ d.arg = c.arg /\ d.answer = c.answer
          /\ d.data = c.data /\ d.to = to
      BY <2>1, <2>2 DEF Sent
    <2> QED
      BY <1>1, <2>1, <2>2, <2>3 DEF CallOK
  <1>2. ASSUME NEW c \in SigningIn!Kept(sent, me)
        PROVE  CallOK(c, session, attempt)
    <2>1. CASE SigningIn!Kept(sent, me) = sent
      BY <1>2, <2>1 DEF CallsOK
    <2>2. ASSUME NEW d \in sent,
                 c = [d EXCEPT !.to = IF d.op = "login" /\ d.to = "page" THEN "left" ELSE d.to]
          PROVE  CallOK(c, session, attempt)
      <3>1. PICK to : to = IF d.op = "login" /\ d.to = "page" THEN "left" ELSE d.to
        OBVIOUS
      <3>2. to \in {"page", "left", "gone"} /\ (to = "gone" => d.to = "gone")
        BY <3>1 DEF CallsOK, CallOK, Sent
      <3> QED
        BY <1>1, <2>2, <3>1, <3>2
    <2> QED
      BY <1>2, <2>1, <2>2 DEF SigningIn!Kept
  <1> QED
    BY <1>2 DEF CallsOK, SigningIn!Kept

LEMMA WritesOK ==
  ASSUME CallsOK(asked, cookie, app.authAttempt), NEW session, NEW attempt
  PROVE  /\ CallsOK(SigningIn!Writes(SigningIn!Abandoned), session, attempt)
         /\ \A c \in SigningIn!Writes(SigningIn!Abandoned) : c.to = "gone"
  <1> SUFFICES ASSUME NEW c \in SigningIn!Writes(SigningIn!Abandoned)
               PROVE  CallOK(c, session, attempt) /\ c.to = "gone"
    BY DEF CallsOK
  <1>1. PICK d \in asked : d.answer = "none" /\ c = [d EXCEPT !.to = "gone"]
    BY DEF SigningIn!Writes, SigningIn!Abandoned
  <1>2. CallOK(d, cookie, app.authAttempt) /\ d \in Sent
    BY DEF CallsOK, CallOK
  <1>3. /\ c \in Sent /\ c.op = d.op /\ c.id = d.id /\ c.answer = "none" /\ c.to = "gone"
    BY <1>1, <1>2 DEF Sent
  <1>4. c.op \in {"login", "logout"}
    BY DEF SigningIn!Writes
  <1> QED
    BY <1>2, <1>3, <1>4 DEF CallOK

\* A call that is sent now.
LEMMA AskingOK ==
  ASSUME NEW session \in Students \cup {None}, NEW attempt \in Nat
  PROVE  CallOK(SigningIn!Carrying(session, "me", None, [attempt |-> attempt]),
                session, attempt)
  <1>1. PICK n : n = [attempt |-> attempt]
    OBVIOUS
  <1>2. n \in [attempt: Nat] /\ n.attempt = attempt
    BY <1>1
  <1>3. CallOK(SigningIn!Carrying(session, "me", None, n), session, attempt)
    BY <1>2 DEF SigningIn!Carrying, SigningIn!Request, CallOK, Sent
  <1> QED
    BY <1>1, <1>3

\* The document is loaded.
LEMMA LoadKeeps ==
  ASSUME ShellOK, NEW path \in Paths, NEW session \in Students \cup {None},
         SigningIn!Load(path, session), cookie' = session,
         live' \subseteq Students, UNCHANGED failures, sessions' \in 0 .. MaxSessions,
         stored' \in Paths \cup {None}, wanted' \in Paths \cup {None},
         wanted' # None => path = wanted' /\ stored' = None
  PROVE  ShellOK'
  <1>1. PICK p : p = [SigningIn!NoApp EXCEPT !.path = path]
    OBVIOUS
  <1>2. /\ p \in SigningIn!App /\ p.at = "here" /\ p.me = "unknown" /\ p.path = path
        /\ p.authAttempt = 0
    BY <1>1, ShellsTyped
  <1>3. CallsOK(asked', session, 0)
    <2>1. CallsOK(SigningIn!Writes(SigningIn!Abandoned), session, 0)
      BY WritesOK DEF ShellOK
    <2>2. CallOK(SigningIn!Carrying(session, "me", None, [attempt |-> 0]), session, 0)
      BY AskingOK
    <2> QED
      BY <2>1, <2>2 DEF CallsOK, SigningIn!Load
  <1>4. app' = p /\ failures' \in 0 .. MaxFaults
    BY <1>1 DEF SigningIn!Load, ShellOK, SigningIn!TypeOK
  <1>5. Answerable(p, asked')
    BY <1>2, StudentPagesAssumption DEF Answerable
  <1> QED
    BY <1>2, <1>3, <1>4, <1>5, StudentPagesAssumption, HereKeeps

\* A call is sent by a shell that is signed in or shows the sign-in.
LEMMA AskKeeps ==
  ASSUME ShellOK, app.at = "here", NEW p \in SigningIn!App, app' = p, p.at = "here",
         p.me = app.me, p.authAttempt = app.authAttempt,
         NEW op \in {"page", "logout", "check", "login"}, NEW id \in Students \cup {None},
         op = "login" => id \in Students,
         SigningIn!Ask(op, id, None), UNCHANGED <<cookie, stored, live, failures, sessions>>,
         wanted' \in Paths \cup {None}, wanted' # None => p.path = wanted' /\ stored = None,
         p.me = None /\ p.login.busy => app.login.busy \/ op \in {"check", "login"}
  PROVE  ShellOK'
  <1>0. /\ SigningIn!TypeOK /\ CallsOK(asked, cookie, app.authAttempt) /\ NameOK
        /\ SigningIn!LockHasItsCall /\ app.authAttempt \in Nat
    BY DEF ShellOK, SigningIn!TypeOK, SigningIn!App
  <1>1. PICK c : c = SigningIn!Carrying(cookie, op, id, None)
    OBVIOUS
  <1>2. /\ CallOK(c, cookie, app.authAttempt) /\ c.to = "page" /\ c.op = op
        /\ asked' = asked \cup {c}
    <2>1. CallOK(c, cookie, app.authAttempt) /\ c.to = "page" /\ c.op = op
      <3>1. cookie \in Students \cup {None}
        BY <1>0 DEF SigningIn!TypeOK
      <3> QED
        BY <1>1, <3>1 DEF SigningIn!Carrying, SigningIn!Request, CallOK, Sent
    <2>2. asked' = asked \cup {c}
      BY <1>1 DEF SigningIn!Ask
    <2> QED
      BY <2>1, <2>2
  <1>3. CallsOK(asked', cookie', p.authAttempt)
    BY <1>0, <1>2 DEF CallsOK
  <1>4. Answerable(p, asked')
    BY <1>0, <1>2 DEF Answerable, SigningIn!LockHasItsCall, SigningIn!LoginShown,
                      SigningIn!Here
  <1> QED
    BY <1>0, <1>3, <1>4, HereKeeps DEF SigningIn!TypeOK, NameOK, SigningIn!Here

\* What the student does.
LEMMA ShellStudentKeeps ==
  ASSUME ShellOK, SigningIn!Student
  PROVE  ShellOK'
  <1>0. /\ app \in SigningIn!App /\ cookie \in Students \cup {None} /\ live \subseteq Students
        /\ stored \in Paths \cup {None} /\ wanted \in Paths \cup {None}
        /\ failures \in 0 .. MaxFaults /\ sessions \in 0 .. MaxSessions
        /\ CallsOK(asked, cookie, app.authAttempt) /\ app.path \in Paths
        /\ NameOK /\ JourneyOK /\ AwayOK /\ SigningIn!LockHasItsCall
    BY DEF ShellOK, SigningIn!TypeOK, SigningIn!App
  <1>1. ASSUME NEW path \in Paths, SigningIn!Visit(path)
        PROVE  ShellOK'
    <2>1. PICK p : p = [app EXCEPT !.path = path]
      OBVIOUS
    <2>2. /\ p \in SigningIn!App /\ p.at = app.at /\ p.me = app.me
          /\ p.authAttempt = app.authAttempt /\ p.login = app.login
      BY <1>0, <2>1 DEF SigningIn!App
    <2>3. /\ app' = p /\ app.at = "here" /\ wanted' = None
          /\ SigningIn!Ask("page", None, None)
          /\ UNCHANGED <<cookie, stored, live, failures, sessions>>
      BY <1>1, <2>1 DEF SigningIn!Visit, SigningIn!SignedIn, SigningIn!Here, SigningIn!Browsing
    <2> QED
      BY <2>2, <2>3, AskKeeps
  <1>2. CASE SigningIn!signOut
    <2>1. /\ app' = app /\ app.at = "here"
          /\ SigningIn!Ask("logout", None, None)
          /\ UNCHANGED <<cookie, stored, wanted, live, failures, sessions>>
      BY <1>2 DEF SigningIn!signOut, SigningIn!SignedIn, SigningIn!Here, SigningIn!Browsing
    <2> QED
      BY <1>0, <2>1, AskKeeps DEF JourneyOK, SigningIn!Here
  <1>3. CASE SigningIn!checkCode
    <2>1. PICK p : p = [app EXCEPT !.login.busy = TRUE]
      OBVIOUS
    <2>2. /\ p \in SigningIn!App /\ p.at = app.at /\ p.me = app.me /\ p.path = app.path
          /\ p.authAttempt = app.authAttempt
      BY <1>0, <2>1 DEF SigningIn!App, SigningIn!Login
    <2>3. /\ app' = p /\ app.at = "here"
          /\ SigningIn!Ask("check", None, None)
          /\ UNCHANGED <<cookie, stored, wanted, live, failures, sessions>>
      BY <1>3, <2>1 DEF SigningIn!checkCode, SigningIn!LoginShown, SigningIn!Here,
                        SigningIn!OnLogin, SigningIn!Browsing
    <2> QED
      BY <1>0, <2>2, <2>3, AskKeeps DEF JourneyOK, SigningIn!Here
  <1>4. ASSUME NEW code \in Students, SigningIn!logIn(code)
        PROVE  ShellOK'
    <2>1. PICK p : p = [app EXCEPT !.login.busy = TRUE]
      OBVIOUS
    <2>2. /\ p \in SigningIn!App /\ p.at = app.at /\ p.me = app.me /\ p.path = app.path
          /\ p.authAttempt = app.authAttempt
      BY <1>0, <2>1 DEF SigningIn!App, SigningIn!Login
    <2>3. /\ app' = p /\ app.at = "here"
          /\ SigningIn!Ask("login", code, None)
          /\ wanted' = IF stored = None THEN app.path ELSE None
          /\ UNCHANGED <<cookie, stored, live, failures, sessions>>
      BY <1>4, <2>1 DEF SigningIn!logIn, SigningIn!LoginShown, SigningIn!Here,
                        SigningIn!OnLogin, SigningIn!Browsing
    <2> QED
      BY <1>0, <2>2, <2>3, AskKeeps
  <1>5. ASSUME NEW step \in SigningIn!Steps, SigningIn!goTo(step)
        PROVE  ShellOK'
    <2>1. PICK p : p = [app EXCEPT !.login.step = step]
      OBVIOUS
    <2>2. /\ p \in SigningIn!App /\ p.at = app.at /\ p.me = app.me /\ p.path = app.path
          /\ p.authAttempt = app.authAttempt /\ p.login.busy = app.login.busy
      BY <1>0, <2>1 DEF SigningIn!App, SigningIn!Login
    <2>3. /\ app' = p /\ app.at = "here"
          /\ UNCHANGED <<asked, cookie, stored, wanted, live, failures, sessions>>
      BY <1>5, <2>1 DEF SigningIn!goTo, SigningIn!LoginShown, SigningIn!Here,
                        SigningIn!OnLogin, SigningIn!Browsing
    <2>4. Answerable(p, asked)
      BY <1>0, <2>2, <2>3 DEF Answerable, SigningIn!LockHasItsCall, SigningIn!LoginShown,
                              SigningIn!Here
    <2> QED
      BY <1>0, <2>2, <2>3, <2>4, HereKeeps DEF NameOK, JourneyOK, SigningIn!Here
  <1>6. CASE SigningIn!Reload
    <2>1. /\ SigningIn!Load(app.path, cookie) /\ app.at = "here"
          /\ UNCHANGED <<cookie, stored, wanted, live, failures, sessions>>
      BY <1>6 DEF SigningIn!Reload, SigningIn!Here, SigningIn!Browsing
    <2> QED
      BY <1>0, <2>1, LoadKeeps DEF JourneyOK, SigningIn!Here
  <1>7. CASE SigningIn!GoBack
    <2>1. /\ SigningIn!Load(app.path, cookie) /\ wanted' = None
          /\ UNCHANGED <<cookie, stored, live, failures, sessions>>
      BY <1>7 DEF SigningIn!GoBack, SigningIn!Browsing
    <2> QED
      BY <1>0, <2>1, LoadKeeps
  <1>8. CASE SigningIn!OAuthReturns
    <2>1. PICK path : path = IF stored = None THEN Root ELSE stored
      OBVIOUS
    <2>2. path \in Paths /\ (wanted # None => path = wanted)
      BY <1>0, <1>8, <2>1, StudentPagesAssumption
         DEF SigningIn!OAuthReturns, JourneyOK, SigningIn!Here
    <2>3. PICK session \in Students \cup {None} :
            /\ SigningIn!Load(path, session) /\ stored' = None /\ cookie' = session
            /\ live' \subseteq Students /\ sessions' \in 0 .. MaxSessions
      <3>1. CASE SigningIn!Callback(cookie) /\ UNCHANGED <<live, cookie, sessions>>
        BY <1>0, <2>1, <3>1 DEF SigningIn!Callback
      <3>2. ASSUME NEW s \in Students, sessions < MaxSessions, sessions' = sessions + 1,
                   live' = live \cup {s}, cookie' = s, SigningIn!Callback(s)
            PROVE  /\ SigningIn!Load(path, s) /\ stored' = None /\ cookie' = s
                   /\ live' \subseteq Students /\ sessions' \in 0 .. MaxSessions
        BY <1>0, <2>1, <3>2, StudentPagesAssumption DEF SigningIn!Callback
      <3> QED
        BY <1>8, <3>1, <3>2 DEF SigningIn!OAuthReturns
    <2>4. UNCHANGED <<wanted, failures>>
      BY <1>8 DEF SigningIn!OAuthReturns
    <2> QED
      BY <1>0, <2>2, <2>3, <2>4, LoadKeeps
  <1>9. CASE SigningIn!rememberOAuthDestination
    <2>1. PICK p : p = [app EXCEPT !.at = "provider"]
      OBVIOUS
    <2>2. p \in SigningIn!App /\ p.at = "provider"
      BY <1>0, <2>1 DEF SigningIn!App
    <2>3. /\ app' = p /\ asked' = SigningIn!Writes(SigningIn!Abandoned)
          /\ UNCHANGED <<cookie, live, failures, sessions>>
          /\ \/ stored' = app.path /\ wanted' = app.path
             \/ UNCHANGED stored /\ wanted' = None
      BY <1>9, <2>1 DEF SigningIn!rememberOAuthDestination, SigningIn!Browsing
    <2>4. SigningIn!TypeOK'
      BY <1>0, <2>2, <2>3 DEF SigningIn!TypeOK
    <2>5. CallsOK(asked, cookie, app.authAttempt)'
      BY <1>0, <2>3, WritesOK DEF CallsOK, CallOK
    <2>6. AwayOK' /\ NameOK' /\ JourneyOK' /\ SigningIn!LockHasItsCall'
      BY <1>0, <2>2, <2>3, WritesOK DEF AwayOK, NameOK, JourneyOK, SigningIn!LockHasItsCall,
         SigningIn!LoginShown, SigningIn!Here
    <2> QED
      BY <2>4, <2>5, <2>6 DEF ShellOK
  <1> QED
    BY <1>1, <1>2, <1>3, <1>4, <1>5, <1>6, <1>7, <1>8, <1>9 DEF SigningIn!Student

\* One call is replaced by others of its kind, those the screen waits for by
\* one it waits for still: the server has answered it, or it has failed.
LEMMA CallKeeps ==
  ASSUME ShellOK, NEW c \in asked, NEW new,
         \A d \in new : /\ CallOK(d, cookie, app.authAttempt) /\ d.op = c.op
                        /\ c.to = "gone" => d.to = "gone",
         c.to = "page" => \E d \in new : d.to = "page",
         asked' = (asked \ {c}) \cup new, UNCHANGED <<cookie, stored, app, wanted>>,
         live' \subseteq Students, failures' \in 0 .. MaxFaults, sessions' \in 0 .. MaxSessions
  PROVE  ShellOK'
  <1>1. SigningIn!TypeOK'
    BY DEF ShellOK, SigningIn!TypeOK
  <1>2. CallsOK(asked, cookie, app.authAttempt)'
    BY DEF ShellOK, CallsOK, CallOK
  <1>3. AwayOK' /\ NameOK' /\ JourneyOK'
    BY DEF ShellOK, AwayOK, NameOK, JourneyOK, SigningIn!Here
  <1>4. SigningIn!LockHasItsCall'
    BY DEF ShellOK, SigningIn!LockHasItsCall, SigningIn!LoginShown, SigningIn!Here
  <1> QED
    BY <1>1, <1>2, <1>3, <1>4 DEF ShellOK

\* An answer is given: to /me, with the cookie it was asked with.
LEMMA ShellReplyKeeps ==
  ASSUME ShellOK, NEW c \in asked, c.answer = "none",
         NEW answer \in {"ok", "refused", "failed"}, NEW data \in Students \cup {None},
         SigningIn!Reply(c, answer, data),
         c.op = "me" /\ answer = "ok" => data = c.data /\ data \in Students,
         UNCHANGED <<cookie, stored, app, wanted, failures>>,
         live' \subseteq Students, sessions' \in 0 .. MaxSessions
  PROVE  ShellOK'
  <1>1. CallOK(c, cookie, app.authAttempt) /\ c \in Sent
    BY DEF ShellOK, CallsOK, CallOK
  <1>2. PICK d : d = [c EXCEPT !.answer = answer, !.data = data]
    OBVIOUS
  <1>3. /\ d \in Sent /\ d.op = c.op /\ d.id = c.id /\ d.arg = c.arg /\ d.to = c.to
        /\ d.answer = answer /\ d.data = data
    BY <1>1, <1>2 DEF Sent
  <1>4. c.to # "gone" => CallOK(d, cookie, app.authAttempt)
    BY <1>1, <1>3 DEF CallOK
  <1>5. PICK new : new = IF c.to = "gone" THEN {} ELSE {d}
    OBVIOUS
  <1>6. asked' = (asked \ {c}) \cup new
    BY <1>2, <1>5 DEF SigningIn!Reply
  <1>7. /\ \A e \in new : /\ CallOK(e, cookie, app.authAttempt) /\ e.op = c.op
                          /\ c.to = "gone" => e.to = "gone"
        /\ c.to = "page" => \E e \in new : e.to = "page"
    BY <1>3, <1>4, <1>5
  <1>8. failures' \in 0 .. MaxFaults
    BY DEF ShellOK, SigningIn!TypeOK
  <1> QED
    BY <1>6, <1>7, <1>8, CallKeeps

\* The server's handlers.
LEMMA ShellServeKeeps ==
  ASSUME ShellOK, NEW c \in asked, SigningIn!Serve(c)
  PROVE  ShellOK'
  <1>0. /\ c.answer = "none" /\ UNCHANGED <<cookie, stored, app, wanted, failures>>
        /\ CallOK(c, cookie, app.authAttempt) /\ c \in Sent
        /\ live \subseteq Students /\ sessions \in 0 .. MaxSessions
    BY DEF SigningIn!Serve, ShellOK, SigningIn!TypeOK, CallsOK, CallOK
  <1>1. ASSUME NEW answer \in {"ok", "refused", "failed"}, NEW data \in Students \cup {None},
               SigningIn!NoChange(c, answer, data), live' \subseteq Students,
               c.op = "me" /\ answer = "ok" => data = c.data /\ data \in Students
        PROVE  ShellOK'
    BY <1>0, <1>1, ShellReplyKeeps DEF SigningIn!NoChange
  <1>2. CASE SigningIn!Me(c)
    <2>1. CASE c.data \in live
      <3>1. PICK data \in Students : data = c.data
        BY <1>0, <2>1
      <3> QED
        BY <1>0, <1>1, <1>2, <2>1, <3>1 DEF SigningIn!Me, SigningIn!Untouched
    <2>2. CASE c.data \notin live
      BY <1>0, <1>1, <1>2, <2>2 DEF SigningIn!Me, SigningIn!Untouched
    <2> QED
      BY <2>1, <2>2
  <1>3. CASE SigningIn!Logout(c)
    BY <1>0, <1>1, <1>3 DEF SigningIn!Logout
  <1>4. CASE SigningIn!codeCheck(c)
    BY <1>0, <1>1, <1>4 DEF SigningIn!codeCheck, SigningIn!Untouched
  <1>5. CASE SigningIn!codeLogin(c)
    <2>1. CASE SigningIn!Untouched(c, "refused", None)
      BY <1>0, <1>1, <2>1 DEF SigningIn!Untouched
    <2>2. CASE SigningIn!Change(c, None) /\ live' = live \cup {c.id}
      <3>1. /\ SigningIn!Reply(c, "ok", None) /\ sessions' \in 0 .. MaxSessions
            /\ live' \subseteq Students /\ c.op = "login"
        BY <1>0, <1>5, <2>2, StudentPagesAssumption
           DEF SigningIn!Change, SigningIn!codeLogin, CallOK
      <3> QED
        BY <1>0, <3>1, ShellReplyKeeps
    <2> QED
      BY <1>5, <2>1, <2>2 DEF SigningIn!codeLogin
  <1>6. CASE SigningIn!Overloaded(c) /\ UNCHANGED live
    BY <1>0, <1>1, <1>6 DEF SigningIn!Overloaded
  <1> QED
    BY <1>2, <1>3, <1>4, <1>5, <1>6 DEF SigningIn!Serve

\* A call fails, perhaps with its request still under way; of a read nothing is
\* left then.
LEMMA ShellLoseKeeps ==
  ASSUME ShellOK, NEW c \in asked, SigningIn!Lose(c)
  PROVE  ShellOK'
  <1>0. /\ UNCHANGED <<live, cookie, stored, app, wanted, sessions>>
        /\ c.to # "gone" /\ CallOK(c, cookie, app.authAttempt) /\ c \in Sent
        /\ live' \subseteq Students /\ sessions' \in 0 .. MaxSessions
        /\ failures' \in 0 .. MaxFaults
    BY BrowserAssumption
       DEF SigningIn!Lose, SigningIn!Fail, ShellOK, SigningIn!TypeOK, CallsOK, CallOK
  <1>1. PICK failed, gone : /\ failed = [c EXCEPT !.answer = "failed", !.data = None]
                            /\ gone = [c EXCEPT !.to = "gone"]
    OBVIOUS
  <1>2. /\ failed \in Sent /\ failed.op = c.op /\ failed.id = c.id /\ failed.arg = c.arg
        /\ failed.to = c.to /\ failed.answer = "failed"
        /\ gone \in Sent /\ gone.op = c.op /\ gone.id = c.id /\ gone.arg = c.arg
        /\ gone.to = "gone" /\ gone.answer = c.answer /\ gone.data = c.data
    BY <1>0, <1>1 DEF Sent
  <1>3. CallOK(failed, cookie, app.authAttempt)
    BY <1>0, <1>2 DEF CallOK
  <1>4. c.answer = "none" => CallOK(gone, cookie, app.authAttempt)
    BY <1>0, <1>2 DEF CallOK
  <1>5. \/ asked' = (asked \ {c}) \cup {failed}
        \/ c.answer = "none" /\ asked' = (asked \ {c}) \cup {failed, gone}
    BY <1>1 DEF SigningIn!Lose, SigningIn!Fail
  <1>6. ASSUME NEW new, asked' = (asked \ {c}) \cup new, failed \in new,
               \A d \in new : d = failed \/ (d = gone /\ c.answer = "none")
        PROVE  ShellOK'
    <2>1. /\ \A d \in new : /\ CallOK(d, cookie, app.authAttempt) /\ d.op = c.op
                            /\ c.to = "gone" => d.to = "gone"
          /\ c.to = "page" => \E d \in new : d.to = "page"
      BY <1>0, <1>2, <1>3, <1>4, <1>6
    <2> QED
      BY <1>0, <1>6, <2>1, CallKeeps
  <1>7. CASE asked' = (asked \ {c}) \cup {failed}
    <2>1. PICK one : one = {failed}
      OBVIOUS
    <2>2. asked' = (asked \ {c}) \cup one /\ failed \in one /\ \A d \in one : d = failed
      BY <1>7, <2>1
    <2> QED
      BY <1>6, <2>2
  <1>8. CASE c.answer = "none" /\ asked' = (asked \ {c}) \cup {failed, gone}
    <2>1. PICK both : both = {failed, gone}
      OBVIOUS
    <2>2. /\ asked' = (asked \ {c}) \cup both /\ failed \in both
          /\ \A d \in both : d = failed \/ (d = gone /\ c.answer = "none")
      BY <1>8, <2>1
    <2> QED
      BY <1>6, <2>2
  <1> QED
    BY <1>5, <1>7, <1>8

LEMMA ExpireKeeps ==
  ASSUME ShellOK, SigningIn!Expire
  PROVE  ShellOK'
  BY DEF SigningIn!Expire, ShellOK, SigningIn!TypeOK, CallsOK, CallOK, AwayOK, NameOK,
         JourneyOK, SigningIn!LockHasItsCall, SigningIn!LoginShown, SigningIn!Here

\* Taking in an answer that is not to a button of the sign-in unlocks none that
\* still waits.
LEMMA BecomeKeeps ==
  ASSUME ShellOK, app.at = "here", NEW c \in asked, c.op \notin {"check", "login"},
         NEW me \in Students \cup {None}, NEW path \in Paths,
         NEW p \in SigningIn!App, app' = p,
         p.at = app.at, p.me = me, p.authAttempt = app.authAttempt, p.path = path,
         p.login.busy => me = None /\ app.me = None /\ app.login.busy,
         asked' = SigningIn!Kept(asked \ {c}, me),
         UNCHANGED <<stored, live, failures, sessions>>,
         cookie' \in {cookie, None}, me \in Students => cookie' \in {me, None},
         \/ wanted' = None
         \/ wanted' = wanted /\ path = app.path
  PROVE  ShellOK'
  <1>0. /\ SigningIn!TypeOK /\ CallsOK(asked, cookie, app.authAttempt)
        /\ SigningIn!LockHasItsCall /\ JourneyOK
    BY DEF ShellOK
  <1>1. CallsOK(asked \ {c}, cookie', app.authAttempt)
    BY <1>0 DEF CallsOK, CallOK
  <1>2. CallsOK(asked', cookie', p.authAttempt)
    BY <1>1, KeptOK
  <1>3. Answerable(p, asked')
    <2> SUFFICES ASSUME p.me = None, p.login.busy
                 PROVE  \E d \in asked' : d.to = "page" /\ d.op \in {"check", "login"}
      BY DEF Answerable
    <2>1. asked' = asked \ {c}
      BY <1>1, KeptOK
    <2>2. \E d \in asked : d.to = "page" /\ d.op \in {"check", "login"}
      BY <1>0 DEF SigningIn!LockHasItsCall, SigningIn!LoginShown, SigningIn!Here
    <2> QED
      BY <2>1, <2>2
  <1>4. wanted' # None => p.path = wanted' /\ stored' = None
    BY <1>0 DEF JourneyOK, SigningIn!Here
  <1>5. /\ live' \subseteq Students /\ failures' \in 0 .. MaxFaults
        /\ sessions' \in 0 .. MaxSessions /\ cookie' \in Students \cup {None}
        /\ stored' \in Paths \cup {None} /\ wanted' \in Paths \cup {None}
    BY <1>0 DEF SigningIn!TypeOK
  <1> QED
    BY <1>2, <1>3, <1>4, <1>5, HereKeeps

\* An answer that only ends its call, or unlocks the button it was asked with.
LEMMA HeardKeeps ==
  ASSUME ShellOK, app.at = "here", NEW c \in asked, asked' = asked \ {c},
         NEW p \in SigningIn!App, app' = p, p.at = app.at, p.me = app.me,
         p.authAttempt = app.authAttempt, p.path = app.path,
         UNCHANGED <<cookie, stored, wanted, live, failures, sessions>>,
         p.login.busy => app.login.busy,
         c.op \in {"check", "login"} /\ c.to = "page" => ~p.login.busy
  PROVE  ShellOK'
  <1>0. /\ SigningIn!TypeOK /\ CallsOK(asked, cookie, app.authAttempt)
        /\ SigningIn!LockHasItsCall /\ JourneyOK /\ NameOK
    BY DEF ShellOK
  <1>1. CallsOK(asked', cookie', p.authAttempt)
    BY <1>0 DEF CallsOK
  <1>2. Answerable(p, asked')
    BY <1>0 DEF Answerable, SigningIn!LockHasItsCall, SigningIn!LoginShown, SigningIn!Here
  <1>3. wanted' # None => p.path = wanted' /\ stored' = None
    BY <1>0 DEF JourneyOK, SigningIn!Here
  <1>4. p.me \in Students => cookie' \in {p.me, None}
    BY <1>0 DEF NameOK, SigningIn!Here
  <1> QED
    BY <1>0, <1>1, <1>2, <1>3, <1>4, HereKeeps DEF SigningIn!TypeOK

LEMMA ShellArriveKeeps ==
  ASSUME ShellOK, NEW c \in asked, SigningIn!Arrive(c)
  PROVE  ShellOK'
  <1>0. /\ app \in SigningIn!App /\ app.path \in Paths /\ app.authAttempt \in Nat
        /\ CallOK(c, cookie, app.authAttempt) /\ c \in Sent
        /\ c.answer # "none" /\ app.at = "here"
        /\ UNCHANGED <<live, failures, sessions>>
    BY DEF SigningIn!Arrive, SigningIn!Browsing, ShellOK, SigningIn!TypeOK, SigningIn!App,
           CallsOK, CallOK, AwayOK
  <1>1. CASE SigningIn!MeArrives(c)
    <2>0. UNCHANGED <<cookie, stored, wanted>> /\ c.op = "me"
      BY <1>1 DEF SigningIn!MeArrives
    <2>1. CASE c.arg.attempt # app.authAttempt
      <3>1. app' = app /\ asked' = asked \ {c}
        BY <1>1, <2>1 DEF SigningIn!MeArrives, SigningIn!Heard
      <3> QED
        BY <1>0, <2>0, <3>1, HeardKeeps
    <2>2. CASE c.arg.attempt = app.authAttempt /\ c.answer = "failed"
      <3>1. PICK p : p = [app EXCEPT !.failed = TRUE]
        OBVIOUS
      <3>2. app' = p /\ asked' = asked \ {c}
        BY <1>1, <2>2, <3>1 DEF SigningIn!MeArrives, SigningIn!Heard
      <3>3. /\ p \in SigningIn!App /\ p.at = app.at /\ p.me = app.me /\ p.path = app.path
            /\ p.authAttempt = app.authAttempt /\ p.login = app.login
        BY <1>0, <3>1 DEF SigningIn!App
      <3> QED
        BY <1>0, <2>0, <3>2, <3>3, HeardKeeps
    <2>3. CASE c.arg.attempt = app.authAttempt /\ c.answer # "failed"
      <3>1. PICK me : me = IF c.answer = "ok" THEN c.data ELSE None
        OBVIOUS
      <3>2. me \in Students \cup {None} /\ (me \in Students => cookie \in {me, None})
        BY <1>0, <2>0, <2>3, <3>1, StudentPagesAssumption DEF CallOK
      <3>3. PICK p : p = SigningIn!Become(app, me)
        OBVIOUS
      <3>4. app' = p /\ asked' = SigningIn!Kept(asked \ {c}, me)
        BY <1>1, <2>3, <3>1, <3>3 DEF SigningIn!MeArrives
      <3>5. /\ p \in SigningIn!App /\ p.me = me /\ p.at = app.at /\ p.path = app.path
            /\ p.authAttempt = app.authAttempt
            /\ p.login.busy => me = None /\ app.me = None /\ app.login.busy
        BY <1>0, <3>2, <3>3, ShellsTyped
      <3> QED
        BY <1>0, <2>0, <3>2, <3>4, <3>5, BecomeKeeps
    <2> QED
      BY <2>1, <2>2, <2>3
  <1>2. CASE SigningIn!handleExpiredSession(c)
    <2>0. UNCHANGED <<cookie, stored, wanted>> /\ c.op = "page"
      BY <1>2 DEF SigningIn!handleExpiredSession
    <2>1. CASE c.answer # "refused"
      BY <1>0, <1>2, <2>0, <2>1, HeardKeeps
         DEF SigningIn!handleExpiredSession, SigningIn!Heard
    <2>2. CASE c.answer = "refused"
      <3>1. PICK p : p = SigningIn!Become(app, None)
        OBVIOUS
      <3>2. app' = p /\ asked' = SigningIn!Kept(asked \ {c}, None)
        BY <1>2, <2>2, <3>1 DEF SigningIn!handleExpiredSession
      <3>3. /\ p \in SigningIn!App /\ p.me = None /\ p.at = app.at /\ p.path = app.path
            /\ p.authAttempt = app.authAttempt
            /\ p.login.busy => app.me = None /\ app.login.busy
        BY <1>0, <3>1, ShellsTyped
      <3> QED
        BY <1>0, <2>0, <3>2, <3>3, StudentPagesAssumption, BecomeKeeps
    <2> QED
      BY <2>1, <2>2
  <1>3. CASE SigningIn!LogoutArrives(c)
    <2>1. PICK q, p : q = SigningIn!Become(app, None) /\ p = [q EXCEPT !.path = Root]
      OBVIOUS
    <2>2. /\ q \in SigningIn!App /\ q.me = None /\ q.at = app.at
          /\ q.authAttempt = app.authAttempt
          /\ q.login.busy => app.me = None /\ app.login.busy
      BY <1>0, <2>1, ShellsTyped
    <2>3. /\ p \in SigningIn!App /\ p.me = None /\ p.at = app.at /\ p.path = Root
          /\ p.authAttempt = app.authAttempt
          /\ p.login.busy => app.me = None /\ app.login.busy
      BY <2>1, <2>2, StudentPagesAssumption DEF SigningIn!App
    <2>4. /\ app' = p /\ asked' = SigningIn!Kept(asked \ {c}, None)
          /\ cookie' \in {cookie, None} /\ wanted' = None /\ UNCHANGED stored
          /\ c.op = "logout"
      BY <1>3, <2>1 DEF SigningIn!LogoutArrives
    <2> QED
      BY <1>0, <2>3, <2>4, StudentPagesAssumption, BecomeKeeps
  <1>4. CASE SigningIn!CheckArrives(c)
    <2>1. PICK step : step = CASE c.answer = "ok"      -> "password"
                               [] c.answer = "refused" -> "notFound"
                               [] c.answer = "failed"  -> app.login.step
      OBVIOUS
    <2>2. step \in SigningIn!Steps
      BY <1>0, <2>1 DEF Sent, SigningIn!App, SigningIn!Login, SigningIn!Steps
    <2>3. PICK login : login = [app.login EXCEPT !.busy = FALSE, !.step = step]
      OBVIOUS
    <2>4. login \in SigningIn!Login /\ ~login.busy
      BY <1>0, <2>2, <2>3 DEF SigningIn!App, SigningIn!Login
    <2>5. PICK p : p = [app EXCEPT !.login = login]
      OBVIOUS
    <2>6. /\ p \in SigningIn!App /\ p.at = app.at /\ p.me = app.me /\ p.path = app.path
          /\ p.authAttempt = app.authAttempt /\ ~p.login.busy
      BY <1>0, <2>4, <2>5 DEF SigningIn!App
    <2>7. app' = p
      <3>1. c.answer \in {"ok", "refused", "failed"}
        BY <1>0 DEF Sent
      <3>2. CASE c.answer = "ok"
        <4>1. app' = [app EXCEPT !.login.busy = FALSE, !.login.step = "password"]
          BY <1>4, <3>2 DEF SigningIn!CheckArrives
        <4>2. step = "password"
          BY <2>1, <3>2
        <4> QED
          BY <1>0, <2>3, <2>5, <4>1, <4>2 DEF SigningIn!App, SigningIn!Login
      <3>3. CASE c.answer = "refused"
        <4>1. app' = [app EXCEPT !.login.busy = FALSE, !.login.step = "notFound"]
          BY <1>4, <3>3 DEF SigningIn!CheckArrives
        <4>2. step = "notFound"
          BY <2>1, <3>3
        <4> QED
          BY <1>0, <2>3, <2>5, <4>1, <4>2 DEF SigningIn!App, SigningIn!Login
      <3>4. CASE c.answer = "failed"
        <4>1. app' = [app EXCEPT !.login.busy = FALSE, !.login.step = @]
          BY <1>4, <3>4 DEF SigningIn!CheckArrives
        <4>2. step = app.login.step
          BY <2>1, <3>4
        <4> QED
          BY <1>0, <2>3, <2>5, <4>1, <4>2 DEF SigningIn!App, SigningIn!Login
      <3> QED
        BY <3>1, <3>2, <3>3, <3>4
    <2>8. asked' = asked \ {c} /\ UNCHANGED <<cookie, stored, wanted>>
      BY <1>4 DEF SigningIn!CheckArrives, SigningIn!Heard
    <2> QED
      BY <1>0, <2>6, <2>7, <2>8, HeardKeeps
  <1>5. CASE SigningIn!LoginArrives(c)
    <2>0. c.op = "login" /\ c.id \in Students /\ UNCHANGED wanted
      BY <1>0, <1>5 DEF SigningIn!LoginArrives, CallOK
    <2>1. CASE SigningIn!Refused(c)
      <3>0. asked' = asked \ {c} /\ UNCHANGED <<cookie, stored>>
        BY <1>5, <2>1 DEF SigningIn!LoginArrives, SigningIn!Heard
      <3>1. CASE c.to = "left"
        BY <1>0, <1>5, <2>0, <2>1, <3>0, <3>1, HeardKeeps DEF SigningIn!LoginArrives
      <3>2. CASE c.to # "left"
        <4>1. PICK p : p = [app EXCEPT !.login.busy = FALSE]
          OBVIOUS
        <4>2. /\ p \in SigningIn!App /\ p.at = app.at /\ p.me = app.me /\ p.path = app.path
              /\ p.authAttempt = app.authAttempt /\ ~p.login.busy
          BY <1>0, <4>1 DEF SigningIn!App, SigningIn!Login
        <4>3. app' = p
          BY <1>5, <2>1, <3>2, <4>1 DEF SigningIn!LoginArrives
        <4> QED
          BY <1>0, <2>0, <3>0, <4>2, <4>3, HeardKeeps
      <3> QED
        BY <3>1, <3>2
    <2>2. CASE ~SigningIn!Refused(c)
      <3>0. cookie' = c.id /\ SigningIn!signIn(asked \ {c})
        BY <1>5, <2>2 DEF SigningIn!LoginArrives
      <3>1. PICK q : q = SigningIn!Become(app, "unknown")
        OBVIOUS
      <3>2. q \in SigningIn!App /\ q.me = "unknown" /\ q.at = "here" /\ q.path = app.path
            /\ q.authAttempt = app.authAttempt
        BY <1>0, <3>1, ShellsTyped
      <3>3. PICK path : path = IF stored = None THEN q.path ELSE stored
        OBVIOUS
      <3>4. path \in Paths /\ (wanted # None => path = wanted)
        BY <1>0, <3>2, <3>3 DEF ShellOK, SigningIn!TypeOK, JourneyOK, SigningIn!Here
      <3>5. PICK p : p = [q EXCEPT !.authAttempt = q.authAttempt + 1, !.failed = FALSE,
                                   !.path = path]
        OBVIOUS
      <3>6. /\ p \in SigningIn!App /\ p.me = "unknown" /\ p.at = "here" /\ p.path = path
            /\ p.authAttempt = app.authAttempt + 1
        <4>1. PICK n : n = q.authAttempt + 1
          OBVIOUS
        <4>2. n \in Nat /\ n = app.authAttempt + 1
          BY <1>0, <3>2, <4>1 DEF SigningIn!App
        <4>3. p = [q EXCEPT !.authAttempt = n, !.failed = FALSE, !.path = path]
          BY <3>5, <4>1
        <4> QED
          BY <3>2, <3>4, <4>2, <4>3 DEF SigningIn!App
      <3>7. app' = p
        BY <1>0, <3>0, <3>1, <3>2, <3>3, <3>5 DEF SigningIn!signIn, SigningIn!App
      <3>8. CallsOK(asked', cookie', p.authAttempt)
        <4>1. CallsOK(asked \ {c}, cookie', app.authAttempt + 1)
          <5>1. \A d \in asked : CallOK(d, cookie, app.authAttempt)
            BY DEF ShellOK, CallsOK
          <5> QED
            BY <1>0, <5>1 DEF CallsOK, CallOK
        <4>2. CallsOK(SigningIn!Kept(asked \ {c}, "unknown"), cookie', app.authAttempt + 1)
          BY <4>1, KeptOK
        <4>3. CallOK(SigningIn!Carrying(cookie', "me", None,
                                        [attempt |-> app.authAttempt + 1]),
                     cookie', app.authAttempt + 1)
          <5>1. app.authAttempt + 1 \in Nat /\ cookie' \in Students \cup {None}
            BY <1>0, <2>0, <3>0
          <5> QED
            BY <5>1, AskingOK
        <4> QED
          BY <3>0, <3>6, <4>2, <4>3 DEF SigningIn!signIn, CallsOK
      <3>9. stored' = None /\ cookie' \in Students
        BY <2>0, <3>0 DEF SigningIn!signIn
      <3>10. /\ live' \subseteq Students /\ failures' \in 0 .. MaxFaults
             /\ sessions' \in 0 .. MaxSessions /\ wanted' \in Paths \cup {None}
        BY <1>0, <2>0 DEF ShellOK, SigningIn!TypeOK
      <3>11. Answerable(p, asked') /\ p.me \notin Students
        BY <3>6, StudentPagesAssumption DEF Answerable
      <3> QED
        BY <2>0, <3>4, <3>6, <3>7, <3>8, <3>9, <3>10, <3>11, HereKeeps
    <2> QED
      BY <2>1, <2>2
  <1> QED
    BY <1>1, <1>2, <1>3, <1>4, <1>5 DEF SigningIn!Arrive

LEMMA ShellStep == ShellOK /\ [SigningIn!Next]_signInVars => ShellOK'
  <1>1. ASSUME ShellOK, UNCHANGED signInVars
        PROVE  ShellOK'
    BY <1>1 DEF signInVars, ShellOK, SigningIn!TypeOK, CallsOK, CallOK, AwayOK, NameOK,
           JourneyOK, SigningIn!LockHasItsCall, SigningIn!LoginShown, SigningIn!Here
  <1> QED
    BY <1>1, ShellStudentKeeps, ShellServeKeeps, ShellArriveKeeps, ShellLoseKeeps,
       ExpireKeeps DEF SigningIn!Next, SigningIn!Network

LEMMA SignInStart == SigningIn!Init => ShellOK
  <1> SUFFICES ASSUME SigningIn!Init
               PROVE  ShellOK
    OBVIOUS
  <1>1. PICK c : c = [SigningIn!Request("me", None, [attempt |-> 0]) EXCEPT !.data = cookie]
    OBVIOUS
  <1>2. asked = {c} /\ cookie \in Students \cup {None} /\ app = SigningIn!NoApp
    BY <1>1 DEF SigningIn!Init
  <1>3. c = [op |-> "me", id |-> None, arg |-> [attempt |-> 0], to |-> "page",
             answer |-> "none", data |-> cookie]
    BY <1>1 DEF SigningIn!Request
  <1>4. CallOK(c, cookie, 0)
    <2>1. c \in Sent
      BY <1>2, <1>3 DEF Sent
    <2> QED
      BY <1>2, <1>3, <2>1 DEF CallOK
  <1>5. app \in SigningIn!App /\ app.at = "here" /\ app.me = "unknown" /\ app.authAttempt = 0
    BY <1>2, StudentPagesAssumption
       DEF SigningIn!NoApp, SigningIn!App, SigningIn!NoLogin, SigningIn!Login, SigningIn!Steps
  <1>6. SigningIn!TypeOK
    BY <1>2, <1>5, StudentPagesAssumption, BrowserAssumption DEF SigningIn!Init, SigningIn!TypeOK
  <1> QED
    BY <1>2, <1>4, <1>5, <1>6, StudentPagesAssumption
       DEF SigningIn!Init, ShellOK, CallsOK, AwayOK, NameOK, JourneyOK, SigningIn!Here,
           SigningIn!LockHasItsCall, SigningIn!LoginShown

-----------------------------------------------------------------------------
(* The sections together.                                                  *)

Sound == ScanOK /\ CameraOK /\ ShellOK

LEMMA SoundAtFirst == Init => Sound
  <1> SUFFICES ASSUME Init
               PROVE  Sound
    OBVIOUS
  <1>1. CASE section = "signing in"
    BY <1>1, ScanStart, CameraStart, SignInStart DEF Init, Sound
  <1>2. CASE section # "signing in"
    <2>1. PICK p : p = [SigningIn!NoApp EXCEPT !.me = None]
      OBVIOUS
    <2>2. /\ p \in SigningIn!App /\ p.at = "here" /\ p.me = None /\ p.authAttempt = 0
          /\ ~p.login.busy
      BY <2>1, StudentPagesAssumption
         DEF SigningIn!NoApp, SigningIn!App, SigningIn!NoLogin, SigningIn!Login,
             SigningIn!Steps
    <2>3. /\ live = {} /\ cookie = None /\ stored = None /\ wanted = None /\ app = p
          /\ asked = {} /\ failures = 0 /\ sessions = 0
      BY <1>2, <2>1 DEF Init
    <2>4. ShellOK
      BY <2>2, <2>3, StudentPagesAssumption, BrowserAssumption
         DEF ShellOK, SigningIn!TypeOK, CallsOK, AwayOK, NameOK, JourneyOK,
             SigningIn!Here, SigningIn!LockHasItsCall, SigningIn!LoginShown
    <2> QED
      BY <2>4, ScanStart, CameraStart DEF Init, Sound
  <1> QED
    BY <1>1, <1>2

\* A step is one of one section, and a stutter of the others.
LEMMA SoundKept == Sound /\ [Next]_vars => Sound'
  <1> SUFFICES ASSUME Sound, [Next]_vars
               PROVE  Sound'
    OBVIOUS
  <1>1. [Scanning!Next]_scanVars /\ [Watching!Next]_cameraVars /\ [SigningIn!Next]_signInVars
    BY DEF Next, vars
  <1> QED
    BY <1>1, ScanStep, CameraStep, ShellStep DEF Sound

LEMMA SoundInvariant == Spec => []Sound
  BY SoundAtFirst, SoundKept, PTL DEF Spec

-----------------------------------------------------------------------------
(* Theorems.                                                               *)

\* Whatever the student, the server and the network do, in each section the
\* state, the history and what is counted are of their types.
THEOREM TypeCorrect == Spec => []TypeOK
  <1>1. Sound => TypeOK
    BY DEF Sound, ScanOK, CameraOK, ShellOK, TypeOK
  <1> QED
    BY <1>1, SoundInvariant, PTL

\* What the screens say of a borrow is true: a book that Scan.tsx confirms is
\* the student's, unless somebody else has had a hand in it; and a refusal is
\* never one of his own book, however often the ISBN was sent and whichever
\* answer was lost, but for a book that the teacher hides.
THEOREM ScreenTellsTheTruth == Spec => []AnswersTrue
  <1>1. ASSUME ScanOK
        PROVE  Scanning!ConfirmedIsMine
    BY <1>1 DEF ScanOK, AnswersStand, Attempted, Scanning!ConfirmedIsMine, Scanning!Answered
  <1>2. ASSUME ScanOK, Attempted, page.attempt.status = "error", behind = {},
               page.attempt.error \notin Scanning!Retryable \cup {"book_inactive"},
               holder[page.attempt.isbn] = "me"
        PROVE  FALSE
    <2> DEFINE b == page.attempt.isbn
               error == page.attempt.error
    <2>1. RefusalStands(b, error)
      BY <1>2 DEF ScanOK, AnswersStand
    <2>2. b \in Books
      BY <1>2 DEF ScanOK, Scanning!TypeOK, Scanning!Page, Scanning!Attempt, Attempted
    <2>3. b \in Scanning!Held /\ holder[b] # None
      BY <1>2, <2>2, StudentPagesAssumption DEF Scanning!Held
    <2>4. shelf[b] \notin {"absent", "lost"} /\ Scanning!Held \ {b} = {}
      BY <1>2, <2>2, <2>3 DEF ScanOK, DeskOK
    <2> QED
      BY <1>2, <2>1, <2>4 DEF RefusalStands, Scanning!Retryable
  <1>3. Sound => AnswersTrue
    BY <1>1, <1>2
       DEF Sound, AnswersTrue, Scanning!RefusedIsNotMine, Scanning!Answered, Attempted
  <1> QED
    BY <1>3, SoundInvariant, PTL

\* submissionLocked of Scan.tsx is set exactly while an attempt is shown, and
\* one call for it is out while it is pending; the buttons of Login.tsx are
\* locked only while the call that unlocks them is out.
THEOREM NothingStaysLocked == Spec => []LocksHaveTheirCalls
  <1>1. ASSUME ScanOK
        PROVE  Scanning!LockIsShown
    <2>1. Scanning!Waiting("borrow") = Awaited
      BY <1>1 DEF ScanOK, CallsTyped, Borrow, Scanning!Waiting, Awaited
    <2> QED
      BY <1>1, <2>1 DEF ScanOK, LockOK, Attempted, Scanning!LockIsShown, Scanning!Answered
  <1>2. Sound => LocksHaveTheirCalls
    BY <1>1 DEF Sound, ShellOK, LocksHaveTheirCalls
  <1> QED
    BY <1>2, SoundInvariant, PTL

\* When CameraViewport is off the screen and no permission is being asked for,
\* no stream has the camera on, however many runs of its effect overlapped.
THEOREM CameraGoesOut == Spec => []CameraOff
  <1>1. CameraOK => Watching!CameraOff
    BY StudentPagesAssumption
       DEF CameraOK, RunOK, Watching!TypeOK, Watching!CameraOff, Watching!Opening,
           Watching!Runs
  <1>2. Sound => CameraOff
    BY <1>1 DEF Sound, CameraOff
  <1> QED
    BY <1>2, SoundInvariant, PTL

\* The name that App.tsx shows is that of the student whose session the browser
\* sends, or it sends none; and who has signed in is at the page where he began,
\* in whichever order the answers came.
THEOREM SignInLeadsBack == Spec => []SignInTrue
  <1>1. ShellOK => SigningIn!MeTrue
    BY DEF ShellOK, NameOK, SigningIn!MeTrue, SigningIn!SignedIn
  <1>2. ShellOK => SigningIn!ReturnsToPage
    BY DEF ShellOK, JourneyOK, SigningIn!ReturnsToPage, SigningIn!SignedIn
  <1>3. Sound => SignInTrue
    BY <1>1, <1>2 DEF Sound, SignInTrue
  <1> QED
    BY <1>3, SoundInvariant, PTL

\* CameraViewport implements the viewport its screen relies on: in each showing,
\* from a mounting or a new drawing, it makes at most one report, and none when
\* it is off the screen, whatever the earlier runs of its effect still do.
THEOREM CameraKeepsPromise == Spec => KeepsPromise
  <1>1. Init => Watching!Promise!Init
    BY DEF Init, Watching!Init, Watching!Promise!Init
  <1>2. Sound /\ [Next]_vars =>
          [Watching!Promise!Mount \/ Watching!Promise!Unmount \/ Watching!Promise!Tell]_
            <<current # 0, told>>
    <2>1. [Next]_vars => [Watching!Next]_cameraVars
      BY DEF Next, vars
    <2> QED
      BY <2>1, CameraPromises DEF Sound
  <1> QED
    BY <1>1, <1>2, SoundInvariant, PTL
       DEF Spec, KeepsPromise, Watching!KeepsPromise, Watching!Promise!Spec
=============================================================================
