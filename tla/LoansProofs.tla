---------------------------- MODULE LoansProofs ----------------------------
(***************************************************************************)
(* Theorems about Loans for any students, books, requests and loan ids.    *)
(***************************************************************************)
EXTENDS Loans, FiniteSetTheorems, TLAPS

-----------------------------------------------------------------------------
(* Types.                                                                  *)

\* What a slot must hold for its next statement to be typed, ids being the
\* loans issued: a statement names the rows an earlier one found.
StepTyped(q, ids) ==
    /\ q.step \in {"find_open_loan", "insert", "find_loan_of_book",
                   "find_loan_of_user", "load_limit_book"} =>
         q.user \in Students /\ q.book \in Books
    /\ q.step \in {"complete_return", "reload_return", "reload_reason",
                   "count_class", "count_reader"} => q.user \in Students
    /\ q.step \in {"load_limit_book", "complete_return", "reload_return",
                   "reload_reason", "count_class", "count_reader",
                   "loan_state"} => q.loan \in ids

SlotOK(q, ids) == q \in Request /\ StepTyped(q, ids)

Typed == TypeOK /\ \A r \in Requests : StepTyped(req[r], Issued)

\* The blank request, and what moving a request on or answering makes of it.
LEMMA IdleTyped == \A ids : SlotOK(Idle, ids)
  BY LoansAssumption DEF Idle, Request, Steps, Replies, Answers, SlotOK, StepTyped

LEMMA AnswerTyped ==
  ASSUME NEW q \in Request, NEW reply \in Replies, NEW ids
  PROVE  SlotOK(Answer(q, reply), ids)
  BY DEF Answer, Request, Steps, SlotOK, StepTyped

LEMMA GoTyped ==
  ASSUME NEW q \in Request, NEW step \in Steps, NEW ids,
         StepTyped([q EXCEPT !.step = step], ids)
  PROVE  SlotOK([q EXCEPT !.step = step], ids)
  BY DEF Request, SlotOK

\* The rows the statements write are rows of their tables.
LEMMA RowsTyped ==
  /\ \A b \in Books, u \in Students : NewLoan(b, u) \in Loan
  /\ \A row \in Loan : AdminClosed(row) \in Loan
  /\ Unused \in Book
  BY DEF NewLoan, AdminClosed, Unused, Loan, Book

\* A step that issues no loan away and leaves one slot well typed and the
\* others alone leaves all slots well typed.
LEMMA SlotStep ==
  ASSUME Typed, NEW r \in Requests, NEW q, SlotOK(q, Issued'),
         req' = [req EXCEPT ![r] = q], Issued \subseteq Issued'
  PROVE  /\ req' \in [Requests -> Request]
         /\ \A s \in Requests : StepTyped(req'[s], Issued')
  BY DEF Typed, TypeOK, SlotOK, StepTyped

\* The same for a step that touches no slot.
LEMMA NoSlotStep ==
  ASSUME Typed, UNCHANGED req, Issued \subseteq Issued'
  PROVE  /\ req' \in [Requests -> Request]
         /\ \A s \in Requests : StepTyped(req'[s], Issued')
  BY DEF Typed, TypeOK, StepTyped

\* Requests as the handlers begin them.
LEMMA BegunTyped ==
  ASSUME NEW u \in Students, NEW ids
  PROVE  /\ [Idle EXCEPT !.user = u] \in Request
         /\ \A b \in Books :
              LET q == [[Idle EXCEPT !.user = u] EXCEPT !.book = b]
              IN q \in Request /\ SlotOK([q EXCEPT !.step = "find_open_loan"], ids)
         /\ \A l \in LoanIds : [Idle EXCEPT !.user = u, !.loan = l] \in Request
  <1>1. Idle \in Request
    BY IdleTyped DEF SlotOK
  <1>2. [Idle EXCEPT !.user = u] \in Request
    BY <1>1 DEF Request
  <1>3. ASSUME NEW b \in Books
        PROVE  LET q == [[Idle EXCEPT !.user = u] EXCEPT !.book = b]
               IN q \in Request /\ SlotOK([q EXCEPT !.step = "find_open_loan"], ids)
    BY <1>1 DEF Request, SlotOK, StepTyped, Steps
  <1> QED
    BY <1>1, <1>2, <1>3 DEF Request

\* One statement of a borrow keeps the types.
LEMMA BorrowTyped ==
  ASSUME Typed, NEW r \in Requests,
         \/ \E u \in Students, i \in Isbns : BorrowFindBook(r, u, i)
         \/ BorrowFindOpenLoan(r)
         \/ BorrowInsert(r)
         \/ BorrowBookTaken(r)
         \/ BorrowUserBusy(r)
         \/ BorrowLoadLimitBook(r)
  PROVE  Typed'
  <1>a. req[r] \in Request /\ StepTyped(req[r], Issued)
    BY DEF Typed, TypeOK
  <1>b. SUFFICES /\ books' = books
                 /\ loans' \in [LoanIds -> Loan \cup {None}]
                 /\ Issued \subseteq Issued'
                 /\ \E q : SlotOK(q, Issued') /\ req' = [req EXCEPT ![r] = q]
    BY SlotStep DEF Typed, TypeOK
  <1>c. ASSUME UNCHANGED loans
        PROVE  loans' \in [LoanIds -> Loan \cup {None}] /\ Issued' = Issued
    BY <1>c DEF Typed, TypeOK, Issued
  <1>d. ASSUME NEW l \in LoanIds, loans[l] # None, AnswerOpenLoan(r, l),
               req[r].user \in Students, req[r].book \in Books
        PROVE  \E q : SlotOK(q, Issued) /\ req' = [req EXCEPT ![r] = q]
    <2>1. [req[r] EXCEPT !.loan = l] \in Request
      BY <1>a DEF Request
    <2>2. SlotOK([[req[r] EXCEPT !.loan = l] EXCEPT !.step = "load_limit_book"], Issued)
      BY <1>a, <1>d DEF Request, SlotOK, StepTyped, Steps, Issued
    <2> QED
      BY <1>d, <2>1, <2>2, AnswerTyped DEF AnswerOpenLoan, Reply, Go, Replies, Answers
  <1>1. ASSUME NEW u \in Students, NEW i \in Isbns, BorrowFindBook(r, u, i)
        PROVE  \E q : SlotOK(q, Issued) /\ req' = [req EXCEPT ![r] = q]
    BY <1>1, BegunTyped, IdleTyped, AnswerTyped
       DEF BorrowFindBook, Refuse, Go, Replies, Answers, SlotOK
  <1>2. CASE BorrowFindOpenLoan(r)
    <2>1. CASE \E l \in OpenOfUser(req[r].user) : AnswerOpenLoan(r, l)
      BY <1>2, <1>a, <1>c, <1>d, <2>1 DEF BorrowFindOpenLoan, OpenOfUser, Open, At, StepTyped
    <2>2. CASE Go(r, req[r], "insert")
      <3>1. SlotOK([req[r] EXCEPT !.step = "insert"], Issued)
        BY <1>a, <1>2 DEF BorrowFindOpenLoan, At, Request, SlotOK, StepTyped, Steps
      <3> QED
        BY <1>2, <1>c, <2>2, <3>1 DEF BorrowFindOpenLoan, Go
    <2> QED
      BY <1>2, <2>1, <2>2 DEF BorrowFindOpenLoan
  <1>3. CASE BorrowInsert(r)
    <2> DEFINE b == req[r].book
               u == req[r].user
    <2>0. b \in Books /\ u \in Students
      BY <1>a, <1>3 DEF BorrowInsert, At, StepTyped
    <2>1. ASSUME NEW l \in LoanIds \ Issued,
                 loans' = [loans EXCEPT ![l] = NewLoan(b, u)],
                 Reply(r, [req[r] EXCEPT !.loan = l], "borrowed")
          PROVE  /\ loans' \in [LoanIds -> Loan \cup {None}]
                 /\ Issued \subseteq Issued'
                 /\ \E q : SlotOK(q, Issued') /\ req' = [req EXCEPT ![r] = q]
      <3>1. [req[r] EXCEPT !.loan = l] \in Request
        BY <1>a DEF Request
      <3>2. loans' \in [LoanIds -> Loan \cup {None}]
        BY <2>0, <2>1, RowsTyped DEF Typed, TypeOK
      <3>3. Issued \subseteq Issued'
        BY <2>0, <2>1, RowsTyped, LoansAssumption DEF Typed, TypeOK, Issued
      <3> QED
        BY <2>1, <3>1, <3>2, <3>3, AnswerTyped DEF Reply, Replies, Answers
    <2>2. ASSUME UNCHANGED loans, NEW step \in {"find_loan_of_book", "find_loan_of_user"},
                 Go(r, req[r], step)
          PROVE  /\ loans' \in [LoanIds -> Loan \cup {None}]
                 /\ Issued \subseteq Issued'
                 /\ \E q : SlotOK(q, Issued') /\ req' = [req EXCEPT ![r] = q]
      <3>1. SlotOK([req[r] EXCEPT !.step = step], Issued)
        BY <1>a, <2>0, <2>2 DEF Request, SlotOK, StepTyped, Steps
      <3> QED
        BY <1>c, <2>2, <3>1 DEF Go
    <2>3. ASSUME UNCHANGED loans, Refuse(r, "500_deleted_book")
          PROVE  /\ loans' \in [LoanIds -> Loan \cup {None}]
                 /\ Issued \subseteq Issued'
                 /\ \E q : SlotOK(q, Issued') /\ req' = [req EXCEPT ![r] = q]
      BY <1>c, <2>3, IdleTyped, AnswerTyped DEF Refuse, Replies, Answers, SlotOK
    <2> QED
      BY <1>3, <2>1, <2>2, <2>3 DEF BorrowInsert
  <1>4. CASE BorrowBookTaken(r)
    <2>1. ASSUME NEW l \in LoanIds PROVE [req[r] EXCEPT !.loan = l] \in Request
      BY <1>a DEF Request
    <2>2. Idle \in Request
      BY IdleTyped DEF SlotOK
    <2> QED
      BY <1>4, <1>c, <2>1, <2>2, AnswerTyped
         DEF BorrowBookTaken, Refuse, Reply, Replies, Answers, OpenOfBook
  <1>5. CASE BorrowUserBusy(r)
    <2>1. CASE Refuse(r, "500_conflict_gone")
      BY <1>5, <1>c, <2>1, IdleTyped, AnswerTyped DEF BorrowUserBusy, Refuse, Replies, Answers, SlotOK
    <2>2. CASE \E l \in OpenOfUser(req[r].user) : AnswerOpenLoan(r, l)
      BY <1>5, <1>a, <1>c, <1>d, <2>2 DEF BorrowUserBusy, OpenOfUser, Open, At, StepTyped
    <2> QED
      BY <1>5, <2>1, <2>2 DEF BorrowUserBusy
  <1>6. CASE BorrowLoadLimitBook(r)
    BY <1>6, <1>a, <1>c, IdleTyped, AnswerTyped
       DEF BorrowLoadLimitBook, Reply, Refuse, Replies, Answers, SlotOK
  <1> QED
    BY <1>1, <1>2, <1>3, <1>4, <1>5, <1>6, <1>c
       DEF BorrowFindBook, BorrowFindOpenLoan, BorrowInsert, BorrowBookTaken,
           BorrowUserBusy, BorrowLoadLimitBook
\* One statement of a shelf check, a return or a reason keeps the types.
LEMMA CloseTyped ==
  ASSUME Typed, NEW r \in Requests,
         \/ \E u \in Students, l \in LoanIds, s \in ShelfEvidence : ShelfCheck(r, u, l, s)
         \/ \E u \in Students, l \in LoanIds, s \in ShelfEvidence, ev \in BookEvidence :
              ReturnLoad(r, u, l, s, ev)
         \/ ReturnComplete(r)
         \/ ReturnReload(r)
         \/ \E u \in Students, l \in LoanIds, reason \in Reasons : ReasonSet(r, u, l, reason)
         \/ ReasonReload(r)
         \/ ReasonCountClass(r)
         \/ ReasonCountReader(r)
  PROVE  Typed'
  <1>a. req[r] \in Request /\ StepTyped(req[r], Issued)
    BY DEF Typed, TypeOK
  <1>b. SUFFICES /\ books' = books
                 /\ loans' \in [LoanIds -> Loan \cup {None}]
                 /\ Issued \subseteq Issued'
                 /\ \E q : SlotOK(q, Issued') /\ req' = [req EXCEPT ![r] = q]
    BY SlotStep DEF Typed, TypeOK
  <1>c. ASSUME UNCHANGED loans
        PROVE  loans' \in [LoanIds -> Loan \cup {None}] /\ Issued' = Issued
    BY <1>c DEF Typed, TypeOK, Issued
  <1>d. ASSUME NEW l \in Issued, NEW row \in Loan, loans' = [loans EXCEPT ![l] = row]
        PROVE  loans' \in [LoanIds -> Loan \cup {None}] /\ Issued' = Issued
    BY <1>d, LoansAssumption DEF Typed, TypeOK, Issued
  <1>e. \A l \in Issued : l \in LoanIds /\ loans[l] \in Loan
    BY DEF Typed, TypeOK, Issued
  <1>f. \A reply \in Replies : Refuse(r, reply) =>
           \E q : SlotOK(q, Issued) /\ req' = [req EXCEPT ![r] = q]
    BY IdleTyped, AnswerTyped DEF Refuse, SlotOK
  <1>g. \A reply \in Replies : Reply(r, req[r], reply) =>
           \E q : SlotOK(q, Issued) /\ req' = [req EXCEPT ![r] = q]
    BY <1>a, AnswerTyped DEF Reply
  <1>1. ASSUME NEW u \in Students, NEW l \in LoanIds, NEW s \in ShelfEvidence,
               ShelfCheck(r, u, l, s)
        PROVE  \E q : SlotOK(q, Issued) /\ req' = [req EXCEPT ![r] = q]
    BY <1>1, <1>f, BegunTyped, AnswerTyped DEF ShelfCheck, Reply, Replies, Answers
  <1>2. ASSUME NEW u \in Students, NEW l \in LoanIds, NEW s \in ShelfEvidence,
               NEW ev \in BookEvidence, ReturnLoad(r, u, l, s, ev)
        PROVE  \E q : SlotOK(q, Issued) /\ req' = [req EXCEPT ![r] = q]
    <2> DEFINE q0 == [Idle EXCEPT !.user = u, !.loan = l]
               q1 == [q0 EXCEPT !.shelfOk = (s = "scan"),
                                !.bookOk = (ev.method = "scan")]
    <2>1. q0 \in Request /\ q0.user = u /\ q0.loan = l
      BY BegunTyped DEF Idle
    <2>2. SlotOK([q1 EXCEPT !.step = "complete_return"], Issued)
      BY <1>2, <2>1 DEF ReturnLoad, Request, SlotOK, StepTyped, Steps
    <2> QED
      BY <1>2, <1>f, <2>1, <2>2, AnswerTyped DEF ReturnLoad, Reply, Go, Replies, Answers
  <1>3. CASE ReturnComplete(r)
    <2> DEFINE l == req[r].loan
    <2>0. l \in Issued /\ l \in LoanIds /\ loans[l] \in Loan
      BY <1>a, <1>e, <1>3 DEF ReturnComplete, At, StepTyped
    <2>1. ASSUME loans' = [loans EXCEPT ![l].returned = TRUE,
                                        ![l].shelfOk = req[r].shelfOk,
                                        ![l].bookOk = req[r].bookOk],
                 Reply(r, req[r], "returned")
          PROVE  /\ loans' \in [LoanIds -> Loan \cup {None}]
                 /\ Issued \subseteq Issued'
                 /\ \E q : SlotOK(q, Issued') /\ req' = [req EXCEPT ![r] = q]
      <3> DEFINE row == [loans[l] EXCEPT !.returned = TRUE,
                                         !.shelfOk = req[r].shelfOk,
                                         !.bookOk = req[r].bookOk]
      <3>1. row \in Loan
        BY <1>a, <2>0 DEF Loan, Request
      <3>2. loans' = [loans EXCEPT ![l] = row]
        BY <2>0, <2>1 DEF Typed, TypeOK
      <3> QED
        BY <1>d, <1>g, <2>0, <2>1, <3>1, <3>2 DEF Replies, Answers
    <2>2. ASSUME UNCHANGED loans, Go(r, req[r], "reload_return")
          PROVE  /\ loans' \in [LoanIds -> Loan \cup {None}]
                 /\ Issued \subseteq Issued'
                 /\ \E q : SlotOK(q, Issued') /\ req' = [req EXCEPT ![r] = q]
      <3>1. SlotOK([req[r] EXCEPT !.step = "reload_return"], Issued)
        BY <1>3, <1>a, <2>0 DEF ReturnComplete, At, Request, SlotOK, StepTyped, Steps
      <3> QED
        BY <1>c, <2>2, <3>1 DEF Go
    <2> QED
      BY <1>3, <2>1, <2>2 DEF ReturnComplete
  <1>4. CASE ReturnReload(r)
    BY <1>4, <1>c, <1>f, <1>g DEF ReturnReload, Replies, Answers
  <1>5. ASSUME NEW u \in Students, NEW l \in LoanIds, NEW reason \in Reasons,
               ReasonSet(r, u, l, reason)
        PROVE  /\ loans' \in [LoanIds -> Loan \cup {None}]
               /\ Issued \subseteq Issued'
               /\ \E q : SlotOK(q, Issued') /\ req' = [req EXCEPT ![r] = q]
    <2> DEFINE matches == Owned(l, u) /\ loans[l].returned /\ loans[l].reason = None
               q0 == [Idle EXCEPT !.user = u, !.loan = l]
               q1 == [q0 EXCEPT !.reason = reason, !.hit = matches]
    <2>0. l \in Issued /\ loans[l] \in Loan
      BY <1>5, <1>e DEF ReasonSet
    <2>1. q0 \in Request /\ q0.user = u /\ q0.loan = l
      BY BegunTyped DEF Idle
    <2>2. matches \in BOOLEAN
      OBVIOUS
    <2>3. SlotOK([q1 EXCEPT !.step = "reload_reason"], Issued)
      <3> HIDE DEF matches
      <3> QED
        BY <2>0, <2>1, <2>2 DEF Request, SlotOK, StepTyped, Steps
    <2>4. req' = [req EXCEPT ![r] = [q1 EXCEPT !.step = "reload_reason"]]
      BY <1>5 DEF ReasonSet, Go
    <2>5. CASE UNCHANGED loans
      BY <1>c, <2>3, <2>4, <2>5
    <2>6. CASE loans' = [loans EXCEPT ![l].reason = reason]
      <3>1. [loans[l] EXCEPT !.reason = reason] \in Loan
        BY <2>0 DEF Loan
      <3>2. loans' = [loans EXCEPT ![l] = [loans[l] EXCEPT !.reason = reason]]
        BY <2>6 DEF Typed, TypeOK
      <3> QED
        BY <1>d, <2>0, <2>3, <2>4, <3>1, <3>2
    <2> QED
      BY <1>5, <2>5, <2>6 DEF ReasonSet
  <1>6. CASE ReasonReload(r)
    <2>1. ASSUME Go(r, req[r], "count_class")
          PROVE  \E q : SlotOK(q, Issued) /\ req' = [req EXCEPT ![r] = q]
      <3>1. SlotOK([req[r] EXCEPT !.step = "count_class"], Issued)
        BY <1>a, <1>6 DEF ReasonReload, At, Request, SlotOK, StepTyped, Steps
      <3> QED
        BY <2>1, <3>1 DEF Go
    <2> QED
      BY <1>6, <1>c, <1>f, <1>g, <2>1 DEF ReasonReload, Replies, Answers
  <1>7. CASE ReasonCountClass(r)
    <2>1. Cardinality(Finished) \in Nat
      <3>1. IsFiniteSet(Finished)
        BY LoansAssumption, FS_Subset DEF Finished, Issued
      <3> QED
        BY <3>1, FS_CardinalityType
    <2>2. [req[r] EXCEPT !.classCount = Cardinality(Finished)] \in Request
      BY <1>a, <2>1 DEF Request
    <2>3. SlotOK([[req[r] EXCEPT !.classCount = Cardinality(Finished)]
                    EXCEPT !.step = "count_reader"], Issued)
      BY <1>a, <1>7, <2>2 DEF ReasonCountClass, At, Request, SlotOK, StepTyped, Steps
    <2> QED
      BY <1>7, <1>c, <2>3 DEF ReasonCountClass, Go
  <1>8. CASE ReasonCountReader(r)
    <2> DEFINE first == Cardinality(FinishedBy(req[r].user)) = 1
    <2>1. [req[r] EXCEPT !.firstBook = first] \in Request
      <3>1. first \in BOOLEAN
        OBVIOUS
      <3> HIDE DEF first
      <3> QED
        BY <1>a, <3>1 DEF Request
    <2> QED
      BY <1>8, <1>c, <2>1, AnswerTyped DEF ReasonCountReader, Reply, Replies, Answers
  <1>9. books' = books
    BY DEF ShelfCheck, ReturnLoad, ReturnComplete, ReturnReload, ReasonSet,
           ReasonReload, ReasonCountClass, ReasonCountReader
  <1>10. CASE \E u \in Students, l \in LoanIds, s \in ShelfEvidence : ShelfCheck(r, u, l, s)
    BY <1>1, <1>9, <1>10, <1>c DEF ShelfCheck
  <1>11. CASE \E u \in Students, l \in LoanIds, s \in ShelfEvidence, ev \in BookEvidence :
                 ReturnLoad(r, u, l, s, ev)
    <2>1. UNCHANGED loans
      BY <1>11 DEF ReturnLoad
    <2>2. \E q : SlotOK(q, Issued) /\ req' = [req EXCEPT ![r] = q]
      BY <1>2, <1>11
    <2> QED
      BY <1>9, <1>c, <2>1, <2>2
  <1>12. CASE \E u \in Students, l \in LoanIds, reason \in Reasons : ReasonSet(r, u, l, reason)
    BY <1>5, <1>9, <1>12
  <1> QED
    BY <1>3, <1>4, <1>6, <1>7, <1>8, <1>9, <1>10, <1>11, <1>12

\* The teacher's statements keep the types.
LEMMA TeacherTyped ==
  ASSUME Typed,
         \/ \E r \in Requests : Leave(r)
         \/ \E r \in Requests, l \in LoanIds : AdminMiss(r, l)
         \/ \E r \in Requests : AdminLoanState(r)
         \/ \E l \in LoanIds : TeacherLoanStep(l)
         \/ \E b \in Books : TeacherBookStep(b)
  PROVE  Typed'
  <1>c. ASSUME UNCHANGED loans
        PROVE  loans' \in [LoanIds -> Loan \cup {None}] /\ Issued' = Issued
    BY <1>c DEF Typed, TypeOK, Issued
  <1>d. ASSUME NEW l \in Issued, NEW row \in Loan, loans' = [loans EXCEPT ![l] = row]
        PROVE  loans' \in [LoanIds -> Loan \cup {None}] /\ Issued' = Issued
    BY <1>d, LoansAssumption DEF Typed, TypeOK, Issued
  <1>e. ASSUME NEW b \in Books, NEW row \in Book, books' = [books EXCEPT ![b] = row]
        PROVE  books' \in [Books -> Book]
    BY <1>e DEF Typed, TypeOK
  <1>f. \A b \in Books : books[b] \in Book
    BY DEF Typed, TypeOK
  <1>1. ASSUME NEW r \in Requests, Leave(r)
        PROVE  Typed'
    BY <1>1, <1>c, SlotStep, IdleTyped DEF Leave, Typed, TypeOK
  <1>2. ASSUME NEW r \in Requests, NEW l \in LoanIds, AdminMiss(r, l)
        PROVE  Typed'
    <2>1. [Idle EXCEPT !.loan = l] \in Request
      BY IdleTyped DEF SlotOK, Request
    <2>2. SlotOK([[Idle EXCEPT !.loan = l] EXCEPT !.step = "loan_state"], Issued)
      BY <1>2, <2>1, IdleTyped DEF AdminMiss, Request, SlotOK, StepTyped, Steps
    <2> QED
      BY <1>2, <1>c, <2>2, SlotStep DEF AdminMiss, Go, Typed, TypeOK
  <1>3. ASSUME NEW r \in Requests, AdminLoanState(r)
        PROVE  Typed'
    <2>1. \A reply \in Replies : SlotOK(Answer(req[r], reply), Issued)
      BY AnswerTyped DEF Typed, TypeOK
    <2>2. \E reply \in Replies : Reply(r, req[r], reply)
      BY <1>3 DEF AdminLoanState, Replies, Answers
    <2>3. \E q : SlotOK(q, Issued) /\ req' = [req EXCEPT ![r] = q]
      BY <2>1, <2>2 DEF Reply
    <2> QED
      BY <1>3, <1>c, <2>3, SlotStep DEF AdminLoanState, Typed, TypeOK
  <1>4. ASSUME NEW l \in LoanIds, TeacherLoanStep(l)
        PROVE  Typed'
    <2>1. l \in Issued /\ loans[l] \in Loan
      BY <1>4 DEF TeacherLoanStep, ExtendAdminLoan, CompleteAdminReturn,
                  MarkAdminLoanLost, ReviewAdminLoanScan, Open, Issued, Typed, TypeOK
    <2>2. /\ AdminClosed(loans[l]) \in Loan
          /\ [loans[l] EXCEPT !.weeks = loans[l].weeks + 1] \in Loan
          /\ [loans[l] EXCEPT !.reviewed = TRUE] \in Loan
      <3>1. AdminClosed(loans[l]) \in Loan
        BY <2>1, RowsTyped
      <3>2. loans[l].weeks + 1 \in Nat
        BY <2>1 DEF Loan
      <3> QED
        BY <2>1, <3>1, <3>2 DEF Loan
    <2>3. \E row \in Loan : loans' = [loans EXCEPT ![l] = row]
      BY <1>4, <2>2 DEF TeacherLoanStep, ExtendAdminLoan, CompleteAdminReturn,
                        MarkAdminLoanLost, ReviewAdminLoanScan, Typed, TypeOK
    <2>4. books' \in [Books -> Book]
      <3>1. loans[l].book \in Books
        BY <2>1 DEF Loan
      <3>2. [books[loans[l].book] EXCEPT !.isLost = TRUE] \in Book
        BY <1>f, <3>1 DEF Book
      <3>3. CASE MarkAdminLoanLost(l)
        BY <1>e, <3>1, <3>2, <3>3 DEF MarkAdminLoanLost, Typed, TypeOK
      <3>4. CASE books' = books
        BY <3>4 DEF Typed, TypeOK
      <3> QED
        BY <1>4, <3>3, <3>4 DEF TeacherLoanStep, ExtendAdminLoan,
           CompleteAdminReturn, ReviewAdminLoanScan
    <2>5. UNCHANGED req
      BY <1>4 DEF TeacherLoanStep, ExtendAdminLoan, CompleteAdminReturn,
                  MarkAdminLoanLost, ReviewAdminLoanScan
    <2> QED
      BY <1>d, <2>1, <2>3, <2>4, <2>5, NoSlotStep DEF Typed, TypeOK
  <1>5. ASSUME NEW b \in Books, TeacherBookStep(b)
        PROVE  Typed'
    <2>1. books' \in [Books -> Book]
      <3>1. /\ [books[b] EXCEPT !.isLost = FALSE] \in Book
            /\ \A active \in BOOLEAN : [books[b] EXCEPT !.isActive = active] \in Book
            /\ \A i \in Isbns \cup {None} : [books[b] EXCEPT !.isbn = i] \in Book
        BY <1>f DEF Book
      <3>2. /\ \A i \in Isbns \cup {None} :
                 [Unused EXCEPT !.state = "present", !.isbn = i] \in Book
            /\ [Unused EXCEPT !.state = "deleted"] \in Book
        BY RowsTyped DEF Book
      <3>3. \E row \in Book : books' = [books EXCEPT ![b] = row]
        BY <1>5, <3>1, <3>2
           DEF TeacherBookStep, MarkAdminBookFound, SetBookActive, CreateBook,
               UpdateBook, DeleteBook, Typed, TypeOK
      <3> QED
        BY <1>e, <3>3
    <2>2. UNCHANGED <<loans, req>>
      BY <1>5 DEF TeacherBookStep, MarkAdminBookFound, SetBookActive, CreateBook,
                  UpdateBook, DeleteBook
    <2> QED
      BY <1>c, <2>1, <2>2, NoSlotStep DEF Typed, TypeOK
  <1> QED
    BY <1>1, <1>2, <1>3, <1>4, <1>5

\* Typed is inductive, so the tables and the slots keep their types whatever
\* order the statements of however many requests come in.
LEMMA TypedInvariant == Spec => []Typed
  <1>1. Init => Typed
    BY IdleTyped, RowsTyped DEF Init, Typed, TypeOK, SlotOK, Issued, Idle, StepTyped
  <1>2. Typed /\ [Next]_vars => Typed'
    <2> SUFFICES ASSUME Typed, [Next]_vars
                 PROVE  Typed'
      OBVIOUS
    <2>1. ASSUME NEW r \in Requests, StudentStep(r)
          PROVE  Typed'
      BY <2>1, BorrowTyped, CloseTyped DEF StudentStep
    <2>2. CASE UNCHANGED vars
      BY <2>2 DEF vars, Typed, TypeOK, StepTyped, Issued
    <2> QED
      BY <2>1, <2>2, TeacherTyped DEF Next
  <1> QED
    BY <1>1, <1>2, PTL DEF Spec

\* TypeOK of the runs, for every number of students, books and requests.
THEOREM TypeCorrect == Spec => []TypeOK
  <1>1. Typed => TypeOK
    BY DEF Typed
  <1> QED
    BY <1>1, TypedInvariant, PTL

-----------------------------------------------------------------------------
(* Rows.  All that a step may do to table loans is add one open row, under *)
(* the two unique indexes, or move one row on; the loan rules follow from  *)
(* that and nothing else.                                                  *)

\* A row that replaces another: history is kept and no CHECK is tripped.
Follows(new, old) ==
    /\ new \in Loan
    /\ Keeps(new, old)
    /\ RowAllowed(old) => RowAllowed(new)

Opens(l, b, u) ==
    /\ l \in LoanIds \ Issued /\ b \in Books /\ u \in Students
    /\ OpenOfBook(b) = {} /\ OpenOfUser(u) = {} /\ Present(b)
    /\ loans' = [loans EXCEPT ![l] = NewLoan(b, u)]
    /\ UNCHANGED books

Moves(l, row) ==
    /\ l \in Issued
    /\ Follows(row, loans[l])
    /\ loans' = [loans EXCEPT ![l] = row]

LoansEvolve ==
    \/ UNCHANGED loans
    \/ \E l, b, u : Opens(l, b, u)
    \/ \E l, row : Moves(l, row)

\* The rows that returns, reasons, extensions, reviews and closes write.
LEMMA RowsFollow ==
  ASSUME NEW old \in Loan
  PROVE  /\ ~old.returned => Follows(AdminClosed(old), old)
         /\ ~old.returned => Follows([old EXCEPT !.weeks = old.weeks + 1], old)
         /\ Flagged(old) => Follows([old EXCEPT !.reviewed = TRUE], old)
         /\ \A shelfOk, bookOk \in BOOLEAN :
              ~old.returned =>
                Follows([old EXCEPT !.returned = TRUE, !.shelfOk = shelfOk,
                                    !.bookOk = bookOk], old)
         /\ \A reason \in Reasons :
              old.returned /\ old.reason = None =>
                Follows([old EXCEPT !.reason = reason], old)
  <1>1. ~old.returned => Follows(AdminClosed(old), old)
    BY LoansAssumption DEF AdminClosed, Follows, Keeps, RowAllowed, Flagged, Loan
  <1>2. ~old.returned => Follows([old EXCEPT !.weeks = old.weeks + 1], old)
    BY LoansAssumption DEF Follows, Keeps, RowAllowed, Flagged, Loan
  <1>3. Flagged(old) => Follows([old EXCEPT !.reviewed = TRUE], old)
    BY LoansAssumption DEF Follows, Keeps, RowAllowed, Flagged, Loan
  <1>4. ASSUME NEW shelfOk \in BOOLEAN, NEW bookOk \in BOOLEAN, ~old.returned
        PROVE  Follows([old EXCEPT !.returned = TRUE, !.shelfOk = shelfOk,
                                   !.bookOk = bookOk], old)
    BY <1>4, LoansAssumption DEF Follows, Keeps, RowAllowed, Flagged, Loan
  <1>5. ASSUME NEW reason \in Reasons, old.returned, old.reason = None
        PROVE  Follows([old EXCEPT !.reason = reason], old)
    BY <1>5, LoansAssumption DEF Follows, Keeps, RowAllowed, Flagged, Loan
  <1> QED
    BY <1>1, <1>2, <1>3, <1>4, <1>5
\* The student's statements that write table loans.
LEMMA StudentEvolves ==
  ASSUME Typed, NEW r \in Requests, StudentStep(r)
  PROVE  LoansEvolve
  <1>a. req[r] \in Request /\ StepTyped(req[r], Issued)
    BY DEF Typed, TypeOK
  <1>b. \A l \in Issued : l \in LoanIds /\ loans[l] \in Loan
    BY DEF Typed, TypeOK, Issued
  <1>1. CASE BorrowInsert(r)
    <2>1. req[r].user \in Students /\ req[r].book \in Books
      BY <1>1, <1>a DEF BorrowInsert, At, StepTyped
    <2> QED
      BY <1>1, <2>1 DEF BorrowInsert, Opens, LoansEvolve
  <1>2. CASE ReturnComplete(r)
    <2> DEFINE l == req[r].loan
               row == [loans[l] EXCEPT !.returned = TRUE,
                                       !.shelfOk = req[r].shelfOk,
                                       !.bookOk = req[r].bookOk]
    <2>1. l \in Issued /\ loans[l] \in Loan
      BY <1>2, <1>a, <1>b DEF ReturnComplete, At, StepTyped
    <2>2. CASE UNCHANGED loans
      BY <2>2 DEF LoansEvolve
    <2>3. CASE Open(l) /\ loans' = [loans EXCEPT ![l].returned = TRUE,
                                                 ![l].shelfOk = req[r].shelfOk,
                                                 ![l].bookOk = req[r].bookOk]
      <3>1. Follows(row, loans[l])
        BY <2>1, <2>3, <1>a, RowsFollow DEF Open, Request
      <3>2. loans' = [loans EXCEPT ![l] = row]
        BY <1>b, <2>1, <2>3 DEF Typed, TypeOK
      <3> QED
        BY <2>1, <3>1, <3>2 DEF Moves, LoansEvolve
    <2> QED
      BY <1>2, <2>2, <2>3 DEF ReturnComplete
  <1>3. ASSUME NEW u \in Students, NEW l \in LoanIds, NEW reason \in Reasons,
               ReasonSet(r, u, l, reason)
        PROVE  LoansEvolve
    <2> DEFINE row == [loans[l] EXCEPT !.reason = reason]
    <2>1. l \in Issued /\ loans[l] \in Loan
      BY <1>3, <1>b DEF ReasonSet
    <2>2. CASE UNCHANGED loans
      BY <2>2 DEF LoansEvolve
    <2>3. CASE /\ loans[l].returned /\ loans[l].reason = None
               /\ loans' = [loans EXCEPT ![l].reason = reason]
      <3>1. Follows(row, loans[l])
        BY <2>1, <2>3, RowsFollow
      <3>2. loans' = [loans EXCEPT ![l] = row]
        BY <1>b, <2>1, <2>3 DEF Typed, TypeOK
      <3> QED
        BY <2>1, <3>1, <3>2 DEF Moves, LoansEvolve
    <2> QED
      BY <1>3, <2>2, <2>3 DEF ReasonSet
  <1>4. CASE UNCHANGED loans
    BY <1>4 DEF LoansEvolve
  <1>5. StudentStep(r) =>
           \/ BorrowInsert(r) \/ ReturnComplete(r) \/ UNCHANGED loans
           \/ \E u \in Students, l \in LoanIds, reason \in Reasons :
                ReasonSet(r, u, l, reason)
    BY DEF StudentStep, BorrowFindBook, BorrowFindOpenLoan, BorrowBookTaken,
           BorrowUserBusy, BorrowLoadLimitBook, ShelfCheck, ReturnLoad,
           ReturnReload, ReasonReload, ReasonCountClass, ReasonCountReader
  <1> QED
    BY <1>1, <1>2, <1>3, <1>4, <1>5

\* The teacher's statements that write table loans.
LEMMA TeacherEvolves ==
  ASSUME Typed, NEW l \in LoanIds, TeacherLoanStep(l)
  PROVE  LoansEvolve
  <1>1. l \in Issued /\ loans[l] \in Loan
    BY DEF TeacherLoanStep, ExtendAdminLoan, CompleteAdminReturn,
           MarkAdminLoanLost, ReviewAdminLoanScan, Open, Issued, Typed, TypeOK
  <1>2. CASE ExtendAdminLoan(l)
    BY <1>1, <1>2, RowsFollow DEF ExtendAdminLoan, Open, Moves, LoansEvolve, Typed, TypeOK
  <1>3. CASE CompleteAdminReturn(l) \/ MarkAdminLoanLost(l)
    <2>1. loans' = [loans EXCEPT ![l] = AdminClosed(loans[l])] /\ ~loans[l].returned
      BY <1>3 DEF CompleteAdminReturn, MarkAdminLoanLost, Open
    <2> QED
      BY <1>1, <2>1, RowsFollow DEF Moves, LoansEvolve
  <1>4. CASE ReviewAdminLoanScan(l)
    BY <1>1, <1>4, RowsFollow DEF ReviewAdminLoanScan, Moves, LoansEvolve, Typed, TypeOK
  <1> QED
    BY <1>2, <1>3, <1>4 DEF TeacherLoanStep

LEMMA StepsEvolve ==
  ASSUME Typed, [Next]_vars
  PROVE  LoansEvolve
  <1>1. ASSUME UNCHANGED loans
        PROVE  LoansEvolve
    BY <1>1 DEF LoansEvolve
  <1>2. CASE UNCHANGED vars
    BY <1>1, <1>2 DEF vars
  <1>3. CASE \/ \E r \in Requests : Leave(r)
             \/ \E r \in Requests, l \in LoanIds : AdminMiss(r, l)
             \/ \E r \in Requests : AdminLoanState(r)
    BY <1>1, <1>3 DEF Leave, AdminMiss, AdminLoanState
  <1>4. CASE \E b \in Books : TeacherBookStep(b)
    BY <1>1, <1>4 DEF TeacherBookStep, MarkAdminBookFound, SetBookActive,
                      CreateBook, UpdateBook, DeleteBook
  <1> QED
    BY <1>2, <1>3, <1>4, StudentEvolves, TeacherEvolves DEF Next

\* What a new row and a moved row do to the set of open loans.
LEMMA OpenAfter ==
  ASSUME Typed
  PROVE  /\ \A l, b, u : Opens(l, b, u) =>
              \A m \in LoanIds :
                /\ m # l => loans'[m] = loans[m] /\ Open(m)' = Open(m)
                /\ m = l => loans'[m] = NewLoan(b, u)
         /\ \A l, row : Moves(l, row) =>
              \A m \in LoanIds :
                /\ m # l => loans'[m] = loans[m] /\ Open(m)' = Open(m)
                /\ m = l => loans'[m] = row /\ (Open(m)' => Open(m))
  <1>1. ASSUME NEW l, NEW b, NEW u, Opens(l, b, u)
        PROVE  \A m \in LoanIds :
                 /\ m # l => loans'[m] = loans[m] /\ Open(m)' = Open(m)
                 /\ m = l => loans'[m] = NewLoan(b, u)
    BY <1>1 DEF Opens, Open, Typed, TypeOK
  <1>2. ASSUME NEW l, NEW row, Moves(l, row)
        PROVE  \A m \in LoanIds :
                 /\ m # l => loans'[m] = loans[m] /\ Open(m)' = Open(m)
                 /\ m = l => loans'[m] = row /\ (Open(m)' => Open(m))
    <2>1. \A m \in LoanIds : loans'[m] = IF m = l THEN row ELSE loans[m]
      BY <1>2 DEF Moves, Typed, TypeOK
    <2>2. l \in LoanIds /\ loans[l] \in Loan /\ loans[l] # None
      BY <1>2 DEF Moves, Issued, Typed, TypeOK
    <2>3. loans[l].returned => row.returned
      BY <1>2 DEF Moves, Follows, Keeps
    <2> QED
      BY <2>1, <2>2, <2>3 DEF Open
  <1> QED
    BY <1>1, <1>2

\* A book is out to one student and a student has one book, whatever order the
\* statements of any number of requests come in.
THEOREM OneLoanEach == Spec => []OneOpenLoan
  <1>1. Init => OneOpenLoan
    BY DEF Init, OneOpenLoan, Open
  <1>2. Typed /\ OneOpenLoan /\ [Next]_vars => OneOpenLoan'
    <2> SUFFICES ASSUME Typed, OneOpenLoan, [Next]_vars,
                        NEW m \in LoanIds, NEW n \in LoanIds,
                        Open(m)', Open(n)', m # n
                 PROVE  loans'[m].book # loans'[n].book /\ loans'[m].user # loans'[n].user
      BY DEF OneOpenLoan, Open
    <2>1. CASE UNCHANGED loans
      BY <2>1 DEF OneOpenLoan, Open
    <2>2. ASSUME NEW l, NEW b, NEW u, Opens(l, b, u)
          PROVE  loans'[m].book # loans'[n].book /\ loans'[m].user # loans'[n].user
      <3>1. NewLoan(b, u).book = b /\ NewLoan(b, u).user = u
        BY DEF NewLoan
      <3>2. \A k \in LoanIds : Open(k) => loans[k].book # b /\ loans[k].user # u
        BY <2>2 DEF Opens, OpenOfBook, OpenOfUser
      <3> QED
        BY <2>2, <3>1, <3>2, OpenAfter DEF OneOpenLoan
    <2>3. ASSUME NEW l, NEW row, Moves(l, row)
          PROVE  loans'[m].book # loans'[n].book /\ loans'[m].user # loans'[n].user
      <3>1. row.book = loans[l].book /\ row.user = loans[l].user
        BY <2>3 DEF Moves, Follows, Keeps
      <3> QED
        BY <2>3, <3>1, OpenAfter DEF OneOpenLoan
    <2> QED
      BY <2>1, <2>2, <2>3, StepsEvolve DEF LoansEvolve
  <1> QED
    BY <1>1, <1>2, TypedInvariant, PTL DEF Spec

\* No statement trips a CHECK of table loans.
THEOREM RowsAllowed == Spec => []RowChecks
  <1>1. Init => RowChecks
    BY DEF Init, RowChecks, Issued
  <1>2. Typed /\ RowChecks /\ [Next]_vars => RowChecks'
    <2> SUFFICES ASSUME Typed, RowChecks, [Next]_vars,
                        NEW m \in LoanIds, loans'[m] # None
                 PROVE  RowAllowed(loans'[m])
      BY DEF RowChecks, Issued, RowAllowed, Flagged
    <2>1. CASE UNCHANGED loans
      BY <2>1 DEF RowChecks, Issued
    <2>2. ASSUME NEW l, NEW b, NEW u, Opens(l, b, u)
          PROVE  RowAllowed(loans'[m])
      <3>1. RowAllowed(NewLoan(b, u))
        BY LoansAssumption DEF RowAllowed, NewLoan
      <3> QED
        BY <2>2, <3>1, OpenAfter DEF RowChecks, Issued
    <2>3. ASSUME NEW l, NEW row, Moves(l, row)
          PROVE  RowAllowed(loans'[m])
      BY <2>3, OpenAfter DEF Moves, Follows, RowChecks, Issued
    <2> QED
      BY <2>1, <2>2, <2>3, StepsEvolve DEF LoansEvolve
  <1> QED
    BY <1>1, <1>2, TypedInvariant, PTL DEF Spec

\* Whatever step is taken, every row keeps what must be kept.
LEMMA RowsKept ==
  ASSUME Typed, [Next]_vars
  PROVE  \A l \in Issued : loans'[l] # None /\ Keeps(loans'[l], loans[l])
  <1> SUFFICES ASSUME NEW m \in Issued
               PROVE  loans'[m] # None /\ Keeps(loans'[m], loans[m])
    OBVIOUS
  <1>0. Keeps(loans[m], loans[m]) /\ m \in LoanIds /\ loans[m] # None
    BY DEF Keeps, Issued
  <1>1. CASE UNCHANGED loans
    BY <1>0, <1>1
  <1>2. ASSUME NEW l, NEW b, NEW u, Opens(l, b, u)
        PROVE  loans'[m] # None /\ Keeps(loans'[m], loans[m])
    BY <1>0, <1>2, OpenAfter DEF Opens
  <1>3. ASSUME NEW l, NEW row, Moves(l, row)
        PROVE  loans'[m] # None /\ Keeps(loans'[m], loans[m])
    BY <1>0, <1>3, OpenAfter, LoansAssumption DEF Moves, Follows
  <1> QED
    BY <1>1, <1>2, <1>3, StepsEvolve DEF LoansEvolve

\* History is never rewritten: each step leaves a row as it is or moves it on.
THEOREM HistoryKept == Spec => HistoryIsKept
  <1>1. Typed /\ [Next]_vars =>
          [\A l \in Issued : loans'[l] # None /\ Keeps(loans'[l], loans[l])]_vars
    BY RowsKept
  <1> QED
    BY <1>1, TypedInvariant, PTL DEF Spec, HistoryIsKept

\* No statement takes a book out of the catalogue that has a loan.
LEMMA LentBooksStay ==
  ASSUME Typed, [Next]_vars, NEW l \in Issued, Present(loans[l].book)
  PROVE  books'[loans[l].book].state = "present"
  <1> DEFINE b == loans[l].book
  <1>0. b \in Books /\ books[b].state = "present"
    BY DEF Present
  <1>a. ASSUME NEW c \in Books, NEW row, books' = [books EXCEPT ![c] = row],
               c = b => row.state = "present"
        PROVE  books'[b].state = "present"
    BY <1>0, <1>a DEF Typed, TypeOK
  <1>b. \A c \in Books : books[c] \in Book
    BY DEF Typed, TypeOK
  <1>1. CASE UNCHANGED books
    BY <1>0, <1>1
  <1>2. ASSUME NEW c \in Books, TeacherBookStep(c)
        PROVE  books'[b].state = "present"
    <2>1. CASE MarkAdminBookFound(c)
      <3>1. [books[c] EXCEPT !.isLost = FALSE].state = books[c].state
        BY <1>b DEF Book
      <3>2. books' = [books EXCEPT ![c] = [books[c] EXCEPT !.isLost = FALSE]]
        BY <2>1 DEF MarkAdminBookFound, Typed, TypeOK
      <3> QED
        BY <1>0, <1>a, <3>1, <3>2
    <2>2. ASSUME NEW active \in BOOLEAN, SetBookActive(c, active)
          PROVE  books'[b].state = "present"
      <3>1. [books[c] EXCEPT !.isActive = active].state = books[c].state
        BY <1>b DEF Book
      <3>2. books' = [books EXCEPT ![c] = [books[c] EXCEPT !.isActive = active]]
        BY <2>2 DEF SetBookActive, Typed, TypeOK
      <3> QED
        BY <1>0, <1>a, <3>1, <3>2
    <2>3. ASSUME NEW i \in Isbns \cup {None}, CreateBook(c, i)
          PROVE  books'[b].state = "present"
      BY <1>0, <2>3 DEF CreateBook, Typed, TypeOK
    <2>4. ASSUME NEW i \in Isbns \cup {None}, UpdateBook(c, i)
          PROVE  books'[b].state = "present"
      <3>1. [books[c] EXCEPT !.isbn = i].state = books[c].state
        BY <1>b DEF Book
      <3>2. books' = [books EXCEPT ![c] = [books[c] EXCEPT !.isbn = i]]
        BY <2>4 DEF UpdateBook, Typed, TypeOK
      <3> QED
        BY <1>0, <1>a, <3>1, <3>2
    <2>5. CASE DeleteBook(c)
      BY <1>0, <2>5 DEF DeleteBook, Typed, TypeOK
    <2> QED
      BY <1>2, <2>1, <2>2, <2>3, <2>4, <2>5 DEF TeacherBookStep
  <1>3. ASSUME NEW k \in LoanIds, MarkAdminLoanLost(k)
        PROVE  books'[b].state = "present"
    <2> DEFINE c == loans[k].book
    <2>1. c \in Books
      BY <1>3 DEF MarkAdminLoanLost, Open, Typed, TypeOK, Loan
    <2>2. [books[c] EXCEPT !.isLost = TRUE].state = books[c].state
      BY <1>b, <2>1 DEF Book
    <2>3. books' = [books EXCEPT ![c] = [books[c] EXCEPT !.isLost = TRUE]]
      BY <1>3, <2>1 DEF MarkAdminLoanLost, Typed, TypeOK
    <2> QED
      BY <1>0, <1>a, <2>1, <2>2, <2>3
  <1>4. ASSUME NEW r \in Requests, StudentStep(r)
        PROVE  UNCHANGED books
    BY <1>4 DEF StudentStep, BorrowFindBook, BorrowFindOpenLoan, BorrowInsert,
           BorrowBookTaken, BorrowUserBusy, BorrowLoadLimitBook, ShelfCheck,
           ReturnLoad, ReturnComplete, ReturnReload, ReasonSet, ReasonReload,
           ReasonCountClass, ReasonCountReader
  <1>5. ASSUME NEW k \in LoanIds, TeacherLoanStep(k), ~MarkAdminLoanLost(k)
        PROVE  UNCHANGED books
    BY <1>5 DEF TeacherLoanStep, ExtendAdminLoan, CompleteAdminReturn, ReviewAdminLoanScan
  <1>6. ASSUME \/ UNCHANGED vars
               \/ \E r \in Requests : Leave(r) \/ AdminLoanState(r)
               \/ \E r \in Requests, k \in LoanIds : AdminMiss(r, k)
        PROVE  UNCHANGED books
    BY <1>6 DEF vars, Leave, AdminMiss, AdminLoanState
  <1> QED
    BY <1>1, <1>2, <1>3, <1>4, <1>5, <1>6 DEF Next

\* Every loan's book stays in the catalogue, even when deleteBook races a borrow.
THEOREM BooksOfLoansStay == Spec => []LoansKeepTheirBook
  <1>1. Init => LoansKeepTheirBook
    BY DEF Init, LoansKeepTheirBook, Issued
  <1>2. Typed /\ LoansKeepTheirBook /\ [Next]_vars => LoansKeepTheirBook'
    <2> SUFFICES ASSUME Typed, LoansKeepTheirBook, [Next]_vars,
                        NEW m \in LoanIds, loans'[m] # None
                 PROVE  loans'[m].book \in Books /\ books'[loans'[m].book].state = "present"
      BY DEF LoansKeepTheirBook, Issued, Present
    <2>1. CASE m \in Issued
      <3>1. loans'[m].book = loans[m].book
        BY <2>1, RowsKept DEF Keeps
      <3>2. Present(loans[m].book)
        BY <2>1 DEF LoansKeepTheirBook
      <3> QED
        BY <2>1, <3>1, <3>2, LentBooksStay DEF Present
    <2>2. CASE m \notin Issued
      <3>1. PICK l, b, u : Opens(l, b, u)
        <4>1. ASSUME NEW l, NEW row
              PROVE  ~Moves(l, row)
          BY <2>2, OpenAfter DEF Moves, Issued
        <4>2. loans' # loans
          BY <2>2 DEF Issued
        <4> QED
          BY <4>1, <4>2, StepsEvolve DEF LoansEvolve
      <3>2. loans'[m] = NewLoan(b, u)
        BY <2>2, <3>1, OpenAfter DEF Issued
      <3> QED
        BY <3>1, <3>2 DEF Opens, NewLoan, Present
    <2> QED
      BY <2>1, <2>2
  <1> QED
    BY <1>1, <1>2, TypedInvariant, PTL DEF Spec

-----------------------------------------------------------------------------
(* Answers.  What a slot has seen of a row stays true, because rows only   *)
(* move on; so an answer is true if it was when it was given, and a        *)
(* statement may rely on what an earlier one of its request has read.      *)

\* What a request that is under way or has answered may rely on.
Told(q, rows) ==
    LET row == rows[q.loan]
        has == q.loan \in LoanIds /\ row # None
        counting == q.step \in {"count_class", "count_reader"}
        saved == \/ counting
                 \/ q.step = "reload_reason" /\ q.hit
                 \/ q.reply \in {"reason_saved", "celebrated"}
        over == \/ saved
                \/ q.step \in {"reload_return", "loan_state"}
                \/ q.reply \in {"returned", "already_returned", "loan_closed"}
    IN /\ q.step # "answered" => q.reply = None /\ ~q.firstBook
       /\ q.step \in {"complete_return", "reload_return"} => has /\ row.user = q.user
       /\ q.step = "load_limit_book" \/ q.reply = "loan_limit" =>
            has /\ row.user = q.user /\ row.book # q.book
       /\ q.reply \in {"borrowed", "already_yours"} =>
            has /\ row.user = q.user /\ row.book = q.book
       /\ over => has /\ row.returned
       /\ q.step = "reload_reason" => q.reason \in Reasons
       /\ saved => row.reason = q.reason /\ q.reason \in Reasons
       /\ counting \/ q.firstBook \/ q.reply = "celebrated" =>
            has /\ row.user = q.user /\ row.reason = "finished" /\ "finished" \in Reasons
       /\ q.reply \notin {"unreturned_ok", "500_reload", "500_limit_book"}

Truthful == \A r \in Requests : Told(req[r], loans)

LEMMA ToldStays ==
  ASSUME Typed, [Next]_vars, NEW q \in Request, Told(q, loans)
  PROVE  Told(q, loans')
  <1>1. q.loan \in LoanIds /\ loans[q.loan] # None =>
          /\ loans'[q.loan] # None
          /\ Keeps(loans'[q.loan], loans[q.loan])
    BY RowsKept DEF Issued
  <1>2. \A reason \in Reasons : reason # None
    BY LoansAssumption
  <1>3. CASE q.loan \in LoanIds /\ loans[q.loan] # None
    BY <1>1, <1>2, <1>3 DEF Told, Keeps
  <1>4. CASE ~(q.loan \in LoanIds /\ loans[q.loan] # None)
    BY <1>4 DEF Told
  <1> QED
    BY <1>3, <1>4

\* A refusal promises nothing about a row.
LEMMA RefusalTold ==
  ASSUME NEW reply \in Answers \ {"borrowed", "already_yours", "loan_limit", "returned",
                                  "already_returned", "reason_saved", "celebrated",
                                  "loan_closed", "unreturned_ok", "500_reload",
                                  "500_limit_book"},
         NEW rows
  PROVE  Told(Answer(Idle, reply), rows) /\ Told(Idle, rows)
  BY LoansAssumption DEF Told, Answer, Idle, Answers

\* One statement of a borrow leaves its slot truthful.
LEMMA BorrowTold ==
  ASSUME Typed, Truthful, LoansKeepTheirBook, NEW r \in Requests,
         \/ \E u \in Students, i \in Isbns : BorrowFindBook(r, u, i)
         \/ BorrowFindOpenLoan(r)
         \/ BorrowInsert(r)
         \/ BorrowBookTaken(r)
         \/ BorrowUserBusy(r)
         \/ BorrowLoadLimitBook(r)
  PROVE  \E q : Told(q, loans') /\ req' = [req EXCEPT ![r] = q]
  <1>a. req[r] \in Request /\ StepTyped(req[r], Issued) /\ Told(req[r], loans)
    BY DEF Typed, TypeOK, Truthful
  <1>b. \A reply \in {"book_not_found", "book_lost", "book_inactive",
                      "book_unavailable", "500_deleted_book", "500_conflict_gone"} :
           Refuse(r, reply) => \E q : Told(q, loans') /\ req' = [req EXCEPT ![r] = q]
    BY RefusalTold DEF Refuse, Answers
  <1>c. ASSUME NEW l \in LoanIds, loans[l] # None, loans[l].user = req[r].user,
               UNCHANGED loans, req[r].step # "answered", AnswerOpenLoan(r, l)
        PROVE  \E q : Told(q, loans') /\ req' = [req EXCEPT ![r] = q]
    <2> DEFINE p == [req[r] EXCEPT !.loan = l]
    <2>0. p \in Request /\ p.reply = None /\ ~p.firstBook /\ p.loan = l
           /\ p.user = req[r].user /\ p.book = req[r].book
      BY <1>a, <1>c DEF Request, Told
    <2>1. loans[l].book = req[r].book => Told(Answer(p, "already_yours"), loans)
      BY <1>c, <2>0 DEF Answer, Told, Request
    <2>2. loans[l].book # req[r].book => Told([p EXCEPT !.step = "load_limit_book"], loans)
      BY <1>c, <2>0, LoansAssumption DEF Told, Request, Answers
    <2> QED
      BY <1>c, <2>1, <2>2 DEF AnswerOpenLoan, Reply, Go
  <1>1. ASSUME NEW u \in Students, NEW i \in Isbns, BorrowFindBook(r, u, i)
        PROVE  \E q : Told(q, loans') /\ req' = [req EXCEPT ![r] = q]
    <2>1. \A b \in Books : Told([[[Idle EXCEPT !.user = u] EXCEPT !.book = b]
                                   EXCEPT !.step = "find_open_loan"], loans)
      BY LoansAssumption DEF Idle, Told, Answers
    <2> QED
      BY <1>1, <1>b, <2>1 DEF BorrowFindBook, Go
  <1>2. CASE BorrowFindOpenLoan(r)
    <2>1. Told([req[r] EXCEPT !.step = "insert"], loans)
      BY <1>2, <1>a, LoansAssumption DEF BorrowFindOpenLoan, At, Told, Request, Answers
    <2> QED
      BY <1>2, <1>a, <1>c, <2>1 DEF BorrowFindOpenLoan, At, Go, OpenOfUser, Open
  <1>3. CASE BorrowInsert(r)
    <2> DEFINE b == req[r].book
               u == req[r].user
    <2>0. u \in Students /\ b \in Books
      BY <1>3, <1>a DEF BorrowInsert, At, StepTyped
    <2>1. ASSUME NEW l \in LoanIds \ Issued,
                 loans' = [loans EXCEPT ![l] = NewLoan(b, u)],
                 Reply(r, [req[r] EXCEPT !.loan = l], "borrowed")
          PROVE  \E q : Told(q, loans') /\ req' = [req EXCEPT ![r] = q]
      <3> DEFINE p == [req[r] EXCEPT !.loan = l]
      <3>1. loans'[l] = NewLoan(b, u) /\ NewLoan(b, u).book = b /\ NewLoan(b, u).user = u
        BY <2>1 DEF NewLoan, Typed, TypeOK
      <3>2. NewLoan(b, u) # None
        BY <2>0, RowsTyped, LoansAssumption
      <3>3. p \in Request /\ ~p.firstBook /\ p.loan = l /\ p.user = u /\ p.book = b
        BY <1>3, <1>a DEF Request, Told, BorrowInsert, At
      <3>4. Told(Answer(p, "borrowed"), loans')
        BY <3>1, <3>2, <3>3 DEF Answer, Told, Request
      <3> QED
        BY <2>1, <3>4 DEF Reply
    <2>2. \A step \in {"find_loan_of_book", "find_loan_of_user"} :
             Told([req[r] EXCEPT !.step = step], loans)
      BY <1>3, <1>a, LoansAssumption DEF BorrowInsert, At, Told, Request, Answers
    <2>3. CASE /\ UNCHANGED loans
               /\ \/ Go(r, req[r], "find_loan_of_book")
                  \/ Go(r, req[r], "find_loan_of_user")
      BY <2>2, <2>3 DEF Go
    <2> QED
      BY <1>3, <1>b, <2>1, <2>3 DEF BorrowInsert
  <1>4. CASE BorrowBookTaken(r)
    <2>1. ASSUME NEW l \in OpenOfBook(req[r].book), loans[l].user = req[r].user,
                 Reply(r, [req[r] EXCEPT !.loan = l], "already_yours")
          PROVE  \E q : Told(q, loans') /\ req' = [req EXCEPT ![r] = q]
      <3>1. l \in LoanIds /\ loans[l] # None /\ loans[l].book = req[r].book
        BY DEF OpenOfBook, Open
      <3>2. UNCHANGED loans /\ req[r].step # "answered"
        BY <1>4 DEF BorrowBookTaken, At
      <3> QED
        BY <1>c, <2>1, <3>1, <3>2 DEF AnswerOpenLoan
    <2> QED
      BY <1>4, <1>b, <2>1 DEF BorrowBookTaken
  <1>5. CASE BorrowUserBusy(r)
    BY <1>5, <1>b, <1>c DEF BorrowUserBusy, At, OpenOfUser, Open
  <1>6. CASE BorrowLoadLimitBook(r)
    <2>1. Present(loans[req[r].loan].book)
      BY <1>6, <1>a DEF BorrowLoadLimitBook, At, Told, LoansKeepTheirBook, Issued
    <2>2. Told(Answer(req[r], "loan_limit"), loans)
      BY <1>6, <1>a DEF BorrowLoadLimitBook, At, Told, Answer, Request
    <2> QED
      BY <1>6, <2>1, <2>2 DEF BorrowLoadLimitBook, Reply
  <1> QED
    BY <1>1, <1>2, <1>3, <1>4, <1>5, <1>6

\* One statement of a shelf check, a return or a reason leaves its slot truthful.
LEMMA CloseTold ==
  ASSUME Typed, Truthful, NEW r \in Requests,
         \/ \E u \in Students, l \in LoanIds, s \in ShelfEvidence : ShelfCheck(r, u, l, s)
         \/ \E u \in Students, l \in LoanIds, s \in ShelfEvidence, ev \in BookEvidence :
              ReturnLoad(r, u, l, s, ev)
         \/ ReturnComplete(r)
         \/ ReturnReload(r)
         \/ \E u \in Students, l \in LoanIds, reason \in Reasons : ReasonSet(r, u, l, reason)
         \/ ReasonReload(r)
         \/ ReasonCountClass(r)
         \/ ReasonCountReader(r)
  PROVE  \E q : Told(q, loans') /\ req' = [req EXCEPT ![r] = q]
  <1>a. req[r] \in Request /\ StepTyped(req[r], Issued) /\ Told(req[r], loans)
    BY DEF Typed, TypeOK, Truthful
  <1>b. \A reply \in {"not_found", "invalid_shelf_code", "shelf_ok", "wrong_book",
                      "loan_not_returned"} :
           Refuse(r, reply) => \E q : Told(q, loans') /\ req' = [req EXCEPT ![r] = q]
    BY RefusalTold DEF Refuse, Answers
  <1>1. ASSUME NEW u \in Students, NEW l \in LoanIds, NEW s \in ShelfEvidence,
               ShelfCheck(r, u, l, s)
        PROVE  \E q : Told(q, loans') /\ req' = [req EXCEPT ![r] = q]
    <2> DEFINE q == [Idle EXCEPT !.user = u, !.loan = l]
    <2>1. loans[l] # None /\ loans[l].returned => Told(Answer(q, "already_returned"), loans)
      BY DEF Idle, Answer, Told
    <2> QED
      BY <1>1, <1>b, <2>1 DEF ShelfCheck, Reply, Owned, Issued
  <1>2. ASSUME NEW u \in Students, NEW l \in LoanIds, NEW s \in ShelfEvidence,
               NEW ev \in BookEvidence, ReturnLoad(r, u, l, s, ev)
        PROVE  \E q : Told(q, loans') /\ req' = [req EXCEPT ![r] = q]
    <2> DEFINE q == [Idle EXCEPT !.user = u, !.loan = l]
               p == [q EXCEPT !.shelfOk = (s = "scan"), !.bookOk = (ev.method = "scan")]
    <2>1. Owned(l, u) /\ loans[l].returned => Told(Answer(q, "returned"), loans)
      BY DEF Idle, Answer, Told, Owned, Issued
    <2>2. Owned(l, u) => Told([p EXCEPT !.step = "complete_return"], loans)
      BY LoansAssumption DEF Idle, Told, Owned, Issued, Answers
    <2> QED
      BY <1>2, <1>b, <2>1, <2>2 DEF ReturnLoad, Reply, Go
  <1>3. CASE ReturnComplete(r)
    <2> DEFINE l == req[r].loan
               row == [loans[l] EXCEPT !.returned = TRUE,
                                       !.shelfOk = req[r].shelfOk,
                                       !.bookOk = req[r].bookOk]
    <2>0. /\ l \in LoanIds /\ loans[l] # None /\ loans[l].user = req[r].user
          /\ loans[l] \in Loan /\ ~req[r].firstBook
      BY <1>3, <1>a DEF ReturnComplete, At, Told, Typed, TypeOK
    <2>1. ASSUME loans' = [loans EXCEPT ![l].returned = TRUE,
                                        ![l].shelfOk = req[r].shelfOk,
                                        ![l].bookOk = req[r].bookOk],
                 Reply(r, req[r], "returned")
          PROVE  \E q : Told(q, loans') /\ req' = [req EXCEPT ![r] = q]
      <3>1. loans'[l] = row
        BY <2>0, <2>1 DEF Typed, TypeOK
      <3>2. row.returned /\ row \in Loan
        BY <1>a, <2>0 DEF Loan, Request
      <3>3. Told(Answer(req[r], "returned"), loans')
        BY <1>a, <2>0, <3>1, <3>2, LoansAssumption DEF Told, Answer, Request
      <3> QED
        BY <2>1, <3>3 DEF Reply
    <2>2. ASSUME ~(Owned(l, req[r].user) /\ Open(l)), UNCHANGED loans,
                 Go(r, req[r], "reload_return")
          PROVE  \E q : Told(q, loans') /\ req' = [req EXCEPT ![r] = q]
      <3>1. loans[l].returned
        BY <2>0, <2>2 DEF Owned, Issued, Open
      <3>2. Told([req[r] EXCEPT !.step = "reload_return"], loans)
        BY <1>3, <1>a, <2>0, <3>1 DEF ReturnComplete, At, Told, Request
      <3> QED
        BY <2>2, <3>2 DEF Go
    <2> QED
      BY <1>3, <2>1, <2>2 DEF ReturnComplete
  <1>4. CASE ReturnReload(r)
    <2>1. Owned(req[r].loan, req[r].user) /\ loans[req[r].loan].returned
      BY <1>4, <1>a DEF ReturnReload, At, Told, Owned, Issued
    <2>2. Told(Answer(req[r], "returned"), loans)
      BY <1>4, <1>a, <2>1 DEF ReturnReload, At, Told, Answer, Request, Owned, Issued
    <2> QED
      BY <1>4, <2>1, <2>2 DEF ReturnReload, Reply
  <1>5. ASSUME NEW u \in Students, NEW l \in LoanIds, NEW reason \in Reasons,
               ReasonSet(r, u, l, reason)
        PROVE  \E q : Told(q, loans') /\ req' = [req EXCEPT ![r] = q]
    <2> DEFINE matches == Owned(l, u) /\ loans[l].returned /\ loans[l].reason = None
               row == [loans[l] EXCEPT !.reason = reason]
               q == [Idle EXCEPT !.user = u, !.loan = l, !.reason = reason, !.hit = matches]
               p == [q EXCEPT !.step = "reload_reason"]
    <2>0. l \in LoanIds /\ loans[l] # None /\ loans[l] \in Loan
      BY <1>5 DEF ReasonSet, Issued, Typed, TypeOK
    <2>1. matches => loans'[l] = row
      BY <1>5, <2>0 DEF ReasonSet, Typed, TypeOK
    <2>2. loans[l].returned => row.returned /\ row # None /\ row.reason = reason
      BY <2>0, LoansAssumption DEF Loan
    <2>3. /\ p.step = "reload_reason" /\ p.reply = None /\ ~p.firstBook
          /\ p.loan = l /\ p.reason = reason /\ p.hit = matches
      BY DEF Idle
    <2>4. Told(p, loans')
      <3> HIDE DEF p, row
      <3> QED
        BY <2>0, <2>1, <2>2, <2>3, LoansAssumption DEF Told, Answers
    <2> QED
      BY <1>5, <2>4 DEF ReasonSet, Go
  <1>6. CASE ReasonReload(r)
    <2> DEFINE l == req[r].loan
               u == req[r].user
    <2>1. ASSUME Owned(l, u), loans[l].returned, UNCHANGED loans,
                 ~(~req[r].hit /\ loans[l].reason # req[r].reason)
          PROVE  /\ Told(Answer(req[r], "reason_saved"), loans')
                 /\ req[r].reason = "finished" =>
                      Told([req[r] EXCEPT !.step = "count_class"], loans')
      <3>1. /\ l \in LoanIds /\ loans[l] # None /\ loans[l].user = u
            /\ req[r].reason \in Reasons /\ loans[l].reason = req[r].reason
            /\ ~req[r].firstBook /\ req[r].reply = None
        BY <1>6, <1>a, <2>1 DEF ReasonReload, At, Told, Owned, Issued
      <3>2. Told(Answer(req[r], "reason_saved"), loans)
        BY <1>a, <2>1, <3>1 DEF Told, Answer, Request
      <3>3. req[r].reason = "finished" =>
              Told([req[r] EXCEPT !.step = "count_class"], loans)
        BY <1>a, <2>1, <3>1, LoansAssumption DEF Told, Request, Answers
      <3> QED
        BY <2>1, <3>2, <3>3
    <2>2. Told(Answer(req[r], "return_reason_set"), loans)
      BY <1>6, <1>a DEF ReasonReload, At, Told, Answer, Request
    <2> QED
      BY <1>6, <1>b, <2>1, <2>2 DEF ReasonReload, Reply, Go
  <1>7. CASE ReasonCountClass(r)
    <2>1. Told([[req[r] EXCEPT !.classCount = Cardinality(Finished)]
                  EXCEPT !.step = "count_reader"], loans)
      BY <1>7, <1>a DEF ReasonCountClass, At, Told, Request
    <2> QED
      BY <1>7, <2>1 DEF ReasonCountClass, Go
  <1>8. CASE ReasonCountReader(r)
    <2> DEFINE first == Cardinality(FinishedBy(req[r].user)) = 1
    <2>1. Told(Answer([req[r] EXCEPT !.firstBook = first], "celebrated"), loans)
      <3> HIDE DEF first
      <3> QED
        BY <1>8, <1>a DEF ReasonCountReader, At, Told, Answer, Request
    <2> QED
      BY <1>8, <2>1 DEF ReasonCountReader, Reply
  <1> QED
    BY <1>1, <1>2, <1>3, <1>4, <1>5, <1>6, <1>7, <1>8

\* Every answer is true, and every request relies on true facts only.
LEMMA TruthfulInvariant == Spec => []Truthful
  <1>1. Init => Truthful
    BY LoansAssumption DEF Init, Truthful, Told, Idle, Answers
  <1>2. Typed /\ LoansKeepTheirBook /\ Truthful /\ [Next]_vars => Truthful'
    <2> SUFFICES ASSUME Typed, LoansKeepTheirBook, Truthful, [Next]_vars
                 PROVE  Truthful'
      OBVIOUS
    <2>1. \A s \in Requests : req[s] \in Request /\ Told(req[s], loans')
      BY ToldStays DEF Truthful, Typed, TypeOK
    <2>2. CASE UNCHANGED req
      BY <2>1, <2>2 DEF Truthful
    <2>3. ASSUME NEW r \in Requests,
                 \E q : Told(q, loans') /\ req' = [req EXCEPT ![r] = q]
          PROVE  Truthful'
      <3>1. PICK q : Told(q, loans') /\ req' = [req EXCEPT ![r] = q]
        BY <2>3
      <3>2. \A s \in Requests : req'[s] = IF s = r THEN q ELSE req[s]
        BY <3>1 DEF Typed, TypeOK
      <3> QED
        BY <2>1, <3>1, <3>2 DEF Truthful
    <2>4. ASSUME NEW r \in Requests, StudentStep(r)
          PROVE  Truthful'
      BY <2>3, <2>4, BorrowTold, CloseTold DEF StudentStep
    <2>5. ASSUME NEW r \in Requests, Leave(r)
          PROVE  Truthful'
      <3>1. Told(Idle, loans')
        BY LoansAssumption DEF Told, Idle, Answers
      <3> QED
        BY <2>3, <2>5, <3>1 DEF Leave
    <2>6. ASSUME NEW r \in Requests, NEW l \in LoanIds, AdminMiss(r, l)
          PROVE  Truthful'
      <3>1. Told([[Idle EXCEPT !.loan = l] EXCEPT !.step = "loan_state"], loans')
        BY <2>6, LoansAssumption DEF AdminMiss, Issued, Open, Told, Idle, Answers
      <3> QED
        BY <2>3, <2>6, <3>1 DEF AdminMiss, Go
    <2>7. ASSUME NEW r \in Requests, AdminLoanState(r)
          PROVE  Truthful'
      <3>1. Told(req[r], loans) /\ req[r] \in Request /\ req[r].step = "loan_state"
        BY <2>7 DEF AdminLoanState, At, Truthful, Typed, TypeOK
      <3>2. req[r].loan \in Issued
        BY <3>1 DEF Told, Issued
      <3>3. Told(Answer(req[r], "loan_closed"), loans')
        BY <2>7, <3>1 DEF AdminLoanState, Told, Answer, Request
      <3> QED
        BY <2>3, <2>7, <3>2, <3>3 DEF AdminLoanState, Reply
    <2>8. ASSUME \/ UNCHANGED vars
                 \/ \E l \in LoanIds : TeacherLoanStep(l)
                 \/ \E b \in Books : TeacherBookStep(b)
          PROVE  Truthful'
      BY <2>2, <2>8 DEF vars, TeacherLoanStep, ExtendAdminLoan, CompleteAdminReturn,
           MarkAdminLoanLost, ReviewAdminLoanScan, TeacherBookStep,
           MarkAdminBookFound, SetBookActive, CreateBook, UpdateBook, DeleteBook
    <2> QED
      BY <2>4, <2>5, <2>6, <2>7, <2>8 DEF Next
  <1> QED
    BY <1>1, <1>2, TypedInvariant, BooksOfLoansStay, PTL DEF Spec

\* An answered borrow names the asker's own loan of the book scanned.
THEOREM BorrowsAnsweredTruly == Spec => []BorrowAnswersTrue
  <1>1. Truthful => BorrowAnswersTrue
    BY DEF Truthful, Told, BorrowAnswersTrue, Owned, Issued
  <1> QED
    BY <1>1, TruthfulInvariant, PTL

\* Whoever is told that a loan is over, or that a reason is saved, can rely on it.
THEOREM ClosesAnsweredTruly == Spec => []CloseAnswersTrue
  <1>1. Truthful => CloseAnswersTrue
    BY DEF Truthful, Told, CloseAnswersTrue, Issued
  <1> QED
    BY <1>1, TruthfulInvariant, PTL

\* The branches for states the handlers do not expect are dead code.
THEOREM UnexpectedNeverHappens == Spec => []NoUnexpectedBranch
  <1>1. Truthful => NoUnexpectedBranch
    BY DEF Truthful, Told, NoUnexpectedBranch
  <1> QED
    BY <1>1, TruthfulInvariant, PTL

-----------------------------------------------------------------------------
(* The celebration.  The counts are read after the reason is stored, so    *)
(* they include it; and a set of finished loans only grows.                *)

LEMMA FinishedSets ==
  /\ IsFiniteSet(Finished)
  /\ \A u : FinishedBy(u) \subseteq Finished /\ IsFiniteSet(FinishedBy(u))
  BY LoansAssumption, FS_Subset DEF Finished, FinishedBy, Issued

LEMMA FinishedGrows ==
  ASSUME Typed, [Next]_vars, "finished" \in Reasons
  PROVE  /\ Finished \subseteq Finished'
         /\ Cardinality(Finished) \in Nat /\ Cardinality(Finished') \in Nat
         /\ Cardinality(Finished) <= Cardinality(Finished')
  <1>1. Finished \subseteq Finished'
    BY RowsKept, LoansAssumption DEF Finished, Issued, Keeps
  <1>2. IsFiniteSet(Finished) /\ IsFiniteSet(Finished')
    BY LoansAssumption, FS_Subset DEF Finished, Issued
  <1> QED
    BY <1>1, <1>2, FS_Subset, FS_CardinalityType

\* The only statements that leave counts or a first book in a slot are the two
\* that count; every other leaves the slot as it was or blank.
LEMMA CountsStay ==
  ASSUME Typed, Truthful, [Next]_vars, NEW s \in Requests
  PROVE  \/ ReasonCountClass(s) \/ ReasonCountReader(s)
         \/ req'[s] = req[s]
         \/ ~req'[s].firstBook /\ req'[s].step # "count_reader"
              /\ req'[s].reply # "celebrated"
  <1> DEFINE Blank(q) == ~q.firstBook /\ q.step # "count_reader" /\ q.reply # "celebrated"
  <1>1. \A r \in Requests : req[r] \in Request /\ (req[r].step # "answered" => ~req[r].firstBook)
                              /\ (req[r].step # "answered" => req[r].reply = None)
    BY DEF Typed, TypeOK, Truthful, Told
  <1>2. None # "celebrated"
    BY LoansAssumption DEF Answers
  <1>3. ASSUME NEW r \in Requests, \E q : Blank(q) /\ req' = [req EXCEPT ![r] = q]
        PROVE  req'[s] = req[s] \/ Blank(req'[s])
    BY <1>3 DEF Typed, TypeOK
  <1>4. ASSUME NEW r \in Requests, StudentStep(r)
        PROVE  \/ ReasonCountClass(r) \/ ReasonCountReader(r)
               \/ \E q : Blank(q) /\ req' = [req EXCEPT ![r] = q]
    <2>1. ASSUME NEW q \in Request, NEW reply \in Answers \ {"celebrated"}, ~q.firstBook
          PROVE  Blank(Answer(q, reply))
      BY <2>1 DEF Answer, Request
    <2>2. ASSUME NEW q \in Request, NEW step \in Steps \ {"count_reader"}, ~q.firstBook,
                 q.reply = None
          PROVE  Blank([q EXCEPT !.step = step])
      BY <2>2, <1>2 DEF Request
    <2>3. \A reply \in Answers \ {"celebrated"} : Blank(Answer(Idle, reply))
      BY <1>2 DEF Answer, Idle
    <2> HIDE DEF Blank
    <2> DEFINE Goal == \E q : Blank(q) /\ req' = [req EXCEPT ![r] = q]
    <2>4. \A reply \in Answers \ {"celebrated"} : Refuse(r, reply) => Goal
      BY <2>3 DEF Refuse
    <2>5. \A q \in Request, reply \in Answers \ {"celebrated"} :
             ~q.firstBook /\ Reply(r, q, reply) => Goal
      BY <2>1 DEF Reply
    <2>6. \A q \in Request, step \in Steps \ {"count_reader"} :
             ~q.firstBook /\ q.reply = None /\ Go(r, q, step) => Goal
      BY <2>2 DEF Go
    <2>7. req[r] \in Request
           /\ \A l \in LoanIds : [req[r] EXCEPT !.loan = l] \in Request
                 /\ [req[r] EXCEPT !.loan = l].firstBook = req[r].firstBook
                 /\ [req[r] EXCEPT !.loan = l].reply = req[r].reply
      BY <1>1 DEF Request
    <2>8. \A u \in Students :
             /\ \A b \in Books : LET q == [[Idle EXCEPT !.user = u] EXCEPT !.book = b]
                                 IN q \in Request /\ ~q.firstBook /\ q.reply = None
             /\ \A l \in LoanIds : LET q == [Idle EXCEPT !.user = u, !.loan = l]
                                   IN q \in Request /\ ~q.firstBook /\ q.reply = None
      BY IdleTyped DEF SlotOK, Idle, Request
    <2>9. ASSUME NEW l \in LoanIds, ~At(r, "answered"), AnswerOpenLoan(r, l)
          PROVE  Goal
      BY <2>5, <2>6, <2>7, <2>9, <1>1 DEF AnswerOpenLoan, At, Answers, Steps
    <2>10. ASSUME \/ \E u \in Students, i \in Isbns : BorrowFindBook(r, u, i)
                  \/ BorrowFindOpenLoan(r)
                  \/ BorrowUserBusy(r)
           PROVE  Goal
      BY <2>4, <2>6, <2>7, <2>8, <2>9, <2>10, <1>1
         DEF BorrowFindBook, BorrowFindOpenLoan, BorrowUserBusy, OpenOfUser, At, Answers, Steps
    <2>11. ASSUME BorrowInsert(r) \/ BorrowBookTaken(r) \/ BorrowLoadLimitBook(r)
           PROVE  Goal
      BY <2>4, <2>5, <2>6, <2>7, <2>11, <1>1
         DEF BorrowInsert, BorrowBookTaken, BorrowLoadLimitBook, OpenOfBook, At, Answers, Steps
    <2>12. ASSUME NEW u \in Students, NEW l \in LoanIds, NEW sh \in ShelfEvidence,
                  ShelfCheck(r, u, l, sh)
           PROVE  Goal
      BY <2>4, <2>5, <2>8, <2>12 DEF ShelfCheck, Answers
    <2>13. ASSUME NEW u \in Students, NEW l \in LoanIds, NEW sh \in ShelfEvidence,
                  NEW ev \in BookEvidence, ReturnLoad(r, u, l, sh, ev)
           PROVE  Goal
      <3> DEFINE q == [Idle EXCEPT !.user = u, !.loan = l]
                 p == [q EXCEPT !.shelfOk = (sh = "scan"), !.bookOk = (ev.method = "scan")]
      <3>1. p \in Request /\ ~p.firstBook /\ p.reply = None
        <4>1. q \in Request /\ ~q.firstBook /\ q.reply = None
          BY <2>8
        <4> HIDE DEF q
        <4> QED
          BY <4>1 DEF Request
      <3> QED
        BY <2>4, <2>5, <2>6, <2>8, <2>13, <3>1 DEF ReturnLoad, Answers, Steps
    <2>14. ASSUME ReturnComplete(r) \/ ReturnReload(r) \/ ReasonReload(r)
           PROVE  Goal
      BY <2>4, <2>5, <2>6, <2>7, <2>14, <1>1
         DEF ReturnComplete, ReturnReload, ReasonReload, At, Answers, Steps
    <2>15. ASSUME NEW u \in Students, NEW l \in LoanIds, NEW reason \in Reasons,
                  ReasonSet(r, u, l, reason)
           PROVE  Goal
      <3> DEFINE matches == Owned(l, u) /\ loans[l].returned /\ loans[l].reason = None
                 q == [Idle EXCEPT !.user = u, !.loan = l, !.reason = reason,
                                   !.hit = matches]
      <3>1. q \in Request /\ ~q.firstBook /\ q.reply = None
        <4> DEFINE p == [Idle EXCEPT !.user = u, !.loan = l]
        <4>1. matches \in BOOLEAN
          OBVIOUS
        <4>2. p \in Request /\ ~p.firstBook /\ p.reply = None
          BY <2>8
        <4>3. q = [p EXCEPT !.reason = reason, !.hit = matches]
          OBVIOUS
        <4> HIDE DEF matches, p, q
        <4>4. [p EXCEPT !.reason = reason, !.hit = matches] \in Request
          BY <4>1, <4>2 DEF Request
        <4> QED
          BY <4>2, <4>3, <4>4 DEF Request
      <3>2. Go(r, q, "reload_reason")
        BY <2>15 DEF ReasonSet
      <3> QED
        BY <2>6, <3>1, <3>2 DEF Steps
    <2> QED
      BY <1>4, <2>10, <2>11, <2>12, <2>13, <2>14, <2>15 DEF StudentStep
  <1>5. ASSUME NEW r \in Requests,
               \/ Leave(r) \/ AdminLoanState(r)
               \/ \E l \in LoanIds : AdminMiss(r, l)
        PROVE  \E q : Blank(q) /\ req' = [req EXCEPT ![r] = q]
    <2>1. Blank(Idle) /\ \A l \in LoanIds : Blank([[Idle EXCEPT !.loan = l]
                                                     EXCEPT !.step = "loan_state"])
      BY <1>2 DEF Idle
    <2>2. ASSUME AdminLoanState(r)
          PROVE  \E reply \in {"loan_closed", "not_found"} :
                   Blank(Answer(req[r], reply)) /\ req' = [req EXCEPT ![r] = Answer(req[r], reply)]
      BY <2>2, <1>1 DEF AdminLoanState, At, Reply, Answer, Request
    <2> HIDE DEF Blank
    <2> QED
      BY <1>5, <2>1, <2>2 DEF Leave, AdminMiss, Go
  <1>6. CASE \/ UNCHANGED vars
             \/ \E l \in LoanIds : TeacherLoanStep(l)
             \/ \E b \in Books : TeacherBookStep(b)
    BY <1>6 DEF vars, TeacherLoanStep, ExtendAdminLoan, CompleteAdminReturn,
         MarkAdminLoanLost, ReviewAdminLoanScan, TeacherBookStep,
         MarkAdminBookFound, SetBookActive, CreateBook, UpdateBook, DeleteBook
  <1>7. ASSUME NEW r \in Requests, r # s, ReasonCountClass(r) \/ ReasonCountReader(r)
        PROVE  req'[s] = req[s]
    BY <1>7 DEF ReasonCountClass, ReasonCountReader, Go, Reply, Typed, TypeOK
  <1> QED
    BY <1>3, <1>4, <1>5, <1>6, <1>7 DEF Next

\* What a counted request relies on: its counts are not ahead of the class.
Counted ==
    \A r \in Requests :
        req[r].step = "count_reader" \/ req[r].reply = "celebrated" =>
            req[r].classCount \in 1 .. Cardinality(Finished)

\* A celebration counts at least the reader's own book, and no book that the
\* class has not finished.
THEOREM CelebrationsCount == Spec => []CelebrationCounts
  <1>1. Init => Counted
    BY LoansAssumption DEF Init, Counted, Idle, Answers
  <1>2. Typed /\ Truthful /\ Counted /\ [Next]_vars => Counted'
    <2> SUFFICES ASSUME Typed, Truthful, Counted, [Next]_vars, NEW s \in Requests,
                        req'[s].step = "count_reader" \/ req'[s].reply = "celebrated"
                 PROVE  req'[s].classCount \in 1 .. Cardinality(Finished')
      BY DEF Counted
    <2>0. req[s] \in Request /\ Told(req[s], loans)
      BY DEF Typed, TypeOK, Truthful
    <2>1. CASE ReasonCountClass(s)
      <3>1. req[s].loan \in Finished /\ "finished" \in Reasons
        BY <2>0, <2>1 DEF ReasonCountClass, At, Told, Finished, Issued
      <3>2. Cardinality(Finished) >= 1
        <4>1. Cardinality(Finished) # 0
          BY <3>1, FinishedSets, FS_EmptySet
        <4> QED
          BY <4>1, <3>1, FinishedGrows
      <3>3. req'[s].classCount = Cardinality(Finished)
        BY <2>0, <2>1 DEF ReasonCountClass, Go, Request, Typed, TypeOK
      <3> QED
        BY <3>1, <3>2, <3>3, FinishedGrows
    <2>2. CASE ReasonCountReader(s)
      <3>1. "finished" \in Reasons /\ req[s].classCount \in 1 .. Cardinality(Finished)
        BY <2>0, <2>2 DEF ReasonCountReader, At, Told, Counted
      <3>2. req'[s].classCount = req[s].classCount
        BY <2>0, <2>2 DEF ReasonCountReader, Reply, Answer, Request, Typed, TypeOK
      <3> QED
        BY <3>1, <3>2, FinishedGrows
    <2>3. CASE req'[s] = req[s]
      <3>1. "finished" \in Reasons /\ req[s].classCount \in 1 .. Cardinality(Finished)
        BY <2>0, <2>3 DEF Told, Counted
      <3> QED
        BY <2>3, <3>1, FinishedGrows
    <2> QED
      BY <2>1, <2>2, <2>3, CountsStay
  <1>3. Counted => CelebrationCounts
    BY DEF Counted, CelebrationCounts
  <1> QED
    BY <1>1, <1>2, <1>3, TypedInvariant, TruthfulInvariant, PTL DEF Spec

\* "Your first book" is said about one loan of a student only.
THEOREM FirstBookSaidOnce == Spec => []FirstBookOnce
  <1>1. Init => FirstBookOnce
    BY DEF Init, FirstBookOnce, Idle
  <1>2. Typed /\ Truthful /\ FirstBookOnce /\ [Next]_vars => FirstBookOnce'
    <2> SUFFICES ASSUME Typed, Truthful, FirstBookOnce, [Next]_vars,
                        NEW r \in Requests, NEW s \in Requests,
                        req'[r].firstBook, req'[s].firstBook,
                        req'[r].user = req'[s].user
                 PROVE  req'[r].loan = req'[s].loan
      BY DEF FirstBookOnce
    <2>0. \A t \in Requests : req[t] \in Request /\ Told(req[t], loans)
      BY DEF Typed, TypeOK, Truthful
    <2>1. ASSUME NEW t \in Requests, ReasonCountClass(t)
          PROVE  ~req'[t].firstBook
      BY <2>0, <2>1 DEF ReasonCountClass, At, Go, Told, Request, Typed, TypeOK
    <2>2. ASSUME NEW t \in Requests, ReasonCountReader(t), req'[t].firstBook
          PROVE  /\ \A v \in Requests : v # t => req'[v] = req[v]
                 /\ req'[t].loan \in FinishedBy(req'[t].user)
                 /\ Cardinality(FinishedBy(req'[t].user)) = 1
      <3> DEFINE first == Cardinality(FinishedBy(req[t].user)) = 1
                 q == Answer([req[t] EXCEPT !.firstBook = first], "celebrated")
      <3>1. req'[t] = q /\ \A v \in Requests : v # t => req'[v] = req[v]
        BY <2>2 DEF ReasonCountReader, Reply, Typed, TypeOK
      <3>2. q.user = req[t].user /\ q.loan = req[t].loan /\ q.firstBook = first
        <4> HIDE DEF first
        <4> QED
          BY <2>0 DEF Answer, Request
      <3>3. req[t].loan \in FinishedBy(req[t].user)
        BY <2>0, <2>2 DEF ReasonCountReader, At, Told, FinishedBy, Finished, Issued
      <3> QED
        BY <2>2, <3>1, <3>2, <3>3
    <2>3. \A t \in Requests : req'[t] = req[t] /\ req'[t].firstBook =>
             req'[t].loan \in FinishedBy(req'[t].user)
      BY <2>0 DEF Told, FinishedBy, Finished, Issued
    <2>4. \A x, y, v : x \in FinishedBy(v) /\ y \in FinishedBy(v)
                         /\ Cardinality(FinishedBy(v)) = 1 => x = y
      BY FinishedSets, FS_Singleton
    <2>5. CASE req'[r] = req[r] /\ req'[s] = req[s]
      BY <2>5 DEF FirstBookOnce
    <2>6. CASE r # s /\ ReasonCountReader(r)
      BY <2>2, <2>3, <2>4, <2>6
    <2>7. CASE r # s /\ ReasonCountReader(s)
      BY <2>2, <2>3, <2>4, <2>7
    <2>8. CASE r = s
      BY <2>8
    <2> QED
      BY <2>1, <2>5, <2>6, <2>7, <2>8, CountsStay
  <1> QED
    BY <1>1, <1>2, TypedInvariant, TruthfulInvariant, PTL DEF Spec

-----------------------------------------------------------------------------
(* Who closes a loan.                                                      *)

LEMMA ClosersOf ==
  ASSUME Typed, [Next]_vars, NEW l \in LoanIds, Open(l), loans'[l].returned
  PROVE  \/ loans'[l].byAdmin
         \/ \E r \in Requests :
              /\ req[r].loan = l /\ req[r].user = loans[l].user
              /\ req'[r].reply = "returned"
  <1>0. loans[l] \in Loan /\ loans[l] # None /\ ~loans[l].returned /\ l \in Issued
    BY DEF Typed, TypeOK, Open, Issued
  <1>a. \A m \in LoanIds : \A row :
          loans' = [loans EXCEPT ![m] = row] =>
            loans'[l] = IF m = l THEN row ELSE loans[l]
    BY DEF Typed, TypeOK
  <1>1. CASE UNCHANGED loans
    BY <1>0, <1>1
  <1>2. ASSUME NEW r \in Requests, BorrowInsert(r)
        PROVE  UNCHANGED loans[l]
    BY <1>0, <1>2, <1>a DEF BorrowInsert
  <1>3. ASSUME NEW r \in Requests, ReturnComplete(r)
        PROVE  \/ UNCHANGED loans
               \/ /\ req[r].loan = l /\ req[r].user = loans[l].user
                  /\ req'[r].reply = "returned"
    <2> DEFINE m == req[r].loan
               row == [loans[m] EXCEPT !.returned = TRUE,
                                       !.shelfOk = req[r].shelfOk,
                                       !.bookOk = req[r].bookOk]
    <2>0. req[r] \in Request /\ m \in LoanIds
      BY <1>3 DEF ReturnComplete, At, Typed, TypeOK, StepTyped, Issued
    <2> SUFFICES ASSUME ~UNCHANGED loans
                 PROVE  /\ m = l /\ req[r].user = loans[l].user
                        /\ req'[r].reply = "returned"
      BY <1>3
    <2>1. Owned(m, req[r].user) /\ Reply(r, req[r], "returned")
      BY <1>3 DEF ReturnComplete
    <2>2. loans' = [loans EXCEPT ![m] = row]
      BY <1>3, <2>0 DEF ReturnComplete, Typed, TypeOK
    <2>3. m = l
      BY <1>0, <1>a, <2>0, <2>2
    <2>4. req'[r].reply = "returned"
      BY <2>0, <2>1 DEF Reply, Answer, Typed, TypeOK, Request
    <2> QED
      BY <2>1, <2>3, <2>4 DEF Owned
  <1>4. ASSUME NEW r \in Requests, NEW u \in Students, NEW m \in LoanIds,
               NEW reason \in Reasons, ReasonSet(r, u, m, reason)
        PROVE  FALSE
    <2>1. \/ UNCHANGED loans
          \/ loans[m].returned /\ loans' = [loans EXCEPT ![m].reason = reason]
      BY <1>4 DEF ReasonSet
    <2> QED
      BY <1>0, <2>1 DEF Typed, TypeOK
  <1>5. ASSUME NEW m \in LoanIds, ExtendAdminLoan(m) \/ ReviewAdminLoanScan(m)
        PROVE  FALSE
    BY <1>0, <1>5 DEF ExtendAdminLoan, ReviewAdminLoanScan, Typed, TypeOK, Loan
  <1>6. ASSUME NEW m \in LoanIds, CompleteAdminReturn(m) \/ MarkAdminLoanLost(m)
        PROVE  loans'[l].byAdmin
    <2>1. loans' = [loans EXCEPT ![m] = AdminClosed(loans[m])]
      BY <1>6 DEF CompleteAdminReturn, MarkAdminLoanLost, Typed, TypeOK
    <2>2. m = l
      BY <1>0, <1>a, <2>1
    <2> QED
      BY <1>0, <1>a, <2>1, <2>2 DEF AdminClosed, Loan
  <1>7. ASSUME NEW r \in Requests, StudentStep(r)
        PROVE  \/ UNCHANGED loans \/ BorrowInsert(r) \/ ReturnComplete(r)
               \/ \E u \in Students, m \in LoanIds, reason \in Reasons :
                    ReasonSet(r, u, m, reason)
    BY <1>7 DEF StudentStep, BorrowFindBook, BorrowFindOpenLoan, BorrowBookTaken,
           BorrowUserBusy, BorrowLoadLimitBook, ShelfCheck, ReturnLoad,
           ReturnReload, ReasonReload, ReasonCountClass, ReasonCountReader
  <1>8. ASSUME NEW b \in Books, TeacherBookStep(b)
        PROVE  UNCHANGED loans
    BY <1>8 DEF TeacherBookStep, MarkAdminBookFound, SetBookActive, CreateBook,
                UpdateBook, DeleteBook
  <1>9. \/ UNCHANGED loans
        \/ \E r \in Requests : StudentStep(r)
        \/ \E m \in LoanIds : TeacherLoanStep(m)
    BY <1>8 DEF Next, vars, Leave, AdminMiss, AdminLoanState
  <1> QED
    BY <1>0, <1>1, <1>2, <1>3, <1>4, <1>5, <1>6, <1>7, <1>9 DEF TeacherLoanStep

\* Only the reader's own return request or the teacher closes a loan, however
\* many students name its id in theirs.
THEOREM ClosersAreOwners == Spec => ClosedByOwnerOrTeacher
  <1>1. Typed /\ [Next]_vars =>
          [\A l \in LoanIds : Open(l) /\ loans'[l].returned =>
             \/ loans'[l].byAdmin
             \/ \E r \in Requests :
                  /\ req[r].loan = l /\ req[r].user = loans[l].user
                  /\ req'[r].reply = "returned"]_vars
    BY ClosersOf
  <1> QED
    BY <1>1, TypedInvariant, PTL DEF Spec, ClosedByOwnerOrTeacher

-----------------------------------------------------------------------------
(* The library.  Every statement is, on the tables read as Lending's state, *)
(* one action of Lending or a stutter.                                      *)

\* A book that is not in the catalogue is not reported lost: the rows that
\* createBook and deleteBook write start afresh.
LostAreOwned == \A b \in Books : books[b].isLost => books[b].state = "present"

\* The invariants the mapping of the steps needs.
Orderly == Typed /\ OneOpenLoan /\ LoansKeepTheirBook /\ LostAreOwned

\* Who holds a book is read off any open loan of it, there being only one.
LEMMA HolderIs ==
  ASSUME Orderly, NEW b \in Books
  PROVE  /\ OpenOfBook(b) = {} => HolderOf(b) = None
         /\ \A l \in OpenOfBook(b) : HolderOf(b) = loans[l].user
  <1>1. ASSUME NEW l \in OpenOfBook(b)
        PROVE  HolderOf(b) = loans[l].user
    <2> DEFINE m == CHOOSE k \in OpenOfBook(b) : TRUE
    <2>1. m \in OpenOfBook(b)
      BY <1>1
    <2>2. m = l
      BY <1>1, <2>1 DEF Orderly, OneOpenLoan, OpenOfBook
    <2>3. HolderOf(b) = loans[m].user
      BY <1>1 DEF HolderOf
    <2> QED
      BY <2>2, <2>3
  <1> QED
    BY <1>1 DEF HolderOf

\* The same after a step.
LEMMA HolderThen ==
  ASSUME Orderly', NEW b \in Books
  PROVE  /\ OpenOfBook(b)' = {} => HolderOf(b)' = None
         /\ \A l \in OpenOfBook(b)' : HolderOf(b)' = loans'[l].user
  <1>1. ASSUME NEW l \in OpenOfBook(b)'
        PROVE  HolderOf(b)' = loans'[l].user
    <2> DEFINE m == CHOOSE k \in OpenOfBook(b)' : TRUE
    <2>1. m \in OpenOfBook(b)'
      BY <1>1
    <2>2. m = l
      BY <1>1, <2>1 DEF Orderly, OneOpenLoan, OpenOfBook
    <2>3. HolderOf(b)' = loans'[m].user
      BY <1>1 DEF HolderOf
    <2> QED
      BY <2>2, <2>3
  <1> QED
    BY <1>1 DEF HolderOf

Holders == [b \in Books |-> HolderOf(b)]
Lent == {loans[l].book : l \in Issued}

\* A row moves on: the same books have been lent, and its book changes hands
\* exactly when the row was open and is not any more.
LEMMA MoveHolders ==
  ASSUME Orderly, Orderly', NEW l, NEW row, Moves(l, row)
  PROVE  /\ Lent' = Lent
         /\ Open(l) /\ row.returned =>
              /\ Holders[loans[l].book] # None
              /\ Holders' = [Holders EXCEPT ![loans[l].book] = None]
         /\ row.returned = loans[l].returned => Holders' = Holders
  <1>0. /\ l \in LoanIds /\ l \in Issued /\ loans[l] \in Loan /\ loans[l] # None
        /\ row \in Loan /\ row # None
        /\ row.book = loans[l].book /\ row.user = loans[l].user
    BY LoansAssumption DEF Moves, Follows, Keeps, Issued, Orderly, Typed, TypeOK
  <1>1. \A m \in LoanIds : loans'[m] = IF m = l THEN row ELSE loans[m]
    BY DEF Moves, Orderly, Typed, TypeOK
  <1>2. Issued' = Issued /\ \A m \in Issued : loans'[m].book = loans[m].book
    BY <1>0, <1>1 DEF Issued
  <1>3. Lent' = Lent
    BY <1>2 DEF Lent
  <1>4. \A m \in LoanIds : Open(m)' <=> IF m = l THEN ~row.returned ELSE Open(m)
    BY <1>0, <1>1 DEF Open
  <1>5. ASSUME NEW c \in Books, OpenOfBook(c)' = OpenOfBook(c)
        PROVE  HolderOf(c)' = HolderOf(c)
    <2>1. \A m \in OpenOfBook(c) : loans'[m].user = loans[m].user
      BY <1>0, <1>1 DEF OpenOfBook
    <2> QED
      BY <1>5, <2>1, HolderIs, HolderThen
  <1>6. ASSUME NEW c \in Books, c # loans[l].book
        PROVE  OpenOfBook(c)' = OpenOfBook(c)
    BY <1>0, <1>1, <1>4, <1>6 DEF OpenOfBook
  <1>7. CASE Open(l) /\ row.returned
    <2>0. PICK b : b = loans[l].book
      OBVIOUS
    <2>1. b \in Books /\ l \in OpenOfBook(b)
      BY <1>0, <1>7, <2>0 DEF Loan, OpenOfBook
    <2>2. HolderOf(b) # None
      BY <1>0, <2>1, HolderIs, LoansAssumption DEF Loan
    <2>3. OpenOfBook(b)' = {}
      <3> SUFFICES ASSUME NEW m \in OpenOfBook(b)'
                   PROVE  FALSE
        OBVIOUS
      <3>1. m \in LoanIds /\ m # l /\ Open(m) /\ loans[m].book = b
        BY <1>0, <1>1, <1>4, <1>7 DEF OpenOfBook
      <3> QED
        BY <1>0, <1>7, <2>0, <3>1 DEF Orderly, OneOpenLoan
    <2>4. HolderOf(b)' = None
      BY <2>1, <2>3, HolderThen
    <2>5. \A c \in Books : c # b => HolderOf(c)' = HolderOf(c)
      BY <1>5, <1>6, <2>0
    <2>6. Holders' = [Holders EXCEPT ![b] = None]
      BY <2>4, <2>5 DEF Holders
    <2>7. Holders[b] # None
      BY <2>1, <2>2 DEF Holders
    <2> QED
      BY <1>0, <1>3, <1>7, <2>0, <2>6, <2>7 DEF Open
  <1>8. CASE row.returned = loans[l].returned
    <2>1. \A c \in Books : OpenOfBook(c)' = OpenOfBook(c)
      BY <1>0, <1>1, <1>4, <1>8 DEF OpenOfBook, Open
    <2> QED
      BY <1>0, <1>3, <1>5, <1>8, <2>1 DEF Holders, Open
  <1> QED
    BY <1>3, <1>7, <1>8

\* A row is added: the book goes to a student who has none.
LEMMA OpenHolders ==
  ASSUME Orderly, Orderly', NEW l, NEW b, NEW u, Opens(l, b, u)
  PROVE  /\ Lent' = Lent \cup {b}
         /\ Holders[b] = None
         /\ \A c \in Books : Holders[c] # u
         /\ Holders' = [Holders EXCEPT ![b] = u]
  <1>0. /\ l \in LoanIds /\ l \notin Issued /\ b \in Books /\ u \in Students
        /\ NewLoan(b, u) \in Loan /\ NewLoan(b, u) # None
        /\ NewLoan(b, u).book = b /\ NewLoan(b, u).user = u
        /\ ~NewLoan(b, u).returned
    BY RowsTyped, LoansAssumption DEF Opens, NewLoan
  <1>1. \A m \in LoanIds : loans'[m] = IF m = l THEN NewLoan(b, u) ELSE loans[m]
    BY DEF Opens, Orderly, Typed, TypeOK
  <1>2. Issued' = Issued \cup {l}
    BY <1>0, <1>1 DEF Issued
  <1>3. Lent' = Lent \cup {b}
    <2>1. \A m \in Issued : loans'[m].book = loans[m].book
      BY <1>0, <1>1 DEF Issued
    <2> QED
      BY <1>0, <1>1, <1>2, <2>1 DEF Lent
  <1>4. \A m \in LoanIds : Open(m)' <=> m = l \/ Open(m)
    BY <1>0, <1>1 DEF Open
  <1>5. ASSUME NEW c \in Books, c # b
        PROVE  HolderOf(c)' = HolderOf(c)
    <2>1. OpenOfBook(c)' = OpenOfBook(c)
      BY <1>0, <1>1, <1>4, <1>5 DEF OpenOfBook, Open, Issued
    <2>2. \A m \in OpenOfBook(c) : loans'[m].user = loans[m].user
      BY <1>0, <1>1 DEF OpenOfBook, Open, Issued
    <2> QED
      BY <2>1, <2>2, HolderIs, HolderThen
  <1>6. HolderOf(b) = None
    BY <1>0, HolderIs DEF Opens
  <1>7. HolderOf(b)' = u
    <2>1. l \in OpenOfBook(b)'
      BY <1>0, <1>1, <1>4 DEF OpenOfBook
    <2> QED
      BY <1>0, <1>1, <2>1, HolderThen
  <1>8. ASSUME NEW c \in Books
        PROVE  HolderOf(c) # u
    <2>1. ASSUME NEW m \in OpenOfBook(c)
          PROVE  loans[m].user # u
      BY <2>1 DEF Opens, OpenOfBook, OpenOfUser
    <2> QED
      BY <1>0, <2>1, HolderIs, LoansAssumption
  <1> QED
    BY <1>0, <1>3, <1>5, <1>6, <1>7, <1>8 DEF Holders

Catalogue == {b \in Books : Present(b)}
LostBooks == {b \in Books : books[b].isLost}
Shown == {b \in Books : Present(b) /\ books[b].isActive}

\* What writing one row of table books does to the three sets.
LEMMA BookWritten ==
  ASSUME Typed, NEW b \in Books, NEW row \in Book, books' = [books EXCEPT ![b] = row]
  PROVE  /\ Catalogue' = IF row.state = "present" THEN Catalogue \cup {b}
                         ELSE Catalogue \ {b}
         /\ LostBooks' = IF row.isLost THEN LostBooks \cup {b} ELSE LostBooks \ {b}
         /\ Shown' = IF row.state = "present" /\ row.isActive THEN Shown \cup {b}
                     ELSE Shown \ {b}
  <1>1. \A c \in Books : books'[c] = IF c = b THEN row ELSE books[c]
    BY DEF Typed, TypeOK
  <1>2. \A c : /\ c \in Catalogue <=> c \in Books /\ books[c].state = "present"
               /\ c \in LostBooks <=> c \in Books /\ books[c].isLost
               /\ c \in Shown <=> c \in Books /\ books[c].state = "present" /\ books[c].isActive
    BY DEF Catalogue, LostBooks, Shown, Present
  <1>3. \A c : /\ c \in Catalogue' <=> c \in Books /\ books'[c].state = "present"
               /\ c \in LostBooks' <=> c \in Books /\ books'[c].isLost
               /\ c \in Shown' <=> c \in Books /\ books'[c].state = "present" /\ books'[c].isActive
    BY DEF Catalogue, LostBooks, Shown, Present
  <1>4. Catalogue' = IF row.state = "present" THEN Catalogue \cup {b} ELSE Catalogue \ {b}
    BY <1>1, <1>2, <1>3
  <1>5. LostBooks' = IF row.isLost THEN LostBooks \cup {b} ELSE LostBooks \ {b}
    BY <1>1, <1>2, <1>3
  <1>6. Shown' = IF row.state = "present" /\ row.isActive THEN Shown \cup {b}
                 ELSE Shown \ {b}
    BY <1>1, <1>2, <1>3
  <1> QED
    BY <1>4, <1>5, <1>6

\* The rows the teacher's statements write in table books.
LEMMA BookRows ==
  ASSUME Typed, NEW b \in Books, TeacherBookStep(b)
  PROVE  \E row \in Book :
           /\ books' = [books EXCEPT ![b] = row]
           /\ row.isLost => row.state = "present" /\ books[b].isLost
           /\ \/ MarkAdminBookFound(b) /\ row = [books[b] EXCEPT !.isLost = FALSE]
              \/ \E active \in BOOLEAN :
                   SetBookActive(b, active) /\ row = [books[b] EXCEPT !.isActive = active]
              \/ \E i \in Isbns \cup {None} :
                   \/ /\ CreateBook(b, i)
                      /\ row = [Unused EXCEPT !.state = "present", !.isbn = i]
                   \/ UpdateBook(b, i) /\ row = [books[b] EXCEPT !.isbn = i]
              \/ DeleteBook(b) /\ row = [Unused EXCEPT !.state = "deleted"]
  <1>0. books[b] \in Book /\ Unused \in Book
    BY RowsTyped DEF Typed, TypeOK
  <1>1. CASE MarkAdminBookFound(b)
    BY <1>0, <1>1 DEF MarkAdminBookFound, Typed, TypeOK, Book
  <1>2. ASSUME NEW active \in BOOLEAN, SetBookActive(b, active)
        PROVE  LET row == [books[b] EXCEPT !.isActive = active]
               IN /\ row \in Book /\ books' = [books EXCEPT ![b] = row]
                  /\ row.isLost => row.state = "present" /\ books[b].isLost
    BY <1>0, <1>2 DEF SetBookActive, Present, Typed, TypeOK, Book
  <1>3. ASSUME NEW i \in Isbns \cup {None}, CreateBook(b, i)
        PROVE  LET row == [Unused EXCEPT !.state = "present", !.isbn = i]
               IN /\ row \in Book /\ books' = [books EXCEPT ![b] = row]
                  /\ ~row.isLost
    BY <1>0, <1>3 DEF CreateBook, Unused, Book
  <1>4. ASSUME NEW i \in Isbns \cup {None}, UpdateBook(b, i)
        PROVE  LET row == [books[b] EXCEPT !.isbn = i]
               IN /\ row \in Book /\ books' = [books EXCEPT ![b] = row]
                  /\ row.isLost => row.state = "present" /\ books[b].isLost
    BY <1>0, <1>4 DEF UpdateBook, Present, Typed, TypeOK, Book
  <1>5. CASE DeleteBook(b)
    <2>1. /\ [Unused EXCEPT !.state = "deleted"] \in Book
          /\ ~[Unused EXCEPT !.state = "deleted"].isLost
      BY <1>0 DEF Unused, Book
    <2> QED
      BY <1>5, <2>1 DEF DeleteBook
  <1> QED
    BY <1>1, <1>2, <1>3, <1>4, <1>5 DEF TeacherBookStep

\* The only statement outside the catalogue's own that writes table books.
LEMMA LosesBook ==
  ASSUME Typed, LoansKeepTheirBook, NEW l \in LoanIds, MarkAdminLoanLost(l)
  PROVE  \E b \in Books, row \in Book :
           /\ b = loans[l].book /\ Present(b) /\ ~books[b].isLost
           /\ row = [books[b] EXCEPT !.isLost = TRUE]
           /\ books' = [books EXCEPT ![b] = row]
  <1>1. PICK b : b = loans[l].book
    OBVIOUS
  <1>2. b \in Books /\ Present(b) /\ books[b] \in Book /\ ~books[b].isLost
    BY <1>1 DEF MarkAdminLoanLost, Open, Issued, LoansKeepTheirBook, Present, Typed, TypeOK
  <1>3. books' = [books EXCEPT ![b] = [books[b] EXCEPT !.isLost = TRUE]]
    BY <1>1, <1>2 DEF MarkAdminLoanLost, Typed, TypeOK
  <1>4. [books[b] EXCEPT !.isLost = TRUE] \in Book
    BY <1>2 DEF Book
  <1> QED
    BY <1>1, <1>2, <1>3, <1>4

\* No other step writes it.
LEMMA BooksWritten ==
  ASSUME [Next]_vars
  PROVE  \/ UNCHANGED books
         \/ \E b \in Books : TeacherBookStep(b)
         \/ \E l \in LoanIds : MarkAdminLoanLost(l)
  <1>1. ASSUME NEW r \in Requests, StudentStep(r)
        PROVE  UNCHANGED books
    BY <1>1 DEF StudentStep, BorrowFindBook, BorrowFindOpenLoan, BorrowInsert,
           BorrowBookTaken, BorrowUserBusy, BorrowLoadLimitBook, ShelfCheck,
           ReturnLoad, ReturnComplete, ReturnReload, ReasonSet, ReasonReload,
           ReasonCountClass, ReasonCountReader
  <1>2. ASSUME NEW l \in LoanIds, TeacherLoanStep(l)
        PROVE  UNCHANGED books \/ MarkAdminLoanLost(l)
    BY <1>2 DEF TeacherLoanStep, ExtendAdminLoan, CompleteAdminReturn, ReviewAdminLoanScan
  <1>3. CASE \/ UNCHANGED vars
             \/ \E r \in Requests : Leave(r) \/ AdminLoanState(r)
             \/ \E r \in Requests, l \in LoanIds : AdminMiss(r, l)
    BY <1>3 DEF vars, Leave, AdminMiss, AdminLoanState
  <1> QED
    BY <1>1, <1>2, <1>3 DEF Next

LEMMA OrderlyInvariant == Spec => []Orderly
  <1>1. Init => LostAreOwned
    BY DEF Init, LostAreOwned, Unused
  <1>2. Typed /\ LoansKeepTheirBook /\ LostAreOwned /\ [Next]_vars => LostAreOwned'
    <2> SUFFICES ASSUME Typed, LoansKeepTheirBook, LostAreOwned, [Next]_vars
                 PROVE  LostAreOwned'
      OBVIOUS
    <2>a. ASSUME NEW b \in Books, NEW row, books' = [books EXCEPT ![b] = row],
                 row.isLost => row.state = "present"
          PROVE  LostAreOwned'
      BY <2>a DEF LostAreOwned, Typed, TypeOK
    <2>1. ASSUME NEW b \in Books, TeacherBookStep(b)
          PROVE  LostAreOwned'
      BY <2>1, <2>a, BookRows
    <2>2. ASSUME NEW l \in LoanIds, MarkAdminLoanLost(l)
          PROVE  LostAreOwned'
      <3>1. PICK b \in Books, row \in Book :
              /\ b = loans[l].book /\ Present(b) /\ ~books[b].isLost
              /\ row = [books[b] EXCEPT !.isLost = TRUE]
              /\ books' = [books EXCEPT ![b] = row]
        BY <2>2, LosesBook
      <3>2. row.state = "present"
        BY <3>1 DEF Present, Typed, TypeOK, Book
      <3> QED
        BY <2>a, <3>1, <3>2
    <2>3. CASE UNCHANGED books
      BY <2>3 DEF LostAreOwned
    <2> QED
      BY <2>1, <2>2, <2>3, BooksWritten
  <1>3. Typed /\ OneOpenLoan /\ LoansKeepTheirBook /\ LostAreOwned <=> Orderly
    BY DEF Orderly
  <1>4. Spec => []LostAreOwned
    BY <1>1, <1>2, TypedInvariant, BooksOfLoansStay, PTL DEF Spec
  <1> QED
    BY <1>3, <1>4, TypedInvariant, OneLoanEach, BooksOfLoansStay, PTL

\* Lending's actions and its stutter, on the tables read as its state.
LEMMA DeskStutters ==
  ASSUME UNCHANGED <<Catalogue, LostBooks, Shown, Lent, Holders>>
  PROVE  UNCHANGED Desk!lendingVars
  BY DEF Desk!lendingVars, Catalogue, LostBooks, Shown, Lent, Holders

LEMMA DeskTakes ==
  ASSUME NEW u \in Students, NEW b \in Books,
         b \in Catalogue, Holders[b] = None, \A c \in Books : Holders[c] # u,
         Holders' = [Holders EXCEPT ![b] = u], Lent' = Lent \cup {b},
         UNCHANGED <<Catalogue, LostBooks, Shown>>
  PROVE  Desk!LendingNext
  <1>1. Desk!Take(u, b)
    BY DEF Desk!Take, Desk!HasNothing, Catalogue, LostBooks, Shown, Lent, Holders
  <1> QED
    BY <1>1 DEF Desk!LendingNext

LEMMA DeskGetsBack ==
  ASSUME NEW b \in Books, Holders[b] # None,
         Holders' = [Holders EXCEPT ![b] = None], UNCHANGED <<Catalogue, Shown, Lent>>,
         \/ UNCHANGED LostBooks
         \/ b \notin LostBooks /\ LostBooks' = LostBooks \cup {b}
  PROVE  Desk!LendingNext
  <1>1. Desk!GiveBack(b) \/ Desk!Lose(b)
    BY DEF Desk!GiveBack, Desk!Lose, Catalogue, LostBooks, Shown, Lent, Holders
  <1> QED
    BY <1>1 DEF Desk!LendingNext

\* A step that writes one row of books and none of loans.
LEMMA DeskEdits ==
  ASSUME NEW b \in Books, UNCHANGED <<Lent, Holders>>,
         \/ /\ b \notin Catalogue /\ Catalogue' = Catalogue \cup {b}
            /\ Shown' = Shown \cup {b} /\ UNCHANGED LostBooks
         \/ /\ b \in Catalogue /\ b \notin Lent /\ Catalogue' = Catalogue \ {b}
            /\ LostBooks' = LostBooks \ {b} /\ Shown' = Shown \ {b}
         \/ /\ b \in Catalogue /\ LostBooks' = LostBooks \ {b}
            /\ UNCHANGED <<Catalogue, Shown>>
         \/ /\ b \in Catalogue /\ Shown' \in {Shown \cup {b}, Shown \ {b}}
            /\ UNCHANGED <<Catalogue, LostBooks>>
  PROVE  Desk!LendingNext
  <1>1. \/ Desk!Add(b) \/ Desk!Remove(b) \/ Desk!Find(b) \/ Desk!Show(b)
    BY DEF Desk!Add, Desk!Remove, Desk!Find, Desk!Show,
           Catalogue, LostBooks, Shown, Lent, Holders
  <1> QED
    BY <1>1 DEF Desk!LendingNext

\* The catalogue's statements are Add, Remove, Find and Show; a new ISBN alone
\* is a stutter.
LEMMA EditsImplement ==
  ASSUME Orderly, NEW b \in Books, TeacherBookStep(b)
  PROVE  Desk!LendingNext \/ UNCHANGED Desk!lendingVars
  <1>0. Typed /\ books[b] \in Book
    BY DEF Orderly, Typed, TypeOK
  <1>1. UNCHANGED <<Lent, Holders>>
    <2>1. UNCHANGED loans
      BY DEF TeacherBookStep, MarkAdminBookFound, SetBookActive, CreateBook,
             UpdateBook, DeleteBook
    <2> QED
      BY <2>1 DEF Lent, Issued, Holders, HolderOf, OpenOfBook, Open
  <1>2. PICK row \in Book :
           /\ books' = [books EXCEPT ![b] = row]
           /\ row.isLost => row.state = "present" /\ books[b].isLost
           /\ \/ MarkAdminBookFound(b) /\ row = [books[b] EXCEPT !.isLost = FALSE]
              \/ \E active \in BOOLEAN :
                   SetBookActive(b, active) /\ row = [books[b] EXCEPT !.isActive = active]
              \/ \E i \in Isbns \cup {None} :
                   \/ /\ CreateBook(b, i)
                      /\ row = [Unused EXCEPT !.state = "present", !.isbn = i]
                   \/ UpdateBook(b, i) /\ row = [books[b] EXCEPT !.isbn = i]
              \/ DeleteBook(b) /\ row = [Unused EXCEPT !.state = "deleted"]
    BY <1>0, BookRows
  <1>3. /\ Catalogue' = IF row.state = "present" THEN Catalogue \cup {b}
                        ELSE Catalogue \ {b}
        /\ LostBooks' = IF row.isLost THEN LostBooks \cup {b} ELSE LostBooks \ {b}
        /\ Shown' = IF row.state = "present" /\ row.isActive THEN Shown \cup {b}
                    ELSE Shown \ {b}
    BY <1>0, <1>2, BookWritten
  <1>4. /\ b \in Catalogue <=> books[b].state = "present"
        /\ b \in LostBooks <=> books[b].isLost
        /\ b \in Shown <=> books[b].state = "present" /\ books[b].isActive
    BY DEF Catalogue, LostBooks, Shown, Present
  <1>5. CASE MarkAdminBookFound(b) /\ row = [books[b] EXCEPT !.isLost = FALSE]
    <2>1. /\ row.state = "present" /\ ~row.isLost /\ row.isActive = books[b].isActive
          /\ books[b].state = "present"
      BY <1>0, <1>5 DEF MarkAdminBookFound, Present, Book
    <2> QED
      BY <1>1, <1>3, <1>4, <2>1, DeskEdits
  <1>6. ASSUME NEW active \in BOOLEAN, SetBookActive(b, active),
               row = [books[b] EXCEPT !.isActive = active]
        PROVE  Desk!LendingNext
    <2>1. /\ row.state = "present" /\ row.isLost = books[b].isLost
          /\ books[b].state = "present"
      BY <1>0, <1>6 DEF SetBookActive, Present, Book
    <2>2. Shown' \in {Shown \cup {b}, Shown \ {b}} /\ UNCHANGED <<Catalogue, LostBooks>>
      BY <1>3, <1>4, <2>1
    <2> QED
      BY <1>1, <1>4, <2>1, <2>2, DeskEdits
  <1>7. ASSUME NEW i \in Isbns \cup {None}, CreateBook(b, i),
               row = [Unused EXCEPT !.state = "present", !.isbn = i]
        PROVE  Desk!LendingNext
    <2>1. /\ row.state = "present" /\ ~row.isLost /\ row.isActive
          /\ books[b].state # "present"
      BY <1>7 DEF CreateBook, Unused
    <2>2. ~books[b].isLost
      BY <2>1 DEF Orderly, LostAreOwned
    <2> QED
      BY <1>1, <1>3, <1>4, <2>1, <2>2, DeskEdits
  <1>8. ASSUME NEW i \in Isbns \cup {None}, UpdateBook(b, i),
               row = [books[b] EXCEPT !.isbn = i]
        PROVE  UNCHANGED Desk!lendingVars
    <2>1. /\ row.state = "present" /\ row.isLost = books[b].isLost
          /\ row.isActive = books[b].isActive /\ books[b].state = "present"
      BY <1>0, <1>8 DEF UpdateBook, Present, Book
    <2> QED
      BY <1>1, <1>3, <1>4, <2>1, DeskStutters
  <1>9. CASE DeleteBook(b) /\ row = [Unused EXCEPT !.state = "deleted"]
    <2>1. /\ row.state # "present" /\ ~row.isLost /\ books[b].state = "present"
          /\ b \notin Lent
      BY <1>9 DEF DeleteBook, Present, Unused, Lent
    <2> QED
      BY <1>1, <1>3, <1>4, <2>1, DeskEdits
  <1> QED
    BY <1>2, <1>5, <1>6, <1>7, <1>8, <1>9

\* A step that writes no row of books leaves the catalogue's sets alone.
LEMMA CatalogueStays ==
  ASSUME UNCHANGED books
  PROVE  UNCHANGED <<Catalogue, LostBooks, Shown>>
  BY DEF Catalogue, LostBooks, Shown, Present

\* Each statement that writes table loans is Take, GiveBack, Lose or a stutter.
LEMMA StepImplements ==
  ASSUME Orderly, Orderly', [Next]_vars
  PROVE  Desk!LendingNext \/ UNCHANGED Desk!lendingVars
  <1>0. Typed
    BY DEF Orderly
  <1>1. ASSUME NEW b \in Books, TeacherBookStep(b)
        PROVE  Desk!LendingNext \/ UNCHANGED Desk!lendingVars
    BY <1>1, EditsImplement
  <1>2. ASSUME NEW l \in LoanIds, MarkAdminLoanLost(l)
        PROVE  Desk!LendingNext
    <2>1. PICK b \in Books, row \in Book :
            /\ b = loans[l].book /\ Present(b) /\ ~books[b].isLost
            /\ row = [books[b] EXCEPT !.isLost = TRUE]
            /\ books' = [books EXCEPT ![b] = row]
      BY <1>0, <1>2, LosesBook DEF Orderly
    <2>2. row.state = "present" /\ row.isLost /\ row.isActive = books[b].isActive
      BY <1>0, <2>1 DEF Present, Typed, TypeOK, Book
    <2>3. /\ b \notin LostBooks /\ LostBooks' = LostBooks \cup {b}
          /\ UNCHANGED <<Catalogue, Shown>>
      <3>1. /\ b \in Catalogue /\ b \notin LostBooks
            /\ b \in Shown <=> books[b].isActive
        BY <2>1 DEF Catalogue, LostBooks, Shown, Present
      <3>2. /\ Catalogue' = Catalogue \cup {b} /\ LostBooks' = LostBooks \cup {b}
            /\ Shown' = IF row.isActive THEN Shown \cup {b} ELSE Shown \ {b}
        BY <1>0, <2>1, <2>2, BookWritten
      <3> QED
        BY <2>2, <3>1, <3>2
    <2>4. Moves(l, AdminClosed(loans[l])) /\ AdminClosed(loans[l]).returned /\ Open(l)
      <3>1. loans[l] \in Loan /\ l \in Issued /\ ~loans[l].returned /\ Open(l)
        BY <1>0, <1>2 DEF MarkAdminLoanLost, Open, Issued, Typed, TypeOK
      <3>2. loans' = [loans EXCEPT ![l] = AdminClosed(loans[l])]
        BY <1>2 DEF MarkAdminLoanLost
      <3> QED
        BY <3>1, <3>2, RowsFollow DEF Moves, AdminClosed, Loan
    <2>5. /\ Lent' = Lent /\ Holders[b] # None
          /\ Holders' = [Holders EXCEPT ![b] = None]
      BY <2>1, <2>4, MoveHolders
    <2> QED
      BY <2>1, <2>3, <2>5, DeskGetsBack
  <1>3. ASSUME UNCHANGED books
        PROVE  Desk!LendingNext \/ UNCHANGED Desk!lendingVars
    <2>0. UNCHANGED <<Catalogue, LostBooks, Shown>>
      BY <1>3, CatalogueStays
    <2>1. CASE UNCHANGED loans
      <3>1. UNCHANGED <<Lent, Holders>>
        BY <2>1 DEF Lent, Issued, Holders, HolderOf, OpenOfBook, Open
      <3> QED
        BY <2>0, <3>1, DeskStutters
    <2>2. ASSUME NEW l, NEW b, NEW u, Opens(l, b, u)
          PROVE  Desk!LendingNext
      <3>1. b \in Books /\ u \in Students /\ b \in Catalogue
        BY <2>2 DEF Opens, Catalogue
      <3> QED
        BY <2>0, <2>2, <3>1, OpenHolders, DeskTakes
    <2>3. ASSUME NEW l, NEW row, Moves(l, row)
          PROVE  Desk!LendingNext \/ UNCHANGED Desk!lendingVars
      <3>1. PICK b : b = loans[l].book
        OBVIOUS
      <3>2. /\ b \in Books /\ loans[l] \in Loan /\ row \in Loan
            /\ loans[l].returned => row.returned
            /\ Open(l) <=> ~loans[l].returned
        BY <1>0, <2>3, <3>1 DEF Moves, Follows, Keeps, Issued, Open, Typed, TypeOK, Loan
      <3>3. CASE Open(l) /\ row.returned
        <4>1. /\ Lent' = Lent /\ Holders[b] # None
              /\ Holders' = [Holders EXCEPT ![b] = None]
          BY <2>3, <3>1, <3>3, MoveHolders
        <4> QED
          BY <2>0, <3>2, <4>1, DeskGetsBack
      <3>4. CASE row.returned = loans[l].returned
        BY <2>0, <2>3, <3>4, MoveHolders, DeskStutters
      <3> QED
        BY <3>2, <3>3, <3>4 DEF Loan
    <2> QED
      BY <1>0, <2>1, <2>2, <2>3, StepsEvolve DEF LoansEvolve
  <1> QED
    BY <1>1, <1>2, <1>3, BooksWritten

\* Rows, indexes and interleaved statements implement the library, for any
\* number of students, books and requests: every change of who has what is one
\* whole borrow, return, loss or edit of the catalogue.
THEOREM DeskImplementsLending == Spec => ImplementsLending
  <1>1. Init => Desk!LendingInit
    <2> SUFFICES ASSUME Init
                 PROVE  Desk!LendingInit
      OBVIOUS
    <2>1. \A b \in Books : ~Present(b) /\ ~books[b].isLost /\ HolderOf(b) = None
      BY DEF Init, Present, Unused, HolderOf, OpenOfBook, Open
    <2>2. Issued = {}
      BY DEF Init, Issued
    <2> QED
      BY <2>1, <2>2 DEF Desk!LendingInit
  <1>2. Orderly /\ Orderly' /\ [Next]_vars => [Desk!LendingNext]_Desk!lendingVars
    BY StepImplements
  <1> QED
    BY <1>1, <1>2, OrderlyInvariant, PTL DEF Spec, ImplementsLending, Desk!LendingSpec
============================================================================
