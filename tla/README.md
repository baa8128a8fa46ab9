# Syllabooks, specified

Syllabooks is the library of a school book club: students borrow a book by
scanning its ISBN, return it by scanning the shelf and the book, and say why
they stopped reading; a teacher runs the catalogue, the loans and the accounts.
A Go server over Postgres does the work, a React application is the only
client, and a few shell scripts release and back up the whole.

This directory holds TLA+ specifications of it, the TLC configurations that
check them on small instances, and theorems that TLAPS checks for every
instance. `PROJECT.json` maps each definition to the lines it models.

## Inventory

| Component | State it keeps | Operations | Hard part |
| --- | --- | --- | --- |
| Loan desk (`loans.go`, `returns.go`, `admin_loans.go`) | table `loans`; `is_lost`, `is_active`, `isbn` of `books` | borrow, shelf check, return, reason; the teacher's extend, return, lost, review, found | each handler is several autocommitted statements that interleave with those of other requests |
| Catalogue (`books.go`) | table `books`, `ord` | create, update, hide, delete, reorder | races with borrows; a reorder locks all rows |
| Accounts (`session.go`, `code.go`, `oauth.go`, `admin_users.go`) | `users`, `sessions`, `issued_student_codes`, the browser's cookies | code login, OAuth callback, logout, ban, reset, reissue | a login in flight while the teacher bans, resets or reissues |
| Covers (`book_covers.go`) | `cover_url` and the files of a directory | upload, delete, provider's cover, delete book | two stores changed one after the other |
| Metadata (`book_metadata.go`) | none (two providers) | lookup and merge | partial and failing answers |
| Book requests, onboarding | `book_requests`, `onboarding_completed_at` | submit, list, purchase, dismiss | retries |
| Views (`catalog.go`, `profile.go`, admin listings, exports) | none | read | one page is several reads |
| Return flow (`Return.tsx`) | the page's phase, `sessionStorage` | scan, confirm, retry, sign in again | late answers, lost answers, a session that expires midway |
| Borrow flow (`Scan.tsx`) | the attempt, the lock, the field | scan or type an ISBN, retry | a lost answer, a lock that is opened by hand, runs of the camera that overlap |
| Shell and login (`App.tsx`, `Login.tsx`, `authResume.ts`) | `me`, the attempt, the return path | sign in and out, `/me` | an old `/me`, a path left behind by a journey that was given up |
| Teacher's pages (`admin/*.tsx`) | lists, counters, forms, locks | edit, confirm, look up, upload | lists that are read once and then changed by hand, answers out of order, two calls for one save |
| ISBN check (`books.go`, `isbn.ts`) | none | normalise, validate | written twice |
| Release and backup (`src/ops`) | installed binaries, archives | deploy, restart, back up, prune | failure between two steps |

How they interact: the browser calls the handlers over HTTP and may retry or
abandon a call; handlers share nothing in memory and meet only in the database
(rows, two partial unique indexes, foreign keys, CHECKs) and in the covers
directory; the accounts decide whose request it is; the pages act on answers
that may be old by the time they arrive.

What makes each component correct:

* loan desk: one open loan per book and per student, no row rewritten, every
  answer true, a loan closed only by its reader or the teacher;
* catalogue: a lent book is never deleted, `ord` stays a total order;
* accounts: a banned or reset account has no usable session left, a code never
  names two people, one device sets the first password;
* covers: a row never names a file that is gone, and no file is left over;
* views: a page never shows one loan in two places;
* flows: a student is told that a book is his, or back, only when it is, and a
  reason is kept for the loan it was given for; the camera is off when no screen
  shows it;
* shell: the name on the screen is that of the session the calls carry;
* teacher's pages: once all is answered, a page shows what the table holds, and
  nothing stays locked;
* release: after a failed release the old server runs.

## Plan

1. **Loans** (done): the loan desk at the granularity of SQL statements, the
   abstract library **Lending** it implements, and **LoansProofs**.
2. **Accounts** (done): sessions against bans and resets; first passwords;
   codes; providers; and **AccountsProofs**.
3. **Covers** (done): files against rows, and **CoversProofs**.
4. **ReturnFlow** (done): the return page and the sign-ins around it.
5. **Browser** (done): what every page of the browser shares; **Scan**,
   **Camera** with the abstract **Viewport** it implements, and **SignIn**,
   composed in **StudentPages**.
6. **AdminUsers**, **AdminLoans**, **AdminBooks**, **AdminLost**,
   **AdminBookRequests**, **AdminBookForm** (done), composed in **TeacherPages**.
7. Proofs of the server (done): every safety property of Loans, Accounts and
   Covers, and that Loans implements Lending.
8. Proofs of the pages: **ReturnFlowProofs** and **StudentPagesProofs** (done),
   every safety property of the students' part, and that Camera implements
   Viewport; **TeacherListsProofs**, **AdminBookFormProofs** and
   **TeacherPagesProofs** (done), the teacher's pages but for the catalogue, whose
   order is a sequence and stays with TLC.

Reading order: a page's module says what the browser does between two answers;
which answers there are is said briefly beside it, and statement by statement in
Loans, Accounts and Covers.

## The loan desk: `Loans.tla`

### State

* `books` is table `books` reduced to what the loan desk reads: whether the row
  exists (`unused`, `present`, `deleted`; ids are never reused), `isbn`,
  `is_lost`, `is_active`.
* `loans` is table `loans`: reader, book, extensions granted (`weeks`, which
  stands for `due_at`), whether it is returned, the reason, the two scan flags
  (NULL until returned), `created_by_admin` and whether the scans were reviewed.
* `req` has a slot per request in flight: the statement it will run next and
  the values its Go variables carry over from earlier statements; and, once it
  has answered, the answer and what the answer is about, until the client reads
  it (`Leave`).

### Actions

A handler runs its statements one by one, each a transaction of its own, at
Postgres' default isolation level. One action is one statement and the Go code
up to the next one, so the statements of concurrent requests interleave freely:

| Code | Actions |
| --- | --- |
| `borrowBook` | `BorrowFindBook`, `BorrowFindOpenLoan`, `BorrowInsert`, `BorrowUserBusy` |
| `writeBookUnavailable`, `writeLoanLimit` | `BorrowBookTaken`, `BorrowLoadLimitBook` |
| `checkShelfCode` | `ShelfCheck` |
| `returnBook` | `ReturnLoad`, `ReturnComplete`, `ReturnReload` |
| `setReturnReason` | `ReasonSet`, `ReasonReload`, `ReasonCountClass`, `ReasonCountReader` |
| the teacher's loan handlers | `ExtendAdminLoan`, `CompleteAdminReturn`, `MarkAdminLoanLost` (one transaction), `AdminMiss` and `AdminLoanState`, `ReviewAdminLoanScan`, `MarkAdminBookFound` |
| `createBook`, `updateBook`, `setBookActive`, `deleteBook` | `CreateBook`, `UpdateBook`, `SetBookActive`, `DeleteBook` |
| a request cancelled, an answer lost, a server restarted | `Leave` |

The unique indexes, the foreign key and the `WHERE` of each `UPDATE` are guards
of the action that runs the statement; a violated index leads to the handler's
next branch. When both indexes would refuse an insert, either may be the one
that Postgres reports. The answer code of every branch is kept, the error
branches for a failing database are not. Two shortcuts are sound because they
only drop steps that change nothing: a single-statement teacher's call takes no
slot, and a call for an id that was never issued is left out.

### Promises

* `OneOpenLoan`, `LoansKeepTheirBook`, `RowChecks`: the tables.
* `BorrowAnswersTrue`, `CloseAnswersTrue`, `CelebrationCounts`,
  `FirstBookOnce`: what a client is told is true, then and later, although it
  is put together from several reads.
* `NoUnexpectedBranch`: the branches the handlers keep for states that they do
  not expect cannot be reached. One of them would be a 200 for a return that
  did not happen.
* `HistoryIsKept`, `ClosedByOwnerOrTeacher`: what a step may never do.
* `ImplementsLending`: with `holder` read off the open loans, every step is one
  whole step of `Lending.tla`, a library without requests, or changes nothing
  that the library knows of. This is where `markAdminLoanLost` must be atomic.

No liveness is claimed: a request that is abandoned owes nobody an answer, and
the code has no background work that must eventually happen here.

### Runs

| Run | Instance | Shows |
| --- | --- | --- |
| `loans`, case borrow | 2 students, 2 books, 2 loans, 2 requests at a time | every race of two borrows with each other, with returns and with the catalogue; the refinement |
| `loans`, case close | 2 students, 1 book, 1 loan, all evidence, 2 ISBNs, 1 extension | the whole life of a loan with strangers and the teacher at work |
| `loans`, case reasons | 1 student with 2 loans | reasons and celebrations from two tabs |
| `loans_lost_race` | 1 student, 1 book | refutation 1 below |

`MCLoansCases` chooses the case at the start and confines it to its own students,
books and evidence; every property is checked of all three.

Two requests at a time are enough for the races: a handler relies on what it
read itself and on the tables, so a third request can only do to the tables
what two steps of the second and the teacher's actions, which need no slot, can
do already. One loan is enough where a property is about one row; the
refinement and `OneOpenLoan` need two. `MaxExtensions` bounds `weeks`, a counter
nothing is compared with. `IdsLeft` starts no borrow that could run out of ids.
The proofs below need none of these bounds.

### Proofs: `LoansProofs.tla`

From `LoansAssumption` alone (NULL is not a row, a name or an answer; the set of
loan ids is finite, which only the counts need):

* `TypeCorrect` rests on `Typed`, which adds to `TypeOK` that a slot at a given
  statement names the rows an earlier statement found. `TypeOK` is not
  inductive without it: `BorrowInsert` would insert a row without a reader.
* `StepsEvolve` reduces all statements to three cases for table `loans`: nothing
  happens, one open row is added under both unique indexes, or one row is
  replaced by one that `Follows` it. `OneLoanEach`, `RowsAllowed` and
  `HistoryKept` follow from that alone. `BooksOfLoansStay` adds that no
  statement removes a book with a loan.
* `Truthful` says of every slot what it may rely on and what its answer
  promises (`Told`). It is inductive because rows only move on
  (`ToldStays`): a fact read once stays true. `BorrowsAnsweredTruly`,
  `ClosesAnsweredTruly` and `UnexpectedNeverHappens` are its consequences.
* `CelebrationsCount` and `FirstBookSaidOnce` add that the set of finished
  loans only grows and that the reader's own is in it when the counts are read.

* `ClosersAreOwners` needs only the types: the WHERE of `ReturnComplete` names the
  reader the request's session belongs to, and every other statement that closes
  a loan is the teacher's.
* `DeskImplementsLending` maps every statement to a whole step of Lending or to a
  stutter. Lending's `holder` is the reader of the open loan of a book, which is a
  function only because of `OneOpenLoan`; a deleted book leaves no holder behind
  because of `LoansKeepTheirBook`; and `Orderly` adds that only a row that exists
  is lost. `MarkAdminLoanLost` changes the holder and the book, and is one step of
  Lending because it is one transaction.

`TypeOK` of Loans is proved only, and not checked by a run any more.

### What the run refutes

1. **A book marked lost or hidden can still be lent** (`loans.go:93`): the
   check and the insert are two statements, and the insert looks at neither
   flag. Migration 00008 says an inactive book cannot be borrowed.

Two more answers are in the model, and no property forbids them. A conflict
is answered with a 500 when the loan that broke the index is closed before it is
looked up (`loans.go:132`; migration 00001 promises a 409), and a reason sent
before its return is refused as already saved when the return commits between
the UPDATE and the reload (`returns.go:203`). Neither records anything wrong,
and the next try succeeds.

## Accounts: `Accounts.tla`

### State

* `account` is table `users`: status, `is_admin`, `code`, the password (by its
  hash), the OAuth identity, whether the name is the one given at creation or
  the teacher's correction, onboarding. `resets` counts the teacher's resets
  and is not a column; `issued` is `issued_student_codes`.
* `session` is table `sessions`, by token. Deleted and expired rows stay with
  `live = FALSE`, so that a token is never drawn twice, and a row remembers
  where and by which proof it was opened (device, password and reset count, or
  the provider's grant). Only properties read what the table does not store.
* `cookie` and `flow` are a browser's cookies; `grants` and `redeemed` are the
  provider's callback URLs and the authorization codes it has exchanged.
* `req` has a slot per request in flight, as in Loans; the answer's cookies reach
  the browser in `Deliver`, later than the answer was made, or never (`Lose`).
* `started` and `held` are history: which browser a state was drawn for, and on
  whose slip of paper a code was ever printed.

### Actions

| Code | Actions |
| --- | --- |
| `codeLogin` | `CodeLogin` (lookup, checks, branch), `SetPassword`, `CreateSession` |
| `oauthStart`, `oauthCallback`, `oauthUser` | `OAuthStart`, `CallbackCancelled`, `Callback`, `Redeem`, `Upsert`, `CreateSession` |
| the provider's page | `Consent` (external) |
| `requireUser` in front of a handler | `CompleteOnboarding`, then `Onboard` for the handler's statement |
| `logout`, the cookie's way back, a request cancelled, a year | `Logout`, `Deliver`, `Lose`, `Expire` |
| `createAdminUser`, `updateAdminUser`, `reissueCode`, `resetPassword`, `banAdminUser` | `CreateAdminUser`, `UpdateAdminUser`, `ReissueCode`, `ResetPassword`, `BanAdminUser` |
| `UPDATE users SET is_admin` in psql, as the repository's README has it | `MakeAdmin` |

The teacher's handlers run in transactions and are one action each. That is not
only the rule of the language: `reissueCode` and `resetPassword` hold the
student's row `FOR UPDATE`, which blocks the other statements on that row,
among them the foreign key check of a new session, until they commit. A ban's
UPDATE lets that check pass, but a session inserted between its two statements
is either seen and deleted by the second or the same as one inserted after the
commit. `updateAdminUser` is one statement.

### Promises

* `CodesNameOneStudent`: a slip of paper never opens another student's account,
  although codes are replaced and old slips turn up again.
* `SessionsProvePassword`: between two resets every session of a code was opened
  with the one password of the account, so two first logins at once cannot both
  win.
* `OneAccountPerIdentity`, `NameBelongsToTeacher`: concurrent and repeated
  callbacks end in one row, whose name stays the teacher's.
* `CallbackTiedToBrowser`: a sign-in ends in the browser it began in, as the
  person who agreed, whatever browser the callback URL is opened in.
* `BanHolds`: a ban is final and ends every session. A login that was past its
  check may still add one session after the ban, and that session lets no request
  in, because `authenticate` looks at the status each time; nobody else gets in by
  any cookie, code or callback. `Past` are the requests beyond their check, `Live`
  the sessions a cookie could name.
* `AdminsUntouched`: `WHERE NOT is_admin` in every statement keeps the page of
  students away from a row that has become an admin's: status, code, password and
  name stay.

None of them is about liveness: a handler runs from the top to its end, and one
that is cancelled owes nobody an answer.

### Runs

| Run | Instance | Shows |
| --- | --- | --- |
| `accounts_login` | 2 students, 2 codes, 2 passwords, 2 requests, 1 reset | codes issued, replaced and tried; first logins against each other, a reset, bans and new codes |
| `accounts_oauth` | 2 identities, 2 browsers, 2 states, 2 requests | callbacks against each other, in the wrong browser, late and repeated, with names corrected in between |
| `accounts_teacher` | 1 student by code or provider, 2 codes, 1 reset, every kind of request, two at once | a ban against every sign-in under way; the buttons on a row that becomes an admin's, with a code or without; row checks |
| `accounts_reset` | 1 student, 1 request | the refutation below |

Two requests are enough for the races, as for the loan desk; the teacher and the
providers need no slot. `TokensLeft` and `UserIdsLeft` start no request that
could run out of tokens or ids, `MaxResets` bounds a counter, and the sets of
states and tokens bound how many sign-ins a behaviour has. Codes that run out
disable `Issue`, which stands for the 500 after 64 failed draws; no property is
about how often that happens.

### Proofs: `AccountsProofs.tla`

From `AccountsAssumption` alone (NULL is none of the values, a short password
is not a valid one), every invariant and action property that the runs check is
proved:

* `Shape` strengthens `TypeOK`: it adds what a request carries at each step
  (`StepOK`; `SetPassword` could otherwise write to no row), that a request's
  user exists, and the foreign key of `sessions`.
* `UsersStep` shows that every step moves a row of `users` only as `Evolves`
  allows. `AdminsKeepAccess` and `CorrectionsStay` follow from it alone.
  `BansHold` adds to `UsersStep` where requests and sessions come from: only a
  step that has looked at the status (`ChecksHold`, `NobodyComesPast`) brings a
  request past its check, and a session comes to life only out of such a request,
  as the one it carries (`LiveStep`).
* `CodesNameOne` and `IdentitiesNameOne` rest on `NamingStep`: a code enters a
  row only when nobody ever held it, an identity only when nobody has it.
* `SessionsProve` and `CallbackTied` follow a sign-in from its first step to its
  session: `SignInSteps` lists the only four ways a request comes nearer to
  one, and the invariants `Proven` and `Tied` say what each leaves behind.
  `SessionsProvePassword` is not inductive alone: the request at
  `create_session` must already have the proof, and keep it while the teacher
  works.

### What the run refutes

2. **A login under way survives a reset** (`code.go:105`): the password is
   checked in one statement and the session is inserted in another that reads
   nothing about the user. `resetPassword` in between deletes the sessions there
   are, and its comment says that any device still signed in is locked out. The
   same window exists for a ban, where `authenticate` closes it.

## Covers: `Covers.tla`

### State

`books` is a row's existence and its `cover_url`; `temporary` and `files` are the
`.cover-*` files and the published ones in the covers directory. `req` has a slot
per request: its next step, the book, `old` (the `current.CoverUrl` it has read)
and `new` (the file it makes). `drawn`, `abandoned` and `replaced` are history.

### Actions

One action is one statement or one change of the directory, so any of them may
be followed by another request's, by a failure (`Fail`) or by `Restart`:

| Code | Actions |
| --- | --- |
| `uploadBookCover` | `UploadBookCover`, `WriteTemporary`, `Publish`, `Attach`, then `RemoveOld` or `RemoveNew` |
| `deleteBookCover` | `DeleteBookCover`, `Detach`, `RemoveOld` |
| `createBook` with a provider's cover | `CreateBook`, `WriteTemporary`, `Publish`, `Attach`, then nothing to remove or `RemoveNew` |
| `deleteBook` | `DeleteBook`, `RemoveOld` |

A statement that fails may have been committed: the connection can break after
that, and `Attach`, `Detach` and `DeleteBook` have both outcomes. Which books
may be deleted depends on their loans and is left to Loans.

### Promises

* `NamedCoversStored`: a cover that a row names is on the disk, at every step
  and after every restart. The one exception is the cover of an upload that was
  itself answered with an error: when that error hid a commit, `uploadBookCover`
  removes the file the row has just been given (`book_covers.go:92`), and the
  teacher has to upload again.
* `LeftoversAreLostUpdates`: as long as nothing fails, the only files without a
  row are those of covers that two requests for one book fought over: both read
  the old cover, and the later UPDATE takes off a cover its handler never read.

### Run and bounds

`covers` has 2 books, 4 file names, 2 requests at once and 2 failures or
restarts. Two requests for one book give every lost update, the second book the
crossing of two books' files, and two failures a failed cleanup after a failed
statement. File names and ids run out, so the run may stop. No liveness is
claimed: a failed cleanup is logged and never retried.

### Proofs: `CoversProofs.tla`

`TypeCorrect` and `CoversStored` follow from `Sound`. `NamedCoversStored` is not
inductive alone: `Owned` adds that a cover a request has read can only be on
the row of that request's book, `SlotOK` that a file under way is in no row and
in no other request's hands before `Attach`, and that at `remove_old` the row
has already moved on. `OnlyLostUpdatesLeaveFiles` needs no
strengthening beyond the types: a step that takes a cover off a row has it in hand
(`Accounted`), or has never read it there, and then it is one of `replaced`.

## The return page: `ReturnFlow.tla`

### State

One tab of a browser. `page` is the state of component `Return` (`phase`, the
loan, the evidence, the reason it was opened with); `calls` are its calls with
the session they were sent with, the answer once there is one, and who still
listens: the page on the screen, a page that was left but whose script runs
(`gone`), or nobody (another document, or a call reported as failed). `stored` and
`resume` are the two keys of `sessionStorage`; `me`, `asking`, `path` and `link`
are App's. `loans`, `sessions` and `shelfCode` are the server, whose handlers run
in one step each: Loans has their statements.

### Actions

| Code | Actions |
| --- | --- |
| the load effect of `Return` | `Visit` or `Identify` (mounting), `Retry`; `CurrentArrives`, `ReasonSaved`, `ReplayFailed` |
| `checkShelf` | `CheckShelf`, `ShelfArrives` |
| `closeLoan` | `ShowBook`, `Confirm`, `ReturnArrives` |
| `openConfirmation`, the way back, camera or keyboard | `OpenConfirmation`, `Back`, `SwitchInput` |
| `chooseReason` | `ChooseReason`, `ReasonSaved`, `ReasonFailed` |
| App and Login | `Identify`, `SignInByCode`, `SignInByProvider`, `SignOut`, `Expired`, `Reload`, `Leave` |
| the server | `Serve` with a disjunct per handler, `Expire`, `ChangeShelfCode`, `Elsewhere` |
| the network | `Fail`: before, after or while the handler runs |

A setter of a component that was unmounted does nothing, but `clearPendingReason`,
`navigate` and `rememberAuthReturnPath` do not ask: `ReasonSaved`, `ReasonFailed`
and `Expired` have these effects for a page that is `gone` as well, and `TooLate`
is what has none. Screen `session-expired` is not modelled: App unmounts the page
on the same 401. `sessionStorage` is taken to work; the code calls it best effort.

### Promises

* `ToldReturned`: the page says that the book is back only when it is.
* `SavedIsSaved`: a reason reported as saved is the loan's reason ever after.
* `ChoiceKept`: a reason that has no answer yet survives errors, reloads and new
  sign-ins. There is one exception, which `return_reasons` reaches: the answer to
  an older call, arriving when the page was left and opened again, clears
  whatever is stored by then.
* `BusyEnds`: waiting screens end. Assumed is only `WF(Network)`, that a request
  under way is eventually answered or fails.

One promise of the texts is not kept and not stated: a shelf check outlives its
page, and when its 401 arrives on the catalogue, App shows the form with "we will
bring you back here" (`App.tsx:62`), but the sign-in opens the return page, because
the handler of the page that was left has stored its path (`Return.tsx:937`).

### Runs

| Run | Instance | Shows |
| --- | --- | --- |
| `return_page` | 1 loan, 2 codes, 1 fault | the whole page with errors, reloads and lost answers; liveness |
| `return_reasons`, case late | 2 loans, 2 reasons, no fault | late answers of one loan meeting the next one; two reasons for one loan |
| `return_reasons`, case lost | 1 loan, 2 reasons, 1 fault | a save whose answer is lost, and what is chosen or retried after it |
| `return_reasons`, case sign_ins | 2 students, 2 sessions, 1 loan, 2 reasons, no fault | pending reasons across sign-ins |

Two calls in flight (`MaxCalls`) are enough: a page waits for its own call before
it sends the next, so the second is one of a page that was left, and a third
could only repeat the second. Sessions run out, so the runs may stop.

### Proofs: `ReturnFlowProofs.tla`

From `ReturnFlowAssumption` (null is none of the values, "unknown" is no student,
the bounds are numbers), for any number of students, loans, calls and sessions:
`TypeCorrect`, `ReturnedWhenTold`, `ReasonStays`, `ChoiceSurvives`. They rest on
`Sound`:

* `ScreenOK`: each screen has what it shows and what its buttons send; without it a
  return would be sent without a loan.
* `CallOK`: what an answer under way means for good. It is kept because a loan only
  moves on (`LoansGrow`): an answer read late is still true.
* `AwaitedOK`: the one call the page waits for is the one its screen has sent, about
  the loan on the screen. That an answer of an older page cannot be taken for it is
  what `ToldReturned` turns on.

`ChoiceKept` follows from `Sound` step by step (`ChoiceSteps`): what is stored is
cleared only by an answer that settles it, with the exception named above.
`BusyEnds` is checked by TLC only: liveness is out of the prover's reach.

## Calls and answers: `Browser.tla`

Every page of the browser is a component of React that sends calls and goes on.
`calls` are those under way: what the handler is told (`op`, `id`, `arg`), what it
has answered (`answer`, `data`), and who still waits (`to`): the `page` on the
screen; a page that was `left` but does something all the same when the answer
comes, such as leading the browser elsewhere; or nobody (`gone`). The server serves
any call next, and the answers arrive in any order. `Fail` is a connection that
breaks, or a 5xx: before the handler has run, after it, or with the request still
on its way, so that the handler runs after the page has been told of an error.
axios is used without a timeout and without retries, so there are none here: a
call is repeated only by a click. `MaxCalls`, `MaxFaults` and `MaxChanges` bound
the calls in flight, the failures and the changes of the table. When the changes
are used up the server answers 5xx (`Overloaded`), which a page has to bear
anyway, so that no page waits in vain because of a bound.

A page module EXTENDS `Browser` and adds the page, the table behind it, one action
for each button that does something, one for each handler, and one for each
answer. `behind` is history: the rows of which the page cannot know, since
somebody else changed them, or its own call failed after it had been carried out.
What is promised of the rows excepts those.

## The student's pages: `StudentPages.tla`

The composition has the variables of three sections and an initial state for
each: in one behaviour one section is at work, the others stay where they start.
They share no state but the cookie, and a page is mounted anew when it is entered,
so nothing is lost by looking at them one at a time. The return page has a module
of its own, above.

### `Scan.tla`

`page` is the state of component `Scan` and of the `ManualScreen` inside it; `shelf`
and `holder` are what `borrowBook` reads and writes, in one step (Loans has its
statements, races and answers).

| Code | Actions |
| --- | --- |
| mounting, the cross, the links away | `Open`, `Leave` |
| `submitISBN` by way of `cameraDetected`, `manualAccepted` (the effect of `ManualScreen`), `retryBorrow` | `cameraDetected`, `ManualInput`, `retryBorrow` |
| `showCamera`, `showManual`, `editManualISBN` | the same, enabled on the screens that offer them |
| `cameraFailed`, `onUnreadable` | `cameraFailed`, `CameraUnreadable` |
| the answer | `Arrive` |
| `borrowBook`, others | `borrowBook`, `Elsewhere` |

* `AnswersTrue`: who is told that the book is his has it; and, as the error screen
  promises (`Scan.tsx:654`), an ISBN that is sent again after its answer was lost
  is confirmed and not refused. One refusal is excepted: a book the teacher has
  hidden meanwhile is refused to its own reader as well, because `borrowBook` looks
  at `is_active` before it looks for the loan.
* `LocksHaveTheirCalls` (of `LockIsShown`): `submissionLocked` is a ref, opened by
  hand in each of the ways back to a screen that takes an ISBN. It is closed
  exactly while there is an attempt to be seen, and one call is out at a time.
* `WaitingEnds` (of `PendingEnds`): "Записываем книгу…" ends.

### `Camera.tla` and `Viewport.tla`

The effect of `CameraViewport` starts anew whenever the component is mounted or a
callback changes, and `onUnreadable` is a new function at each drawing of `Scan`
(`Redraw`). A run that was disposed of may still import the scanner, wait for the
permission or stop, and all runs share one Quagga, whose active stream is the one
opened last. `runs` are these runs, `live` the ones whose camera is on, `active` is
Quagga's stream, `told` what the screen was told. Quagga and `getUserMedia` are
external: `Granted`, `InitFails`, and what `stop` and `release` act on when they
come to it.

* `CameraOff`: when no screen shows the camera it is off, at once; only a permission
  that was asked for before may turn it on, until `init` returns.
* `KeepsPromise`: the component implements `Viewport`: at most one report for each
  showing, and none when it is off the screen. A showing begins when the component is
  mounted, and again when `Redraw` changes a callback and the effect starts anew: the
  new run is free to report, whether the old one has reported or not.
* `WaitingEnds` (of `WatchingEnds`): a scanner that watches ends with a report or
  with its screen, even if an earlier run's release has stopped its stream. The
  timeout of 20 seconds is what makes it true.

Fairness is `WF` of each run's own steps: the browser runs its timers and settles
imports and `stop`. A permission is not assumed to be answered.

### `SignIn.tla`

`app` is the state of `App` and `Login`; `cookie` is the session the browser sends,
which only answers change; `live` is the table of sessions; `stored` is the path
in `sessionStorage`; `wanted` is history, the page at which the student began.

| Code | Actions |
| --- | --- |
| the `/me` effect and its `authAttempt` | `Load`, `signIn`; `MeArrives` |
| `handleExpiredSession`, `signOut` | `handleExpiredSession`, `signOut` and `LogoutArrives` |
| `Login`: `goTo`, `checkCode`, `logIn` | the same, `CheckArrives`, `LoginArrives` |
| `rememberAuthReturnPath`, `/auth/callback`, the way back without it | `rememberOAuthDestination`, `OAuthReturns`, `GoBack` |

* `SignInTrue`: when all is answered, no session but that of the student on the
  screen is in use (it may be none: an old sign-out, answered after a new sign-in,
  takes the cookie away); and signing in ends at the page where it was begun. A
  sign-in by code is promised this only when no path is stored, because `signIn`
  takes whatever an abandoned journey to a provider has left there.
* `LocksHaveTheirCalls`: the buttons of the forms are locked only while their call
  is out.
* `WaitingEnds` (of `Settles`): `/me` is answered, or its failure is shown.

Whether a code exists and a password is right is left open (Accounts has it), and
reads that nobody waits for are dropped. `Changes` are the new sessions here,
bounded by `MaxSessions`. A page is not loaded again while it is being loaded.

### Run and bounds

`student_pages`: 2 ISBNs, 2 calls, 1 fault and 2 changes by others, so that each
ISBN can be another student's, gone, or this student's; 3 runs of the camera, of
which one can be in use, one closing and one still loading; 2 students, 2 paths,
2 sessions. The runs of the camera are used up, so that section may stop. Fairness
is `WF(Network)`: a call that is sent is answered or its connection breaks, and the
answer is handed to the page. Nothing is asked of the student.

### Proofs: `StudentPagesProofs.tla`

From `StudentPagesAssumption` (null is none of the values, "unknown" is no student,
the root is a path, the bounds are numbers), for any number of ISBNs, students,
paths, calls, failures and runs of the camera. A section that is not entered does
not move, so one invariant, `Sound`, holds the three of them together; it has a part
for each.

* `ScanOK`, for `TypeCorrect`, `ScreenTellsTheTruth` and `NothingStaysLocked`. The
  two properties are about the screen, and what the screen will say is on its way
  before it is said: `AnswersStand` says the same of every answer under way, and of
  a refusal that its reason is still there (`RefusalStands`). `LockOK` ties the lock,
  the attempt and the awaited call together. `DeskOK` says that a student has one
  book and that a book that is lost or gone is out to nobody (Loans keeps both),
  so that none of the reasons to refuse a book can hold of the student's own.
* `CameraOK`, for `CameraGoesOut` and `CameraKeepsPromise`: of all runs that have begun
  only the current one is not disposed of; another's camera is on only between the
  permission and the return of `init`; and the screen has been told something only if
  the current run is over. From this each step of a run is `Mount`, `Unmount`, `Tell`
  or a stutter of Viewport (`CameraPromises`).
* `ShellOK`, for `SignInLeadsBack` and `NothingStaysLocked`: the newest call for `/me`
  and its answer are about the student whose cookie the browser has, or the cookie is
  gone (`CallOK`); the page where a sign-in began is kept by the shell, or by the
  storage while the student is away (`JourneyOK`).

`WaitingEnds` is checked by TLC only: liveness is out of the prover's reach.

## The teacher's pages: `TeacherPages.tla`

One page at a time, entered by its address, with the table behind it. `table` is
what the section works on; a section's own constants are given where it is
instantiated. The form of a book is entered three times, because its variety is in
three places: saving without an ISBN while calls fail; one ISBN looked up and saved;
two ISBNs looked up and scanned.

| Module | Page | What it does by hand |
| --- | --- | --- |
| `AdminUsers` | students, newest first; one mutation at a time locks all rows | writes the issued code, the name, the ban into the rows it has read, and puts a new student in front |
| `AdminLoans` | open loans, the review queue, two counters | locks single rows (`busy` is a set), so that several mutations are out at once; takes rows away and counts down |
| `AdminBooks` | the catalogue in its order | shows a new order at once, sends all ids (of a filtered list too) and takes the order back when it is refused |
| `AdminLost` | lost books | takes the row away and counts down by one |
| `AdminBookRequests` | requests | locks only the row clicked last; writes an answer into the list of its own click |
| `AdminBookForm` | one book, new or known | a look-up that a later one or a scan outdates (`lookupRequest`); a save that is two calls, the book and its cover; an answer that leads elsewhere |

Each handler is one step here; `Elsewhere`, `StudentReturns` and `MarkLost` are what
others do to the table meanwhile. In the form, `CoverUnreadable` is a looked-up
cover of which `dataURLFile` can make no file: the book is saved and the form stays. The list and the counters of a page are two
reads, served one after the other with changes in between; the calls of a page that
was left are still served.

### Promises

* `RowsTrue`: once all is answered, a page shows the rows of the table (for requests:
  if no two calls overlapped; refutation 3 is the rest), except those of which it
  cannot know. The code it asks the teacher to pass on works. An order names every
  book.
* `FormTrue`: the book of the form is the one stored, if no two of its calls were
  out at once; after a scan there is nothing in the form of what was looked up
  before it; a form that is submitted again makes no second book, unless the answer
  to the first was lost.
* `CountersTrue`: the counters agree with the rows. For lost books there is an
  exception: a row whose call is out can be confirmed again, and both answers are
  counted (`AdminLost.tsx:42`). Below zero the counter never goes (`TypeOK`).
* `LocksHaveTheirCalls`: a lock is held by a call that will open it, and a loan is
  extended, closed or marked lost by one call at a time.

No liveness is stated: whether a page waits for ever is what `LocksHaveTheirCalls`
says, with the network's fairness assumed for the student's pages.

### Runs and bounds

`teacher_pages`: 2 ids in each table, a third for books that cannot be deleted; 2
calls at once, 3 on the page of lost books; 1 fault, none in the form while it looks
up ISBNs; 2 changes (3 for lost books, 1 in the catalogue and for a looked-up book),
after which the server answers 5xx. Two rows are what an answer can confuse, and
two calls are enough for each pair of answers in both orders. Symmetry is used: the
run has no temporal property. Deadlock is checked.

`request_marks`: 2 requests, no fault.

### Proofs: `TeacherListsProofs.tla`, `AdminBookFormProofs.tla`, `TeacherPagesProofs.tla`

From `TeacherPagesAssumption` (the tables are finite, and null is none of the values,
numbers, lists and records that it can stand beside; the id of a book is neither null
nor the name of a place such as `"new"`), for any number of rows, calls,
failures and changes by others. A section never becomes another, so that each page
has an invariant of its own, and `ListsOK` and `PagesOK` hold them together. None of
the properties is inductive: each is about the moment when nothing is under way, and
the invariants say what holds before, row by row, of the call or answer that the row
still waits for.

* `LoansOK` (page of loans, where several rows are locked at once): a row is in the
  list its call needs it to be in, an answer `ok` has the table's new state
  (`LoanRowOK`), a list that was read is true of every row without an answer under
  way (`LoanRowsOK`), and the counters count the rows still *shown*, with the lost
  ones already taken away (`LoanCountsOK`): they are wrong while answers are under way
  by the number of these answers, so that the proof counts sets that lose one row at a
  time.
* `LostOK`: the rows of the table are the rows shown less those an answer says are
  found; unless one row was confirmed twice (`again`), each answer has a row of its
  own and the counter counts the rows.
* `RequestsOK`: if no two calls were out at once, the list an answer is going to write
  back is the one on the page (`seen`).
* `UsersOK`: one mutation locks the page, so one answer (`Awaited`) is what table and
  page differ by; the page shows the students in the order of the table, each once;
  and the code to be passed on is the newest of its student.
* `FormOK` (the form of a book, `AdminBookFormProofs`): one submitted call at a time; a
  book just made is nobody else's until the page is told (`Secret`), so that
  the table still has it as the answer says when the page learns of it; and what the page will hold once the call
  it has out is answered is the book as it is stored (`Pending`), which is what makes
  the save of book and cover in two calls provable call by call. A look-up under way
  carries its request's number, and only the last one may write (`FormScanOK`).

`AdminBookFormProofs` proves the form alone, for any books, ISBNs and look-ups
(`FormConstants`: ids are neither null nor the names of places). `TeacherPagesProofs`
instantiates it three times, as `TeacherPages` does the form, and shows that the three
instances have such constants.

| Theorem | Says, for every size of the tables |
| --- | --- |
| `CountersStayTrue` | `CountersTrue` everywhere but on the catalogue |
| `RowsStayTrue` | `RowsTrue` everywhere but on the catalogue |
| `FormStaysTrue` | `FormTrue` |
| `PagesTyped` | `TypeOK` everywhere but on the catalogue |
| `PagesUnlock` | `LocksHaveTheirCalls` |
| `FormTyped` | the form alone: its types |
| `FormShowsItsBook` | the form alone: with no call out, its book is the one stored |
| `ScanIsNotMixed` | the form alone: nothing of an older ISBN is written after a scan |
| `OneFormOneBook` | the form alone: submitted again, it makes no second book |
| `FormUnlocks` | the form alone: a lock has its call |

The catalogue stays with TLC: what it shows is a sequence from which rows are
selected (`SelectSeq`, a recursive definition), and what a selection leaves of an
order needs induction over sequences.

The proofs have changed the model where it could not be reasoned about: `CASE` arms
that overlapped, where TLA+ leaves the choice open although TLC takes the first, are
now guards that exclude each other. And the attempt on the form has found two
definitions that said more than the code does: `ToBook` kept the answer to an older
load, which the effect's cleanup drops (`AdminBookForm.tsx:88`), and `createBook` gave
the id of a deleted book a second time, which a random UUID is not (`schema.sql:32`).

### What the run refutes

3. **A second click takes the first mark back** (`AdminBookRequests.tsx:65`): the
   page locks only the row clicked last, and `togglePurchased` writes
   `requests.map(...)` of the list as it was when its own button was clicked. Of two
   rows marked one soon after the other, the first is shown open again when the
   second answer comes, although the server has it as bought. The comment two lines
   above wants the row to stay as it was left until the next visit.

## Failures that the model has and no property forbids

Beside the refutations, where a property makes an exception for what the code does:

| Code | What happens | Property that excepts it |
| --- | --- | --- |
| `loans.go:132` | a refused borrow whose conflict is gone by the look-up is answered with a 500 | `BorrowAnswersTrue`, `NoUnexpectedBranch` are about the other branches |
| `returns.go:203` | a reason is refused as already saved, and none is stored | `CloseAnswersTrue` is about answers of success and about closed loans |
| `book_covers.go:92` | an UPDATE commits, its answer is lost, and the file the row names is removed | `NamedCoversStored` (`abandoned`) |
| `Return.tsx:1085` | a left page's answer clears another choice | `ChoiceKept` (`overtaken`) |
| `AdminUsers.tsx:43` | a student created before the list arrives is missing from it until the next visit | `RowsTrue` (`behind`) |
| `AdminLost.tsx:42` | a book confirmed twice is counted down twice | `CountersTrue` (`again`) |
| `AdminBooks.tsx:100` | a refused order brings a deleted book back | `RowsTrue` (`behind`) |
| `authResume.ts:13` | a sign-in by code takes the path of a journey that was given up | `SignInTrue` (`wanted`) |

## Not modelled

* Time: a due date is never compared with the clock on the server, sessions live
  for a year. The contents of books beyond the ISBN, failures of the database
  itself, HTTP encoding, styling and texts, generated code.
* In the browser: search fields and filters except where an order depends on them,
  the clipboard, onboarding, `/privacy`, the pages that only show
  (`Home`, `BookDetail`, `Profile`), the student's form for book requests. A 401 on
  one of the teacher's pages is leaving it. On the students' page, the statistics
  and the rows of students without a code, which offer a part of the same buttons.
* Locks: two reorders that meet may deadlock in Postgres (`books.go:81`), which ends
  one of them with an error, as `Refuse` in AdminBooks does.
* Known and not stated as a property: an extension whose answer was lost adds
  another week when it is repeated (`admin_loans.go:130`); two loans finished at once
  are both counted, and nobody is told that it was the first (`returns.go:215`); the
  answer to a save that a page had sent before it was left leads the page that is
  open by then to the list (`AdminBookForm.tsx:243`, `Return.tsx:1091`).
* The components listed with status `not_modelled` in `PROJECT.json`, each with its
  reason.
