---------------------------- MODULE AdminBookForm ----------------------------
(***************************************************************************)
(* The teacher's form of one book, new or known: it is filled in by hand,  *)
(* from a look-up or from a scan that replaces all that is there; saving   *)
(* is a call for the book and then one for its cover.  What a page that    *)
(* has been left was saving goes on, and leads the browser where it would  *)
(* have led it.                                                            *)
(***************************************************************************)
EXTENDS Browser

CONSTANTS
    Books,
    ISBNs,
    Blank,      \* an empty field
    Typed,      \* what the teacher has typed himself
    Chosen,     \* the image file the teacher has chosen
    MaxLookups  \* bound on the look-ups of one page

VARIABLES
    books,      \* table books
    page,       \* the state of component AdminBookForm
    behind,     \* history: the last answer about the book may not be the latest
    made,       \* history: books created for this page, as far as it was told
    scanned     \* history: the ISBN whose scan has cleared the form

history == <<behind, made, scanned>>
vars == <<books, page, history, calls, faults, changes>>

\* Title stands for the fields a look-up fills in; one that was found is the
\* ISBN it was found for, and so is a cover.
Form == [isbn: ISBNs \cup {Blank}, title: ISBNs \cup {Blank, Typed}]

Book == [id: Books, form: Form, cover: ISBNs \cup {None, Chosen}, is_active: BOOLEAN]

Page == [at: Books \cup {"elsewhere", "new"}, loading: BOOLEAN,
         book: Book \cup {None}, form: Form,
         file: {None, Chosen}, found: ISBNs \cup {None},
         request: 0 .. MaxLookups, lookingUp: BOOLEAN,
         saving: BOOLEAN, toggling: BOOLEAN]

blankBook == [isbn |-> Blank, title |-> Blank]

NoPage == [at |-> "elsewhere", loading |-> FALSE, book |-> None, form |-> blankBook,
           file |-> None, found |-> None, request |-> 0, lookingUp |-> FALSE,
           saving |-> FALSE, toggling |-> FALSE]

\* An answer to one of these is written into the page's book.
Telling == {"get", "save", "upload", "uncover", "toggle"}

-----------------------------------------------------------------------------
(* Calls and routes.                                                       *)

Shown == page.at # "elsewhere" /\ ~page.loading

\* Two calls at once are answered in any order.
Ask(op, id, arg) ==
    /\ Send(op, id, arg)
    /\ LET others == {c \in calls : c.to = "page" /\ c.op \in Telling}
       IN behind' = (behind \/ others # {})

\* The component is unmounted; submit and removeBook run on.
Unmounted(sent) ==
    {[c EXCEPT !.to = "left"] : c \in {d \in sent : d.op \in {"save", "upload", "delete"}
                                                    /\ d.to # "gone"}}
    \cup {[c EXCEPT !.to = "gone"] : c \in {d \in sent : d.answer = "none" /\
             (d.to = "gone" \/ d.op \notin {"save", "upload", "delete"})}}

\* navigate("/admin/books"), from a page that may be another one by now.
ToList(sent) ==
    /\ page' = NoPage /\ calls' = Unmounted(sent)
    /\ behind' = FALSE /\ made' = {} /\ scanned' = None

\* navigate of a new book whose cover has failed: the form of another book or
\* of none that is open, if any, stays and loads the book; its older load is no
\* longer current.
ToBook(sent, id, told) ==
    /\ page' = IF page.at = "elsewhere" THEN [NoPage EXCEPT !.at = id, !.loading = TRUE]
               ELSE [told EXCEPT !.at = id]
    /\ calls' = {c \in sent : c.op # "get"} \cup {Request("get", id, None)}
    /\ behind' = (behind \/ sent # {})
    /\ UNCHANGED <<made, scanned>>

-----------------------------------------------------------------------------
(* The teacher.                                                            *)

Teaching == UNCHANGED <<books, faults, changes>>

Turn(p) == page' = p /\ UNCHANGED <<calls, history>>

OpenNew ==
    /\ page.at = "elsewhere"
    /\ Turn([NoPage EXCEPT !.at = "new"])
    /\ Teaching

OpenBook(id) ==
    /\ page.at = "elsewhere" /\ books[id] # None
    /\ page' = [NoPage EXCEPT !.at = id, !.loading = TRUE]
    /\ Send("get", id, None)
    /\ behind' = (calls # {})
    /\ UNCHANGED <<made, scanned>>
    /\ Teaching

Leave ==
    /\ page.at # "elsewhere"
    /\ ToList(calls)
    /\ Teaching

changeISBN(isbn) ==
    /\ Shown /\ isbn # page.form.isbn
    /\ page' = [page EXCEPT !.form.isbn = isbn, !.found = None]
    /\ scanned' = None
    /\ UNCHANGED <<calls, behind, made>>
    /\ Teaching

TypeTitle ==
    /\ Shown
    /\ Turn([page EXCEPT !.form.title = Typed])
    /\ Teaching

ChooseFile ==
    /\ Shown
    /\ Turn([page EXCEPT !.file = Chosen, !.found = None])
    /\ Teaching

\* Mutant: a look-up keeps the number of the one before.
lookupUnnumbered(isbn, replace, p) ==
    /\ isbn # Blank /\ (~page.lookingUp \/ replace)
    /\ page' = [p EXCEPT !.request = 1, !.lookingUp = TRUE]
    /\ Ask("lookup", None, [isbn |-> isbn, replace |-> replace, request |-> 1])

lookup(isbn, replace, p) ==
    /\ isbn # Blank /\ (~page.lookingUp \/ replace)
    /\ page.request < MaxLookups
    /\ LET request == page.request + 1
       IN /\ page' = [p EXCEPT !.request = request, !.lookingUp = TRUE]
          /\ Ask("lookup", None, [isbn |-> isbn, replace |-> replace, request |-> request])

LookUp ==
    /\ Shown /\ lookup(page.form.isbn, FALSE, page)
    /\ UNCHANGED <<made, scanned>>
    /\ Teaching

\* Abstraction: the scanner's dialog is opened, fails, is tried again or
\* closed without an effect on the form.
scannedISBN(isbn) ==
    /\ Shown
    /\ LET same == page.form.isbn = isbn
           form == IF same THEN page.form ELSE [blankBook EXCEPT !.isbn = isbn]
       IN /\ lookup(isbn, TRUE, [page EXCEPT !.form = form, !.found = None])
          /\ scanned' = IF same THEN scanned ELSE isbn
    /\ UNCHANGED made
    /\ Teaching

submit ==
    /\ Shown /\ ~page.saving
    /\ page.form.title # Blank
    /\ page' = [page EXCEPT !.saving = TRUE]
    /\ LET isNew == page.at = "new"
           upload == IF page.file = None /\ ~isNew THEN page.found ELSE page.file
       IN Ask("save", IF isNew THEN None ELSE page.at,
              [form |-> page.form, upload |-> upload])
    /\ UNCHANGED <<made, scanned>>
    /\ Teaching

\* The button is there when a cover is shown.
removeCover ==
    /\ Shown
    /\ \/ /\ page.file # None \/ page.found # None
          /\ Turn([page EXCEPT !.file = None, !.found = None])
       \/ /\ page.file = None /\ page.found = None
          /\ page.book # None /\ page.book.cover # None
          /\ page.form.isbn = page.book.form.isbn
          /\ UNCHANGED page
          /\ Ask("uncover", page.book.id, None)
          /\ UNCHANGED <<made, scanned>>
    /\ Teaching

toggleActive ==
    /\ Shown /\ page.book # None /\ ~page.toggling
    /\ page' = [page EXCEPT !.toggling = TRUE]
    /\ Ask("toggle", page.book.id, [is_active |-> ~page.book.is_active])
    /\ UNCHANGED <<made, scanned>>
    /\ Teaching

\* Abstraction: the question before it has no other effect.
removeBook ==
    /\ Shown /\ page.at # "new" /\ ~page.saving /\ page.book # None
    /\ page' = [page EXCEPT !.saving = TRUE]
    /\ Ask("delete", page.book.id, None)
    /\ UNCHANGED <<made, scanned>>
    /\ Teaching

-----------------------------------------------------------------------------
(* The server.                                                             *)

Untouched(c, answer, data) == NoChange(c, answer, data) /\ UNCHANGED <<books, made>>

Store(c, id, book) ==
    /\ books' = [books EXCEPT ![id] = book]
    /\ Change(c, book)

Taken(isbn, id) ==
    isbn # Blank /\ \E b \in Books \ {id} : books[b] # None /\ books[b].form.isbn = isbn

getAdminBook(c) == c.op = "get" /\ books[c.id] # None /\ Untouched(c, "ok", books[c.id])

lookupBookMetadata(c) ==
    /\ c.op = "lookup"
    /\ \/ Untouched(c, "refused", None)
       \/ \E cover \in {None, c.arg.isbn} :
            Untouched(c, "ok", [isbn |-> c.arg.isbn, cover |-> cover])

\* An id is not given twice: none that a call or the page still names.
Fresh(id) ==
    /\ books[id] = None
    /\ page.at # id /\ (page.book # None => page.book.id # id)
    /\ \A c \in calls : c.id # id /\ (c.op = "save" /\ c.answer = "ok" => c.data.id # id)

\* The cover of a new book may be found by the server, too.
createBook(c) ==
    /\ c.op = "save" /\ c.id = None
    /\ IF Taken(c.arg.form.isbn, None) THEN Untouched(c, "refused", None)
       ELSE \E id \in {b \in Books : Fresh(b)},
               cover \in {None} \cup ({c.arg.form.isbn} \ {Blank}) :
              /\ Store(c, id, [id |-> id, form |-> c.arg.form, cover |-> cover,
                               is_active |-> TRUE])
              /\ made' = IF c.to = "page" THEN made \cup {id} ELSE made

updateBook(c) ==
    /\ c.op = "save" /\ c.id # None /\ books[c.id] # None
    /\ IF Taken(c.arg.form.isbn, c.id) THEN Untouched(c, "refused", None)
       ELSE Store(c, c.id, [books[c.id] EXCEPT !.form = c.arg.form]) /\ UNCHANGED made

ChangeBook(c) ==
    /\ c.op \in {"upload", "uncover", "toggle"} /\ books[c.id] # None
    /\ Store(c, c.id, CASE c.op = "upload"  -> [books[c.id] EXCEPT !.cover = c.arg.cover]
                        [] c.op = "uncover" -> [books[c.id] EXCEPT !.cover = None]
                        [] c.op = "toggle"  -> [books[c.id] EXCEPT !.is_active = c.arg.is_active])
    /\ UNCHANGED made

\* Not when the book has loans.
deleteBook(c) ==
    /\ c.op = "delete" /\ books[c.id] # None
    /\ \/ Untouched(c, "refused", None)
       \/ Store(c, c.id, None) /\ UNCHANGED made

NotFound(c) == c.id # None /\ books[c.id] = None /\ Untouched(c, "refused", None)

Serve(c) ==
    /\ c.answer = "none"
    /\ \/ getAdminBook(c) \/ lookupBookMetadata(c) \/ createBook(c) \/ updateBook(c)
       \/ ChangeBook(c) \/ deleteBook(c) \/ NotFound(c)
       \/ c.op \notin {"get", "lookup"} /\ Overloaded(c) /\ UNCHANGED <<books, made>>
    /\ UNCHANGED <<page, faults, behind, scanned>>

Lose(c) ==
    /\ Fail(c)
    /\ behind' = (behind \/ c.op \notin {"get", "lookup"})
    /\ made' = IF c.op = "save" /\ c.answer = "ok" THEN made \ {c.data.id} ELSE made
    /\ UNCHANGED <<books, page, scanned>>

-----------------------------------------------------------------------------
(* The answers arrive.                                                     *)

Refused(c) == c.answer \in {"refused", "failed"}

\* Nobody sees what is set on a page that has been left.
Tell(c, p) == page' = IF c.to = "page" THEN p ELSE page

GetArrives(c) ==
    /\ c.op = "get"
    /\ page' = IF Refused(c) THEN [page EXCEPT !.loading = FALSE]
               ELSE [page EXCEPT !.loading = FALSE, !.book = c.data, !.form = c.data.form]
    /\ scanned' = IF Refused(c) THEN scanned ELSE None
    /\ Heard(c) /\ UNCHANGED <<behind, made>>

LookupArrives(c) ==
    /\ c.op = "lookup"
    /\ LET title == IF c.arg.replace \/ page.form.title = Blank THEN c.data.isbn
                    ELSE page.form.title
       IN page' = CASE c.arg.request # page.request -> page
                    [] c.arg.request = page.request /\ Refused(c) ->
                         [page EXCEPT !.lookingUp = FALSE]
                    [] OTHER ->
                         [page EXCEPT !.form = [isbn |-> c.data.isbn, title |-> title],
                                      !.found = c.data.cover, !.lookingUp = FALSE]
    /\ Heard(c) /\ UNCHANGED history

SaveArrives(c) ==
    /\ c.op = "save"
    /\ \/ /\ Refused(c)
          /\ Tell(c, [page EXCEPT !.saving = FALSE])
          /\ Heard(c) /\ UNCHANGED history
       \/ /\ ~Refused(c) /\ c.arg.upload = None
          /\ ToList(calls \ {c})
       \/ /\ ~Refused(c) /\ c.arg.upload # None
          /\ Tell(c, [page EXCEPT !.book = c.data])
          /\ calls' = (calls \ {c}) \cup
               {[Request("upload", c.data.id, [cover |-> c.arg.upload, isNew |-> c.id = None])
                   EXCEPT !.to = c.to]}
          /\ behind' = (behind \/ calls # {c})
          /\ UNCHANGED <<made, scanned>>

\* The cover that was looked up cannot be made into a file: the book is saved,
\* and the form stays.
CoverUnreadable(c) ==
    /\ c.op = "save" /\ ~Refused(c) /\ c.id # None /\ c.arg.upload \in ISBNs
    /\ Tell(c, [page EXCEPT !.book = c.data, !.saving = FALSE])
    /\ Heard(c) /\ UNCHANGED history

\* Mutant: the form of a new book stays one when its cover has failed.
UploadArrivesStaying(c) ==
    /\ c.op = "upload"
    /\ IF ~Refused(c) THEN ToList(calls \ {c})
       ELSE /\ Tell(c, [page EXCEPT !.saving = FALSE])
            /\ Heard(c) /\ UNCHANGED history

UploadArrives(c) ==
    /\ c.op = "upload"
    /\ LET told == IF c.to = "page" THEN [page EXCEPT !.saving = FALSE]
                   ELSE page
       IN CASE ~Refused(c) -> ToList(calls \ {c})
            [] Refused(c) /\ c.arg.isNew /\ page.at # c.id -> ToBook(calls \ {c}, c.id, told)
            [] OTHER -> page' = told /\ Heard(c) /\ UNCHANGED history

CoverRemoved(c) ==
    /\ c.op = "uncover"
    /\ page' = IF Refused(c) THEN page ELSE [page EXCEPT !.book = c.data]
    /\ Heard(c) /\ UNCHANGED history

\* Mutant: the switch shows what was asked for, whatever the answer.
ToggledHopefully(c) ==
    /\ c.op = "toggle"
    /\ page' = [page EXCEPT !.toggling = FALSE, !.book.is_active = c.arg.is_active]
    /\ Heard(c) /\ UNCHANGED history

Toggled(c) ==
    /\ c.op = "toggle"
    /\ page' = IF Refused(c) THEN [page EXCEPT !.toggling = FALSE]
               ELSE [page EXCEPT !.toggling = FALSE, !.book.is_active = c.data.is_active]
    /\ Heard(c) /\ UNCHANGED history

\* Mutant: the form stays locked when the book could not be deleted.
DeletedLocked(c) ==
    /\ c.op = "delete"
    /\ IF ~Refused(c) THEN ToList(calls \ {c})
       ELSE UNCHANGED page /\ Heard(c) /\ UNCHANGED history

Deleted(c) ==
    /\ c.op = "delete"
    /\ IF ~Refused(c) THEN ToList(calls \ {c})
       ELSE /\ Tell(c, [page EXCEPT !.saving = FALSE])
            /\ Heard(c) /\ UNCHANGED history

Arrive(c) ==
    /\ c.answer # "none"
    /\ \/ GetArrives(c) \/ LookupArrives(c) \/ SaveArrives(c) \/ UploadArrives(c)
       \/ CoverUnreadable(c) \/ CoverRemoved(c) \/ Toggled(c) \/ Deleted(c)
    /\ Teaching

-----------------------------------------------------------------------------
Init ==
    /\ \E isbn \in ISBNs \cup {Blank}, known \in {{}} \cup {{id} : id \in Books} :
         books = [b \in Books |->
                    IF b \notin known THEN None
                    ELSE [id |-> b, form |-> [isbn |-> isbn, title |-> Typed],
                          cover |-> Chosen, is_active |-> TRUE]]
    /\ page = NoPage
    /\ behind = FALSE /\ made = {} /\ scanned = None
    /\ calls = {} /\ faults = 0 /\ changes = 0

Next ==
    \/ OpenNew \/ Leave \/ TypeTitle \/ ChooseFile \/ LookUp
    \/ submit \/ removeCover \/ toggleActive \/ removeBook
    \/ \E id \in Books : OpenBook(id)
    \/ \E isbn \in ISBNs : changeISBN(isbn) \/ scannedISBN(isbn)
    \/ \E c \in calls : Serve(c) \/ Arrive(c) \/ Lose(c)

Spec == Init /\ [][Next]_vars

-----------------------------------------------------------------------------
(* Properties.                                                             *)

TypeOK ==
    /\ books \in [Books -> Book \cup {None}] /\ page \in Page
    /\ behind \in BOOLEAN /\ made \subseteq Books
    /\ scanned \in ISBNs \cup {None}
    /\ faults \in 0 .. MaxFaults /\ changes \in 0 .. MaxChanges

\* Whatever was being looked up before, a scan of another book leaves in the
\* form nothing but that book's data and what is typed afterwards.
ScannedStays ==
    scanned # None =>
      /\ page.form.isbn = scanned
      /\ page.form.title \in {Blank, Typed, scanned}
      /\ page.found \in {None, scanned}

\* However often it is submitted, a form makes one book, but for answers
\* that were lost.
OneBookPerForm == Cardinality(made) <= 1

\* What the page knows of its book is what the table has, if no two calls
\* were under way at once.
BookTrue ==
    page.book # None /\ calls = {} /\ ~behind =>
      page.book = books[page.book.id]

\* Each lock is held by a call that will open it.
LocksHaveTheirCalls ==
    LET waits(ops) == \E c \in calls : c.to = "page" /\ c.op \in ops
    IN /\ page.saving => waits({"save", "upload", "delete"})
       /\ page.toggling => waits({"toggle"})
       /\ page.loading => waits({"get"})
       /\ page.lookingUp => \E c \in calls : c.op = "lookup" /\ c.to = "page"
                                             /\ c.arg.request = page.request
=============================================================================
