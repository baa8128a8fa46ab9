------------------------------- MODULE Covers -------------------------------
(***************************************************************************)
(* Covers of books live in two places: column cover_url of table books and *)
(* a file in BookCoversDir.  The handlers change one after the other, with *)
(* no transaction around both, while other requests do the same for the    *)
(* same book, while statements fail, and while the server is restarted.    *)
(* One action is one statement or one change of the directory.             *)
(***************************************************************************)
EXTENDS Naturals

CONSTANTS
    Books,      \* ids gen_random_uuid() can give a book
    Covers,     \* file names uuid.NewString() can draw, never one twice
    Requests,   \* slots for requests in flight
    MaxErrors,  \* bound on failing statements, file operations and restarts
    None        \* SQL NULL

ASSUME CoversAssumption ==
    /\ None \notin Books \cup Covers
    /\ MaxErrors \in Nat

Book == [row: {"unused", "present", "deleted"}, cover: Covers \cup {None}]

Steps == {"idle", "write", "publish", "attach", "detach", "remove_old", "remove_new"}

\* old is current.CoverUrl, new the file that storeCover makes.
Request == [step: Steps, book: Books \cup {None}, old: Covers \cup {None},
            new: Covers \cup {None}]

VARIABLES
    books,      \* table books
    temporary,  \* files .cover-* in the directory
    files,      \* covers in the directory
    req,        \* the requests in flight
    drawn,      \* history: names that were drawn
    abandoned,  \* history: covers given up after UpdateBookCover failed
    replaced,   \* history: covers that an upload or removal took off a row
                \* without having read them there
    errors      \* how much has failed so far

vars == <<books, temporary, files, req, drawn, abandoned, replaced, errors>>
history == <<drawn, abandoned, replaced>>

-----------------------------------------------------------------------------
Idle == [step |-> "idle", book |-> None, old |-> None, new |-> None]

At(r, step) == req[r].step = step

Present(b) == books[b].row = "present"

\* The request has read cover old of book b; it goes on; it is answered.
Enter(r, step, b, old) ==
    req' = [req EXCEPT ![r] = [step |-> step, book |-> b, old |-> old, new |-> None]]

Go(r, step) == req' = [req EXCEPT ![r].step = step]

Done(r) == req' = [req EXCEPT ![r] = Idle]

\* Something fails that the code has an error branch for.
Fail == errors < MaxErrors /\ errors' = errors + 1

Unharmed == UNCHANGED errors

-----------------------------------------------------------------------------
(* uploadBookCover, deleteBookCover, createBook and deleteBook up to their *)
(* first change.                                                           *)

\* GetBook, then the checks on the uploaded file, all passed.
UploadBookCover(r, b) ==
    /\ At(r, "idle") /\ Present(b)
    /\ Enter(r, "write", b, books[b].cover)
    /\ UNCHANGED <<books, temporary, files, history, errors>>

DeleteBookCover(r, b) ==
    /\ At(r, "idle") /\ Present(b)
    /\ Enter(r, "detach", b, books[b].cover)
    /\ UNCHANGED <<books, temporary, files, history, errors>>

\* The row is there at once; a cover follows if a provider has one.
CreateBook(r, b) ==
    /\ At(r, "idle") /\ books[b].row = "unused"
    /\ books' = [books EXCEPT ![b].row = "present"]
    /\ Enter(r, "write", b, None) \/ UNCHANGED req
    /\ UNCHANGED <<temporary, files, history, errors>>

\* Mutant: the row is only marked as deleted and keeps its cover.
DeleteBookKeepsCover(r, b) ==
    /\ At(r, "idle") /\ Present(b)
    /\ books' = [books EXCEPT ![b].row = "deleted"]
    /\ Enter(r, "remove_old", b, books[b].cover)
    /\ UNCHANGED <<temporary, files, history, errors>>

\* RETURNING cover_url is the cover at the time of the DELETE.  An error may
\* hide that it has happened.
DeleteBook(r, b) ==
    /\ At(r, "idle") /\ Present(b)
    /\ books' = [books EXCEPT ![b] = [row |-> "deleted", cover |-> None]]
    /\ \/ /\ Enter(r, "remove_old", b, books[b].cover)
          /\ Unharmed
       \/ UNCHANGED req /\ Fail
    /\ UNCHANGED <<temporary, files, history>>

-----------------------------------------------------------------------------
(* storeCover.                                                             *)

\* CreateTemp, Write, Sync; on an error the file is removed again.
WriteTemporary(r) ==
    /\ At(r, "write")
    /\ \/ \E c \in Covers \ drawn :
            /\ temporary' = temporary \cup {c}
            /\ drawn' = drawn \cup {c}
            /\ req' = [req EXCEPT ![r].step = "publish", ![r].new = c]
            /\ Unharmed
       \/ Done(r) /\ Fail /\ UNCHANGED <<temporary, drawn>>
    /\ UNCHANGED <<books, files, abandoned, replaced>>

\* Rename.
Publish(r) ==
    LET q == req[r]
    IN /\ At(r, "publish")
       /\ temporary' = temporary \ {q.new}
       /\ \/ files' = files \cup {q.new} /\ Go(r, "attach") /\ Unharmed
          \/ Done(r) /\ Fail /\ UNCHANGED files
       /\ UNCHANGED <<books, history>>

-----------------------------------------------------------------------------
(* UpdateBookCover and what follows it.                                    *)

\* The statement takes the cover off the row that the row has by now.
SetCover(q, c) ==
    /\ books' = [books EXCEPT ![q.book].cover = c]
    /\ replaced' = replaced \cup ({books[q.book].cover} \ {q.old, None})

\* Mutant: the cleanup of the new file is not disarmed on success.
AttachRemovesNew(r) ==
    LET q == req[r]
    IN /\ At(r, "attach")
       /\ \/ /\ Present(q.book) /\ SetCover(q, q.new)
             /\ Go(r, "remove_new")
             /\ Unharmed /\ UNCHANGED abandoned
          \/ /\ ~Present(q.book) /\ Unharmed /\ UNCHANGED <<books, replaced>>
             /\ Go(r, "remove_new") /\ abandoned' = abandoned \cup {q.new}
       /\ UNCHANGED <<temporary, files, drawn>>

\* On an error, from a deleted book or from a connection that broke before or
\* after the commit, the new file is removed.
Attach(r) ==
    LET q == req[r]
    IN /\ At(r, "attach")
       /\ \/ /\ Present(q.book) /\ SetCover(q, q.new)
             /\ Go(r, "remove_old")
             /\ Unharmed /\ UNCHANGED abandoned
          \/ /\ ~Present(q.book) /\ Unharmed /\ UNCHANGED <<books, replaced>>
             /\ Go(r, "remove_new") /\ abandoned' = abandoned \cup {q.new}
          \/ /\ Present(q.book) /\ Fail
             /\ SetCover(q, q.new) \/ UNCHANGED <<books, replaced>>
             /\ Go(r, "remove_new") /\ abandoned' = abandoned \cup {q.new}
       /\ UNCHANGED <<temporary, files, drawn>>

\* Mutant: the cover is taken off the row and its file stays.
DetachKeepsFile(r) ==
    LET q == req[r]
    IN /\ At(r, "detach")
       /\ IF Present(q.book) THEN SetCover(q, None) ELSE UNCHANGED <<books, replaced>>
       /\ Done(r) /\ Unharmed
       /\ UNCHANGED <<temporary, files, drawn, abandoned>>

Detach(r) ==
    LET q == req[r]
    IN /\ At(r, "detach")
       /\ \/ /\ Present(q.book) /\ SetCover(q, None)
             /\ Go(r, "remove_old") /\ Unharmed
          \/ /\ ~Present(q.book) /\ UNCHANGED <<books, replaced>>
             /\ Done(r) /\ Unharmed
          \/ /\ Present(q.book) /\ Fail /\ Done(r)
             /\ SetCover(q, None) \/ UNCHANGED <<books, replaced>>
       /\ UNCHANGED <<temporary, files, drawn, abandoned>>

\* removeStoredCover: a file that is gone already is no error, any other error
\* is logged.
RemoveStoredCover(c) ==
    \/ files' = files \ {c} /\ Unharmed
    \/ c \in files /\ UNCHANGED files /\ Fail

RemoveOld(r) ==
    /\ At(r, "remove_old")
    /\ RemoveStoredCover(req[r].old) /\ Done(r)
    /\ UNCHANGED <<books, temporary, history>>

RemoveNew(r) ==
    /\ At(r, "remove_new")
    /\ RemoveStoredCover(req[r].new) /\ Done(r)
    /\ UNCHANGED <<books, temporary, history>>

\* The process is killed; the directory is as it is.
Restart ==
    /\ Fail
    /\ req' = [r \in Requests |-> Idle]
    /\ UNCHANGED <<books, temporary, files, history>>

-----------------------------------------------------------------------------
Init ==
    /\ books = [b \in Books |-> [row |-> "unused", cover |-> None]]
    /\ temporary = {}
    /\ files = {}
    /\ req = [r \in Requests |-> Idle]
    /\ drawn = {}
    /\ abandoned = {}
    /\ replaced = {}
    /\ errors = 0

Next ==
    \/ \E r \in Requests :
         \/ \E b \in Books :
              \/ UploadBookCover(r, b) \/ DeleteBookCover(r, b)
              \/ CreateBook(r, b) \/ DeleteBook(r, b)
         \/ WriteTemporary(r) \/ Publish(r)
         \/ Attach(r) \/ Detach(r)
         \/ RemoveOld(r) \/ RemoveNew(r)
    \/ Restart

Spec == Init /\ [][Next]_vars

-----------------------------------------------------------------------------
(* Properties.                                                             *)

\* A book that is gone has no cover, and a picture is the cover of one book.
TypeOK ==
    /\ books \in [Books -> Book]
    /\ \A b \in Books : ~Present(b) => books[b].cover = None
    /\ \A a, b \in Books : books[a].cover = books[b].cover /\ a # b =>
                             books[a].cover = None
    /\ temporary \subseteq drawn /\ files \subseteq drawn
    /\ drawn \subseteq Covers /\ abandoned \subseteq drawn /\ replaced \subseteq drawn
    /\ req \in [Requests -> Request]
    /\ errors \in 0 .. MaxErrors

\* A cover that a row names can be served, in every state that a reader or a
\* restart can find, unless it is the cover of an upload that ended in an error:
\* "a cover upload survives a service restart".
NamedCoversStored ==
    \A b \in Books :
      books[b].cover # None /\ books[b].cover \notin abandoned =>
        books[b].cover \in files

\* What a request still has to do with file c.
InHand(c) ==
    \E r \in Requests :
      \/ req[r].step \in {"attach", "remove_new"} /\ req[r].new = c
      \/ req[r].step = "remove_old" /\ req[r].old = c

\* While nothing fails, the directory holds the covers of the catalogue and
\* the files requests are working on, and apart from these only covers that one
\* request put on a row while another had read the row before and changed it
\* after.
LeftoversAreLostUpdates ==
    errors = 0 =>
      /\ \A c \in temporary : \E r \in Requests : At(r, "publish") /\ req[r].new = c
      /\ \A c \in files : \/ \E b \in Books : books[b].cover = c
                          \/ InHand(c)
                          \/ c \in replaced
=============================================================================
